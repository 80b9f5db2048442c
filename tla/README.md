# RivetQ: specifications, model checks and proofs

RivetQ is a durable task queue in Go. This directory holds TLA+ specifications of its
core and of its cluster layer, TLC configurations that check them on small instances, and proofs that
TLAPS checks for every value of the constants. `PROJECT.json` is the index: which
definition models which lines, what each run checks, the findings, the hazards and the
theorems.

## The system and its parts

| part | source | modules | state of the work |
|---|---|---|---|
| queue manager | `internal/queue/queue.go` | `Manager` | modelled, checked, proved |
| job, retry policy | `internal/queue/job.go` | `Job` | modelled |
| priority queue | `internal/queue/heap.go` | `PriorityHeap`, `ReadyQueue` | modelled, checked, refinement proved |
| backoff | `internal/backoff` | `Backoff` | modelled |
| rate limiter | `internal/ratelimit` | `RateLimiter` | modelled, checked, proved |
| write-ahead log | `internal/wal/{wal,segment}.go` | `WAL`, `Log`, `WALRefinement` | modelled, checked, refinement proved |
| compaction | `WAL.Compact` | `Compaction` | modelled, checked, proved |
| record codec | `internal/wal/record.go` | `RecordCodec` | modelled, checked, proved |
| key-value store | `internal/store` | in `Manager` | the idempotency map only |
| hash ring | `internal/cluster/sharding.go` | `ConsistentHash` | modelled, checked, proved |
| membership, discovery, cluster API, routing | `internal/cluster/{membership,discovery,proxy}.go`, `internal/rest/cluster.go` | `Cluster` | modelled but for what changes no state; checked, proved |
| replicated state machine, Raft node | `internal/cluster/{fsm,node}.go` | `Replication` | modelled over an external Raft; checked, proved |
| REST and gRPC | `internal/rest/rest.go`, `internal/api` | - | not modelled |
| configuration, metrics, clients, examples, UI | `internal/config`, `internal/metrics`, `clients`, `examples`, `ui` | - | no state worth a model |

A request goroutine (REST or gRPC handler) calls the manager. `Enqueue` looks up an
idempotency key in the store, asks the rate limiter, appends an Enqueue record to the log,
stores the key and pushes the job on the queue's heap. `Lease` pops ready jobs into the
inflight map and logs nothing. `Ack` and `Nack` find the job in inflight, compare the
lease ID, log, and move the job. A worker takes back expired leases once a second. `Start`
replays the log. In a cluster every server has such a manager, to which it applies the
commands of a Raft log; it keeps a table of the members and a hash ring, changed by join
and leave requests, and forwards a request to the node the ring names.

How the modules compose:

    Manager ----- extends Job, Backoff
       |  its heap is the set with a first element of    ReadyQueue <== PriorityHeap
       |  its wal  is the append-only log of             Log        <== WAL <- Compaction
       |  a log record's fields survive as shown by      RecordCodec
       '  several of them behind a Raft log              Replication
    Cluster ----- its ring is a set of nodes, by         ConsistentHash!OwnerIsNearest

`<==` is a refinement, checked by TLC and proved (`KeepsPromise`, `ImplementsLog`). `RateLimiter`
stands beside `Manager`: a refused Enqueue changes nothing in the manager.

## Modules

### Job, Backoff
The fields of `Job` that decisions depend on, `IsReady`, `ShouldRetry`, the heap order
`Less`. `Calculate(attempt)` is the set of delays the jitter allows: the cap is applied
before the jitter, as in the code.

### Manager
State: `ready`, `inflight`, `dlq` (IDs; the `Job` objects are in `job`, shared, as the
pointers are in the code), `call` (what each request goroutine is doing), `worker`, and
the durable `wal` and `idem`. A step is what happens between two points where another
goroutine or a crash can be observed:

- `EnqueueDuplicate`, `EnqueueCheck`, `EnqueueWrite`, `EnqueueStoreKey`, `EnqueuePush`;
- `Lease`, one critical section;
- `AckCheck`, `AckWrite`, `AckRemove`;
- `NackCheck`, `NackLoad`, `NackUpdate` and `NackDecide` (reads and writes of the job
  without a lock), `NackWrite`, `NackMove`;
- `WorkerTick`, `WorkerScan`, `WorkerExpire`: the queue is locked from the scan to the last
  expired job, across the log writes between;
- `Crash`, then `ReplayEnqueue`, `ReplayAck`, `ReplayNack`, `ReplayDone`; `Stop`.

Choices to know when reading it:

- `Tries++` of Nack is a load (`NackLoad`) and a store (`NackUpdate`): what others store in
  between is lost. The stores of tries, ETA, lease ID and deadline are one step, and so is
  the worker's update of a job.
- Finding the job and comparing the lease ID is one step. A call goes on when its lease ID
  is the one the job has: the ID a client was handed, or the empty one, which the API lets
  through, for a job in inflight whose lease a Nack has cleared. Any other ID changes
  nothing.
- `m.mu` is left out: it guards the map of queues, and `queue.mu` is taken inside it, never
  the other way round.
- `Lease` reads the time before it takes the lock. Waiting there only shortens the lease,
  as a smaller visibility timeout does.
- A log write that fails leaves the record in the log or not.
- The heap is a set. `disordered` says that Nack overwrote a key of a job inside the heap,
  after which any job may be at its top.
- Errors of the idempotency lookup and refusals of the rate limiter end the call with
  nothing changed and are not steps.
- `accepted` and `raced` are history: IDs clients were given, and jobs that two handlers
  (or a handler and the worker) worked on at once.

### ReadyQueue and PriorityHeap
`PriorityHeap` is heap.go with container/heap (external) on arrays: `Swap` with its index
updates, `Up`, `Down`, push, pop, remove, and writes to jobs inside the heap. `ReadyQueue`
is what the manager's model takes a heap to be.

### Log, WAL, Compaction
`Log` is the promise: appended records, of which an acknowledged one is never lost, and a
replay in order. `WAL` has segment files as sequences of frames that are whole, torn or
bad; `synced` is the prefix that outlives the machine. Actions: `Write` and its failures
(`WriteFlushFails` leaves the `bufio.Writer` with its error, `stuck`; `WriteSyncFails`;
`WriteRefused`), `Close`, `CrashWriting`, `Outage` (power loss after the process is gone),
`Rot`, and `Open`/`OpenFails` (New and Replay). Sizes are counted in frames. Directory
entries are taken to be durable. `Manager`'s log differs from `WAL` in one point: an outage
may drop a record that was never acknowledged and yet was replayed before.
`WALRefinement` maps the files to a `Log`: the records in whole frames, in the order they
were written in, which is not how Replay finds them (file by file, up to the first frame
it cannot read).

`Compaction` adds `Compact`: copy, removal of the old files one at a time, the list update,
the error returns and a crash between any two of these. Nothing in the repository calls
`Compact`; the caller here may pass any set of active jobs that does not revive a dropped
one.

### RecordCodec
`Marshal` as a sequence of cells and `Unmarshal` as one step per field or header part; `LenMod` stands for
2^16, the number of values of a length field. The headers are written in any order, as Go
iterates over a map. Any prefix of the data may be read.

### RateLimiter
Token buckets in integer units (the code has floats) and a clock in ticks. `AllowCheck` is
the unlocked test of `enabled`, `AllowTake` the charge under the lock. `window` observes
an arbitrary interval of time.

### ConsistentHash
The ring as a number of entries per hash, the map `members` from a hash to a node, and the
set `nodes`; `AddNode`, `RemoveNode`, `GetNode` and `GetNodes`. The hashes of the virtual
nodes are chosen freely in the initial state, collisions included: two virtual nodes with
one hash share an entry of `members`, which removing either node deletes, while the ring
keeps an entry for the other. Then `GetNode` may return the empty name (`Unavailable`) for
a queue. An orphaned entry is never removed, so the ring grows with every add and remove;
`MaxCopies` bounds it.

### Cluster
What one server knows of its cluster. A step is what a handler does under one lock or one
call to another node: join and leave are a Raft change (`JoinRaft`, `LeaveRaft`, or an
error, `JoinRaftFails`, `LeaveRaftFails`, after which the change may be committed all the
same), the member table, the ring. `ConfigurationChange` is a node added or removed by
another leader, which changes neither table here. `Announce` and `AnnounceUpdate` are the two lock
acquisitions of announceNode; `Discover` is one member from a seed's list. The health check
goes from `CheckList` through `CheckProbe` to `CheckHealthy`, or to `CheckRead` and
`CheckUpdate`; `Panic` is the nil dereference when the member is gone at the read.
`ForwardRequest` is where a request for one queue would be sent now.

`RingIsConfiguration` says that the ring has the Raft changes this server made itself.
The code keeps it from saying more, and the property names what it leaves out: nodes whose
last change was another leader's or was reported as an error (`unseen`), nodes of which a
join and a leave overlapped (`overlapped`), and a server that restarted (`forgot`).

- Members and ring are in memory. No main program of the repository starts a cluster; the
  model starts a server with itself in both tables (external).
- `Discovery.requestJoin` and `Announce` post an empty body, which the handlers answer with
  400, so they change nothing here; join and announce requests come from other callers.
- An unlocked read of a member's status is one read of its current value.
- The package as it stands does not compile (unused variables in `discovery.go`, an
  unexported field used from `rest/cluster.go`); the model is of the code as written.

### Replication
Servers that apply one log of committed commands. `applyEnqueue` lets each manager make its
own job: nothing for a key it has, an error if its limiter refuses or its store or log
fails, else a job with an ID of its own. A log write that fails may leave its record
(`LoggedOnly`): the job is then in no heap, its key is not stored, and the next restart
brings it up. `applyAck` and `applyNack` act only on the server that made the job
and leased it. A restart brings back every job of the server's log as ready, forgets the
rate limit, and applies the Raft log again from the server's last snapshot. `Decoded` is
the JSON decoder on a struct without exported fields. `Restore` therefore restores nothing.
Lease timeouts of the manager are left out (a Nack of any caller stands for them);
`Manager` has them. `LimitFollowsLog` is about limits a server set by applying a command
itself; a limit that is only in a snapshot is lost (`RestoreLimits.cfg`).

## Runs

Properties that hold:

| run | instance | checks |
|---|---|---|
| `manager_race` | 1 job, 2 callers, worker, 3 leases, fair | every interleaving of handlers and worker on one job: `TypeOK`, `ReadyNotInflight`, `NoJobLost`, `OnlyExpiredTaken`; liveness `LeaseEnds`, `RequestsReturn` |
| `manager_restart` | 2 jobs, a key, 2 callers, worker, 1 lease, 1 crash, 1 fault | `WriteAhead`, `NoJobLost`, `UnracedConsistent` with a crash and a failing write at every point |
| `priority_heap` | 6 jobs, 3 kinds of fields | `TypeOK`, `IndexAgrees`, refinement `KeepsPromise` |
| `rate_limiter` | 1 queue, 2 callers, 4 rates | `TypeOK`, `WindowBounded`, `TokensCovered` |
| `wal` | fsync, segments of 2, 5 writes, 2 faults, 2 crashes, 1 damaged frame | `TypeOK`, `AckedReadable`, `DeliveredInOrder`, refinement `ImplementsLog` |
| `compaction` | 2 jobs, 3 writes, 2 compactions, 1 crash, 1 fault | `CompactionKeeps`, `OneWriterPerFile` |
| `record_codec` | 1008 records, all truncations | `RoundTrip` |
| `consistent_hash` | 3 nodes, 2 virtual nodes each, 6 hashes | `TypeOK`, `OwnerIsNearest`, `LiveOwner`, `MinimalDisruption`, `ReplicasFound`, `ReplicaTakesOver` |
| `cluster` | 2 nodes, 2 handlers, 2 requests, 1 crash, a node down and up again, fair | `TypeOK`, `RingKnown`, `RingIsConfiguration`, `DeadFailedTwice`, `PanicNeedsLeave`; liveness `DownNoticed`, `ForwardsAgain` |
| `replication` | 2 servers, 3 commands, 1 key, 2 limits, 1 restart, 1 fault | `TypeOK`, `NoneMissed`, `KeyedOnce`, `OncePerStart`, `LimitFollowsLog` |

Statements of the repository that the code does not meet; each run ends with a
counterexample, and `PROJECT.json` quotes the statement:

| run | what happens |
|---|---|
| `ack_restart` | an acknowledged job is ready again after a restart |
| `duplicate_enqueue` | two calls with one idempotency key create two jobs |

More of these were met while modelling. They are not runs of the index; the
configurations are kept, and TLC ends each with a counterexample:

| configuration | property | what happens |
|---|---|---|
| `AckRace.cfg` | `AckIsFinal` | Ack returns success while the timeout worker requeues the job |
| `NackRace.cfg` | `JobStatesTracked` | Nack's unlocked writes leave a job whose fields contradict its place |
| `HeadOfLine.cfg` | `NextReadyJobFound` | a delayed job of high priority hides a ready one from PopReady |
| `ReplayTries.cfg` | `ReplayKeepsTries` | tries are lost at a restart |
| `NackFault.cfg` | `LeaseEnds` | a Nack whose log write fails leaves a job in inflight for ever |
| `RetryCount.cfg` | `RetriesGranted` | a job with max_retries n is in the DLQ after n failures |
| `TornTail.cfg` | `RestartSucceeds` | a crash inside a write makes the next start fail |
| `CorruptRecord.cfg` | `OnlyCorruptedSkipped` | a damaged frame hides the whole frames behind it |
| `CompactError.cfg` | `FailedCompactionKeeps` | a failed Compact makes later acknowledged records unreadable |
| `CompactOrder.cfg` | `DeliveredInOrder` | after Compact and a restart, old records are replayed after new ones |
| `RecordWide.cfg` | `MarshalledReadable` | a length its field cannot hold is written without error and cannot be read |
| `Rebalance.cfg` | `QueuesRebalance` | the queues of a node that fails stay with it and are refused; `CLUSTER.md` says they rebalance to the remaining nodes |
| `AddNode.cfg` | `AddedNodesOwn` | a node that another server's join handler added never gets on this server's ring; `CLUSTER.md` says of adding nodes that queues rebalance automatically |
| `RestoreLimits.cfg` | `LimitsRestored` | a server started from a snapshot, or sent one, does not get the rate limit that was set before it, though `fsm.go` says "Restore rate limits": the fields of the snapshot are not exported and are not encoded |
| `StateSync.cfg` | `StateSynced` | a server that is sent a snapshot has none of the jobs before it; `CLUSTER.md` says a node that joins syncs its state from the leader |

**Bounds.** One job, two callers and the worker give two handlers racing each other and the
worker on a job; three leases let a handler be two leases behind. `manager_restart` has two
jobs, one of which may share a key with the other; one crash and one fault reach every step
before and after. Several jobs leased at once and several queues are left to the proofs,
except for liveness. Six jobs give a heap of three levels, where a removal can have to sift
up in another branch. Segments of two frames and five writes give full and partial segments
after a restart. The passing runs of `Manager` use a visibility timeout of 0 clock units, so
a lease expires at the next tick. Without fsync, `AckedReadable` is left to its proof. Six
hashes for six virtual nodes give rings without collisions and with every kind of them.
The nodes of `Cluster` do not depend on each other, so one besides the server is enough;
two requests meet in every pair of their steps, in clusters the node has and has not joined
before. With two nodes another leader is the other node, so it removes either and brings
this server back; a third node that it adds is in `AddNode.cfg` and in the proof. Three commands give a key twice with a limit, or a lease and its end, around a
restart. Job IDs, callers and queues are symmetric in `manager_restart`, jobs in
`priority_heap`, nodes in `consistent_hash`, servers and limits in `replication`; none of
these checks liveness.

**Deadlock** is checked in every run but three: Unmarshal returns (`record_codec`), and a
stopped server (`cluster`) or servers that applied the whole log (`replication`) have
nothing to do once the requests the bounds allow are used up.

**Fairness** (`Manager!Fairness`): a request that has started keeps running until it
returns, the worker's ticker fires, replay proceeds, time passes. Go's scheduler and
mutexes (which do not starve a waiter) and the ticker justify these. Nothing obliges a
client to call Ack, Nack or Lease. `LeaseEnds` excludes a manager that was stopped and is
checked with a log that works; with one failing write it does not hold (`NackFault.cfg`).
In `Cluster` the goroutine of the health check and handlers that have started keep running;
elections, requests, crashes, restarts and other nodes are not forced. Both liveness
properties excuse a health check that was stopped. A dead member keeps its place on the
ring, so its queues are refused until it returns or leaves; that is why `ForwardsAgain`
asks for the ring's nodes to stay up.

Every property of a passing run has a mutant: an operator marked `Mutant of` beside a
definition, a plausible slip in that code, with which TLC finds the property violated.

## Proofs

For all values of the constants that satisfy the named assumptions (`NoQueueAssumption`,
`BackoffAssumption`, `ManagerAssumption`, `PriorityHeapAssumption`, `RateLimiterAssumption`,
`WALAssumption`, `CompactionAssumption`, `RecordCodecAssumption`, `HashAssumption`,
`ClusterAssumption`, `ReplicationAssumption`: numbers have their ranges, special values are
outside their sets, there are finitely many jobs, a record's fields have their types and its
headers are finitely many, nodes have an order):

| module | theorem | argument |
|---|---|---|
| `ManagerProofs` | `TypeCorrect` | `TypeOK` is inductive; one step per action |
| | `ReadyNotInflightHolds`, `WriteAheadHolds`, `OnlyExpiredTakenHolds`, `NoJobLostHolds` | `PlaceInv`: whatever a request, the memory or the store knows is logged, a job not yet pushed is nowhere else, and what the worker collected stays inflight and expired. `NoJobLost` also needs `LossInv`: in replay the heaps hold what the log before `replayed` says |
| | `UnracedConsistentHolds` | `ConsistInv`: an unraced job has at most one handler, is inflight while it has one, and where the handler stands determines its fields; a job not pushed yet is as Enqueue made it |
| `PriorityHeapProofs` | `HeapTyped`, `IndexAgreesHolds` | `HeapInv`: array, map and the items' own positions agree, and until a job is written to inside the heap no job comes before its parent. `Up` and `Down` are recursive functions; what they do is proved by taking a least position at which it would fail |
| | `KeepsPromiseHolds` (refinement of `ReadyQueue`) | with the order of the array no job precedes the one at its top, so each operation is the step of `ReadyQueue` of the same name |
| `RateLimiterProofs` | `RateLimiterTyped`, `TokensCoveredHolds`, `WindowBoundedHolds` | spent plus on hand is covered by capacity plus refill since the window began (`CoveredInv`); the window bound follows |
| `WALProofs` | `WalTyped`, `AckedReadableHolds` | `WalInv`: files are numbered below `nextSegmentID`, so rotation starts with an empty one; only a last frame is torn, and an active segment that ends so is stuck, so nothing follows it; acknowledged frames are whole and, with fsync, in the synced prefix |
| | `DeliveredInOrderHolds` | `OrderInv`: what is written goes to the file with the highest number, and every record before it has a smaller number |
| | `ImplementsLogHolds` (refinement of `Log`) | `Contents` is the only sequence that has each whole record once, sorted by number. So a write appends to it, an outage thins it by records that were not acknowledged, and Replay, which delivers the same records in order while the disk is intact, delivers it |
| | `CompactionKeepsHolds`, `OneWriterPerFileHolds` | `CompInv`: unless a Compact failed while copying and left its file, what is known of the files for acknowledged records holds for the needed ones, the Enqueue records of jobs that no Compact dropped; while old files are removed each needed record is also in a file that stays; and in any case segments have numbers of their own, below the next one |
| `RecordCodecProofs` | `RoundTripHolds` | `CodecInv`: what is left of the data, followed by what is missing of it, is what `Marshal` writes for the fields and headers still to be read, in some order of the headers; what was read so far is right. So a length is the one that was written and its string is there, unless the data was cut. Facts about headers and strings of any length are proved by taking a least position at which they would fail |
| `ConsistentHashProofs` | `HashTyped`, `LiveOwnerHolds`, `OwnerIsNearestHolds`, `MinimalDisruptionHolds` | `HashInv`: `members` names only nodes that are there, at hashes of theirs that are on the ring, and without collisions ring and `members` are exactly the virtual nodes of `nodes`; the nearest entry clockwise exists because the hash space is finite |
| | `ReplicasFoundHolds`, `ReplicaTakesOverHolds` | `GetNodes` orders nodes by how many are met clockwise up to their nearest entry, a number that no two share; the first is the owner, and the second is the owner once the first has left |
| `ClusterProofs` | `TypeCorrect`, `RingKnownHolds`, `RingIsConfigurationHolds` | `WorkInv`, `RingInv`: without an overlap the handlers of a node all join it or all leave it, a join adds the member before the ring entry, and Raft has already made what is carried through; what another leader changes is in `unseen` until this server changes the node |
| | `DeadFailedTwiceHolds`, `PanicNeedsLeaveHolds` | `CheckInv`: a suspect failed its last check, a failed check has counted before it reads, and what is still to be checked is a member or was removed during the check |
| `ReplicationProofs` | `TypeCorrect`, `NoneMissedHolds`, `LimitFollowsLogHolds` | `LeaseInv`, `IndexInv`: a server has applied what its snapshot holds, and every command it did not apply itself is in the snapshot |
| | `KeyedOnceHolds`, `OncePerStartHolds` | `KeyInv`, `OnceInv`: a key reaches the store with or after its job, a command yet to be applied has made a job only before a restart; both bound the number of jobs and are kept by a step that makes one job |

The invariants of the manager are defined in `ManagerInvariants`, the others at the head of
their part of the proofs. Every safety property that a passing run checks is proved.

Only model-checked:

- `LeaseEnds`, `RequestsReturn`, `DownNoticed`, `ForwardsAgain`: liveness; fairness and
  ENABLED are outside the prover's reach.
- The counterexamples of the two tables above.

## Not modelled

- REST and gRPC handlers: each decodes a request, calls one method of the manager and
  encodes its result; they have no state. What the lease handler copies from the shared job
  after the lock is released is outside the manager's model.
- The HTTP call of `Proxy.ForwardRequest` and `BroadcastCommand`: sent once, nothing kept.
- `RebalanceInfo`, statistics, listings: they only read.
- Raft, Pebble and container/heap: external, modelled by what the code relies on.
- Configuration, metrics, client libraries, examples and the UI: no state a property could
  be about.
- After a failed flush a segment's writer fails for ever (`stuck`): in the model, but
  nothing in the repository says writes resume, so no property is held against it.
