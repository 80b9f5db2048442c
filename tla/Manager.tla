------------------------------ MODULE Manager ------------------------------
(***************************************************************************)
(* The queue manager of internal/queue/queue.go: request goroutines run    *)
(* Enqueue, Lease, Ack and Nack, a background worker takes back expired    *)
(* leases, and a restart rebuilds the memory from the write-ahead log.     *)
(*                                                                         *)
(* A step of the model is what the code does between two points where      *)
(* another goroutine or a crash can be observed: a critical section of     *)
(* queue.mu, one write to the log or the store, or the unlocked writes of  *)
(* Nack to the job it shares with everybody else.  One unit of the clock   *)
(* is the grain at which deadlines and ETAs are compared.                  *)
(*                                                                         *)
(* The log is a sequence of records here; how records reach segment files  *)
(* is below this module's level.  The heap of a queue is the set of the    *)
(* jobs in it: the job at its top is one that no other precedes under      *)
(* Less, or any job once a key was overwritten inside the heap.            *)
(***************************************************************************)
EXTENDS Job, Backoff, Sequences, FiniteSets

CONSTANTS
    Jobs, NoJob,      \* the UUIDs uuid.New returns for jobs
    Keys, NoKey,      \* idempotency keys, and the empty one
    Callers,          \* goroutines that can run a request at the same time
    Priorities, Delays, Retries, Visibilities,   \* values requests carry
    MaxBatch,         \* largest max_jobs of a lease request
    TicksPerMs,       \* clock units in the millisecond the log keeps
    MaxClock, MaxLeases, MaxCrashes, MaxFaults   \* bounds

ASSUME ManagerAssumption ==
    /\ NoJob \notin Jobs /\ NoKey \notin Keys /\ IsFiniteSet(Jobs)
    /\ Priorities \subseteq Nat /\ Delays \subseteq Nat
    /\ Retries \subseteq Nat /\ Visibilities \subseteq Nat
    /\ TicksPerMs \in Nat \ {0}
    /\ MaxClock \in Nat /\ MaxLeases \in Nat
    /\ MaxCrashes \in Nat /\ MaxFaults \in Nat

VARIABLES
    mode,        \* "replay" while Start reads the log, then "up"
    clock,       \* time.Now()
    queues,      \* the queues that exist
    job,         \* the Job object of each ID
    ready, inflight, dlq,   \* the IDs in the heap and in the two maps
    disordered,  \* queues with a key overwritten inside the heap
    call,        \* what each request goroutine is doing
    worker,      \* the lease timeout worker
    leases,      \* number of lease IDs handed out
    wal, idem,   \* durable: the log, and key -> job ID in the store
    replayed,    \* number of records replayed
    crashes, faults,        \* counted against MaxCrashes and MaxFaults
    accepted,    \* history: IDs that Enqueue returned to a client
    raced        \* history: jobs two handlers worked on at the same time

memory == <<queues, job, ready, inflight, dlq, disordered>>
durable == <<wal, idem>>
history == <<accepted, raced>>
vars == <<mode, clock, memory, call, worker, leases, durable, replayed,
          crashes, faults, history>>

-----------------------------------------------------------------------------
(* Records of the log *)

RecordType == {"enqueue", "ack", "nack", "requeue", "tombstone"}

Record == [type : RecordType, job : Jobs, queue : Queues, priority : Nat,
           tries : Nat, maxRetries : Nat, eta : Nat]

\* The log stores times with Time.UnixMilli.
UnixMilli(t) == (t \div TicksPerMs) * TicksPerMs

\* A record that carries the job's scheduling fields.
FullRecord(type, j, jb) ==
    [type |-> type, job |-> j, queue |-> jb.queue, priority |-> jb.priority,
     tries |-> jb.tries, maxRetries |-> jb.maxRetries,
     eta |-> UnixMilli(jb.eta)]

\* A record whose other fields have Go's zero values.
BareRecord(type, j, q, t) ==
    [type |-> type, job |-> j, queue |-> q, priority |-> 0, tries |-> t,
     maxRetries |-> 0, eta |-> ZeroTime]

LoggedBy(log, type) ==
    {log[i].job : i \in {k \in DOMAIN log : log[k].type = type}}

Logged == LoggedBy(wal, "enqueue")
Acked == LoggedBy(wal, "ack")

WalWrite(rec) == wal' = Append(wal, rec) /\ UNCHANGED faults

\* Write returns an error: the flush failed and nothing is in the file, or
\* the fsync after it failed and the record may be there all the same.
WalWriteFails(rec) ==
    /\ faults < MaxFaults
    /\ faults' = faults + 1
    /\ wal' \in {wal, Append(wal, rec)}

-----------------------------------------------------------------------------
(* Memory *)

NoJobYet ==
    [queue |-> NoQueue, priority |-> 0, tries |-> 0, maxRetries |-> 0,
     eta |-> ZeroTime, lease |-> NoLease, deadline |-> ZeroTime,
     status |-> "ready", enqueuedAt |-> ZeroTime]

\* Mutant of NewJob: the Queue field is left out.
NewJobNoQueue(q, p, t, r, eta) ==
    [NoJobYet EXCEPT !.priority = p, !.tries = t, !.maxRetries = r, !.eta = eta,
                     !.enqueuedAt = clock]

NewJob(q, p, t, r, eta) ==
    [queue |-> q, priority |-> p, tries |-> t, maxRetries |-> r, eta |-> eta,
     lease |-> NoLease, deadline |-> ZeroTime, status |-> "ready",
     enqueuedAt |-> clock]

\* Mutant of Released: LeaseID is not cleared.
ReleasedKeepsLease(jb, t, eta) ==
    [jb EXCEPT !.tries = t, !.eta = eta, !.deadline = ZeroTime]

\* The delivery of a job has failed, the t-th time, and it is due at time eta.
Released(jb, t, eta) ==
    [jb EXCEPT !.tries = t, !.eta = eta, !.lease = NoLease,
               !.deadline = ZeroTime]

\* Another try, or the dead letter queue.
Decided(jb) ==
    [jb EXCEPT !.status = IF ShouldRetry(jb) THEN "ready" ELSE "dlq"]

Failed(jb, t, eta) == Decided(Released(jb, t, eta))

Leased(jb, id, deadline) ==
    [jb EXCEPT !.lease = id, !.deadline = deadline, !.status = "inflight"]

InQueue(S, q) == {j \in S : job[j].queue = q}

Idle == [pc |-> "idle", job |-> NoJob, key |-> NoKey, tries |-> 0]

IdleWorker == [pc |-> "idle", now |-> ZeroTime, todo |-> {},
               queue |-> NoQueue, expired |-> {}]

\* Mutant of Locked: the pass collects and moves in two critical sections.
LockedNever(q) == FALSE

\* Mutant of Locked: the worker keeps the lock while it waits for the ticker.
LockedBetween(q) == worker.pc = "idle" \/ (worker.pc = "expire" /\ worker.queue = q)

\* queue.mu is held across steps only by the worker's pass over a queue.
Locked(q) == worker.pc = "expire" /\ worker.queue = q

EnqueuePC == {"enqWrite", "enqKey", "enqPush"}
AckPC == {"ackWrite", "ackRemove"}
NackPC == {"nackLoad", "nackUpdate", "nackDecide", "retryWrite", "retryMove", "dlqWrite",
           "dlqMove"}

\* An Ack or a Nack of j that passed its lease check is still running.
Busy(j) == \E c \in Callers : call[c].job = j /\ call[c].pc \in AckPC \cup NackPC

MarkRace(j) == raced' = IF Busy(j) THEN raced \cup {j} ELSE raced

\* Request c goes to step pc with these values in its local variables.
Proceed(c, pc, j, key) ==
    call' = [call EXCEPT ![c] = [pc |-> pc, job |-> j, key |-> key, tries |-> 0]]
Goto(c, pc) == call' = [call EXCEPT ![c].pc = pc]
Return(c) == call' = [call EXCEPT ![c] = Idle]

-----------------------------------------------------------------------------
(* Enqueue *)

\* Bound: every Enqueue that starts will find an unused job ID.
IdsLeft == Cardinality({c \in Callers : call[c].pc = "enqWrite"})
             < Cardinality(Jobs \ Logged)

\* The idempotency lookup hits: the ID of the earlier job is the answer.
EnqueueDuplicate(key) ==
    /\ mode = "up"
    /\ idem[key] # NoJob
    /\ accepted' = accepted \cup {idem[key]}
    /\ UNCHANGED <<mode, clock, memory, call, worker, leases, durable,
                   replayed, crashes, faults, raced>>

\* The lookup misses, or there is no key, and the rate limiter lets it pass.
\* A request the limiter refuses changes nothing here.
EnqueueCheck(c, key) ==
    /\ mode = "up"
    /\ call[c].pc = "idle"
    /\ key # NoKey => idem[key] = NoJob
    /\ IdsLeft
    /\ Proceed(c, "enqWrite", NoJob, key)
    /\ UNCHANGED <<mode, clock, memory, worker, leases, durable, replayed,
                   crashes, faults, history>>

\* Mutant of EnqueueWrite: the error of the log is only logged.
EnqueueWriteGoesOn(c, j, jb) ==
    LET rec == FullRecord("enqueue", j, jb)
    IN  /\ call[c].pc = "enqWrite"
        /\ j \notin Logged
        /\ queues' = queues \cup {jb.queue}
        /\ WalWrite(rec) \/ WalWriteFails(rec)
        /\ job' = [job EXCEPT ![j] = jb]
        /\ Proceed(c, IF call[c].key = NoKey THEN "enqPush" ELSE "enqKey",
                   j, call[c].key)
        /\ UNCHANGED <<mode, clock, ready, inflight, dlq, disordered, worker,
                       leases, idem, replayed, crashes, history>>

\* getOrCreateQueue, the new Job, and its Enqueue record; an error of the
\* log ends the call.
EnqueueWrite(c, j, jb) ==
    LET rec == FullRecord("enqueue", j, jb)
    IN  /\ call[c].pc = "enqWrite"
        /\ j \notin Logged
        /\ queues' = queues \cup {jb.queue}
        /\ \/ /\ WalWrite(rec)
              /\ job' = [job EXCEPT ![j] = jb]
              /\ Proceed(c, IF call[c].key = NoKey THEN "enqPush" ELSE "enqKey",
                       j, call[c].key)
           \/ /\ WalWriteFails(rec)
              /\ Return(c)
              /\ UNCHANGED job
        /\ UNCHANGED <<mode, clock, ready, inflight, dlq, disordered, worker,
                       leases, idem, replayed, crashes, history>>

\* SetIdempotencyKey; its error is only logged.
EnqueueStoreKey(c) ==
    /\ call[c].pc = "enqKey"
    /\ Goto(c, "enqPush")
    /\ \/ /\ idem' = [idem EXCEPT ![call[c].key] = call[c].job]
          /\ UNCHANGED faults
       \/ /\ faults < MaxFaults
          /\ faults' = faults + 1
          /\ UNCHANGED idem
    /\ UNCHANGED <<mode, clock, memory, worker, leases, wal, replayed,
                   crashes, history>>

EnqueuePush(c) ==
    LET j == call[c].job
    IN  /\ call[c].pc = "enqPush"
        /\ ~Locked(job[j].queue)
        /\ ready' = ready \cup {j}
        /\ accepted' = accepted \cup {j}
        /\ Return(c)
        /\ UNCHANGED <<mode, clock, queues, job, inflight, dlq, disordered,
                       worker, leases, durable, replayed, crashes, faults,
                       raced>>

-----------------------------------------------------------------------------
(* Lease *)

\* Nothing in the heap of q has to come out before j.
Top(j, heap, q) == q \in disordered \/ \A k \in heap : ~Less(job[k], job[j])

\* The loop over PopReady takes S, at most n jobs: each was ready when it was
\* at the top, and the loop ended at n, at an empty heap or at a top that is
\* not ready, whatever waits below it.
PopsReady(q, n, S) ==
    LET rest == InQueue(ready, q) \ S
    IN  /\ Cardinality(S) <= n
        /\ \A j \in S : IsReady(job[j], clock) /\ Top(j, rest, q)
        /\ \/ Cardinality(S) = n
           \/ rest = {}
           \/ \E k \in rest : Top(k, rest, q) /\ ~IsReady(job[k], clock)

\* One critical section of queue.mu.  The code reads the time just before it
\* takes the lock: waiting there only shortens the lease, as a smaller
\* visibility does.  Nothing is logged.
Lease(q, n, visibility) ==
    /\ mode = "up"
    /\ q \in queues
    /\ ~Locked(q)
    /\ clock + visibility < MaxClock
    /\ \E k \in 1 .. (MaxLeases - leases), S \in SUBSET InQueue(ready, q) :
         /\ Cardinality(S) = k
         /\ PopsReady(q, n, S)
         /\ \E id \in [S -> (leases + 1) .. (leases + k)] :
              /\ \A i, j \in S : id[i] = id[j] => i = j
              /\ job' = [j \in Jobs |->
                   IF j \in S
                   THEN Leased(job[j], id[j], clock + visibility)
                   ELSE job[j]]
         /\ ready' = ready \ S
         /\ inflight' = inflight \cup S
         /\ leases' = leases + k
    /\ UNCHANGED <<mode, clock, queues, dlq, disordered, call, worker, durable,
                   replayed, crashes, faults, history>>

-----------------------------------------------------------------------------
(* Ack and Nack.  The job is found under the read lock; the lease ID of the *)
(* request is compared with the job's, and from there on the code works on  *)
(* the shared Job without looking at it again.  The requests that go on are *)
(* those with the ID the job has now: the one Lease handed out, or an empty *)
(* one (the API does not ask for it) where a Nack has cleared the job's.    *)

FindInflight(c, j, pc) ==
    /\ mode = "up"
    /\ call[c].pc = "idle"
    /\ j \in inflight
    /\ ~Locked(job[j].queue)
    /\ Proceed(c, pc, j, NoKey)
    /\ MarkRace(j)
    /\ UNCHANGED <<mode, clock, memory, worker, leases, durable, replayed,
                   crashes, faults, accepted>>

AckCheck(c, j) == FindInflight(c, j, "ackWrite")
NackCheck(c, j) == FindInflight(c, j, "nackLoad")

AckWrite(c) ==
    LET j == call[c].job
        rec == BareRecord("ack", j, job[j].queue, 0)
    IN  /\ call[c].pc = "ackWrite"
        /\ \/ WalWrite(rec) /\ Goto(c, "ackRemove")
           \/ WalWriteFails(rec) /\ Return(c)
        /\ UNCHANGED <<mode, clock, memory, worker, leases, idem, replayed,
                       crashes, history>>

AckRemove(c) ==
    LET j == call[c].job
    IN  /\ call[c].pc = "ackRemove"
        /\ ~Locked(job[j].queue)
        /\ inflight' = inflight \ {j}
        /\ Return(c)
        /\ UNCHANGED <<mode, clock, queues, job, ready, dlq, disordered,
                       worker, leases, durable, replayed, crashes, faults,
                       history>>

\* Tries++ without a lock is a load and a store: what others store in between
\* is lost.
NackLoad(c) ==
    /\ call[c].pc = "nackLoad"
    /\ call' = [call EXCEPT ![c].pc = "nackUpdate",
                            ![c].tries = job[call[c].job].tries]
    /\ UNCHANGED <<mode, clock, memory, worker, leases, durable, replayed,
                   crashes, faults, history>>

\* The unlocked writes to the job.
NackUpdate(c) ==
    LET j == call[c].job
        t == call[c].tries + 1
    IN  /\ call[c].pc = "nackUpdate"
        /\ \E delay \in Calculate(t) :
             /\ job' = [job EXCEPT ![j] = Released(job[j], t, clock + delay)]
             /\ disordered' = IF j \in ready /\ job[j].eta # clock + delay
                              THEN disordered \cup {job[j].queue}
                              ELSE disordered
        /\ Goto(c, "nackDecide")
        /\ UNCHANGED <<mode, clock, queues, ready, inflight, dlq, worker,
                       leases, durable, replayed, crashes, faults, history>>

\* Still unlocked: the choice between another try and the dead letter queue.
NackDecide(c) ==
    LET j == call[c].job
    IN  /\ call[c].pc = "nackDecide"
        /\ job' = [job EXCEPT ![j] = Decided(@)]
        /\ Goto(c, IF ShouldRetry(job[j]) THEN "retryWrite" ELSE "dlqWrite")
        /\ UNCHANGED <<mode, clock, queues, ready, inflight, dlq, disordered,
                       worker, leases, durable, replayed, crashes, faults,
                       history>>

\* An error of the log ends the call here: the job stays in inflight.
NackWrite(c) ==
    LET j == call[c].job
        retry == call[c].pc = "retryWrite"
        rec == IF retry THEN FullRecord("nack", j, job[j])
               ELSE BareRecord("nack", j, job[j].queue, job[j].tries)
    IN  /\ call[c].pc \in {"retryWrite", "dlqWrite"}
        /\ \/ WalWrite(rec) /\ Goto(c, IF retry THEN "retryMove" ELSE "dlqMove")
           \/ WalWriteFails(rec) /\ Return(c)
        /\ UNCHANGED <<mode, clock, memory, worker, leases, idem, replayed,
                       crashes, history>>

\* Mutant of NackMove: the job is pushed and stays in the inflight map.
NackMoveKeepsInflight(c) ==
    LET j == call[c].job
    IN  /\ call[c].pc \in {"retryMove", "dlqMove"}
        /\ ~Locked(job[j].queue)
        /\ IF call[c].pc = "retryMove"
           THEN ready' = ready \cup {j} /\ UNCHANGED dlq
           ELSE dlq' = dlq \cup {j} /\ UNCHANGED ready
        /\ Return(c)
        /\ UNCHANGED <<mode, clock, queues, job, inflight, disordered, worker,
                       leases, durable, replayed, crashes, faults, history>>

\* Mutant of NackMove: a job out of retries is deleted and goes nowhere.
NackMoveDrops(c) ==
    LET j == call[c].job
    IN  /\ call[c].pc \in {"retryMove", "dlqMove"}
        /\ ~Locked(job[j].queue)
        /\ inflight' = inflight \ {j}
        /\ ready' = IF call[c].pc = "retryMove" THEN ready \cup {j} ELSE ready
        /\ Return(c)
        /\ UNCHANGED <<mode, clock, queues, job, dlq, disordered, worker, leases,
                       durable, replayed, crashes, faults, history>>

NackMove(c) ==
    LET j == call[c].job
    IN  /\ call[c].pc \in {"retryMove", "dlqMove"}
        /\ ~Locked(job[j].queue)
        /\ inflight' = inflight \ {j}
        /\ IF call[c].pc = "retryMove"
           THEN ready' = ready \cup {j} /\ UNCHANGED dlq
           ELSE dlq' = dlq \cup {j} /\ UNCHANGED ready
        /\ Return(c)
        /\ UNCHANGED <<mode, clock, queues, job, disordered, worker, leases,
                       durable, replayed, crashes, faults, history>>

-----------------------------------------------------------------------------
(* The lease timeout worker *)

\* A pass is over when no queue is left in its snapshot.
NextQueue(todo) == IF todo = {} THEN IdleWorker
                   ELSE [worker EXCEPT !.pc = "scan", !.todo = todo,
                                       !.queue = NoQueue, !.expired = {}]

\* The ticker fires: the pass takes the time and the queues there are.
WorkerTick ==
    /\ mode = "up"
    /\ worker.pc = "idle"
    /\ worker' = IF queues = {} THEN IdleWorker
                 ELSE [IdleWorker EXCEPT !.pc = "scan", !.now = clock,
                                         !.todo = queues]
    /\ UNCHANGED <<mode, clock, memory, call, leases, durable, replayed,
                   crashes, faults, history>>

\* queue.mu is taken and the expired leases are collected.
WorkerScan(q) ==
    LET expired == {j \in InQueue(inflight, q) : LeaseExpired(job[j], worker.now)}
    IN  /\ worker.pc = "scan"
        /\ q \in worker.todo
        /\ worker' = IF expired = {} THEN NextQueue(worker.todo \ {q})
                     ELSE [worker EXCEPT !.pc = "expire", !.queue = q,
                                         !.todo = @ \ {q}, !.expired = expired]
        /\ UNCHANGED <<mode, clock, memory, call, leases, durable, replayed,
                       crashes, faults, history>>

\* One collected job goes back to the heap, with a Requeue record whose error
\* is ignored, or to the dead letter queue, with no record.  The lock is
\* released after the last one.
WorkerExpire(j) ==
    /\ worker.pc = "expire"
    /\ j \in worker.expired
    /\ \E delay \in Calculate(job[j].tries + 1) :
         LET jb == Failed(job[j], job[j].tries + 1, worker.now + delay)
             rec == FullRecord("requeue", j, jb)
         IN  /\ job' = [job EXCEPT ![j] = jb]
             /\ IF ShouldRetry(jb)
                THEN /\ ready' = ready \cup {j}
                     /\ WalWrite(rec) \/ WalWriteFails(rec)
                     /\ UNCHANGED dlq
                ELSE /\ dlq' = dlq \cup {j}
                     /\ UNCHANGED <<ready, wal, faults>>
    /\ inflight' = inflight \ {j}
    /\ worker' = IF worker.expired = {j} THEN NextQueue(worker.todo)
                 ELSE [worker EXCEPT !.expired = @ \ {j}]
    /\ MarkRace(j)
    /\ UNCHANGED <<mode, clock, queues, disordered, call, leases, idem,
                   replayed, crashes, accepted>>

\* Stop waits for the pass to end; afterwards nothing takes leases back.
Stop ==
    /\ mode = "up"
    /\ crashes < MaxCrashes
    /\ worker.pc = "idle"
    /\ worker' = [worker EXCEPT !.pc = "stopped"]
    /\ UNCHANGED <<mode, clock, memory, call, leases, durable, replayed,
                   crashes, faults, history>>

-----------------------------------------------------------------------------
(* Restart *)

\* The process ends, at any point or after Stop, and a new one runs
\* NewManager and Start on the same files.
Crash ==
    /\ crashes < MaxCrashes
    /\ crashes' = crashes + 1
    /\ mode' = "replay"
    /\ replayed' = 0
    /\ queues' = {} /\ ready' = {} /\ inflight' = {} /\ dlq' = {}
    /\ disordered' = {}
    /\ job' = [j \in Jobs |-> NoJobYet]
    /\ call' = [c \in Callers |-> Idle]
    /\ worker' = IdleWorker
    /\ raced' = {}
    /\ UNCHANGED <<clock, leases, durable, faults, accepted>>

\* The next record of the log.
Replays(types) ==
    /\ mode = "replay"
    /\ replayed < Len(wal)
    /\ wal[replayed + 1].type \in types
    /\ replayed' = replayed + 1
    /\ UNCHANGED <<mode, clock, disordered, call, worker, leases, durable,
                   crashes, faults, history>>

\* Mutant of ReplayEnqueue: getQueue where the code has getOrCreateQueue.
ReplayEnqueueNoQueue ==
    /\ Replays({"enqueue"})
    /\ wal[replayed + 1].queue \notin queues
    /\ UNCHANGED <<queues, job, ready, inflight, dlq>>

ReplayEnqueue ==
    LET rec == wal[replayed + 1]
    IN  /\ Replays({"enqueue"})
        /\ queues' = queues \cup {rec.queue}
        /\ ready' = ready \cup {rec.job}
        /\ job' = [job EXCEPT ![rec.job] =
             IF rec.job \in ready THEN @
             ELSE NewJob(rec.queue, rec.priority, rec.tries, rec.maxRetries,
                         rec.eta)]
        /\ UNCHANGED <<inflight, dlq>>

ReplayAck ==
    LET rec == wal[replayed + 1]
    IN  /\ Replays({"ack", "tombstone"})
        /\ inflight' = inflight \ {rec.job}
        /\ dlq' = IF rec.type = "tombstone" THEN dlq \ {rec.job} ELSE dlq
        /\ UNCHANGED <<queues, job, ready>>

ReplayNack ==
    LET rec == wal[replayed + 1]
        jb == Failed(job[rec.job], rec.tries, rec.eta)
        found == rec.job \in inflight
    IN  /\ Replays({"nack", "requeue"})
        /\ inflight' = inflight \ {rec.job}
        /\ job' = IF found THEN [job EXCEPT ![rec.job] = jb] ELSE job
        /\ ready' = IF found /\ ShouldRetry(jb) THEN ready \cup {rec.job} ELSE ready
        /\ dlq' = IF found /\ ~ShouldRetry(jb) THEN dlq \cup {rec.job} ELSE dlq
        /\ UNCHANGED queues

\* The log is at its end: Start starts the worker and requests are served.
ReplayDone ==
    /\ mode = "replay"
    /\ replayed = Len(wal)
    /\ mode' = "up"
    /\ UNCHANGED <<clock, memory, call, worker, leases, durable, replayed,
                   crashes, faults, history>>

Tick ==
    /\ clock < MaxClock
    /\ clock' = clock + 1
    /\ UNCHANGED <<mode, memory, call, worker, leases, durable, replayed,
                   crashes, faults, history>>

-----------------------------------------------------------------------------

Init ==
    /\ mode = "replay" /\ clock = 1 /\ replayed = 0
    /\ queues = {} /\ ready = {} /\ inflight = {} /\ dlq = {}
    /\ disordered = {}
    /\ job = [j \in Jobs |-> NoJobYet]
    /\ call = [c \in Callers |-> Idle]
    /\ worker = IdleWorker
    /\ leases = 0
    /\ wal = <<>> /\ idem = [k \in Keys |-> NoJob]
    /\ crashes = 0 /\ faults = 0
    /\ accepted = {} /\ raced = {}

\* The rest of a request once it has started.
CallStep(c) ==
    \/ \E j \in Jobs, q \in Queues, p \in Priorities, r \in Retries, d \in Delays :
         EnqueueWrite(c, j, NewJob(q, p, 0, r, clock + d))
    \/ EnqueueStoreKey(c) \/ EnqueuePush(c)
    \/ AckWrite(c) \/ AckRemove(c)
    \/ NackLoad(c) \/ NackUpdate(c) \/ NackDecide(c) \/ NackWrite(c) \/ NackMove(c)

WorkerStep ==
    \/ WorkerTick
    \/ \E q \in Queues : WorkerScan(q)
    \/ \E j \in Jobs : WorkerExpire(j)

Replay == ReplayEnqueue \/ ReplayAck \/ ReplayNack \/ ReplayDone

Next ==
    \/ \E key \in Keys : EnqueueDuplicate(key)
    \/ \E c \in Callers, key \in Keys \cup {NoKey} : EnqueueCheck(c, key)
    \/ \E q \in Queues, n \in 1 .. MaxBatch, v \in Visibilities : Lease(q, n, v)
    \/ \E c \in Callers, j \in Jobs : AckCheck(c, j) \/ NackCheck(c, j)
    \/ \E c \in Callers : CallStep(c)
    \/ WorkerStep
    \/ Replay
    \/ Stop \/ Crash \/ Tick

Spec == Init /\ [][Next]_vars

\* A started request is scheduled until it returns, the ticker fires, replay
\* runs to the end of the log, and time passes.
Fairness ==
    /\ \A c \in Callers : WF_vars(CallStep(c))
    /\ WF_vars(WorkerStep)
    /\ WF_vars(Replay)
    /\ WF_vars(Tick)

FairSpec == Spec /\ Fairness

-----------------------------------------------------------------------------
(* Properties *)

CallPC == {"idle"} \cup EnqueuePC \cup AckPC \cup NackPC

Call == [pc : CallPC, job : Jobs \cup {NoJob}, key : Keys \cup {NoKey},
         tries : Nat]

Worker == [pc : {"idle", "scan", "expire", "stopped"}, now : Nat,
           todo : SUBSET Queues, queue : Queues \cup {NoQueue},
           expired : SUBSET Jobs]

\* Every variable has its type; a call past its first step has a job, and a
\* job that is in memory or in the hands of a handler has a queue.
TypeOK ==
    /\ mode \in {"replay", "up"}
    /\ clock \in Nat /\ leases \in Nat /\ replayed \in Nat
    /\ crashes \in Nat /\ faults \in Nat
    /\ queues \subseteq Queues /\ disordered \subseteq Queues
    /\ job \in [Jobs -> Job]
    /\ ready \subseteq Jobs /\ inflight \subseteq Jobs /\ dlq \subseteq Jobs
    /\ call \in [Callers -> Call]
    /\ \A c \in Callers :
         call[c].pc \notin {"idle", "enqWrite"} =>
           call[c].job \in Jobs /\ job[call[c].job].queue \in Queues
    /\ \A j \in ready \cup inflight \cup dlq \cup worker.expired :
         job[j].queue \in Queues
    /\ worker \in Worker
    /\ wal \in Seq(Record)
    /\ idem \in [Keys -> Jobs \cup {NoJob}]
    /\ accepted \subseteq Jobs /\ raced \subseteq Jobs

\* Whatever Ack, Nack and the timeout worker do to a job at the same time, it
\* is not in the ready heap and in the inflight map at once: each of them takes
\* it out of the map and pushes it in one critical section of queue.mu.
ReadyNotInflight == ready \cap inflight = {}

\* Write-ahead: a job that is in memory, or whose ID a client was given (by
\* the call that created it or by the idempotency key), has an Enqueue record,
\* so a restart brings it back.
WriteAhead == ready \cup inflight \cup dlq \cup accepted \subseteq Logged

\* A client that was given a job ID finds the job in the manager until an Ack
\* of it is logged, across races, log errors and restarts; only the call that
\* stored its idempotency key may still be about to push it.
NoJobLost ==
    mode = "up" =>
      \A j \in accepted \ Acked :
        \/ j \in ready \cup inflight \cup dlq
        \/ \E c \in Callers : call[c].pc = "enqPush" /\ call[c].job = j

\* The timeout worker only takes back leases whose deadline has passed: what
\* it collected stays leased and expired until it is moved, because the queue
\* is locked from the scan to the last move.
OnlyExpiredTaken ==
    \A j \in worker.expired :
      j \in inflight /\ job[j].deadline < clock

\* The job is in at most one of the three places, its fields say which, and it
\* is offered again only while it has retries left.  A Nack that has updated
\* the job and not yet moved it (or never moves it: its log write failed)
\* leaves it inflight with no lease.
Consistent(j) ==
    LET jb == job[j]
        retries == jb.tries = 0 \/ ShouldRetry(jb)
    IN  /\ j \in ready =>
             /\ jb.status = "ready" /\ jb.lease = NoLease
             /\ retries /\ j \notin dlq
        /\ j \in inflight =>
             /\ j \notin dlq
             /\ IF jb.lease = NoLease
                THEN jb.deadline = ZeroTime
                ELSE jb.status = "inflight" /\ jb.deadline # ZeroTime /\ retries
        /\ j \in dlq => jb.status = "dlq" /\ ~ShouldRetry(jb)

\* As long as no two handlers work on a job at the same time, its status, its
\* lease and its retry count agree with the place it is in; overlapping calls
\* for other jobs, log errors and restarts do not disturb it.
UnracedConsistent == \A j \in Jobs \ raced : Consistent(j)

\* A lease ends: Ack, Nack or the timeout worker takes the job out of the
\* inflight map, unless Stop has ended the worker.
LeaseEnds ==
    \A j \in Jobs : j \in inflight ~> (j \notin inflight \/ worker.pc = "stopped")

\* A request returns: no handler waits for ever on the worker's lock or on
\* another handler.
RequestsReturn ==
    \A c \in Callers : call[c].pc # "idle" ~> call[c].pc = "idle"

-----------------------------------------------------------------------------
(* What the repository says of the manager and the code does not do: TLC   *)
(* refutes each of these.                                                  *)

\* Ack "acknowledges a job completion": once it is logged and no handler is
\* working on the job, the job is not offered or leased again.
AckIsFinal ==
    mode = "up" =>
      \A j \in Acked : Busy(j) \/ j \notin ready \cup inflight

\* Idempotency keys "prevent duplicate processing": two calls with one key
\* never both log a job.
IdempotentEnqueue ==
    \A c, d \in Callers :
      (/\ call[c].key = call[d].key /\ call[c].key # NoKey
       /\ call[c].job # NoJob /\ call[d].job # NoJob) => call[c].job = call[d].job

\* The manager "track[s] job states (ready, inflight, DLQ)": the state of
\* every job agrees with its place, raced or not.
JobStatesTracked == \A j \in Jobs : Consistent(j)

\* PopReady "removes and returns the next ready job": a queue that holds a
\* ready job has one that PopReady returns.
NextReadyJobFound ==
    \A q \in queues :
      LET heap == InQueue(ready, q)
          Due(j) == IsReady(job[j], clock)
      IN  (\E j \in heap : Due(j)) => \E j \in heap : Top(j, heap, q) /\ Due(j)

\* TestRetryAndDLQ: with max_retries 2 the "first 2 nacks should requeue" and
\* the "third nack should move to DLQ".
RetriesGranted == \A j \in dlq : job[j].tries > job[j].maxRetries

\* Startup replay: "Nack/Requeue -> Update tries, move to ready or DLQ", so a
\* job has at least the tries of each of its records.
ReplayKeepsTries ==
    mode = "up" =>
      \A i \in DOMAIN wal : wal[i].job \in ready \cup inflight \cup dlq =>
                              job[wal[i].job].tries >= wal[i].tries
=============================================================================
