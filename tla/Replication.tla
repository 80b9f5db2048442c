---------------------------- MODULE Replication ----------------------------
(***************************************************************************)
(* The replicated state machine of internal/cluster/fsm.go: every server   *)
(* applies the commands of the Raft log to a queue manager of its own.     *)
(*                                                                         *)
(* Raft is external: one log of committed commands, and for each server    *)
(* how far it has applied it.  The manager is what FSM uses of it, for one *)
(* queue.  Its jobs and idempotency keys are on the server's own disk, and *)
(* a restart brings them back before Raft applies its log again.           *)
(***************************************************************************)
EXTENDS Naturals, Sequences, FiniteSets

CONSTANTS
    Servers,
    Keys, NoKey,          \* idempotency keys, and the empty one
    Limits, NoLimit,      \* rate limits, with a capacity above 0
    MaxRetries,
    MaxLog, MaxJobs, MaxLeases, MaxRestarts, MaxFaults   \* bounds

ASSUME ReplicationAssumption ==
    /\ NoKey \notin Keys /\ NoLimit \notin Limits
    /\ {MaxRetries, MaxLog, MaxJobs, MaxLeases, MaxRestarts, MaxFaults} \subseteq Nat

VARIABLES
    log,         \* Raft: the committed commands
    applied,     \* Raft: per server, the commands applied, or in a snapshot
    snap,        \* Raft: per server, its last snapshot
    jobs,        \* per server, its jobs in the order of its write-ahead log
    keys,        \* per server, the idempotency keys in its store
    limit,       \* per server, the queue's rate limit, in memory only
    leases,      \* number of lease IDs handed out
    restarts, faults,   \* counted
    started,     \* history: applied when the server last started
    refused,     \* history: enqueue commands for which the server returned an error
    skipped,     \* history: commands that came to the server in a snapshot
    unkeyed      \* history: number of logged jobs with a key that did not get to the store

raft == <<log, snap>>
history == <<started, refused, skipped, unkeyed>>
vars == <<raft, applied, jobs, keys, limit, leases, restarts, faults, history>>

\* A job is known by its server and its place among the server's jobs: the
\* UUIDs are made by the managers, and EnqueueCommand.JobID is not used.
Job == [cmd : Nat \ {0}, key : Keys \cup {NoKey}, tries : Nat, lease : Nat,
        status : {"ready", "inflight", "acked", "dlq",
                  "logged"}]       \* in the write-ahead log, and not in memory

Enqueue == [type : {"enqueue"}, key : Keys \cup {NoKey}]
Settle == [type : {"ack", "nack"}, server : Servers, job : Nat \ {0}, lease : Nat \ {0}]
SetLimit == [type : {"limit"}, limit : Limits]

NoSnapshot == [index |-> 0, limit |-> NoLimit]

-----------------------------------------------------------------------------
(* Apply *)

\* s applies the next command, which is of this type.
Applies(s, type) ==
    /\ applied[s] < Len(log)
    /\ log[applied[s] + 1].type = type
    /\ applied' = [applied EXCEPT ![s] = @ + 1]
    /\ UNCHANGED <<raft, leases, restarts, started, skipped>>

Fault == faults < MaxFaults /\ faults' = faults + 1

NewJob(i) ==
    [cmd |-> i, key |-> log[i].key, tries |-> 0, lease |-> 0, status |-> "ready"]

\* Mutant of Stored: an empty key is stored too.
StoredAny(s, key) == keys' = [keys EXCEPT ![s] = @ \cup {key}]

Stored(s, key) == keys' = [keys EXCEPT ![s] = @ \cup ({key} \ {NoKey})]

\* The job of this key is logged, and the key is not stored.
NotStored(s, key) ==
    /\ unkeyed' = [unkeyed EXCEPT ![s] = IF key = NoKey THEN @ ELSE @ + 1]
    /\ UNCHANGED keys

Refuses(s) == refused' = [refused EXCEPT ![s] = @ \cup {applied[s] + 1}]

\* Manager.Enqueue returns an error and makes no job: the key cannot be read,
\* or the write-ahead log fails.
Failed(s) == Fault /\ Refuses(s) /\ UNCHANGED <<jobs, keys, unkeyed>>

\* The limiter, which goes by the server's own clock, refuses it.
RateLimited(s) == limit[s] # NoLimit /\ Refuses(s) /\ UNCHANGED <<jobs, keys, faults, unkeyed>>

\* The write-ahead log fails and yet has the record.  The key is not stored.
LoggedOnly(s) ==
    /\ Len(jobs[s]) < MaxJobs
    /\ Fault /\ Refuses(s)
    /\ jobs' = [jobs EXCEPT ![s] =
                    Append(@, [NewJob(applied[s] + 1) EXCEPT !.status = "logged"])]
    /\ NotStored(s, log[applied[s] + 1].key)

\* Mutant of Accepted: enqueued again when the key could not be stored.
AcceptedTwice(s) ==
    LET i == applied[s] + 1
    IN  /\ Len(jobs[s]) < MaxJobs
        /\ jobs' = [jobs EXCEPT ![s] = @ \o <<NewJob(i), NewJob(i)>>]
        /\ Stored(s, log[i].key)
        /\ UNCHANGED <<faults, unkeyed, refused>>

\* It makes a job, and stores the key; an error of the store is only logged.
Accepted(s) ==
    LET i == applied[s] + 1
        key == log[i].key
    IN  /\ Len(jobs[s]) < MaxJobs
        /\ jobs' = [jobs EXCEPT ![s] = Append(@, NewJob(i))]
        /\ \/ Stored(s, key) /\ UNCHANGED <<faults, unkeyed>>
           \/ key # NoKey /\ Fault /\ NotStored(s, key)
        /\ UNCHANGED refused

\* Mutant of HasKey: the key of the command is not passed on.
HasKeyNever(s, key) == FALSE

\* Manager.Enqueue makes no second job for a key.
HasKey(s, key) == key \in keys[s]

applyEnqueue(s) ==
    LET key == log[applied[s] + 1].key
    IN  /\ Applies(s, "enqueue")
        /\ \/ Failed(s)
           \/ HasKey(s, key) /\ UNCHANGED <<jobs, keys, faults, refused, unkeyed>>
           \/ ~HasKey(s, key) /\ (RateLimited(s) \/ LoggedOnly(s) \/ Accepted(s))
        /\ UNCHANGED limit

\* Ack and Nack find a job of theirs that is in flight under this lease.
Leased(s, cmd) ==
    /\ cmd.server = s
    /\ jobs[s][cmd.job].status = "inflight"
    /\ jobs[s][cmd.job].lease = cmd.lease

applyAck(s) ==
    LET cmd == log[applied[s] + 1]
    IN  /\ Applies(s, "ack")
        /\ jobs' = IF Leased(s, cmd)
                   THEN [jobs EXCEPT ![s][cmd.job].status = "acked"]
                   ELSE jobs
        /\ UNCHANGED <<keys, limit, faults, refused, unkeyed>>

Nacked(job) ==
    [job EXCEPT !.tries = @ + 1, !.lease = 0,
                !.status = IF job.tries + 1 < MaxRetries THEN "ready" ELSE "dlq"]

applyNack(s) ==
    LET cmd == log[applied[s] + 1]
    IN  /\ Applies(s, "nack")
        /\ jobs' = IF Leased(s, cmd)
                   THEN [jobs EXCEPT ![s][cmd.job] = Nacked(@)]
                   ELSE jobs
        /\ UNCHANGED <<keys, limit, faults, refused, unkeyed>>

\* Mutant of applySetRateLimit: a limit that is set stays.
applySetRateLimitOnce(s) ==
    /\ Applies(s, "limit")
    /\ limit' = [limit EXCEPT ![s] = IF @ = NoLimit THEN log[applied[s] + 1].limit ELSE @]
    /\ UNCHANGED <<jobs, keys, faults, refused, unkeyed>>

applySetRateLimit(s) ==
    /\ Applies(s, "limit")
    /\ limit' = [limit EXCEPT ![s] = log[applied[s] + 1].limit]
    /\ UNCHANGED <<jobs, keys, faults, refused, unkeyed>>

-----------------------------------------------------------------------------
(* The process: its manager, and its Raft node *)

\* Manager.Lease is called on a server, and is not a command.
Lease(s, k) ==
    /\ k \in DOMAIN jobs[s] /\ jobs[s][k].status = "ready"
    /\ leases < MaxLeases
    /\ leases' = leases + 1
    /\ jobs' = [jobs EXCEPT ![s][k].status = "inflight", ![s][k].lease = leases + 1]
    /\ UNCHANGED <<raft, applied, keys, limit, restarts, faults, history>>

\* What replayWAL makes of a job, whatever became of it: an ack or a nack finds
\* nothing in flight.
Recovered(job) == [job EXCEPT !.tries = 0, !.lease = 0, !.status = "ready"]

\* The JSON decoder fills exported fields, and FSMSnapshot has none.
Decoded(snapshot) == NoSnapshot

\* Restore sets the limits in what it decodes.
Restored(snapshot, old) ==
    IF Decoded(snapshot).limit # NoLimit THEN Decoded(snapshot).limit ELSE old

\* The process ends, and starts again: the manager from its own log, then Raft
\* from its last snapshot.
Starts(s) ==
    /\ restarts < MaxRestarts
    /\ restarts' = restarts + 1
    /\ applied' = [applied EXCEPT ![s] = snap[s].index]
    /\ started' = [started EXCEPT ![s] = snap[s].index]
    /\ limit' = [limit EXCEPT ![s] = Restored(snap[s], NoLimit)]
    /\ UNCHANGED <<raft, leases, faults, refused, skipped>>

Restart(s) ==
    /\ Starts(s)
    /\ jobs' = [jobs EXCEPT ![s] = [k \in DOMAIN @ |-> Recovered(@[k])]]
    /\ UNCHANGED <<keys, unkeyed>>

\* Mutant of RestartInEnqueue: the key is stored before the job is logged.
RestartInEnqueueKeyFirst(s) ==
    LET i == applied[s] + 1
    IN  /\ i <= Len(log) /\ log[i].type = "enqueue"
        /\ ~HasKey(s, log[i].key)
        /\ Starts(s)
        /\ Stored(s, log[i].key)
        /\ jobs' = [jobs EXCEPT ![s] = [k \in DOMAIN @ |-> Recovered(@[k])]]
        /\ UNCHANGED unkeyed

\* It ends inside applyEnqueue, after the job is in the write-ahead log.
RestartInEnqueue(s) ==
    LET i == applied[s] + 1
    IN  /\ i <= Len(log) /\ log[i].type = "enqueue"
        /\ ~HasKey(s, log[i].key) /\ Len(jobs[s]) < MaxJobs
        /\ Starts(s)
        /\ jobs' = [jobs EXCEPT ![s] =
                        Append([k \in DOMAIN @ |-> Recovered(@[k])], NewJob(i))]
        /\ NotStored(s, log[i].key)

\* Raft takes a snapshot: Snapshot and Persist.
Snapshot(s) ==
    /\ applied[s] > snap[s].index
    /\ snap' = [snap EXCEPT ![s] = [index |-> applied[s], limit |-> limit[s]]]
    /\ UNCHANGED <<log, applied, jobs, keys, limit, leases, restarts, faults, history>>

\* Raft sends the snapshot of t to s, which is behind it: Restore.
InstallSnapshot(s, t) ==
    /\ snap[t].index > applied[s]
    /\ applied' = [applied EXCEPT ![s] = snap[t].index]
    /\ snap' = [snap EXCEPT ![s] = snap[t]]
    /\ limit' = [limit EXCEPT ![s] = Restored(snap[t], @)]
    /\ skipped' = [skipped EXCEPT ![s] = @ \cup (applied[s] + 1 .. snap[t].index)]
    /\ UNCHANGED <<log, jobs, keys, leases, restarts, faults, started, refused, unkeyed>>

\* Node.Apply commits a command.  A caller that gets an error may call it again
\* for a command that was committed.
Commit(cmd) ==
    /\ Len(log) < MaxLog
    /\ log' = Append(log, cmd)
    /\ UNCHANGED <<snap, applied, jobs, keys, limit, leases, restarts, faults, history>>

-----------------------------------------------------------------------------
Init ==
    /\ log = <<>>
    /\ applied = [s \in Servers |-> 0]
    /\ snap = [s \in Servers |-> NoSnapshot]
    /\ jobs = [s \in Servers |-> <<>>]
    /\ keys = [s \in Servers |-> {}]
    /\ limit = [s \in Servers |-> NoLimit]
    /\ leases = 0 /\ restarts = 0 /\ faults = 0
    /\ started = [s \in Servers |-> 0]
    /\ refused = [s \in Servers |-> {}]
    /\ skipped = [s \in Servers |-> {}]
    /\ unkeyed = [s \in Servers |-> 0]

\* The settlements of the jobs that are leased, by the caller who has the lease.
Settlements(s) ==
    {[type |-> type, server |-> s, job |-> k, lease |-> jobs[s][k].lease] :
        type \in {"ack", "nack"}, k \in {k \in DOMAIN jobs[s] : jobs[s][k].status = "inflight"}}

Next ==
    \/ \E cmd \in Enqueue \cup SetLimit \cup UNION {Settlements(s) : s \in Servers} : Commit(cmd)
    \/ \E s \in Servers :
          \/ applyEnqueue(s) \/ applyAck(s) \/ applyNack(s) \/ applySetRateLimit(s)
          \/ Snapshot(s) \/ Restart(s) \/ RestartInEnqueue(s)
          \/ \E k \in 1 .. MaxJobs : Lease(s, k)
          \/ \E t \in Servers : InstallSnapshot(s, t)

Spec == Init /\ [][Next]_vars

-----------------------------------------------------------------------------
(* Properties *)

TypeOK ==
    /\ log \in Seq(Enqueue \cup Settle \cup SetLimit)
    /\ applied \in [Servers -> 0 .. Len(log)] /\ started \in [Servers -> 0 .. Len(log)]
    /\ snap \in [Servers -> [index : 0 .. Len(log), limit : Limits \cup {NoLimit}]]
    /\ jobs \in [Servers -> Seq(Job)]
    /\ keys \in [Servers -> SUBSET Keys]
    /\ limit \in [Servers -> Limits \cup {NoLimit}]
    /\ leases \in 0 .. MaxLeases /\ restarts \in 0 .. MaxRestarts /\ faults \in 0 .. MaxFaults
    /\ refused \in [Servers -> SUBSET (1 .. Len(log))]
    /\ skipped \in [Servers -> SUBSET (1 .. Len(log))]
    /\ unkeyed \in [Servers -> Nat]

Commands(s, type) == {i \in 1 .. applied[s] : log[i].type = type}

\* Job k of server s, which is in memory, stands for enqueue command i: it was
\* made by the command, or by one with the same key.
StandsFor(s, k, i) ==
    /\ jobs[s][k].status # "logged"
    /\ jobs[s][k].cmd = i \/ (log[i].key # NoKey /\ jobs[s][k].key = log[i].key)

\* Every enqueue command a server has applied is a job there, its own or the
\* one made before for its key, through all crashes and replays.  Missing are
\* the commands a replica refused on its own and those it was sent in a
\* snapshot: Restore brings no jobs.
NoneMissed ==
    \A s \in Servers : \A i \in Commands(s, "enqueue") \ (refused[s] \cup skipped[s]) :
        \E k \in DOMAIN jobs[s] : StandsFor(s, k, i)

\* A server has one job for an idempotency key in its write-ahead log, also when
\* the command is committed again or applied again after a restart, and one
\* more for each time the job got there and the key did not get to the store:
\* the store failed, the log failed after the record was in it, or the process
\* ended between the two.
KeyedOnce ==
    \A s \in Servers, key \in Keys :
        Cardinality({k \in DOMAIN jobs[s] : jobs[s][k].key = key}) <= 1 + unkeyed[s]

\* A command makes a second job on a server only by a restart, which applies
\* it to a manager that has the first.
OncePerStart ==
    \A s \in Servers : \A i \in 1 .. Len(log) :
        Cardinality({k \in DOMAIN jobs[s] : jobs[s][k].cmd = i}) <= 1 + restarts

\* When the last command that set a rate limit is one the server has applied
\* itself since it started, that is its limit: servers that applied the same
\* ones agree, whatever restarts and snapshots came before.
LimitFollowsLog ==
    \A s \in Servers : \A i \in Commands(s, "limit") \ skipped[s] :
        i > started[s] /\ (\A k \in Commands(s, "limit") : k <= i) => limit[s] = log[i].limit

-----------------------------------------------------------------------------
(* What the repository says of replication and the code does not do.       *)

\* A node that joins will "sync state from the leader": without a restart or a
\* fault, what a server has applied and not refused is there in jobs.
\* Restore brings no jobs.
StateSynced ==
    restarts = 0 /\ faults = 0 =>
        \A s \in Servers : \A i \in Commands(s, "enqueue") \ refused[s] :
            \E k \in DOMAIN jobs[s] : StandsFor(s, k, i)

\* "Restore rate limits" (fsm.go:214): a server that is started from a snapshot,
\* or is sent one, has the last limit among the commands in it.  The fields of
\* FSMSnapshot are not exported, so the snapshot has no limits.
LimitsRestored ==
    \A s \in Servers : \A i \in Commands(s, "limit") :
        (\A k \in Commands(s, "limit") : k <= i) => limit[s] = log[i].limit
=============================================================================
