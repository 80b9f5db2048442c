------------------------- MODULE ReplicationProofs -------------------------
(***************************************************************************)
(* Proofs about the replicated state machine, for every set of servers, of *)
(* keys and of limits, and for every value of the bounds.                  *)
(***************************************************************************)
EXTENDS Replication, FiniteSetTheorems, TLAPS

-----------------------------------------------------------------------------
(* The inductive invariant *)

\* A job in flight has a lease.
LeaseInv ==
    \A s \in Servers : \A k \in DOMAIN jobs[s] :
        jobs[s][k].status = "inflight" => jobs[s][k].lease # 0

\* A server has applied what is in its snapshot, and every command that it did
\* not apply itself is in it: what it applies next is none of those.
IndexInv ==
    \A s \in Servers :
        /\ snap[s].index <= applied[s] /\ started[s] <= applied[s]
        /\ \A i \in skipped[s] : i <= snap[s].index

\* The jobs of s with this key, and those made by this command.
WithKey(s, key) == {k \in DOMAIN jobs[s] : jobs[s][k].key = key}
MadeBy(s, i) == {k \in DOMAIN jobs[s] : jobs[s][k].cmd = i}

\* A key gets to the store with a job that is in memory, or after it.
KeyInv ==
    \A s \in Servers, key \in Keys :
        /\ key \in keys[s] =>
             \E k \in DOMAIN jobs[s] : jobs[s][k].key = key /\ jobs[s][k].status # "logged"
        /\ Cardinality(WithKey(s, key)) <= unkeyed[s] + (IF key \in keys[s] THEN 1 ELSE 0)

\* A command that is yet to be applied has made a job only before a restart.
OnceInv ==
    \A s \in Servers : \A i \in Nat :
        Cardinality(MadeBy(s, i)) <= restarts + (IF i <= applied[s] THEN 1 ELSE 0)

\* The limit of a server is that of the last command that set one among those it
\* has applied itself since it started.
LimitInv ==
    \A s \in Servers :
        LET set == {i \in Commands(s, "limit") \ skipped[s] : i > started[s]}
        IN  /\ set = {} => limit[s] = NoLimit
            /\ \A i \in set : (\A k \in set : k <= i) => limit[s] = log[i].limit

-----------------------------------------------------------------------------
(* Jobs *)

\* The jobs of a server are well formed, and those in flight have a lease.
Good(q) ==
    /\ q \in Seq(Job)
    /\ \A k \in 1 .. Len(q) : q[k].status = "inflight" => q[k].lease # 0

\* The first jobs of r are those of q, whatever became of them: none leaves memory.
Keeps(q, r) ==
    \A k \in 1 .. Len(q) : /\ r[k].cmd = q[k].cmd /\ r[k].key = q[k].key
                           /\ q[k].status # "logged" => r[k].status # "logged"

LEMMA GoodJobs == TypeOK => (LeaseInv <=> \A s \in Servers : Good(jobs[s]))
<1> SUFFICES ASSUME TypeOK PROVE LeaseInv <=> \A s \in Servers : Good(jobs[s])
  BY Zenon
<1>1. \A s \in Servers : jobs[s] \in Seq(Job) /\ DOMAIN jobs[s] = 1 .. Len(jobs[s])
  BY DEF TypeOK
<1> QED BY <1>1, Zenon DEF LeaseInv, Good

\* The operations on one job keep what it was made for.
LEMMA NackedJob ==
  ASSUME NEW job \in Job
  PROVE  /\ Nacked(job) \in Job /\ Nacked(job).status \in {"ready", "dlq"}
         /\ Nacked(job).cmd = job.cmd /\ Nacked(job).key = job.key
<1>1. job.tries + 1 \in Nat
  BY DEF Job
<1> QED BY <1>1, Zenon DEF Nacked, Job

LEMMA RecoveredJob ==
  ASSUME NEW job \in Job
  PROVE  /\ Recovered(job) \in Job /\ Recovered(job).status = "ready"
         /\ Recovered(job).cmd = job.cmd /\ Recovered(job).key = job.key
BY Zenon DEF Recovered, Job

LEMMA LeasedJob ==
  ASSUME NEW job \in Job, NEW id \in Nat \ {0}, NEW new,
         new = [job EXCEPT !.status = "inflight", !.lease = id]
  PROVE  /\ new \in Job /\ new.cmd = job.cmd /\ new.key = job.key /\ new.lease # 0
         /\ new.status = "inflight"
BY Zenon DEF Job

\* One job is replaced.
LEMMA ReplaceJob ==
  ASSUME NEW q, Good(q), NEW j, NEW job, NEW r, r = [q EXCEPT ![j] = job],
         j \in 1 .. Len(q) => /\ job \in Job /\ job.cmd = q[j].cmd /\ job.key = q[j].key
                              /\ job.status # "logged"
                              /\ job.status = "inflight" => job.lease # 0
  PROVE  Good(r) /\ Len(r) = Len(q) /\ Keeps(q, r)
<1>1. q \in Seq(Job) /\ DOMAIN q = 1 .. Len(q) /\ Len(q) \in Nat
  BY DEF Good
<1>2. \A k \in 1 .. Len(q) : q[k] \in Job
  BY <1>1
<1>3. r \in [1 .. Len(q) -> Job]
  BY <1>1, <1>2, Zenon
<1>4. r \in Seq(Job) /\ Len(r) = Len(q)
  BY <1>1, <1>3
<1>5. \A k \in 1 .. Len(q) : r[k] = IF k = j THEN job ELSE q[k]
  BY <1>1, Zenon
<1> QED BY <1>4, <1>5, Zenon DEF Good, Keeps

\* All jobs are replayed.
LEMMA RecoverJobs ==
  ASSUME NEW q, Good(q), NEW r, r = [k \in DOMAIN q |-> Recovered(q[k])]
  PROVE  Good(r) /\ Len(r) = Len(q) /\ Keeps(q, r)
<1>1. q \in Seq(Job) /\ DOMAIN q = 1 .. Len(q) /\ Len(q) \in Nat
  BY DEF Good
<1>2. \A k \in 1 .. Len(q) : q[k] \in Job /\ r[k] = Recovered(q[k])
  BY <1>1
<1>3. \A k \in 1 .. Len(q) : /\ r[k] \in Job /\ r[k].status = "ready"
                             /\ r[k].cmd = q[k].cmd /\ r[k].key = q[k].key
  <2> SUFFICES ASSUME NEW k \in 1 .. Len(q)
               PROVE  /\ r[k] \in Job /\ r[k].status = "ready"
                      /\ r[k].cmd = q[k].cmd /\ r[k].key = q[k].key
    BY Zenon
  <2>1. PICK job \in Job : job = q[k]
    BY <1>2, Zenon
  <2>2. r[k] = Recovered(job)
    BY <1>2, <2>1, Zenon
  <2> QED BY <2>1, <2>2, RecoveredJob, Zenon
<1>4. r \in [1 .. Len(q) -> Job]
  BY <1>1, <1>3, Zenon
<1>5. r \in Seq(Job) /\ Len(r) = Len(q)
  BY <1>1, <1>4
<1> QED BY <1>3, <1>5, Zenon DEF Good, Keeps

\* A job is added.
LEMMA AppendJob ==
  ASSUME NEW q, Good(q), NEW job \in Job, job.status # "inflight", NEW r, r = Append(q, job)
  PROVE  Good(r) /\ Len(r) = Len(q) + 1 /\ Keeps(q, r) /\ r[Len(q) + 1] = job
<1>1. q \in Seq(Job) /\ Len(q) \in Nat
  BY DEF Good
<1>2. /\ r \in Seq(Job) /\ Len(r) = Len(q) + 1 /\ r[Len(q) + 1] = job
      /\ \A k \in 1 .. Len(q) : r[k] = q[k]
  BY <1>1
<1>3. \A k \in 1 .. Len(r) : k \in 1 .. Len(q) \/ k = Len(q) + 1
  BY <1>1, <1>2
<1>4. \A k \in 1 .. Len(r) : r[k].status = "inflight" => r[k].lease # 0
  BY <1>2, <1>3, Zenon DEF Good
<1>5. Keeps(q, r)
  BY <1>2, Zenon DEF Keeps
<1> QED BY <1>2, <1>4, <1>5, Zenon DEF Good

-----------------------------------------------------------------------------
(* Commands *)

LEMMA CommandKinds ==
  ASSUME NEW cmd \in Enqueue \cup Settle \cup SetLimit
  PROVE  /\ cmd.type = "enqueue" => cmd.key \in Keys \cup {NoKey}
         /\ cmd.type = "limit" => cmd.limit \in Limits
BY Zenon DEF Enqueue, Settle, SetLimit

\* The command s applies next.
LEMMA NextCommand ==
  ASSUME TypeOK, NEW s \in Servers, applied[s] < Len(log)
  PROVE  /\ applied[s] + 1 \in 1 .. Len(log) /\ applied[s] \in Nat /\ Len(log) \in Nat
         /\ log[applied[s] + 1] \in Enqueue \cup Settle \cup SetLimit
<1>1. /\ log \in Seq(Enqueue \cup Settle \cup SetLimit) /\ Len(log) \in Nat
      /\ applied[s] \in 0 .. Len(log)
  BY DEF TypeOK
<1>2. applied[s] + 1 \in 1 .. Len(log) /\ applied[s] \in Nat
  BY <1>1
<1> QED BY <1>1, <1>2

LEMMA NewJobType ==
  ASSUME TypeOK, NEW s \in Servers, applied[s] < Len(log),
         log[applied[s] + 1].type = "enqueue", NEW job, job = NewJob(applied[s] + 1)
  PROVE  /\ job \in Job /\ job.status = "ready"
         /\ job.cmd = applied[s] + 1 /\ job.key = log[applied[s] + 1].key
<1>1. applied[s] + 1 \in Nat \ {0}
  BY NextCommand
<1>2. log[applied[s] + 1].key \in Keys \cup {NoKey}
  BY NextCommand, CommandKinds, Zenon
<1> QED BY <1>1, <1>2, Zenon DEF NewJob, Job

\* A caller who has the lease of a job settles it under that lease.
LEMMA SettlementType ==
  ASSUME TypeOK, LeaseInv, NEW s \in Servers, NEW cmd \in Settlements(s)
  PROVE  cmd \in Settle
<1>1. PICK type \in {"ack", "nack"}, k \in {k \in DOMAIN jobs[s] : jobs[s][k].status = "inflight"} :
        cmd = [type |-> type, server |-> s, job |-> k, lease |-> jobs[s][k].lease]
  BY DEF Settlements
<1>2. jobs[s] \in Seq(Job) /\ k \in 1 .. Len(jobs[s]) /\ jobs[s][k].lease # 0
  BY <1>1 DEF TypeOK, LeaseInv
<1>3. jobs[s][k] \in Job /\ k \in Nat \ {0}
  BY <1>2
<1>4. jobs[s][k].lease \in Nat \ {0}
  BY <1>2, <1>3, Zenon DEF Job
<1> QED BY <1>1, <1>3, <1>4, Zenon DEF Settle

-----------------------------------------------------------------------------
(* What a step does to a server *)

KeyKept(s, key, status) ==
    \/ /\ keys'[s] = keys[s] \cup ({key} \ {NoKey}) /\ unkeyed'[s] = unkeyed[s]
       /\ key # NoKey => status # "logged"
    \/ keys'[s] = keys[s] /\ unkeyed'[s] = unkeyed[s] + 1

\* A step makes no job for s, or one for the command s applies next, whose key
\* is not in the store; the key is then stored, and the job is in memory, or the
\* job is counted as one without it.
JobStep(s) ==
    /\ Keeps(jobs[s], jobs'[s])
    /\ \/ /\ Len(jobs'[s]) = Len(jobs[s])
          /\ keys'[s] = keys[s] /\ unkeyed'[s] = unkeyed[s]
       \/ /\ Len(jobs'[s]) = Len(jobs[s]) + 1
          /\ jobs'[s][Len(jobs[s]) + 1].cmd = applied[s] + 1
          /\ jobs'[s][Len(jobs[s]) + 1].key = log[applied[s] + 1].key
          /\ log[applied[s] + 1].key \notin keys[s]
          /\ KeyKept(s, log[applied[s] + 1].key, jobs'[s][Len(jobs[s]) + 1].status)
          /\ applied'[s] = applied[s] + 1 \/ restarts' = restarts + 1

\* s goes back in the log only by a restart.
Progress(s) ==
    \/ restarts' = restarts /\ applied[s] <= applied'[s]
    \/ restarts' = restarts + 1

\* An enqueue command that s now has applied made a job or found its key.
Covers(s) ==
    /\ refused[s] \subseteq refused'[s] /\ skipped[s] \subseteq skipped'[s]
    /\ \A i \in 1 .. applied'[s] :
         \/ i \in 1 .. applied[s] \/ i \in refused'[s] \/ i \in skipped'[s]
         \/ /\ i = applied[s] + 1 /\ i \in 1 .. Len(log)
            /\ \/ log[i].type # "enqueue" \/ log[i].key \in keys[s]
               \/ /\ Len(jobs'[s]) = Len(jobs[s]) + 1
                  /\ jobs'[s][Len(jobs[s]) + 1].status # "logged"

\* The limit of s is that of the command it applied, or as it was; a restart
\* forgets it.
LimitStep(s) ==
    \/ /\ applied'[s] = applied[s] + 1 /\ applied[s] + 1 \in 1 .. Len(log)
       /\ log[applied[s] + 1].type = "limit"
       /\ limit'[s] = log[applied[s] + 1].limit
       /\ started'[s] = started[s] /\ skipped'[s] = skipped[s]
    \/ /\ limit'[s] = limit[s] /\ started'[s] = started[s]
       /\ applied[s] <= applied'[s] /\ skipped[s] \subseteq skipped'[s]
       /\ \A i \in skipped'[s] : i \in skipped[s] \/ i > applied[s]
       /\ \A i \in 1 .. applied'[s] :
            \/ i \in 1 .. applied[s] \/ i \in skipped'[s]
            \/ i \in 1 .. Len(log) /\ log[i].type # "limit"
    \/ limit'[s] = NoLimit /\ started'[s] = applied'[s]

LogGrows ==
    Len(log) <= Len(log') /\ \A i \in 1 .. Len(log) : log'[i] = log[i]

StepOf(s) == JobStep(s) /\ Progress(s) /\ Covers(s) /\ LimitStep(s)

\* The facts about a server that a step finds.
LEMMA ServerTypes ==
  ASSUME TypeOK, NEW s \in Servers
  PROVE  /\ applied[s] \in Nat /\ started[s] \in Nat /\ snap[s].index \in Nat /\ Len(log) \in Nat
         /\ applied[s] <= Len(log) /\ started[s] <= Len(log) /\ snap[s].index <= Len(log)
         /\ Len(jobs[s]) \in Nat /\ unkeyed[s] \in Nat /\ restarts \in Nat
         /\ refused[s] \subseteq 1 .. Len(log) /\ skipped[s] \subseteq 1 .. Len(log)
         /\ keys[s] \subseteq Keys
<1>1. /\ log \in Seq(Enqueue \cup Settle \cup SetLimit)
      /\ applied[s] \in 0 .. Len(log) /\ started[s] \in 0 .. Len(log)
      /\ snap[s].index \in 0 .. Len(log)
      /\ jobs[s] \in Seq(Job) /\ unkeyed[s] \in Nat /\ restarts \in 0 .. MaxRestarts
      /\ refused[s] \subseteq 1 .. Len(log) /\ skipped[s] \subseteq 1 .. Len(log)
      /\ keys[s] \subseteq Keys
  BY Zenon DEF TypeOK
<1>2. Len(log) \in Nat /\ Len(jobs[s]) \in Nat
  BY <1>1
<1>3. restarts \in Nat
  BY <1>1
<1> QED BY <1>1, <1>2, <1>3

\* A server that makes no job and stays where it is in the log.
LEMMA StepIdle ==
  ASSUME TypeOK, NEW s \in Servers, restarts' = restarts \/ restarts' = restarts + 1,
         Len(jobs'[s]) = Len(jobs[s]), Keeps(jobs[s], jobs'[s]),
         keys'[s] = keys[s], unkeyed'[s] = unkeyed[s],
         applied'[s] = applied[s], refused'[s] = refused[s], skipped'[s] = skipped[s],
         limit'[s] = limit[s], started'[s] = started[s]
  PROVE  StepOf(s)
<1>1. applied[s] \in Nat /\ applied[s] <= applied'[s]
  BY ServerTypes
<1>2. JobStep(s)
  BY Zenon DEF JobStep
<1>3. Progress(s)
  BY <1>1, Zenon DEF Progress
<1>4. Covers(s)
  BY Zenon DEF Covers
<1>5. LimitStep(s)
  BY <1>1, Zenon DEF LimitStep
<1> QED BY <1>2, <1>3, <1>4, <1>5, Zenon DEF StepOf

\* The jobs of one server change.
LEMMA JobsUpdate ==
  ASSUME TypeOK, LeaseInv, NEW s \in Servers, NEW q, Good(q), jobs' = [jobs EXCEPT ![s] = q]
  PROVE  /\ jobs' \in [Servers -> Seq(Job)] /\ LeaseInv'
         /\ jobs'[s] = q /\ \A t \in Servers : t # s => jobs'[t] = jobs[t]
<1>1. jobs \in [Servers -> Seq(Job)] /\ q \in Seq(Job)
  BY Zenon DEF TypeOK, Good
<1>2. /\ jobs' \in [Servers -> Seq(Job)]
      /\ jobs'[s] = q /\ \A t \in Servers : t # s => jobs'[t] = jobs[t]
  BY <1>1, Zenon
<1>3. DOMAIN q = 1 .. Len(q)
  BY <1>1
<1>4. LeaseInv'
  BY <1>2, <1>3, Zenon DEF LeaseInv, Good
<1> QED BY <1>2, <1>4, Zenon

\* Applying a command.
LEMMA AppliesEffect ==
  ASSUME TypeOK, IndexInv, NEW s \in Servers, NEW type, Applies(s, type)
  PROVE  /\ applied' \in [Servers -> 0 .. Len(log)] /\ IndexInv'
         /\ applied[s] < Len(log) /\ log[applied[s] + 1].type = type
         /\ applied'[s] = applied[s] + 1
         /\ \A t \in Servers : t # s => applied'[t] = applied[t]
         /\ UNCHANGED <<log, snap, leases, restarts, started, skipped>>
<1>1. /\ applied[s] < Len(log) /\ log[applied[s] + 1].type = type
      /\ applied' = [applied EXCEPT ![s] = @ + 1]
      /\ UNCHANGED <<log, snap, leases, restarts, started, skipped>>
  BY Zenon DEF Applies, raft
<1>2. applied \in [Servers -> 0 .. Len(log)]
  BY Zenon DEF TypeOK
<1>3. applied[s] \in Nat /\ applied[s] + 1 \in 0 .. Len(log)
  BY <1>1, NextCommand
<1>4. /\ applied' \in [Servers -> 0 .. Len(log)] /\ applied'[s] = applied[s] + 1
      /\ \A t \in Servers : t # s => applied'[t] = applied[t]
  BY <1>1, <1>2, <1>3, Zenon
<1>5. \A t \in Servers : snap[t].index <= applied'[t] /\ started[t] <= applied'[t]
  <2>1. \A t \in Servers : snap[t].index <= applied[t] /\ started[t] <= applied[t]
    BY Zenon DEF IndexInv
  <2>2. snap[s].index \in Nat /\ started[s] \in Nat
    BY ServerTypes, Zenon
  <2>3. snap[s].index <= applied[s] + 1 /\ started[s] <= applied[s] + 1
    BY <1>3, <2>1, <2>2
  <2> QED BY <1>4, <2>1, <2>3, Zenon
<1>6. IndexInv'
  BY <1>1, <1>5, Zenon DEF IndexInv
<1> QED BY <1>1, <1>4, <1>6, Zenon

-----------------------------------------------------------------------------
(* The commands *)

\* What is shown of every step.
Stepped ==
    /\ TypeOK' /\ LeaseInv' /\ IndexInv' /\ LogGrows
    /\ \A s \in Servers : StepOf(s)

\* The jobs a step leaves alone.
LEMMA SameJobs ==
  ASSUME NEW s, jobs'[s] = jobs[s]
  PROVE  Len(jobs'[s]) = Len(jobs[s]) /\ Keeps(jobs[s], jobs'[s])
BY Zenon DEF Keeps

LEMMA SameLog == log' = log /\ TypeOK => LogGrows
<1> SUFFICES ASSUME log' = log, TypeOK PROVE LogGrows
  BY Zenon
<1>1. Len(log) \in Nat
  BY DEF TypeOK
<1>2. Len(log) <= Len(log)
  BY <1>1
<1> QED BY <1>2, Zenon DEF LogGrows

\* One more fault.
LEMMA FaultType ==
  ASSUME TypeOK, UNCHANGED faults \/ Fault
  PROVE  faults' \in 0 .. MaxFaults
<1>1. faults \in 0 .. MaxFaults
  BY Zenon DEF TypeOK
<1>2. CASE Fault
  <2>1. faults < MaxFaults /\ faults' = faults + 1 /\ MaxFaults \in Nat
    BY <1>2, ReplicationAssumption, Zenon DEF Fault
  <2> QED BY <1>1, <2>1
<1> QED BY <1>1, <1>2, Zenon

\* One command is applied: what is left to show of it.
LEMMA ApplyStep ==
  ASSUME TypeOK, LeaseInv, IndexInv, NEW s \in Servers, NEW type, Applies(s, type),
         jobs' \in [Servers -> Seq(Job)], LeaseInv',
         keys' \in [Servers -> SUBSET Keys], limit' \in [Servers -> Limits \cup {NoLimit}],
         UNCHANGED faults \/ Fault,
         refused' \in [Servers -> SUBSET (1 .. Len(log))], unkeyed' \in [Servers -> Nat],
         \A t \in Servers : t # s => /\ jobs'[t] = jobs[t] /\ keys'[t] = keys[t]
                                     /\ limit'[t] = limit[t] /\ refused'[t] = refused[t]
                                     /\ unkeyed'[t] = unkeyed[t],
         JobStep(s), Covers(s), LimitStep(s)
  PROVE  Stepped
<1>1. /\ applied' \in [Servers -> 0 .. Len(log)] /\ IndexInv'
      /\ applied'[s] = applied[s] + 1
      /\ \A t \in Servers : t # s => applied'[t] = applied[t]
      /\ UNCHANGED <<log, snap, leases, restarts, started, skipped>>
  BY AppliesEffect, Zenon
<1>2. TypeOK'
  BY <1>1, FaultType, Zenon DEF TypeOK
<1>3. LogGrows
  BY <1>1, SameLog, Zenon
<1>4. Progress(s)
  <2>1. applied[s] <= applied[s] + 1
    BY ServerTypes
  <2> QED BY <1>1, <2>1, Zenon DEF Progress
<1>5. \A t \in Servers : t # s => StepOf(t)
  BY <1>1, StepIdle, SameJobs, Zenon
<1>6. StepOf(s)
  BY <1>4, Zenon DEF StepOf
<1> QED BY <1>1, <1>2, <1>3, <1>5, <1>6, Zenon DEF Stepped

\* A command that is no limit leaves the limit alone.
LEMMA NoLimitStep ==
  ASSUME TypeOK, IndexInv, NEW s \in Servers, NEW type, Applies(s, type), type # "limit",
         limit' = limit
  PROVE  LimitStep(s)
<1>1. /\ applied'[s] = applied[s] + 1 /\ log[applied[s] + 1].type # "limit"
      /\ started' = started /\ skipped' = skipped /\ applied[s] < Len(log)
  BY AppliesEffect, Zenon
<1>2. applied[s] \in Nat /\ applied[s] + 1 \in 1 .. Len(log)
  BY <1>1, NextCommand, Zenon
<1>3. applied[s] <= applied'[s] /\ \A i \in 1 .. applied'[s] : i \in 1 .. applied[s] \/ i = applied[s] + 1
  BY <1>1, <1>2
<1> QED BY <1>1, <1>2, <1>3, Zenon DEF LimitStep

\* A command that s applies is covered, if it is no enqueue.
LEMMA CoveredOne ==
  ASSUME TypeOK, IndexInv, NEW s \in Servers, NEW type, Applies(s, type),
         refused[s] \subseteq refused'[s],
         \/ type # "enqueue" \/ applied[s] + 1 \in refused'[s]
         \/ log[applied[s] + 1].key \in keys[s]
         \/ /\ Len(jobs'[s]) = Len(jobs[s]) + 1
            /\ jobs'[s][Len(jobs[s]) + 1].status # "logged"
  PROVE  Covers(s)
<1>1. /\ applied'[s] = applied[s] + 1 /\ log[applied[s] + 1].type = type
      /\ skipped' = skipped /\ applied[s] < Len(log)
  BY AppliesEffect, Zenon
<1>2. applied[s] \in Nat /\ applied[s] + 1 \in 1 .. Len(log)
  BY <1>1, NextCommand, Zenon
<1>3. \A i \in 1 .. applied'[s] : i \in 1 .. applied[s] \/ i = applied[s] + 1
  BY <1>1, <1>2
<1> QED BY <1>1, <1>2, <1>3, Zenon DEF Covers

\* applyEnqueue finds the key, or the manager refuses the command.
LEMMA EnqueueNoJob ==
  ASSUME TypeOK, LeaseInv, IndexInv, NEW s \in Servers, Applies(s, "enqueue"), limit' = limit,
         \/ HasKey(s, log[applied[s] + 1].key) /\ UNCHANGED <<jobs, keys, faults, refused, unkeyed>>
         \/ Failed(s) \/ RateLimited(s)
  PROVE  Stepped
<1>1. UNCHANGED <<jobs, keys, unkeyed>> /\ (UNCHANGED faults \/ Fault)
  BY Zenon DEF Failed, RateLimited
<1>2. /\ applied[s] + 1 \in 1 .. Len(log)
      /\ refused \in [Servers -> SUBSET (1 .. Len(log))]
  BY AppliesEffect, NextCommand, Zenon DEF TypeOK
<1>3. /\ refused' \in [Servers -> SUBSET (1 .. Len(log))] /\ refused[s] \subseteq refused'[s]
      /\ \A t \in Servers : t # s => refused'[t] = refused[t]
      /\ applied[s] + 1 \in refused'[s] \/ log[applied[s] + 1].key \in keys[s]
  BY <1>2, Zenon DEF Failed, RateLimited, Refuses, HasKey
<1>4. /\ jobs \in [Servers -> Seq(Job)] /\ keys \in [Servers -> SUBSET Keys]
      /\ limit \in [Servers -> Limits \cup {NoLimit}] /\ unkeyed \in [Servers -> Nat]
  BY Zenon DEF TypeOK
<1>5. LeaseInv'
  BY <1>1, Zenon DEF LeaseInv
<1>6. JobStep(s)
  BY <1>1, SameJobs, Zenon DEF JobStep
<1>7. Covers(s)
  BY <1>3, CoveredOne, Zenon
<1>8. LimitStep(s)
  BY NoLimitStep, Zenon
<1> QED BY <1>1, <1>3, <1>4, <1>5, <1>6, <1>7, <1>8, ApplyStep, Zenon

\* The manager logs a job, and keeps it in memory or refuses the command.
LEMMA EnqueueJob ==
  ASSUME TypeOK, LeaseInv, IndexInv, NEW s \in Servers, Applies(s, "enqueue"), limit' = limit,
         ~HasKey(s, log[applied[s] + 1].key),
         NEW job \in Job, job.status # "inflight",
         job.cmd = applied[s] + 1, job.key = log[applied[s] + 1].key,
         jobs' = [jobs EXCEPT ![s] = Append(jobs[s], job)],
         keys' \in [Servers -> SUBSET Keys], unkeyed' \in [Servers -> Nat],
         \A t \in Servers : t # s => keys'[t] = keys[t] /\ unkeyed'[t] = unkeyed[t],
         KeyKept(s, job.key, job.status),
         refused' \in [Servers -> SUBSET (1 .. Len(log))], refused[s] \subseteq refused'[s],
         \A t \in Servers : t # s => refused'[t] = refused[t],
         job.status # "logged" \/ applied[s] + 1 \in refused'[s],
         UNCHANGED faults \/ Fault
  PROVE  Stepped
<1>0. applied'[s] = applied[s] + 1
  BY AppliesEffect, Zenon
<1>1. Good(jobs[s])
  BY GoodJobs, Zenon
<1>2. /\ Good(Append(jobs[s], job)) /\ Len(Append(jobs[s], job)) = Len(jobs[s]) + 1
      /\ Keeps(jobs[s], Append(jobs[s], job)) /\ Append(jobs[s], job)[Len(jobs[s]) + 1] = job
  <2> DEFINE q == jobs[s]
             r == Append(q, job)
  <2>1. Good(q) /\ r = Append(q, job)
    BY <1>1, Zenon
  <2> HIDE DEF q, r
  <2>2. Good(r) /\ Len(r) = Len(q) + 1 /\ Keeps(q, r) /\ r[Len(q) + 1] = job
    BY <2>1, AppendJob, Zenon
  <2> QED BY <2>2, Zenon DEF q, r
<1>3. /\ jobs' \in [Servers -> Seq(Job)] /\ LeaseInv'
      /\ jobs'[s] = Append(jobs[s], job) /\ \A t \in Servers : t # s => jobs'[t] = jobs[t]
  BY <1>2, JobsUpdate, Zenon
<1>4. /\ Keeps(jobs[s], jobs'[s]) /\ Len(jobs'[s]) = Len(jobs[s]) + 1
      /\ jobs'[s][Len(jobs[s]) + 1] = job
  BY <1>2, <1>3, Zenon
<1>5. JobStep(s)
  BY <1>0, <1>4, Zenon DEF JobStep, HasKey
<1>6. Covers(s)
  BY <1>4, CoveredOne, Zenon
<1>7. LimitStep(s)
  BY NoLimitStep, Zenon
<1>8. limit' \in [Servers -> Limits \cup {NoLimit}]
  BY Zenon DEF TypeOK
<1> QED BY <1>3, <1>5, <1>6, <1>7, <1>8, ApplyStep, Zenon

\* The key of a job is stored, or is not.
LEMMA KeyEffect ==
  ASSUME TypeOK, NEW s \in Servers, NEW key \in Keys \cup {NoKey}, NEW status,
         \/ Stored(s, key) /\ UNCHANGED unkeyed /\ status # "logged"
         \/ NotStored(s, key)
  PROVE  /\ keys' \in [Servers -> SUBSET Keys] /\ unkeyed' \in [Servers -> Nat]
         /\ \A t \in Servers : t # s => keys'[t] = keys[t] /\ unkeyed'[t] = unkeyed[t]
         /\ KeyKept(s, key, status)
<1>0. keys \in [Servers -> SUBSET Keys] /\ unkeyed \in [Servers -> Nat]
  BY Zenon DEF TypeOK
<1>1. CASE Stored(s, key) /\ UNCHANGED unkeyed /\ status # "logged"
  BY <1>0, <1>1, Zenon DEF Stored, KeyKept
<1>2. CASE NotStored(s, key)
  <2>1. unkeyed[s] + 1 \in Nat
    BY <1>0
  <2>2. CASE key = NoKey
    BY <1>0, <1>2, <2>2, Zenon DEF NotStored, KeyKept
  <2>3. CASE key # NoKey
    BY <1>0, <1>2, <2>1, <2>3, Zenon DEF NotStored, KeyKept
  <2> QED BY <2>2, <2>3, Zenon
<1> QED BY <1>1, <1>2, Zenon

LEMMA AcceptedStep ==
  ASSUME TypeOK, LeaseInv, IndexInv, NEW s \in Servers, Applies(s, "enqueue"), limit' = limit,
         ~HasKey(s, log[applied[s] + 1].key), Accepted(s)
  PROVE  Stepped
<1> DEFINE key == log[applied[s] + 1].key
<1>0. applied[s] < Len(log) /\ log[applied[s] + 1].type = "enqueue"
  BY AppliesEffect, Zenon
<1>1. PICK job : job = NewJob(applied[s] + 1)
  BY Zenon
<1>2. /\ jobs' = [jobs EXCEPT ![s] = Append(jobs[s], job)]
      /\ (Stored(s, key) /\ UNCHANGED unkeyed) \/ NotStored(s, key)
      /\ UNCHANGED refused /\ (UNCHANGED faults \/ Fault)
  BY <1>1, Zenon DEF Accepted
<1>3. job \in Job /\ job.status = "ready" /\ job.cmd = applied[s] + 1 /\ job.key = key
  BY <1>0, <1>1, NewJobType, Zenon
<1>4. key \in Keys \cup {NoKey}
  BY <1>0, NextCommand, CommandKinds, Zenon
<1>5. job.status # "logged" /\ job.status # "inflight"
  BY <1>3, Zenon
<1>6. /\ keys' \in [Servers -> SUBSET Keys] /\ unkeyed' \in [Servers -> Nat]
      /\ \A t \in Servers : t # s => keys'[t] = keys[t] /\ unkeyed'[t] = unkeyed[t]
      /\ KeyKept(s, job.key, job.status)
  BY <1>2, <1>3, <1>4, <1>5, KeyEffect, Zenon
<1>7. refused' \in [Servers -> SUBSET (1 .. Len(log))]
  BY <1>2, Zenon DEF TypeOK
<1> QED BY <1>2, <1>3, <1>5, <1>6, <1>7, EnqueueJob, Zenon

LEMMA LoggedOnlyStep ==
  ASSUME TypeOK, LeaseInv, IndexInv, NEW s \in Servers, Applies(s, "enqueue"), limit' = limit,
         ~HasKey(s, log[applied[s] + 1].key), LoggedOnly(s)
  PROVE  Stepped
<1> DEFINE key == log[applied[s] + 1].key
<1>0. applied[s] < Len(log) /\ log[applied[s] + 1].type = "enqueue"
  BY AppliesEffect, Zenon
<1>1. PICK job : job = [NewJob(applied[s] + 1) EXCEPT !.status = "logged"]
  BY Zenon
<1>2. /\ jobs' = [jobs EXCEPT ![s] = Append(jobs[s], job)]
      /\ NotStored(s, key) /\ Fault
      /\ refused' = [refused EXCEPT ![s] = @ \cup {applied[s] + 1}]
  BY <1>1, Zenon DEF LoggedOnly, Refuses
<1>3. job \in Job /\ job.status = "logged" /\ job.cmd = applied[s] + 1 /\ job.key = key
  <2>1. PICK new : new = NewJob(applied[s] + 1)
    BY Zenon
  <2>2. new \in Job /\ new.cmd = applied[s] + 1 /\ new.key = key
    BY <1>0, <2>1, NewJobType, Zenon
  <2>3. job = [new EXCEPT !.status = "logged"]
    BY <1>1, <2>1, Zenon
  <2> QED BY <2>2, <2>3, Zenon DEF Job
<1>4. key \in Keys \cup {NoKey}
  BY <1>0, NextCommand, CommandKinds, Zenon
<1>5. job.status # "inflight"
  BY <1>3, Zenon
<1>6. /\ keys' \in [Servers -> SUBSET Keys] /\ unkeyed' \in [Servers -> Nat]
      /\ \A t \in Servers : t # s => keys'[t] = keys[t] /\ unkeyed'[t] = unkeyed[t]
      /\ KeyKept(s, job.key, job.status)
  BY <1>2, <1>3, <1>4, KeyEffect, Zenon
<1>7. /\ refused' \in [Servers -> SUBSET (1 .. Len(log))] /\ refused[s] \subseteq refused'[s]
      /\ applied[s] + 1 \in refused'[s] /\ \A t \in Servers : t # s => refused'[t] = refused[t]
  <2>1. applied[s] + 1 \in 1 .. Len(log) /\ refused \in [Servers -> SUBSET (1 .. Len(log))]
    BY <1>0, NextCommand, Zenon DEF TypeOK
  <2> QED BY <1>2, <2>1, Zenon
<1> QED BY <1>2, <1>3, <1>5, <1>6, <1>7, EnqueueJob, Zenon

\* applyAck and applyNack settle at most one job.
LEMMA SettleStep ==
  ASSUME TypeOK, LeaseInv, IndexInv, NEW s \in Servers, applyAck(s) \/ applyNack(s)
  PROVE  Stepped
<1> DEFINE cmd == log[applied[s] + 1]
           job == jobs[s][cmd.job]
           acked == [job EXCEPT !.status = "acked"]
<1>1. PICK type \in {"ack", "nack"} : Applies(s, type)
  BY Zenon DEF applyAck, applyNack
<1>2. UNCHANGED <<keys, limit, faults, refused, unkeyed>>
  BY Zenon DEF applyAck, applyNack
<1>3. \/ jobs' = jobs
      \/ jobs' = [jobs EXCEPT ![s] = [jobs[s] EXCEPT ![cmd.job] = acked]]
      \/ jobs' = [jobs EXCEPT ![s] = [jobs[s] EXCEPT ![cmd.job] = Nacked(job)]]
  BY Zenon DEF applyAck, applyNack
<1>4. Good(jobs[s]) /\ jobs[s] \in Seq(Job)
  BY GoodJobs, Zenon DEF TypeOK
<1>5. cmd.job \in 1 .. Len(jobs[s]) =>
        /\ acked \in Job /\ acked.status = "acked"
        /\ acked.cmd = job.cmd /\ acked.key = job.key
        /\ Nacked(job) \in Job /\ Nacked(job).status \in {"ready", "dlq"}
        /\ Nacked(job).cmd = job.cmd /\ Nacked(job).key = job.key
  <2> SUFFICES ASSUME cmd.job \in 1 .. Len(jobs[s]) PROVE <1>5!2
    BY Zenon
  <2>1. job \in Job
    BY <1>4
  <2>2. /\ acked \in Job /\ acked.status = "acked"
        /\ acked.cmd = job.cmd /\ acked.key = job.key
    BY <2>1, Zenon DEF Job
  <2> QED BY <2>1, <2>2, NackedJob, Zenon
<1>6. ASSUME NEW new, jobs' = [jobs EXCEPT ![s] = [jobs[s] EXCEPT ![cmd.job] = new]],
             cmd.job \in 1 .. Len(jobs[s]) =>
               /\ new \in Job /\ new.cmd = job.cmd /\ new.key = job.key
               /\ new.status # "logged"
               /\ new.status = "inflight" => new.lease # 0
      PROVE  /\ jobs' \in [Servers -> Seq(Job)] /\ LeaseInv'
             /\ \A t \in Servers : t # s => jobs'[t] = jobs[t]
             /\ Len(jobs'[s]) = Len(jobs[s]) /\ Keeps(jobs[s], jobs'[s])
  <2> DEFINE q == [jobs[s] EXCEPT ![cmd.job] = new]
  <2>1. Good(q) /\ Len(q) = Len(jobs[s]) /\ Keeps(jobs[s], q)
    BY <1>4, <1>6, ReplaceJob, Zenon
  <2>2. jobs' = [jobs EXCEPT ![s] = q]
    BY <1>6, Zenon
  <2> HIDE DEF q
  <2> QED BY <2>1, <2>2, JobsUpdate, Zenon
<1>7. /\ jobs' \in [Servers -> Seq(Job)] /\ LeaseInv'
      /\ \A t \in Servers : t # s => jobs'[t] = jobs[t]
      /\ Len(jobs'[s]) = Len(jobs[s]) /\ Keeps(jobs[s], jobs'[s])
  <2>1. CASE jobs' = jobs
    BY <2>1, SameJobs, Zenon DEF TypeOK, LeaseInv
  <2>2. CASE jobs' = [jobs EXCEPT ![s] = [jobs[s] EXCEPT ![cmd.job] = acked]]
    <3> HIDE DEF acked, job
    <3> QED BY <1>5, <1>6, <2>2, Zenon
  <2>3. CASE jobs' = [jobs EXCEPT ![s] = [jobs[s] EXCEPT ![cmd.job] = Nacked(job)]]
    <3> HIDE DEF acked, job
    <3> QED BY <1>5, <1>6, <2>3, Zenon
  <2> QED BY <1>3, <2>1, <2>2, <2>3, Zenon
<1>8. JobStep(s)
  BY <1>2, <1>7, Zenon DEF JobStep
<1>9. Covers(s)
  BY <1>1, <1>2, CoveredOne, Zenon
<1>10. LimitStep(s)
  BY <1>1, <1>2, NoLimitStep, Zenon
<1>11. /\ keys' \in [Servers -> SUBSET Keys] /\ limit' \in [Servers -> Limits \cup {NoLimit}]
       /\ refused' \in [Servers -> SUBSET (1 .. Len(log))] /\ unkeyed' \in [Servers -> Nat]
  BY <1>2, Zenon DEF TypeOK
<1> QED BY <1>1, <1>2, <1>7, <1>8, <1>9, <1>10, <1>11, ApplyStep, Zenon

LEMMA LimitCommand ==
  ASSUME TypeOK, LeaseInv, IndexInv, NEW s \in Servers, applySetRateLimit(s)
  PROVE  Stepped
<1>1. /\ Applies(s, "limit")
      /\ limit' = [limit EXCEPT ![s] = log[applied[s] + 1].limit]
      /\ UNCHANGED <<jobs, keys, faults, refused, unkeyed>>
  BY Zenon DEF applySetRateLimit
<1>2. /\ applied[s] < Len(log) /\ log[applied[s] + 1].type = "limit"
      /\ applied'[s] = applied[s] + 1 /\ started' = started /\ skipped' = skipped
  BY <1>1, AppliesEffect, Zenon
<1>3. log[applied[s] + 1].limit \in Limits /\ applied[s] + 1 \in 1 .. Len(log)
  BY <1>2, NextCommand, CommandKinds, Zenon
<1>4. /\ jobs \in [Servers -> Seq(Job)] /\ keys \in [Servers -> SUBSET Keys]
      /\ limit \in [Servers -> Limits \cup {NoLimit}] /\ unkeyed \in [Servers -> Nat]
      /\ refused \in [Servers -> SUBSET (1 .. Len(log))]
  BY Zenon DEF TypeOK
<1>5. /\ limit' \in [Servers -> Limits \cup {NoLimit}] /\ limit'[s] = log[applied[s] + 1].limit
      /\ \A t \in Servers : t # s => limit'[t] = limit[t]
  BY <1>1, <1>3, <1>4, Zenon
<1>6. LeaseInv'
  BY <1>1, Zenon DEF LeaseInv
<1>7. JobStep(s)
  BY <1>1, SameJobs, Zenon DEF JobStep
<1>8. Covers(s)
  BY <1>1, CoveredOne, Zenon
<1>9. LimitStep(s)
  BY <1>2, <1>3, <1>5, Zenon DEF LimitStep
<1> QED BY <1>1, <1>4, <1>5, <1>6, <1>7, <1>8, <1>9, ApplyStep, Zenon

-----------------------------------------------------------------------------
(* The process and Raft *)

\* Lease
LEMMA LeaseStep ==
  ASSUME TypeOK, LeaseInv, IndexInv, NEW s \in Servers, NEW k, Lease(s, k)
  PROVE  Stepped
<1> DEFINE job == jobs[s][k]
           new == [job EXCEPT !.status = "inflight", !.lease = leases + 1]
           q == [jobs[s] EXCEPT ![k] = new]
<1>1. /\ k \in DOMAIN jobs[s] /\ leases < MaxLeases /\ leases' = leases + 1
      /\ jobs' = [jobs EXCEPT ![s][k].status = "inflight", ![s][k].lease = leases + 1]
      /\ UNCHANGED <<log, snap, applied, keys, limit, restarts, faults, started, refused,
                     skipped, unkeyed>>
  BY Zenon DEF Lease, raft, history
<1>2. leases + 1 \in 0 .. MaxLeases /\ leases + 1 \in Nat \ {0}
  <2>1. leases \in 0 .. MaxLeases /\ MaxLeases \in Nat
    BY ReplicationAssumption, Zenon DEF TypeOK
  <2> QED BY <1>1, <2>1
<1>3. /\ jobs \in [Servers -> Seq(Job)] /\ jobs[s] \in Seq(Job) /\ DOMAIN jobs[s] = 1 .. Len(jobs[s])
      /\ Good(jobs[s])
  BY GoodJobs DEF TypeOK
<1>4. job \in Job
  BY <1>1, <1>3
<1>5. jobs' = [jobs EXCEPT ![s] = q]
  BY <1>1, <1>3, <1>4, Zenon DEF Job
<1>6. /\ new \in Job /\ new.cmd = job.cmd /\ new.key = job.key /\ new.lease # 0
      /\ new.status = "inflight"
  <2> HIDE DEF job
  <2> QED BY <1>2, <1>4, LeasedJob, Zenon
<1>7. Good(q) /\ Len(q) = Len(jobs[s]) /\ Keeps(jobs[s], q)
  <2> HIDE DEF new
  <2> QED BY <1>3, <1>6, ReplaceJob, Zenon
<1> HIDE DEF q, new, job
<1>8. /\ jobs' \in [Servers -> Seq(Job)] /\ LeaseInv'
      /\ jobs'[s] = q /\ \A t \in Servers : t # s => jobs'[t] = jobs[t]
  BY <1>5, <1>7, JobsUpdate, Zenon
<1>9. TypeOK'
  BY <1>1, <1>2, <1>8, Zenon DEF TypeOK
<1>10. IndexInv'
  BY <1>1, Zenon DEF IndexInv
<1>11. \A t \in Servers : Len(jobs'[t]) = Len(jobs[t]) /\ Keeps(jobs[t], jobs'[t])
  BY <1>7, <1>8, SameJobs, Zenon
<1>12. \A t \in Servers : StepOf(t)
  BY <1>1, <1>11, StepIdle, Zenon
<1>13. LogGrows
  BY <1>1, SameLog, Zenon
<1> QED BY <1>8, <1>9, <1>10, <1>12, <1>13, Zenon DEF Stepped

\* A restart, with the jobs and the keys it finds.
LEMMA StartStep ==
  ASSUME TypeOK, LeaseInv, IndexInv, NEW s \in Servers, Starts(s),
         jobs' \in [Servers -> Seq(Job)], LeaseInv',
         \A t \in Servers : t # s => jobs'[t] = jobs[t],
         keys' = keys, unkeyed' \in [Servers -> Nat],
         \A t \in Servers : t # s => unkeyed'[t] = unkeyed[t],
         restarts' = restarts + 1 => JobStep(s)
  PROVE  Stepped
<1>1. /\ restarts < MaxRestarts /\ restarts' = restarts + 1
      /\ applied' = [applied EXCEPT ![s] = snap[s].index]
      /\ started' = [started EXCEPT ![s] = snap[s].index]
      /\ limit' = [limit EXCEPT ![s] = Restored(snap[s], NoLimit)]
      /\ UNCHANGED <<log, snap, leases, faults, refused, skipped>>
  BY Zenon DEF Starts, raft
<1>2. Restored(snap[s], NoLimit) = NoLimit
  BY Zenon DEF Restored, Decoded, NoSnapshot
<1>3. restarts' \in 0 .. MaxRestarts
  <2>1. restarts \in 0 .. MaxRestarts /\ MaxRestarts \in Nat
    BY ReplicationAssumption, Zenon DEF TypeOK
  <2> QED BY <1>1, <2>1
<1>4. /\ applied \in [Servers -> 0 .. Len(log)] /\ started \in [Servers -> 0 .. Len(log)]
      /\ limit \in [Servers -> Limits \cup {NoLimit}] /\ snap[s].index \in 0 .. Len(log)
  BY Zenon DEF TypeOK
<1>5. /\ applied' \in [Servers -> 0 .. Len(log)] /\ started' \in [Servers -> 0 .. Len(log)]
      /\ limit' \in [Servers -> Limits \cup {NoLimit}]
      /\ applied'[s] = snap[s].index /\ started'[s] = snap[s].index /\ limit'[s] = NoLimit
      /\ \A t \in Servers : t # s => /\ applied'[t] = applied[t] /\ started'[t] = started[t]
                                     /\ limit'[t] = limit[t]
  BY <1>1, <1>2, <1>4, Zenon
<1>6. TypeOK'
  BY <1>1, <1>3, <1>5, Zenon DEF TypeOK
<1>7. IndexInv'
  <2>1. snap[s].index <= snap[s].index
    BY ServerTypes
  <2> QED BY <1>1, <1>5, <2>1, Zenon DEF IndexInv
<1>8. LogGrows
  BY <1>1, SameLog, Zenon
<1>9. \A t \in Servers : t # s => StepOf(t)
  BY <1>1, <1>5, StepIdle, SameJobs, Zenon
<1>10. Progress(s)
  BY <1>1, Zenon DEF Progress
<1>11. LimitStep(s)
  BY <1>5, Zenon DEF LimitStep
<1>12. Covers(s)
  <2>1. \A i \in 1 .. snap[s].index : i \in 1 .. applied[s]
    <3>1. snap[s].index <= applied[s] /\ snap[s].index \in Nat /\ applied[s] \in Nat
      BY ServerTypes, Zenon DEF IndexInv
    <3> QED BY <3>1
  <2> QED BY <1>1, <1>5, <2>1, Zenon DEF Covers
<1>13. StepOf(s)
  BY <1>1, <1>10, <1>11, <1>12, Zenon DEF StepOf
<1> QED BY <1>6, <1>7, <1>8, <1>9, <1>13, Zenon DEF Stepped

LEMMA RestartStep ==
  ASSUME TypeOK, LeaseInv, IndexInv, NEW s \in Servers, Restart(s)
  PROVE  Stepped
<1> DEFINE q == [k \in DOMAIN jobs[s] |-> Recovered(jobs[s][k])]
<1>1. Starts(s) /\ jobs' = [jobs EXCEPT ![s] = q] /\ UNCHANGED <<keys, unkeyed>>
  BY Zenon DEF Restart
<1>2. Good(jobs[s])
  BY GoodJobs, Zenon
<1>3. Good(q) /\ Len(q) = Len(jobs[s]) /\ Keeps(jobs[s], q)
  BY <1>2, RecoverJobs, Zenon
<1> HIDE DEF q
<1>4. /\ jobs' \in [Servers -> Seq(Job)] /\ LeaseInv'
      /\ jobs'[s] = q /\ \A t \in Servers : t # s => jobs'[t] = jobs[t]
  BY <1>1, <1>3, JobsUpdate, Zenon
<1>5. JobStep(s)
  BY <1>1, <1>3, <1>4, Zenon DEF JobStep
<1>6. unkeyed' \in [Servers -> Nat]
  BY <1>1, Zenon DEF TypeOK
<1> QED BY <1>1, <1>4, <1>5, <1>6, StartStep, Zenon

\* A restart inside applyEnqueue finds one job more.
LEMMA RestartInEnqueueStep ==
  ASSUME TypeOK, LeaseInv, IndexInv, NEW s \in Servers, RestartInEnqueue(s)
  PROVE  Stepped
<1> DEFINE job == NewJob(applied[s] + 1)
           q == [k \in DOMAIN jobs[s] |-> Recovered(jobs[s][k])]
           r == Append(q, job)
<1>1. /\ applied[s] + 1 <= Len(log) /\ log[applied[s] + 1].type = "enqueue"
      /\ ~HasKey(s, log[applied[s] + 1].key)
      /\ Starts(s) /\ jobs' = [jobs EXCEPT ![s] = r]
      /\ NotStored(s, log[applied[s] + 1].key)
  BY Zenon DEF RestartInEnqueue
<1>2. applied[s] < Len(log)
  BY <1>1, ServerTypes
<1>3. /\ job \in Job /\ job.status = "ready"
      /\ job.cmd = applied[s] + 1 /\ job.key = log[applied[s] + 1].key
  BY <1>1, <1>2, NewJobType, Zenon
<1>4. Good(jobs[s])
  BY GoodJobs, Zenon
<1>5. Good(q) /\ Len(q) = Len(jobs[s]) /\ Keeps(jobs[s], q)
  BY <1>4, RecoverJobs, Zenon
<1>6. r = Append(q, job)
  BY Zenon
<1> HIDE DEF job, q, r
<1>7. Good(r) /\ Len(r) = Len(q) + 1 /\ Keeps(q, r) /\ r[Len(q) + 1] = job
  BY <1>3, <1>5, <1>6, AppendJob, Zenon
<1>8. Keeps(jobs[s], r) /\ Len(r) = Len(jobs[s]) + 1 /\ r[Len(jobs[s]) + 1] = job
  BY <1>5, <1>7, Zenon DEF Keeps
<1>9. /\ jobs' \in [Servers -> Seq(Job)] /\ LeaseInv'
      /\ jobs'[s] = r /\ \A t \in Servers : t # s => jobs'[t] = jobs[t]
  BY <1>1, <1>7, JobsUpdate, Zenon
<1>10. /\ unkeyed' \in [Servers -> Nat] /\ keys' = keys
       /\ \A t \in Servers : t # s => unkeyed'[t] = unkeyed[t]
       /\ KeyKept(s, log[applied[s] + 1].key, job.status)
  <2>1. log[applied[s] + 1].key \in Keys \cup {NoKey}
    BY <1>1, <1>2, NextCommand, CommandKinds, Zenon
  <2> QED BY <1>1, <2>1, KeyEffect, Zenon DEF NotStored
<1>11. restarts' = restarts + 1 => JobStep(s)
  BY <1>1, <1>3, <1>8, <1>9, <1>10, Zenon DEF JobStep, HasKey
<1> QED BY <1>1, <1>9, <1>10, <1>11, StartStep, Zenon

\* Raft takes a snapshot, sends one, or commits a command.
LEMMA SnapshotStep ==
  ASSUME TypeOK, LeaseInv, IndexInv, NEW s \in Servers, Snapshot(s)
  PROVE  Stepped
<1>1. /\ applied[s] > snap[s].index
      /\ snap' = [snap EXCEPT ![s] = [index |-> applied[s], limit |-> limit[s]]]
      /\ UNCHANGED <<log, applied, jobs, keys, limit, leases, restarts, faults, started, refused,
                     skipped, unkeyed>>
  BY Zenon DEF Snapshot, history
<1>2. /\ snap \in [Servers -> [index : 0 .. Len(log), limit : Limits \cup {NoLimit}]]
      /\ applied[s] \in 0 .. Len(log) /\ limit[s] \in Limits \cup {NoLimit}
  BY Zenon DEF TypeOK
<1>3. /\ snap' \in [Servers -> [index : 0 .. Len(log), limit : Limits \cup {NoLimit}]]
      /\ snap'[s].index = applied[s]
      /\ \A t \in Servers : t # s => snap'[t] = snap[t]
  BY <1>1, <1>2, Zenon
<1>4. TypeOK'
  BY <1>1, <1>3, Zenon DEF TypeOK
<1>5. LeaseInv'
  BY <1>1, Zenon DEF LeaseInv
<1>6. IndexInv'
  <2>1. applied[s] <= applied[s] /\ \A i \in skipped[s] : i <= applied[s]
    BY <1>1, ServerTypes DEF IndexInv
  <2> QED BY <1>1, <1>3, <2>1, Zenon DEF IndexInv
<1>7. LogGrows
  BY <1>1, SameLog, Zenon
<1>8. \A t \in Servers : StepOf(t)
  BY <1>1, StepIdle, SameJobs, Zenon
<1> QED BY <1>4, <1>5, <1>6, <1>7, <1>8, Zenon DEF Stepped

LEMMA InstallStep ==
  ASSUME TypeOK, LeaseInv, IndexInv, NEW s \in Servers, NEW t \in Servers, InstallSnapshot(s, t)
  PROVE  Stepped
<1>1. /\ snap[t].index > applied[s]
      /\ applied' = [applied EXCEPT ![s] = snap[t].index]
      /\ snap' = [snap EXCEPT ![s] = snap[t]]
      /\ limit' = [limit EXCEPT ![s] = Restored(snap[t], @)]
      /\ skipped' = [skipped EXCEPT ![s] = @ \cup (applied[s] + 1 .. snap[t].index)]
      /\ UNCHANGED <<log, jobs, keys, leases, restarts, faults, started, refused, unkeyed>>
  BY Zenon DEF InstallSnapshot
<1>2. Restored(snap[t], limit[s]) = limit[s]
  BY Zenon DEF Restored, Decoded, NoSnapshot
<1>3. /\ applied \in [Servers -> 0 .. Len(log)] /\ limit \in [Servers -> Limits \cup {NoLimit}]
      /\ snap \in [Servers -> [index : 0 .. Len(log), limit : Limits \cup {NoLimit}]]
      /\ skipped \in [Servers -> SUBSET (1 .. Len(log))] /\ snap[t].index \in 0 .. Len(log)
  BY Zenon DEF TypeOK
<1>4. /\ applied[s] \in Nat /\ snap[t].index \in Nat /\ snap[s].index \in Nat
      /\ started[s] \in Nat /\ Len(log) \in Nat
      /\ skipped[s] \subseteq 1 .. Len(log)
      /\ snap[s].index <= applied[s] /\ started[s] <= applied[s]
      /\ \A i \in skipped[s] : i <= snap[s].index
  BY ServerTypes, Zenon DEF IndexInv
<1>5. /\ applied[s] + 1 .. snap[t].index \subseteq 1 .. Len(log)
      /\ \A i \in 1 .. snap[t].index : i \in 1 .. applied[s] \/ i \in applied[s] + 1 .. snap[t].index
      /\ \A i \in applied[s] + 1 .. snap[t].index : i > applied[s] /\ i <= snap[t].index
  BY <1>1, <1>3, <1>4
<1>6. /\ applied[s] <= snap[t].index /\ started[s] <= snap[t].index /\ snap[t].index <= snap[t].index
      /\ \A i \in skipped[s] : i <= snap[t].index
  BY <1>1, <1>4
<1>7. /\ applied' \in [Servers -> 0 .. Len(log)] /\ limit' = limit
      /\ snap' \in [Servers -> [index : 0 .. Len(log), limit : Limits \cup {NoLimit}]]
      /\ skipped' \in [Servers -> SUBSET (1 .. Len(log))]
      /\ applied'[s] = snap[t].index /\ snap'[s] = snap[t]
      /\ skipped'[s] = skipped[s] \cup (applied[s] + 1 .. snap[t].index)
      /\ \A u \in Servers : u # s => /\ applied'[u] = applied[u] /\ snap'[u] = snap[u]
                                     /\ skipped'[u] = skipped[u]
  BY <1>1, <1>2, <1>3, <1>5, Zenon
<1>8. TypeOK'
  BY <1>1, <1>7, Zenon DEF TypeOK
<1>9. LeaseInv'
  BY <1>1, Zenon DEF LeaseInv
<1>10. IndexInv'
  BY <1>1, <1>5, <1>6, <1>7, Zenon DEF IndexInv
<1>11. LogGrows
  BY <1>1, SameLog, Zenon
<1>12. \A u \in Servers : u # s => StepOf(u)
  BY <1>1, <1>7, StepIdle, SameJobs, Zenon
<1>13. JobStep(s)
  BY <1>1, SameJobs, Zenon DEF JobStep
<1>14. Progress(s)
  BY <1>1, <1>6, <1>7, Zenon DEF Progress
<1>15. Covers(s)
  BY <1>1, <1>5, <1>7, Zenon DEF Covers
<1>16. LimitStep(s)
  BY <1>1, <1>5, <1>6, <1>7, Zenon DEF LimitStep
<1> QED BY <1>8, <1>9, <1>10, <1>11, <1>12, <1>13, <1>14, <1>15, <1>16, Zenon DEF Stepped, StepOf

LEMMA CommitStep ==
  ASSUME TypeOK, LeaseInv, IndexInv,
         NEW cmd \in Enqueue \cup SetLimit \cup UNION {Settlements(s) : s \in Servers}, Commit(cmd)
  PROVE  Stepped
<1>1. /\ log' = Append(log, cmd)
      /\ UNCHANGED <<snap, applied, jobs, keys, limit, leases, restarts, faults, started, refused,
                     skipped, unkeyed>>
  BY Zenon DEF Commit, history
<1>2. cmd \in Enqueue \cup Settle \cup SetLimit
  BY SettlementType, Zenon
<1>3. log \in Seq(Enqueue \cup Settle \cup SetLimit)
  BY Zenon DEF TypeOK
<1>4. /\ log' \in Seq(Enqueue \cup Settle \cup SetLimit) /\ LogGrows
      /\ Len(log) \in Nat /\ Len(log') = Len(log) + 1
  BY <1>1, <1>2, <1>3 DEF LogGrows
<1>5. 0 .. Len(log) \subseteq 0 .. Len(log') /\ 1 .. Len(log) \subseteq 1 .. Len(log')
  BY <1>4
<1>6. /\ applied' \in [Servers -> 0 .. Len(log')] /\ started' \in [Servers -> 0 .. Len(log')]
      /\ refused' \in [Servers -> SUBSET (1 .. Len(log'))]
      /\ skipped' \in [Servers -> SUBSET (1 .. Len(log'))]
  <2>1. /\ applied \in [Servers -> 0 .. Len(log)] /\ started \in [Servers -> 0 .. Len(log)]
        /\ refused \in [Servers -> SUBSET (1 .. Len(log))]
        /\ skipped \in [Servers -> SUBSET (1 .. Len(log))]
    BY Zenon DEF TypeOK
  <2> QED BY <1>1, <1>5, <2>1, Zenon
<1>7. snap' \in [Servers -> [index : 0 .. Len(log'), limit : Limits \cup {NoLimit}]]
  <2>1. snap \in [Servers -> [index : 0 .. Len(log), limit : Limits \cup {NoLimit}]]
    BY Zenon DEF TypeOK
  <2>2. [index : 0 .. Len(log), limit : Limits \cup {NoLimit}]
          \subseteq [index : 0 .. Len(log'), limit : Limits \cup {NoLimit}]
    BY <1>5, Zenon
  <2> QED BY <1>1, <2>1, <2>2, Zenon
<1>8. TypeOK'
  BY <1>1, <1>4, <1>6, <1>7, Zenon DEF TypeOK
<1>9. LeaseInv' /\ IndexInv'
  BY <1>1, Zenon DEF LeaseInv, IndexInv
<1>10. \A t \in Servers : StepOf(t)
  BY <1>1, StepIdle, SameJobs, Zenon
<1> QED BY <1>4, <1>8, <1>9, <1>10, Zenon DEF Stepped

LEMMA NextStep == TypeOK /\ LeaseInv /\ IndexInv /\ [Next]_vars => Stepped
<1> SUFFICES ASSUME TypeOK, LeaseInv, IndexInv, [Next]_vars PROVE Stepped
  BY Zenon
<1>1. CASE UNCHANGED vars
  <2>1. UNCHANGED <<log, snap, applied, jobs, keys, limit, leases, restarts, faults, started,
                    refused, skipped, unkeyed>>
    BY <1>1, Zenon DEF vars, raft, history
  <2>2. TypeOK' /\ LeaseInv' /\ IndexInv' /\ LogGrows
    BY <2>1, SameLog, Zenon DEF TypeOK, LeaseInv, IndexInv
  <2>3. \A t \in Servers : StepOf(t)
    BY <2>1, StepIdle, SameJobs, Zenon
  <2> QED BY <2>2, <2>3, Zenon DEF Stepped
<1>2. ASSUME NEW s \in Servers, applyEnqueue(s) PROVE Stepped
  <2>1. /\ Applies(s, "enqueue") /\ limit' = limit
        /\ \/ /\ HasKey(s, log[applied[s] + 1].key)
              /\ UNCHANGED <<jobs, keys, faults, refused, unkeyed>>
           \/ Failed(s) \/ RateLimited(s)
           \/ ~HasKey(s, log[applied[s] + 1].key) /\ (LoggedOnly(s) \/ Accepted(s))
    BY <1>2, Zenon DEF applyEnqueue
  <2> QED BY <2>1, EnqueueNoJob, LoggedOnlyStep, AcceptedStep, Zenon
<1>3. ASSUME NEW cmd \in Enqueue \cup SetLimit \cup UNION {Settlements(s) : s \in Servers},
             Commit(cmd)
      PROVE  Stepped
  BY <1>3, CommitStep, Zenon
<1>4. ASSUME NEW s \in Servers,
             \/ applyEnqueue(s) \/ applyAck(s) \/ applyNack(s) \/ applySetRateLimit(s)
             \/ Snapshot(s) \/ Restart(s) \/ RestartInEnqueue(s)
             \/ \E k \in 1 .. MaxJobs : Lease(s, k)
             \/ \E t \in Servers : InstallSnapshot(s, t)
      PROVE  Stepped
  BY <1>2, <1>4, SettleStep, LimitCommand, SnapshotStep, RestartStep, RestartInEnqueueStep,
     LeaseStep, InstallStep, Zenon
<1> QED BY <1>1, <1>3, <1>4, Zenon DEF Next

-----------------------------------------------------------------------------
(* The invariant holds *)

\* Jobs are counted by their key, and by their command.
LEMMA JobSets ==
  ASSUME TypeOK, NEW s \in Servers, NEW x
  PROVE  /\ IsFiniteSet(WithKey(s, x)) /\ Cardinality(WithKey(s, x)) \in Nat
         /\ IsFiniteSet(MadeBy(s, x)) /\ Cardinality(MadeBy(s, x)) \in Nat
         /\ DOMAIN jobs[s] = 1 .. Len(jobs[s]) /\ Len(jobs[s]) \in Nat
         /\ Len(jobs[s]) + 1 \notin WithKey(s, x) /\ Len(jobs[s]) + 1 \notin MadeBy(s, x)
<1>1. jobs[s] \in Seq(Job)
  BY Zenon DEF TypeOK
<1>2. DOMAIN jobs[s] = 1 .. Len(jobs[s]) /\ Len(jobs[s]) \in Nat
  BY <1>1
<1>3. IsFiniteSet(1 .. Len(jobs[s])) /\ Len(jobs[s]) + 1 \notin 1 .. Len(jobs[s])
  <2>1. 1 \in Int /\ Len(jobs[s]) \in Int /\ Len(jobs[s]) + 1 \notin 1 .. Len(jobs[s])
    BY <1>2
  <2> QED BY <2>1, FS_Interval, Zenon
<1>4. WithKey(s, x) \subseteq 1 .. Len(jobs[s]) /\ MadeBy(s, x) \subseteq 1 .. Len(jobs[s])
  BY <1>2, Zenon DEF WithKey, MadeBy
<1>5. IsFiniteSet(WithKey(s, x)) /\ IsFiniteSet(MadeBy(s, x))
  BY <1>3, <1>4, FS_Subset, Zenon
<1> QED BY <1>2, <1>3, <1>4, <1>5, FS_CardinalityType, Zenon

\* A step that makes no job keeps the counts.
LEMMA NoJobMade ==
  ASSUME TypeOK, TypeOK', NEW s \in Servers, NEW x, JobStep(s), Len(jobs'[s]) = Len(jobs[s])
  PROVE  WithKey(s, x)' = WithKey(s, x) /\ MadeBy(s, x)' = MadeBy(s, x)
<1>1. DOMAIN jobs[s] = 1 .. Len(jobs[s]) /\ DOMAIN jobs'[s] = 1 .. Len(jobs[s])
  BY DEF TypeOK
<1>2. \A k \in 1 .. Len(jobs[s]) : /\ jobs'[s][k].cmd = jobs[s][k].cmd
                                   /\ jobs'[s][k].key = jobs[s][k].key
  BY Zenon DEF JobStep, Keeps
<1> QED BY <1>1, <1>2, Zenon DEF WithKey, MadeBy

\* One that makes a job counts it for its key and for its command.
LEMMA JobMade ==
  ASSUME TypeOK, TypeOK', NEW s \in Servers, NEW x, JobStep(s), Len(jobs'[s]) = Len(jobs[s]) + 1
  PROVE  /\ Cardinality(WithKey(s, x)') =
              Cardinality(WithKey(s, x)) + (IF x = log[applied[s] + 1].key THEN 1 ELSE 0)
         /\ Cardinality(MadeBy(s, x)') =
              Cardinality(MadeBy(s, x)) + (IF x = applied[s] + 1 THEN 1 ELSE 0)
<1> DEFINE n == Len(jobs[s])
<1>1. jobs[s] \in Seq(Job) /\ jobs'[s] \in Seq(Job)
  BY Zenon DEF TypeOK
<1>2. DOMAIN jobs[s] = 1 .. n /\ DOMAIN jobs'[s] = 1 .. n + 1 /\ n \in Nat
  BY <1>1
<1>3. /\ \A k \in 1 .. n : /\ jobs'[s][k].cmd = jobs[s][k].cmd
                           /\ jobs'[s][k].key = jobs[s][k].key
      /\ jobs'[s][n + 1].cmd = applied[s] + 1 /\ jobs'[s][n + 1].key = log[applied[s] + 1].key
  <2>1. n + 1 # n
    BY <1>2
  <2> QED BY <2>1, Zenon DEF JobStep, Keeps
<1>4. 1 .. n + 1 = (1 .. n) \cup {n + 1} /\ n + 1 \notin 1 .. n
  BY <1>2
<1> HIDE DEF n
<1>5. /\ WithKey(s, x)' = WithKey(s, x) \cup (IF x = log[applied[s] + 1].key THEN {n + 1} ELSE {})
      /\ MadeBy(s, x)' = MadeBy(s, x) \cup (IF x = applied[s] + 1 THEN {n + 1} ELSE {})
  BY <1>2, <1>3, <1>4, Zenon DEF WithKey, MadeBy
<1>6. /\ IsFiniteSet(WithKey(s, x)) /\ Cardinality(WithKey(s, x)) \in Nat
      /\ IsFiniteSet(MadeBy(s, x)) /\ Cardinality(MadeBy(s, x)) \in Nat
      /\ n + 1 \notin WithKey(s, x) /\ n + 1 \notin MadeBy(s, x)
  BY JobSets, Zenon DEF n
<1>7. /\ Cardinality(WithKey(s, x) \cup {n + 1}) = Cardinality(WithKey(s, x)) + 1
      /\ Cardinality(MadeBy(s, x) \cup {n + 1}) = Cardinality(MadeBy(s, x)) + 1
  BY <1>6, FS_AddElement, Zenon
<1>8. /\ WithKey(s, x) \cup {} = WithKey(s, x) /\ MadeBy(s, x) \cup {} = MadeBy(s, x)
      /\ Cardinality(WithKey(s, x)) + 0 = Cardinality(WithKey(s, x))
      /\ Cardinality(MadeBy(s, x)) + 0 = Cardinality(MadeBy(s, x))
  BY <1>6
<1>9. Cardinality(WithKey(s, x)') =
        Cardinality(WithKey(s, x)) + (IF x = log[applied[s] + 1].key THEN 1 ELSE 0)
  BY <1>5, <1>7, <1>8, Zenon
<1>10. Cardinality(MadeBy(s, x)') =
         Cardinality(MadeBy(s, x)) + (IF x = applied[s] + 1 THEN 1 ELSE 0)
  BY <1>5, <1>7, <1>8, Zenon
<1> QED BY <1>9, <1>10, Zenon

\* A step makes one job for s or none.
LEMMA JobCases ==
  ASSUME NEW s, JobStep(s)
  PROVE  Len(jobs'[s]) = Len(jobs[s]) \/ Len(jobs'[s]) = Len(jobs[s]) + 1
BY Zenon DEF JobStep

LEMMA OnceStep ==
  ASSUME TypeOK, TypeOK', OnceInv, \A s \in Servers : StepOf(s)
  PROVE  OnceInv'
<1> SUFFICES ASSUME NEW s \in Servers, NEW i \in Nat
             PROVE  Cardinality(MadeBy(s, i)') <= restarts' + (IF i <= applied'[s] THEN 1 ELSE 0)
  BY Zenon DEF OnceInv
<1>1. /\ Cardinality(MadeBy(s, i)) \in Nat
      /\ restarts \in Nat /\ applied[s] \in Nat /\ applied'[s] \in Nat
  <2>1. applied'[s] \in 0 .. Len(log')
    BY Zenon DEF TypeOK
  <2>2. applied'[s] \in Nat
    BY <2>1
  <2> QED BY <2>2, JobSets, ServerTypes, Zenon
<1>2. /\ Cardinality(MadeBy(s, i)) <= restarts + (IF i <= applied[s] THEN 1 ELSE 0)
      /\ JobStep(s) /\ Progress(s)
  BY Zenon DEF OnceInv, StepOf
<1>3. CASE Len(jobs'[s]) = Len(jobs[s])
  <2>1. MadeBy(s, i)' = MadeBy(s, i)
    BY <1>2, <1>3, NoJobMade, Zenon
  <2>2. \/ restarts' = restarts /\ applied[s] <= applied'[s]
        \/ restarts' = restarts + 1
    BY <1>2, Zenon DEF Progress
  <2> QED BY <1>1, <1>2, <2>1, <2>2
<1>4. CASE Len(jobs'[s]) = Len(jobs[s]) + 1
  <2>1. Cardinality(MadeBy(s, i)') =
          Cardinality(MadeBy(s, i)) + (IF i = applied[s] + 1 THEN 1 ELSE 0)
    BY <1>2, <1>4, JobMade, Zenon
  <2>2. \/ restarts' = restarts /\ applied'[s] = applied[s] + 1
        \/ restarts' = restarts + 1
    <3>1. Len(jobs[s]) + 1 # Len(jobs[s])
      BY ServerTypes
    <3> QED BY <1>2, <1>4, <3>1, Zenon DEF JobStep, Progress
  <2> QED BY <1>1, <1>2, <2>1, <2>2
<1> QED BY <1>2, <1>3, <1>4, JobCases, Zenon

LEMMA KeyStep ==
  ASSUME TypeOK, TypeOK', KeyInv, \A s \in Servers : StepOf(s)
  PROVE  KeyInv'
<1> SUFFICES ASSUME NEW s \in Servers, NEW key \in Keys
             PROVE  /\ key \in keys'[s] =>
                         \E k \in DOMAIN jobs'[s] :
                            jobs'[s][k].key = key /\ jobs'[s][k].status # "logged"
                    /\ Cardinality(WithKey(s, key)') <=
                         unkeyed'[s] + (IF key \in keys'[s] THEN 1 ELSE 0)
  BY Zenon DEF KeyInv
<1>1. /\ Cardinality(WithKey(s, key)) \in Nat /\ unkeyed[s] \in Nat
      /\ DOMAIN jobs[s] = 1 .. Len(jobs[s]) /\ Len(jobs[s]) \in Nat
      /\ DOMAIN jobs'[s] = 1 .. Len(jobs'[s]) /\ Len(jobs[s]) + 1 # Len(jobs[s])
  <2>1. jobs[s] \in Seq(Job) /\ jobs'[s] \in Seq(Job)
    BY Zenon DEF TypeOK
  <2> QED BY <2>1, JobSets, ServerTypes
<1>2. /\ key \in keys[s] =>
           \E k \in DOMAIN jobs[s] : jobs[s][k].key = key /\ jobs[s][k].status # "logged"
      /\ Cardinality(WithKey(s, key)) <= unkeyed[s] + (IF key \in keys[s] THEN 1 ELSE 0)
      /\ JobStep(s)
  BY Zenon DEF KeyInv, StepOf
<1>3. CASE Len(jobs'[s]) = Len(jobs[s])
  <2>1. WithKey(s, key)' = WithKey(s, key)
    BY <1>2, <1>3, NoJobMade, Zenon
  <2>2. keys'[s] = keys[s] /\ unkeyed'[s] = unkeyed[s] /\ Keeps(jobs[s], jobs'[s])
    BY <1>1, <1>2, <1>3, Zenon DEF JobStep
  <2>3. key \in keys'[s] =>
          \E k \in DOMAIN jobs'[s] : jobs'[s][k].key = key /\ jobs'[s][k].status # "logged"
    BY <1>1, <1>2, <1>3, <2>2, Zenon DEF Keeps
  <2> QED BY <1>2, <2>1, <2>2, <2>3, Zenon
<1>4. CASE Len(jobs'[s]) = Len(jobs[s]) + 1
  <2>1. Cardinality(WithKey(s, key)') =
          Cardinality(WithKey(s, key)) + (IF key = log[applied[s] + 1].key THEN 1 ELSE 0)
    BY <1>2, <1>4, JobMade, Zenon
  <2>2. /\ Keeps(jobs[s], jobs'[s])
        /\ jobs'[s][Len(jobs[s]) + 1].key = log[applied[s] + 1].key
        /\ log[applied[s] + 1].key \notin keys[s]
        /\ \/ /\ keys'[s] = keys[s] \cup ({log[applied[s] + 1].key} \ {NoKey})
              /\ unkeyed'[s] = unkeyed[s]
              /\ \/ log[applied[s] + 1].key = NoKey
                 \/ jobs'[s][Len(jobs[s]) + 1].status # "logged"
           \/ keys'[s] = keys[s] /\ unkeyed'[s] = unkeyed[s] + 1
    BY <1>1, <1>2, <1>4, Zenon DEF JobStep, KeyKept
  <2>3. 1 .. Len(jobs[s]) \subseteq 1 .. Len(jobs'[s]) /\ Len(jobs[s]) + 1 \in 1 .. Len(jobs'[s])
    BY <1>1, <1>4
  <2>4. key \in keys'[s] =>
          \E k \in DOMAIN jobs'[s] : jobs'[s][k].key = key /\ jobs'[s][k].status # "logged"
    BY <1>1, <1>2, <2>2, <2>3, Zenon DEF Keeps
  <2>5. key # NoKey
    BY ReplicationAssumption, Zenon
  <2>6. Cardinality(WithKey(s, key)') <= unkeyed'[s] + (IF key \in keys'[s] THEN 1 ELSE 0)
    <3>1. CASE key = log[applied[s] + 1].key
      <4>1. key \notin keys[s]
        BY <2>2, <3>1, Zenon
      <4>2. \/ key \in keys'[s] /\ unkeyed'[s] = unkeyed[s]
            \/ key \notin keys'[s] /\ unkeyed'[s] = unkeyed[s] + 1
        BY <2>2, <2>5, <3>1, Zenon
      <4> QED BY <1>1, <1>2, <2>1, <3>1, <4>1, <4>2
    <3>2. CASE key # log[applied[s] + 1].key
      <4>1. /\ key \in keys'[s] <=> key \in keys[s]
            /\ unkeyed'[s] = unkeyed[s] \/ unkeyed'[s] = unkeyed[s] + 1
        BY <2>2, <3>2, Zenon
      <4> QED BY <1>1, <1>2, <2>1, <3>2, <4>1
    <3> QED BY <3>1, <3>2, Zenon
  <2> QED BY <2>4, <2>6, Zenon
<1> QED BY <1>2, <1>3, <1>4, JobCases, Zenon

LEMMA MissedStep ==
  ASSUME TypeOK, TypeOK', KeyInv, NoneMissed, LogGrows, \A s \in Servers : StepOf(s)
  PROVE  NoneMissed'
<1> SUFFICES ASSUME NEW s \in Servers, NEW i \in 1 .. applied'[s], log'[i].type = "enqueue",
                    i \notin refused'[s], i \notin skipped'[s]
             PROVE  \E k \in DOMAIN jobs'[s] :
                      /\ jobs'[s][k].status # "logged"
                      /\ \/ jobs'[s][k].cmd = i
                         \/ log'[i].key # NoKey /\ jobs'[s][k].key = log'[i].key
  BY Zenon DEF NoneMissed, Commands, StandsFor
<1>1. /\ DOMAIN jobs[s] = 1 .. Len(jobs[s]) /\ Len(jobs[s]) \in Nat
      /\ DOMAIN jobs'[s] = 1 .. Len(jobs'[s]) /\ Len(jobs[s]) + 1 # Len(jobs[s])
  <2>1. jobs[s] \in Seq(Job) /\ jobs'[s] \in Seq(Job)
    BY Zenon DEF TypeOK
  <2>2. Len(jobs[s]) + 1 # Len(jobs[s])
    BY ServerTypes
  <2> QED BY <2>1, <2>2
<1>2. JobStep(s) /\ Covers(s) /\ Keeps(jobs[s], jobs'[s])
  BY Zenon DEF StepOf, JobStep
<1>3. DOMAIN jobs[s] \subseteq DOMAIN jobs'[s]
  <2>1. Len(jobs'[s]) = Len(jobs[s]) \/ Len(jobs'[s]) = Len(jobs[s]) + 1
    BY <1>2, JobCases, Zenon
  <2> QED BY <1>1, <2>1
<1>4. \A k \in DOMAIN jobs[s] : /\ k \in DOMAIN jobs'[s]
                                /\ jobs'[s][k].cmd = jobs[s][k].cmd
                                /\ jobs'[s][k].key = jobs[s][k].key
                                /\ \/ jobs[s][k].status = "logged"
                                   \/ jobs'[s][k].status # "logged"
  BY <1>1, <1>2, <1>3, Zenon DEF Keeps
<1>5. \/ i \in 1 .. applied[s]
      \/ /\ i = applied[s] + 1 /\ i \in 1 .. Len(log)
         /\ \/ log[i].type # "enqueue" \/ log[i].key \in keys[s]
            \/ /\ Len(jobs'[s]) = Len(jobs[s]) + 1
               /\ jobs'[s][Len(jobs[s]) + 1].status # "logged"
  BY <1>2, Zenon DEF Covers
<1>6. i \in 1 .. applied[s] => i \in 1 .. Len(log)
  BY ServerTypes
<1>7. CASE i \in 1 .. applied[s]
  <2>1. log'[i] = log[i] /\ i \notin refused[s] /\ i \notin skipped[s]
    BY <1>2, <1>6, <1>7, Zenon DEF LogGrows, Covers
  <2>2. \E k \in DOMAIN jobs[s] :
          /\ jobs[s][k].status # "logged"
          /\ jobs[s][k].cmd = i \/ (log[i].key # NoKey /\ jobs[s][k].key = log[i].key)
    BY <1>7, <2>1, Zenon DEF NoneMissed, Commands, StandsFor
  <2> QED BY <1>4, <2>1, <2>2, Zenon
<1>8. CASE /\ i = applied[s] + 1 /\ Len(jobs'[s]) = Len(jobs[s]) + 1
           /\ jobs'[s][Len(jobs[s]) + 1].status # "logged"
  <2>1. jobs'[s][Len(jobs[s]) + 1].cmd = i
    BY <1>1, <1>2, <1>8, Zenon DEF JobStep
  <2>2. Len(jobs[s]) + 1 \in DOMAIN jobs'[s]
    BY <1>1, <1>8
  <2> QED BY <1>8, <2>1, <2>2, Zenon
<1>9. CASE i \in 1 .. Len(log) /\ (log[i].type # "enqueue" \/ log[i].key \in keys[s])
  <2>1. log'[i] = log[i] /\ log[i].key \in keys[s]
    BY <1>9, Zenon DEF LogGrows
  <2>2. log[i].key \in Keys /\ log[i].key # NoKey
    BY <2>1, ServerTypes, ReplicationAssumption, Zenon
  <2>3. \E k \in DOMAIN jobs[s] : jobs[s][k].key = log[i].key /\ jobs[s][k].status # "logged"
    BY <2>1, <2>2, Zenon DEF KeyInv
  <2> QED BY <1>4, <2>1, <2>2, <2>3, Zenon
<1> QED BY <1>5, <1>7, <1>8, <1>9, Zenon

LEMMA LimitsStep ==
  ASSUME TypeOK, TypeOK', IndexInv, LimitInv, LogGrows, \A s \in Servers : StepOf(s)
  PROVE  LimitInv'
<1> SUFFICES ASSUME NEW s \in Servers
             PROVE  LET set == {i \in Commands(s, "limit")' \ skipped'[s] : i > started'[s]}
                    IN  /\ set = {} => limit'[s] = NoLimit
                        /\ \A i \in set : (\A k \in set : k <= i) => limit'[s] = log'[i].limit
  BY Zenon DEF LimitInv
<1> DEFINE old == {i \in Commands(s, "limit") \ skipped[s] : i > started[s]}
           new == {i \in Commands(s, "limit")' \ skipped'[s] : i > started'[s]}
<1>1. /\ old = {} => limit[s] = NoLimit
      /\ \A i \in old : (\A k \in old : k <= i) => limit[s] = log[i].limit
  BY Zenon DEF LimitInv
<1>2. /\ \A i \in Nat : i \in old <=> /\ i \in 1 .. applied[s] /\ log[i].type = "limit"
                                      /\ i \notin skipped[s] /\ i > started[s]
      /\ \A i \in Nat : i \in new <=> /\ i \in 1 .. applied'[s] /\ log'[i].type = "limit"
                                      /\ i \notin skipped'[s] /\ i > started'[s]
      /\ old \subseteq Nat /\ new \subseteq Nat
  BY DEF Commands
<1> HIDE DEF old, new
<1>3. /\ applied[s] \in Nat /\ started[s] \in Nat /\ applied[s] <= Len(log) /\ Len(log) \in Nat
      /\ snap[s].index \in Nat /\ started[s] <= applied[s] /\ snap[s].index <= applied[s]
      /\ \A i \in skipped[s] : i \in Nat /\ i <= snap[s].index
  <2>1. skipped[s] \subseteq Nat
    BY ServerTypes
  <2> QED BY <2>1, ServerTypes, Zenon DEF IndexInv
<1>4. \A i \in 1 .. applied[s] : log'[i] = log[i]
  <2>1. \A i \in 1 .. applied[s] : i \in 1 .. Len(log)
    BY <1>3
  <2> QED BY <2>1, Zenon DEF LogGrows
<1>5. CASE /\ applied'[s] = applied[s] + 1 /\ applied[s] + 1 \in 1 .. Len(log)
           /\ log[applied[s] + 1].type = "limit"
           /\ limit'[s] = log[applied[s] + 1].limit
           /\ started'[s] = started[s] /\ skipped'[s] = skipped[s]
  <2>1. /\ applied[s] + 1 \in 1 .. applied'[s] /\ applied[s] + 1 \in Nat
        /\ applied[s] + 1 \notin skipped[s] /\ applied[s] + 1 > started[s]
    BY <1>3, <1>5
  <2>2. log'[applied[s] + 1] = log[applied[s] + 1]
    BY <1>5, Zenon DEF LogGrows
  <2>3. applied[s] + 1 \in new
    BY <1>2, <1>5, <2>1, <2>2, Zenon
  <2>4. \A i \in new : applied[s] + 1 <= i => i = applied[s] + 1
    <3>1. \A i \in new : i \in 1 .. applied[s] + 1
      BY <1>2, <1>5, Zenon
    <3> QED BY <1>3, <3>1
  <2>5. \A i \in new : (\A k \in new : k <= i) => limit'[s] = log'[i].limit
    BY <1>5, <2>2, <2>3, <2>4, Zenon
  <2> QED BY <2>3, <2>5, Zenon DEF new
<1>6. CASE /\ limit'[s] = limit[s] /\ started'[s] = started[s]
           /\ applied[s] <= applied'[s] /\ skipped[s] \subseteq skipped'[s]
           /\ \A i \in skipped'[s] : i \in skipped[s] \/ i > applied[s]
           /\ \A i \in 1 .. applied'[s] :
                \/ i \in 1 .. applied[s] \/ i \in skipped'[s]
                \/ i \in 1 .. Len(log) /\ log[i].type # "limit"
  <2>1. \A i \in 1 .. Len(log) : log'[i] = log[i]
    BY Zenon DEF LogGrows
  <2>2. \A i \in new : i \in old
    BY <1>2, <1>4, <1>6, <2>1, Zenon
  <2>3. \A i \in 1 .. applied[s] : i \in 1 .. applied'[s] /\ ~(i > applied[s])
    <3>1. applied'[s] \in 0 .. Len(log')
      BY Zenon DEF TypeOK
    <3> QED BY <1>3, <1>6, <3>1
  <2>4. \A i \in old : i \in new
    BY <1>2, <1>4, <1>6, <2>3, Zenon
  <2>5. \A i \in old : log'[i] = log[i]
    BY <1>2, <1>4, Zenon
  <2>6. old = new
    BY <2>2, <2>4, Zenon
  <2>7. /\ new = {} => limit'[s] = NoLimit
        /\ \A i \in new : (\A k \in new : k <= i) => limit'[s] = log'[i].limit
    BY <1>1, <1>6, <2>5, <2>6, Zenon
  <2> QED BY <2>7, Zenon DEF new
<1>7. CASE limit'[s] = NoLimit /\ started'[s] = applied'[s]
  <2>1. applied'[s] \in 0 .. Len(log')
    BY Zenon DEF TypeOK
  <2>2. \A i \in 1 .. applied'[s] : ~(i > applied'[s])
    BY <2>1
  <2>3. \A i \in new : FALSE
    BY <1>2, <1>7, <2>2, Zenon
  <2>4. /\ new = {} => limit'[s] = NoLimit
        /\ \A i \in new : (\A k \in new : k <= i) => limit'[s] = log'[i].limit
    BY <1>7, <2>3, Zenon
  <2> QED BY <2>4, Zenon DEF new
<1>8. LimitStep(s)
  BY Zenon DEF StepOf
<1> QED BY <1>5, <1>6, <1>7, <1>8, Zenon DEF LimitStep

\* The servers start with an empty log.
LEMMA InitInv ==
  Init => /\ TypeOK /\ LeaseInv /\ IndexInv /\ KeyInv /\ OnceInv
          /\ NoneMissed /\ LimitInv
<1> SUFFICES ASSUME Init PROVE /\ TypeOK /\ LeaseInv /\ IndexInv /\ KeyInv /\ OnceInv
                               /\ NoneMissed /\ LimitInv
  BY Zenon
<1>1. /\ log = <<>> /\ leases = 0 /\ restarts = 0 /\ faults = 0
      /\ applied = [s \in Servers |-> 0] /\ started = [s \in Servers |-> 0]
      /\ snap = [s \in Servers |-> NoSnapshot] /\ jobs = [s \in Servers |-> <<>>]
      /\ keys = [s \in Servers |-> {}] /\ limit = [s \in Servers |-> NoLimit]
      /\ refused = [s \in Servers |-> {}] /\ skipped = [s \in Servers |-> {}]
      /\ unkeyed = [s \in Servers |-> 0]
  BY Zenon DEF Init
<1>2. /\ log \in Seq(Enqueue \cup Settle \cup SetLimit) /\ Len(log) = 0
      /\ <<>> \in Seq(Job) /\ DOMAIN <<>> = {} /\ 1 .. 0 = {} /\ 0 <= 0
      /\ 0 \in 0 .. 0 /\ 0 \in Nat
  BY <1>1
<1>3. 0 \in 0 .. MaxLeases /\ 0 \in 0 .. MaxRestarts /\ 0 \in 0 .. MaxFaults
  BY ReplicationAssumption
<1>4. /\ NoSnapshot \in [index : 0 .. 0, limit : Limits \cup {NoLimit}] /\ NoSnapshot.index = 0
  BY <1>2, Zenon DEF NoSnapshot
<1>5. TypeOK
  BY <1>1, <1>2, <1>3, <1>4, Zenon DEF TypeOK
<1>6. LeaseInv
  BY <1>1, <1>2, Zenon DEF LeaseInv
<1>7. IndexInv
  BY <1>1, <1>2, <1>4, Zenon DEF IndexInv
<1>8. \A s \in Servers : \A x : WithKey(s, x) = {} /\ MadeBy(s, x) = {}
  BY <1>1, <1>2, Zenon DEF WithKey, MadeBy
<1>9. Cardinality({}) = 0 /\ 0 + 0 = 0 /\ 0 <= 0 + 0
  BY FS_EmptySet
<1>10. KeyInv
  BY <1>1, <1>8, <1>9, Zenon DEF KeyInv
<1>11. OnceInv
  <2>1. \A i \in Nat, s \in Servers : 0 <= restarts + (IF i <= applied[s] THEN 1 ELSE 0)
    BY <1>1
  <2> QED BY <1>8, <1>9, <2>1, Zenon DEF OnceInv
<1>12. \A s \in Servers, type \in {"enqueue", "limit"} : Commands(s, type) = {}
  BY <1>1, <1>2, Zenon DEF Commands
<1>13. NoneMissed
  BY <1>12, Zenon DEF NoneMissed
<1>14. LimitInv
  BY <1>1, <1>12, Zenon DEF LimitInv
<1> QED BY <1>5, <1>6, <1>7, <1>10, <1>11, <1>13, <1>14, Zenon

-----------------------------------------------------------------------------
(* The theorems *)

BaseInv == TypeOK /\ LeaseInv /\ IndexInv

\* The base of the invariant is inductive by itself.
LEMMA BaseStep == BaseInv /\ [Next]_vars => BaseInv' /\ Stepped
BY NextStep, Zenon DEF BaseInv, Stepped

\* The log, the snapshots and every server's manager stay well formed.
THEOREM TypeCorrect == Spec => []TypeOK
<1>1. Init => BaseInv
  BY InitInv, Zenon DEF BaseInv
<1>2. BaseInv => TypeOK
  BY Zenon DEF BaseInv
<1> QED BY <1>1, <1>2, BaseStep, PTL DEF Spec

\* Every enqueue command a server has applied has a job there, unless the server
\* refused the command or received it in a snapshot.
THEOREM NoneMissedHolds == Spec => []NoneMissed
<1>1. Init => BaseInv /\ KeyInv /\ NoneMissed
  BY InitInv, Zenon DEF BaseInv
<1>2. BaseInv /\ KeyInv /\ NoneMissed /\ [Next]_vars => BaseInv' /\ KeyInv' /\ NoneMissed'
  BY BaseStep, KeyStep, MissedStep, Zenon DEF BaseInv, Stepped
<1> QED BY <1>1, <1>2, PTL DEF Spec

\* A key has one job on a server, and one more for each time it did not get to
\* the store.
THEOREM KeyedOnceHolds == Spec => []KeyedOnce
<1>1. Init => BaseInv /\ KeyInv
  BY InitInv, Zenon DEF BaseInv
<1>2. BaseInv /\ KeyInv /\ [Next]_vars => BaseInv' /\ KeyInv'
  BY BaseStep, KeyStep, Zenon DEF BaseInv, Stepped
<1>3. BaseInv /\ KeyInv => KeyedOnce
  <2> SUFFICES ASSUME BaseInv, KeyInv, NEW s \in Servers, NEW key \in Keys
               PROVE  Cardinality(WithKey(s, key)) <= 1 + unkeyed[s]
    BY Zenon DEF KeyedOnce, WithKey
  <2>1. Cardinality(WithKey(s, key)) \in Nat /\ unkeyed[s] \in Nat
    BY JobSets, ServerTypes, Zenon DEF BaseInv
  <2>2. Cardinality(WithKey(s, key)) <= unkeyed[s] + (IF key \in keys[s] THEN 1 ELSE 0)
    BY Zenon DEF KeyInv
  <2> QED BY <2>1, <2>2
<1> QED BY <1>1, <1>2, <1>3, PTL DEF Spec

\* A command has at most one job on a server, and one more for each restart.
THEOREM OncePerStartHolds == Spec => []OncePerStart
<1>1. Init => BaseInv /\ OnceInv
  BY InitInv, Zenon DEF BaseInv
<1>2. BaseInv /\ OnceInv /\ [Next]_vars => BaseInv' /\ OnceInv'
  BY BaseStep, OnceStep, Zenon DEF BaseInv, Stepped
<1>3. BaseInv /\ OnceInv => OncePerStart
  <2> SUFFICES ASSUME BaseInv, OnceInv, NEW s \in Servers, NEW i \in 1 .. Len(log)
               PROVE  Cardinality(MadeBy(s, i)) <= 1 + restarts
    BY Zenon DEF OncePerStart, MadeBy
  <2>1. Cardinality(MadeBy(s, i)) \in Nat /\ restarts \in Nat /\ i \in Nat
    BY JobSets, ServerTypes DEF BaseInv
  <2>2. Cardinality(MadeBy(s, i)) <= restarts + (IF i <= applied[s] THEN 1 ELSE 0)
    BY <2>1, Zenon DEF OnceInv
  <2> QED BY <2>1, <2>2
<1> QED BY <1>1, <1>2, <1>3, PTL DEF Spec

\* The limit of a server is that of the last command that set one, when the
\* server has applied that command itself since it started.
THEOREM LimitFollowsLogHolds == Spec => []LimitFollowsLog
<1>1. Init => BaseInv /\ LimitInv
  BY InitInv, Zenon DEF BaseInv
<1>2. BaseInv /\ LimitInv /\ [Next]_vars => BaseInv' /\ LimitInv'
  BY BaseStep, LimitsStep, Zenon DEF BaseInv, Stepped
<1>3. LimitInv => LimitFollowsLog
  BY Zenon DEF LimitInv, LimitFollowsLog
<1> QED BY <1>1, <1>2, <1>3, PTL DEF Spec
=============================================================================
