--------------------------- MODULE ManagerProofs ---------------------------
(***************************************************************************)
(* Proofs about the queue manager, for every set of jobs, callers, keys    *)
(* and queues and for every value of the bounds.                           *)
(***************************************************************************)
EXTENDS ManagerInvariants, TLAPS

-----------------------------------------------------------------------------
(* The operators the actions are built from *)

\* The delays backoff.Calculate can return are not negative.
LEMMA CalculateNat ==
  ASSUME NEW a PROVE Calculate(a) \subseteq Nat
BY DEF Calculate

\* Rounding a time to the millisecond gives a time.
LEMMA UnixMilliNat ==
  ASSUME NEW t \in Nat PROVE UnixMilli(t) \in Nat
BY ManagerAssumption DEF UnixMilli

\* What a caller may ask Enqueue for, in numbers.
LEMMA EnqueueNumbers ==
  ASSUME TypeOK, NEW p \in Priorities, NEW r \in Retries, NEW d \in Delays
  PROVE  clock \in Nat /\ p \in Nat /\ r \in Nat /\ clock + d \in Nat
<1>1. clock \in Nat
  BY Zenon DEF TypeOK
<1>2. p \in Nat /\ r \in Nat /\ d \in Nat
  BY ManagerAssumption
<1> QED BY <1>1, <1>2

\* A failed delivery leaves a well-formed job in the same queue.
LEMMA FailedType ==
  ASSUME NEW jb \in Job, NEW t \in Nat, NEW eta \in Nat
  PROVE  /\ Released(jb, t, eta) \in Job /\ Released(jb, t, eta).queue = jb.queue
         /\ Decided(jb) \in Job /\ Decided(jb).queue = jb.queue
         /\ Failed(jb, t, eta) \in Job /\ Failed(jb, t, eta).queue = jb.queue
<1>1. /\ Released(jb, t, eta) \in Job
      /\ Released(jb, t, eta).queue = jb.queue
  BY Zenon DEF Released, Job, NoLease, ZeroTime
<1>2. \A b \in Job : Decided(b) \in Job /\ Decided(b).queue = b.queue
  BY Zenon DEF Decided, Job, JobStatus
<1> QED BY <1>1, <1>2, Zenon DEF Failed

\* A leased job is well formed and in the same queue.
LEMMA LeasedType ==
  ASSUME NEW jb \in Job, NEW id \in Nat, NEW deadline \in Nat
  PROVE  Leased(jb, id, deadline) \in Job /\ Leased(jb, id, deadline).queue = jb.queue
BY Zenon DEF Leased, Job, JobStatus

\* A lease writes the lease, its deadline and the status, and nothing else.
LEMMA LeasedFields ==
  ASSUME NEW jb \in Job, NEW id, NEW deadline
  PROVE  /\ Leased(jb, id, deadline).lease = id
         /\ Leased(jb, id, deadline).deadline = deadline
         /\ Leased(jb, id, deadline).status = "inflight"
         /\ Leased(jb, id, deadline).tries = jb.tries
         /\ Leased(jb, id, deadline).maxRetries = jb.maxRetries
BY Zenon DEF Leased, Job

\* A job the worker takes back gets a retry count and a due time.
LEMMA ExpiredNat ==
  ASSUME TypeOK, NEW j \in Jobs, NEW delay \in Calculate(job[j].tries + 1)
  PROVE  job[j] \in Job /\ job[j].tries + 1 \in Nat /\ worker.now + delay \in Nat
<1>1. job[j] \in Job /\ worker \in Worker
  BY Zenon DEF TypeOK
<1>2. job[j].tries \in Nat /\ worker.now \in Nat
  BY <1>1, Zenon DEF Job, Worker
<1>3. delay \in Nat
  BY CalculateNat, Zenon
<1> QED BY <1>1, <1>2, <1>3

\* The records the manager writes are well formed.
LEMMA RecordTypes ==
  ASSUME NEW type \in RecordType, NEW j \in Jobs, NEW jb \in Job,
         jb.queue \in Queues, NEW t \in Nat
  PROVE  /\ FullRecord(type, j, jb) \in Record
         /\ BareRecord(type, j, jb.queue, t) \in Record
BY UnixMilliNat, Zenon DEF FullRecord, BareRecord, Record, Job, ZeroTime

\* What Ack and Nack write is well formed and creates no job.
LEMMA HandlerRecords ==
  ASSUME NEW j \in Jobs, NEW jb \in Job, jb.queue \in Queues,
         NEW rec \in {BareRecord("ack", j, jb.queue, 0), FullRecord("nack", j, jb),
                      BareRecord("nack", j, jb.queue, jb.tries)}
  PROVE  rec \in Record /\ rec.type # "enqueue"
<1>1. jb.tries \in Nat /\ 0 \in Nat /\ {"ack", "nack"} \subseteq RecordType
  BY Zenon DEF Job, RecordType
<1>2. CASE rec = BareRecord("ack", j, jb.queue, 0)
  <2>1. rec.type = "ack"
    BY <1>2, Zenon DEF BareRecord
  <2> QED BY <1>1, <1>2, <2>1, RecordTypes, Zenon
<1>3. CASE rec = FullRecord("nack", j, jb)
  <2>1. rec.type = "nack"
    BY <1>3, Zenon DEF FullRecord
  <2> QED BY <1>1, <1>3, <2>1, RecordTypes, Zenon
<1>4. CASE rec = BareRecord("nack", j, jb.queue, jb.tries)
  <2>1. rec.type = "nack"
    BY <1>4, Zenon DEF BareRecord
  <2> QED BY <1>1, <1>4, <2>1, RecordTypes, Zenon
<1> QED BY <1>2, <1>3, <1>4, Zenon

\* An attempted write leaves a well-formed log.
LEMMA WalTypes ==
  ASSUME wal \in Seq(Record), faults \in Nat, NEW rec \in Record,
         WalWrite(rec) \/ WalWriteFails(rec)
  PROVE  wal' \in Seq(Record) /\ faults' \in Nat
BY DEF WalWrite, WalWriteFails


\* A handler that goes on to its next step keeps what it holds.
LEMMA GotoEffect ==
  ASSUME call \in [Callers -> Call], NEW c \in Callers, NEW pc \in CallPC,
         Goto(c, pc)
  PROVE  /\ call' \in [Callers -> Call]
         /\ \A d \in Callers : d # c => call'[d] = call[d]
         /\ call'[c].pc = pc /\ call'[c].job = call[c].job
         /\ call'[c].key = call[c].key /\ call'[c].tries = call[c].tries
BY Zenon DEF Goto, Call

\* A handler that returns is idle and holds nothing.
LEMMA ReturnEffect ==
  ASSUME call \in [Callers -> Call], NEW c \in Callers, Return(c)
  PROVE  /\ call' \in [Callers -> Call]
         /\ \A d \in Callers : d # c => call'[d] = call[d]
         /\ call'[c] = Idle /\ call'[c].pc = "idle"
<1>1. Idle \in Call /\ Idle.pc = "idle"
  BY Zenon DEF Idle, Call, CallPC
<1> QED BY <1>1, Zenon DEF Return

\* An Ack or a Nack that passes its check holds the job.
LEMMA FindEffect ==
  ASSUME TypeOK, NEW c \in Callers, NEW j \in Jobs, NEW pc \in CallPC,
         FindInflight(c, j, pc)
  PROVE  /\ call' \in [Callers -> Call]
         /\ \A d \in Callers : d # c => call'[d] = call[d]
         /\ call'[c].pc = pc /\ call'[c].job = j
BY Zenon DEF FindInflight, TypeOK, Proceed, Call

\* A Nack that loads the retry count holds the job still.
LEMMA LoadEffect ==
  ASSUME TypeOK, NEW c \in Callers, NackLoad(c)
  PROVE  /\ call' \in [Callers -> Call]
         /\ \A d \in Callers : d # c => call'[d] = call[d]
         /\ call'[c].pc = "nackUpdate" /\ call'[c].job = call[c].job
<1>1. call \in [Callers -> Call] /\ "nackUpdate" \in CallPC
  BY Zenon DEF TypeOK, CallPC, NackPC
<1>2. PICK n : call' = [call EXCEPT ![c].pc = "nackUpdate", ![c].tries = n]
               /\ n = job[call[c].job].tries
  BY Zenon DEF NackLoad
<1>3. n \in Nat
  BY <1>2, Zenon DEF NackLoad, TypeOK, Job
<1> QED BY <1>1, <1>2, <1>3, Zenon DEF Call

-----------------------------------------------------------------------------
(* Type correctness *)

\* What the steps of Enqueue do to the types.
LEMMA EnqueueType ==
  ASSUME TypeOK, NEW c \in Callers
  PROVE  /\ \A key \in Keys \cup {NoKey} : EnqueueCheck(c, key) => TypeOK'
         /\ \A j \in Jobs, q \in Queues, p \in Priorities, r \in Retries, d \in Delays :
              EnqueueWrite(c, j, NewJob(q, p, 0, r, clock + d)) => TypeOK'
         /\ EnqueueStoreKey(c) => TypeOK'
         /\ EnqueuePush(c) => TypeOK'
<1> USE DEF memory, durable, history
<1>1. ASSUME NEW key \in Keys \cup {NoKey}, EnqueueCheck(c, key)
      PROVE  TypeOK'
  <2>1. /\ call' \in [Callers -> Call]
        /\ call'[c].pc = "enqWrite"
        /\ \A d \in Callers : d # c => call'[d] = call[d]
    <3>1. /\ "enqWrite" \in CallPC
          /\ Proceed(c, "enqWrite", NoJob, key)
          /\ call \in [Callers -> Call]
      BY <1>1, Zenon DEF EnqueueCheck, TypeOK, CallPC, EnqueuePC
    <3> QED BY <3>1, Zenon DEF Proceed, Call
  <2> QED BY <1>1, <2>1, Zenon DEF EnqueueCheck, TypeOK
<1>2. ASSUME NEW j \in Jobs, NEW q \in Queues, NEW p \in Priorities,
             NEW r \in Retries, NEW d \in Delays,
             EnqueueWrite(c, j, NewJob(q, p, 0, r, clock + d))
      PROVE  TypeOK'
  <2> DEFINE jb == NewJob(q, p, 0, r, clock + d)
             rec == FullRecord("enqueue", j, jb)
  <2>0. clock \in Nat /\ p \in Nat /\ r \in Nat /\ clock + d \in Nat /\ 0 \in Nat
    BY EnqueueNumbers
  <2>1. jb \in Job /\ jb.queue \in Queues
    BY <2>0, Zenon DEF NewJob, Job, JobStatus, NoLease, ZeroTime
  <2> HIDE DEF jb
  <2>2. rec \in Record
    BY <2>1, RecordTypes, Zenon DEF RecordType
  <2>3. EnqueueWrite(c, j, jb)
    BY <1>2, Zenon DEF jb
  <2>4. wal' \in Seq(Record) /\ faults' \in Nat
    BY <2>2, <2>3, WalTypes, Zenon DEF EnqueueWrite, TypeOK
  <2> DEFINE pc == IF call[c].key = NoKey THEN "enqPush" ELSE "enqKey"
  <2>5. CASE /\ job' = [job EXCEPT ![j] = jb]
             /\ Proceed(c, pc, j, call[c].key)
    <3>1. /\ job' \in [Jobs -> Job]
          /\ \A i \in Jobs : job[i].queue \in Queues => job'[i].queue \in Queues
          /\ job'[j].queue \in Queues
      BY <2>1, <2>5, Zenon DEF TypeOK
    <3>2. call[c].key \in Keys \cup {NoKey} /\ pc \in CallPC
      BY Zenon DEF TypeOK, Call, CallPC, EnqueuePC
    <3>3. /\ call' \in [Callers -> Call] /\ call'[c].job = j
          /\ \A e \in Callers : e # c => call'[e] = call[e]
      BY <2>5, <3>2, Zenon DEF TypeOK, Proceed, Call
    <3> QED BY <2>1, <2>3, <2>4, <3>1, <3>3, Zenon DEF EnqueueWrite, TypeOK, Worker
  <2>6. CASE Return(c) /\ UNCHANGED job
    <3>1. Idle.pc = "idle"
      BY Zenon DEF Idle
    <3> QED BY <2>1, <2>3, <2>4, <2>6, <3>1, ReturnEffect, Zenon DEF EnqueueWrite, TypeOK
  <2> QED BY <2>3, <2>5, <2>6, Zenon DEF EnqueueWrite
<1>3. ASSUME EnqueueStoreKey(c) PROVE TypeOK'
  <2>1. "enqPush" \in CallPC
    BY Zenon DEF CallPC, EnqueuePC
  <2>2. call[c].job \in Jobs /\ call[c].key \in Keys \cup {NoKey}
    BY <1>3, Zenon DEF EnqueueStoreKey, TypeOK, Call
  <2>3. idem' \in [Keys -> Jobs \cup {NoJob}] /\ faults' \in Nat
    BY <1>3, <2>2 DEF EnqueueStoreKey, TypeOK
  <2> QED BY <1>3, <2>1, <2>3, GotoEffect DEF EnqueueStoreKey, TypeOK
<1>4. ASSUME EnqueuePush(c) PROVE TypeOK'
  <2>1. Idle.pc = "idle"
    BY Zenon DEF Idle
  <2> QED BY <1>4, <2>1, ReturnEffect, Zenon DEF EnqueuePush, TypeOK
<1> QED BY <1>1, <1>2, <1>3, <1>4, Zenon

\* What Lease does to the types.
LEMMA LeaseType ==
  ASSUME TypeOK, NEW q \in Queues, NEW n \in Nat, NEW v \in Visibilities,
         Lease(q, n, v)
  PROVE  TypeOK'
<1> USE DEF memory, durable, history
<1> DEFINE Granted(S, id) ==
             job' = [j \in Jobs |->
                       IF j \in S
                       THEN Leased(job[j], id[j], clock + v) ELSE job[j]]
<1>1. PICK k \in 1 .. (MaxLeases - leases), S \in SUBSET InQueue(ready, q) :
        /\ ready' = ready \ S
        /\ inflight' = inflight \cup S
        /\ leases' = leases + k
        /\ \E id \in [S -> (leases + 1) .. (leases + k)] : Granted(S, id)
  BY DEF Lease
<1>2. PICK id \in [S -> (leases + 1) .. (leases + k)] : Granted(S, id)
  BY <1>1, Zenon
<1> HIDE DEF Granted
<1>3. S \subseteq ready /\ S \subseteq Jobs
  BY <1>1, Zenon DEF InQueue, TypeOK
<1>4. k \in Nat
  BY ManagerAssumption DEF TypeOK
<1>5. \A j \in S : id[j] \in Nat
  <2>1. leases \in Nat
    BY Zenon DEF TypeOK
  <2>2. (leases + 1) .. (leases + k) \subseteq Nat
    BY <1>4, <2>1
  <2> QED BY <2>2, Zenon
<1>6. clock + v \in Nat
  BY ManagerAssumption DEF TypeOK
<1>7. \A j \in Jobs : job'[j] \in Job /\ job'[j].queue = job[j].queue
  <2> TAKE j \in Jobs
  <2>1. job[j] \in Job
    BY Zenon DEF TypeOK
  <2>2. CASE j \in S
    BY <1>2, <1>5, <1>6, <2>1, <2>2, LeasedType, Zenon DEF Granted
  <2>3. CASE j \notin S
    BY <1>2, <2>1, <2>3, Zenon DEF Granted
  <2> QED BY <2>2, <2>3, Zenon
<1>8. job' \in [Jobs -> Job]
  BY <1>2, <1>7, Zenon DEF Granted
<1>9. UNCHANGED <<mode, clock, queues, dlq, disordered, call, worker, wal, idem,
                  replayed, crashes, faults, accepted, raced>>
  BY DEF Lease
<1>10. leases' \in Nat /\ ready' \subseteq Jobs /\ inflight' \subseteq Jobs
       /\ ready' \cup inflight' \subseteq ready \cup inflight
  BY <1>1, <1>3, <1>4 DEF TypeOK
<1> QED BY <1>7, <1>8, <1>9, <1>10, Zenon DEF TypeOK, Worker

\* What the steps of Ack and Nack do to the types.
LEMMA AckNackType ==
  ASSUME TypeOK, NEW c \in Callers
  PROVE  /\ \A j \in Jobs : AckCheck(c, j) \/ NackCheck(c, j) => TypeOK'
         /\ AckWrite(c) => TypeOK'
         /\ AckRemove(c) => TypeOK'
         /\ NackLoad(c) => TypeOK'
         /\ NackUpdate(c) => TypeOK'
         /\ NackDecide(c) => TypeOK'
         /\ NackWrite(c) => TypeOK'
         /\ NackMove(c) => TypeOK'
<1> USE DEF memory, durable, history
<1> DEFINE j == call[c].job
<1>0. Idle.pc = "idle"
  BY Zenon DEF Idle
<1>1. ASSUME NEW i \in Jobs, AckCheck(c, i) \/ NackCheck(c, i)
      PROVE  TypeOK'
  <2>1. PICK pc \in {"ackWrite", "nackLoad"} : FindInflight(c, i, pc)
    BY <1>1, Zenon DEF AckCheck, NackCheck
  <2>2. pc \in CallPC
    BY Zenon DEF CallPC, AckPC, NackPC
  <2>3. i \in inflight /\ raced' \subseteq Jobs
    BY <2>1, Zenon DEF FindInflight, MarkRace, TypeOK
  <2> QED BY <2>1, <2>2, <2>3, FindEffect DEF FindInflight, TypeOK
<1>2. ASSUME AckWrite(c) PROVE TypeOK'
  <2>1. j \in Jobs /\ job[j] \in Job /\ job[j].queue \in Queues
    BY <1>2, Zenon DEF AckWrite, TypeOK
  <2>2. BareRecord("ack", j, job[j].queue, 0) \in Record
    BY <2>1, Zenon DEF BareRecord, Record, RecordType, ZeroTime
  <2>3. wal' \in Seq(Record) /\ faults' \in Nat
    BY <1>2, <2>2, WalTypes, Zenon DEF AckWrite, TypeOK
  <2>4. CASE Goto(c, "ackRemove")
    <3>1. "ackRemove" \in CallPC
      BY Zenon DEF CallPC, AckPC
    <3> QED BY <1>2, <2>1, <2>3, <2>4, <3>1, GotoEffect DEF AckWrite, TypeOK
  <2>5. CASE Return(c)
    BY <1>0, <1>2, <2>3, <2>5, ReturnEffect, Zenon DEF AckWrite, TypeOK
  <2> QED BY <1>2, <2>4, <2>5, Zenon DEF AckWrite
<1>3. ASSUME AckRemove(c) PROVE TypeOK'
  BY <1>0, <1>3, ReturnEffect, Zenon DEF AckRemove, TypeOK
<1>8. ASSUME NackLoad(c) PROVE TypeOK'
  BY <1>8, LoadEffect, Zenon DEF NackLoad, TypeOK
<1>4. ASSUME NackUpdate(c) PROVE TypeOK'
  <2>1. j \in Jobs /\ job[j] \in Job /\ job[j].queue \in Queues
    BY <1>4, Zenon DEF NackUpdate, TypeOK
  <2>2. PICK t : t = call[c].tries + 1
    BY Zenon
  <2>3. t \in Nat
    <3>1. call[c].tries \in Nat
      BY Zenon DEF TypeOK, Call
    <3> QED BY <2>2, <3>1
  <2>4. PICK delay \in Calculate(t) :
            /\ job' = [job EXCEPT ![j] = Released(job[j], t, clock + delay)]
            /\ disordered' = IF j \in ready /\ job[j].eta # clock + delay
                             THEN disordered \cup {job[j].queue}
                             ELSE disordered
    BY <1>4, <2>2, Zenon DEF NackUpdate
  <2>5. t \in Nat /\ clock + delay \in Nat
    <3>1. t \in Nat /\ delay \in Nat /\ clock \in Nat
      BY <2>3, <2>4, CalculateNat, Zenon DEF TypeOK
    <3> QED BY <3>1
  <2>6. /\ Released(job[j], t, clock + delay) \in Job
        /\ Released(job[j], t, clock + delay).queue = job[j].queue
    BY <2>1, <2>5, FailedType, Zenon
  <2>7. job' \in [Jobs -> Job] /\ \A i \in Jobs : job'[i].queue = job[i].queue
    BY <2>1, <2>4, <2>6, Zenon DEF TypeOK
  <2>8. disordered' \subseteq Queues
    BY <2>1, <2>4, Zenon DEF TypeOK
  <2>9. "nackDecide" \in CallPC
    BY Zenon DEF CallPC, NackPC
  <2>10. UNCHANGED <<mode, clock, queues, ready, inflight, dlq, worker, leases, wal,
                     idem, replayed, crashes, faults, accepted, raced>>
    BY <1>4, Zenon DEF NackUpdate
  <2>11. /\ call' \in [Callers -> Call]
         /\ \A d \in Callers : d # c => call'[d] = call[d]
         /\ call'[c].job = j
    BY <1>4, <2>9, GotoEffect, Zenon DEF NackUpdate, TypeOK
  <2> QED BY <2>1, <2>7, <2>8, <2>10, <2>11 DEF TypeOK, Worker
<1>7. ASSUME NackDecide(c) PROVE TypeOK'
  <2>1. j \in Jobs /\ job[j] \in Job /\ job[j].queue \in Queues
    BY <1>7, Zenon DEF NackDecide, TypeOK
  <2>2. Decided(job[j]) \in Job /\ Decided(job[j]).queue = job[j].queue
    BY <2>1, FailedType, Zenon
  <2>3. job' \in [Jobs -> Job] /\ \A i \in Jobs : job'[i].queue = job[i].queue
    BY <1>7, <2>1, <2>2, Zenon DEF NackDecide, TypeOK
  <2>4. PICK pc \in CallPC : Goto(c, pc)
    BY <1>7, Zenon DEF NackDecide, CallPC, NackPC
  <2>5. UNCHANGED <<mode, clock, queues, ready, inflight, dlq, disordered, worker,
                    leases, wal, idem, replayed, crashes, faults, accepted, raced>>
    BY <1>7, Zenon DEF NackDecide
  <2>6. /\ call' \in [Callers -> Call]
        /\ \A d \in Callers : d # c => call'[d] = call[d]
        /\ call'[c].job = j
    BY <2>4, GotoEffect, Zenon DEF TypeOK
  <2> QED BY <2>1, <2>3, <2>5, <2>6 DEF TypeOK, Worker
<1>5. ASSUME NackWrite(c) PROVE TypeOK'
  <2>1. j \in Jobs /\ job[j] \in Job /\ job[j].queue \in Queues
    BY <1>5, Zenon DEF NackWrite, TypeOK
  <2>2. /\ FullRecord("nack", j, job[j]) \in Record
        /\ BareRecord("nack", j, job[j].queue, job[j].tries) \in Record
    BY <2>1, RecordTypes, Zenon DEF RecordType, Job
  <2>3. wal' \in Seq(Record) /\ faults' \in Nat
    BY <1>5, <2>2, WalTypes, Zenon DEF NackWrite, TypeOK
  <2>4. CASE Return(c)
    BY <1>0, <1>5, <2>3, <2>4, ReturnEffect, Zenon DEF NackWrite, TypeOK
  <2>5. CASE \E pc \in CallPC : Goto(c, pc)
    BY <1>5, <2>1, <2>3, <2>5, GotoEffect DEF NackWrite, TypeOK
  <2> QED BY <1>5, <2>4, <2>5, Zenon DEF NackWrite, CallPC, NackPC
<1>6. ASSUME NackMove(c) PROVE TypeOK'
  <2>1. j \in Jobs /\ job[j].queue \in Queues
    BY <1>6, Zenon DEF NackMove, TypeOK
  <2> QED BY <1>0, <1>6, <2>1, ReturnEffect DEF NackMove, TypeOK
<1> QED BY <1>1, <1>2, <1>3, <1>4, <1>5, <1>6, <1>7, <1>8, Zenon

\* The worker's state after it has finished with a queue is well formed.
LEMMA NextQueueType ==
  ASSUME worker \in Worker, NEW todo \in SUBSET Queues
  PROVE  NextQueue(todo) \in Worker /\ NextQueue(todo).expired = {}
BY Zenon DEF NextQueue, Worker, IdleWorker, ZeroTime

\* What the timeout worker does to the types.
LEMMA WorkerType ==
  ASSUME TypeOK
  PROVE  /\ WorkerTick \/ Stop => TypeOK'
         /\ \A q \in Queues : WorkerScan(q) => TypeOK'
         /\ \A j \in Jobs : WorkerExpire(j) => TypeOK'
<1> USE DEF memory, durable, history
<1>1. ASSUME WorkerTick PROVE TypeOK'
  <2>1. worker' \in Worker /\ worker'.expired = {}
    BY <1>1, Zenon DEF WorkerTick, TypeOK, Worker, IdleWorker, ZeroTime
  <2> QED BY <1>1, <2>1, Zenon DEF WorkerTick, TypeOK
<1>2. ASSUME Stop PROVE TypeOK'
  <2>1. worker' \in Worker /\ worker'.expired = worker.expired
    BY <1>2, Zenon DEF Stop, TypeOK, Worker
  <2> QED BY <1>2, <2>1, Zenon DEF Stop, TypeOK
<1>3. ASSUME NEW q \in Queues, WorkerScan(q) PROVE TypeOK'
  <2> DEFINE expired == {j \in InQueue(inflight, q) : LeaseExpired(job[j], worker.now)}
             w == [worker EXCEPT !.pc = "expire", !.queue = q,
                                 !.todo = @ \ {q}, !.expired = expired]
  <2>1. expired \subseteq inflight /\ expired \subseteq Jobs
    BY Zenon DEF InQueue, TypeOK
  <2>2. worker.todo \ {q} \in SUBSET Queues /\ worker \in Worker
    BY Zenon DEF TypeOK, Worker
  <2> HIDE DEF expired
  <2>3. w \in Worker /\ w.expired = expired
    BY <2>1, <2>2, Zenon DEF Worker
  <2>4. worker' \in {NextQueue(worker.todo \ {q}), w}
    BY <1>3, Zenon DEF WorkerScan, expired
  <2>5. worker' \in Worker /\ worker'.expired \subseteq inflight
    BY <2>1, <2>2, <2>3, <2>4, NextQueueType, Zenon
  <2> QED BY <1>3, <2>5, Zenon DEF WorkerScan, TypeOK
<1>4. ASSUME NEW j \in Jobs, WorkerExpire(j) PROVE TypeOK'
  <2>1. job[j] \in Job /\ job[j].queue \in Queues
    BY <1>4, Zenon DEF WorkerExpire, TypeOK
  <2>2. PICK delay \in Calculate(job[j].tries + 1) :
          LET jb == Failed(job[j], job[j].tries + 1, worker.now + delay)
              rec == FullRecord("requeue", j, jb)
          IN  /\ job' = [job EXCEPT ![j] = jb]
              /\ IF ShouldRetry(jb)
                 THEN /\ ready' = ready \cup {j}
                      /\ WalWrite(rec) \/ WalWriteFails(rec)
                      /\ UNCHANGED dlq
                 ELSE /\ dlq' = dlq \cup {j}
                      /\ UNCHANGED <<ready, wal, faults>>
    BY <1>4, Zenon DEF WorkerExpire
  <2> DEFINE jb == Failed(job[j], job[j].tries + 1, worker.now + delay)
             rec == FullRecord("requeue", j, jb)
  <2>3. job[j].tries + 1 \in Nat /\ worker.now + delay \in Nat
    BY <2>2, ExpiredNat, Zenon
  <2>4. jb \in Job /\ jb.queue = job[j].queue
    BY <2>1, <2>3, FailedType, Zenon
  <2> HIDE DEF jb
  <2>5. rec \in Record
    BY <2>1, <2>4, RecordTypes, Zenon DEF RecordType
  <2>6. wal' \in Seq(Record) /\ faults' \in Nat
    BY <2>2, <2>5, WalTypes, Zenon DEF jb, TypeOK
  <2>7. job' \in [Jobs -> Job] /\ \A i \in Jobs : job'[i].queue = job[i].queue
    BY <2>2, <2>4, Zenon DEF jb, TypeOK
  <2>8. /\ ready' \subseteq ready \cup {j} /\ dlq' \subseteq dlq \cup {j}
        /\ inflight' \subseteq inflight /\ raced' \subseteq raced \cup {j}
    BY <1>4, <2>2, Zenon DEF WorkerExpire, MarkRace
  <2>9. worker' \in Worker /\ worker'.expired \subseteq worker.expired
    <3>1. worker \in Worker /\ worker.todo \in SUBSET Queues
      BY Zenon DEF TypeOK, Worker
    <3>2. worker' \in {NextQueue(worker.todo), [worker EXCEPT !.expired = @ \ {j}]}
      BY <1>4, Zenon DEF WorkerExpire
    <3>3. /\ [worker EXCEPT !.expired = @ \ {j}] \in Worker
          /\ [worker EXCEPT !.expired = @ \ {j}].expired \subseteq worker.expired
      BY <3>1, Zenon DEF Worker
    <3> QED BY <3>1, <3>2, <3>3, NextQueueType, Zenon
  <2>10. UNCHANGED <<mode, clock, queues, disordered, call, leases, idem,
                     replayed, crashes, accepted>>
    BY <1>4, Zenon DEF WorkerExpire
  <2> QED BY <2>1, <2>6, <2>7, <2>8, <2>9, <2>10, Zenon DEF TypeOK, Worker
<1> QED BY <1>1, <1>2, <1>3, <1>4, Zenon

\* What a crash and the replay of the log do to the types.
LEMMA RestartType ==
  ASSUME TypeOK
  PROVE  /\ Crash => TypeOK'
         /\ Replay => TypeOK'
<1> USE DEF memory, durable, history
<1>1. ASSUME Crash PROVE TypeOK'
  <2>1. job' \in [Jobs -> Job]
    BY <1>1, Zenon DEF Crash, NoJobYet, Job, JobStatus, ZeroTime, NoLease
  <2>2. call' \in [Callers -> Call] /\ \A c \in Callers : call'[c].pc = "idle"
    BY <1>1, Zenon DEF Crash, Idle, Call, CallPC, NoLease
  <2>3. worker' \in Worker /\ worker'.expired = {}
    BY <1>1, Zenon DEF Crash, IdleWorker, Worker, ZeroTime
  <2> QED BY <1>1, <2>1, <2>2, <2>3 DEF Crash, TypeOK
<1> DEFINE rec == wal[replayed + 1]
<1>2. ASSUME NEW types, Replays(types)
      PROVE  rec \in Record /\ replayed' \in Nat
  <2>1. replayed + 1 \in 1 .. Len(wal) /\ replayed' \in Nat
    BY <1>2 DEF Replays, TypeOK
  <2> QED BY <2>1 DEF TypeOK
<1> HIDE DEF rec
<1>3. ASSUME ReplayEnqueue PROVE TypeOK'
  <2> DEFINE jb == NewJob(rec.queue, rec.priority, rec.tries, rec.maxRetries, rec.eta)
  <2>1. rec \in Record /\ replayed' \in Nat
    BY <1>2, <1>3, Zenon DEF ReplayEnqueue
  <2>2. jb \in Job /\ jb.queue \in Queues /\ rec.job \in Jobs /\ rec.queue \in Queues
    BY <2>1, Zenon DEF NewJob, Job, JobStatus, NoLease, ZeroTime, Record, TypeOK
  <2> HIDE DEF jb
  <2>3. /\ queues' = queues \cup {rec.queue} /\ ready' = ready \cup {rec.job}
        /\ job' = [job EXCEPT ![rec.job] = IF rec.job \in ready THEN @ ELSE jb]
    BY <1>3, Zenon DEF ReplayEnqueue, rec, jb
  <2>4. /\ job' \in [Jobs -> Job]
        /\ \A i \in Jobs : job[i].queue \in Queues => job'[i].queue \in Queues
        /\ job'[rec.job].queue \in Queues
    BY <2>2, <2>3, Zenon DEF TypeOK
  <2> QED BY <1>3, <2>1, <2>2, <2>3, <2>4, Zenon DEF ReplayEnqueue, Replays, TypeOK, Worker
<1>4. ASSUME ReplayAck PROVE TypeOK'
  <2>1. rec \in Record /\ replayed' \in Nat
    BY <1>2, <1>4, Zenon DEF ReplayAck
  <2> QED BY <1>4, <2>1, Zenon DEF ReplayAck, Replays, TypeOK
<1>5. ASSUME ReplayNack PROVE TypeOK'
  <2> DEFINE jb == Failed(job[rec.job], rec.tries, rec.eta)
  <2>1. rec \in Record /\ replayed' \in Nat
    BY <1>2, <1>5, Zenon DEF ReplayNack
  <2>2. rec.job \in Jobs /\ rec.tries \in Nat /\ rec.eta \in Nat /\ job[rec.job] \in Job
    BY <2>1, Zenon DEF Record, TypeOK
  <2>3. jb \in Job /\ jb.queue = job[rec.job].queue
    BY <2>2, FailedType, Zenon
  <2> HIDE DEF jb
  <2>4. /\ job' = IF rec.job \in inflight THEN [job EXCEPT ![rec.job] = jb] ELSE job
        /\ inflight' \subseteq inflight
        /\ ready' \cup dlq' \subseteq ready \cup dlq \cup (inflight \cap {rec.job})
    BY <1>5, Zenon DEF ReplayNack, rec, jb
  <2>5. job' \in [Jobs -> Job] /\ \A i \in Jobs : job'[i].queue = job[i].queue
    BY <2>2, <2>3, <2>4, Zenon DEF TypeOK
  <2>6. ready' \subseteq Jobs /\ dlq' \subseteq Jobs
    BY <2>4, Zenon DEF TypeOK
  <2>7. UNCHANGED <<mode, clock, disordered, call, worker, leases, wal, idem,
                    crashes, faults, accepted, raced, queues>>
    BY <1>5, Zenon DEF ReplayNack, Replays
  <2> QED BY <2>1, <2>4, <2>5, <2>6, <2>7, Zenon DEF TypeOK, Worker
<1>6. ASSUME ReplayDone PROVE TypeOK'
  BY <1>6, Zenon DEF ReplayDone, TypeOK
<1> QED BY <1>1, <1>3, <1>4, <1>5, <1>6, Zenon DEF Replay

\* Every step keeps the types.
LEMMA TypeStep == TypeOK /\ [Next]_vars => TypeOK'
<1> SUFFICES ASSUME TypeOK, [Next]_vars PROVE TypeOK'
  OBVIOUS
<1>1. CASE UNCHANGED vars
  BY <1>1, Zenon DEF vars, memory, durable, history, TypeOK
<1>2. ASSUME NEW key \in Keys, EnqueueDuplicate(key) PROVE TypeOK'
  BY <1>2, Zenon DEF EnqueueDuplicate, TypeOK, memory, durable
<1>3. ASSUME NEW c \in Callers, NEW key \in Keys \cup {NoKey}, EnqueueCheck(c, key)
      PROVE  TypeOK'
  BY <1>3, EnqueueType, Zenon
<1>4. ASSUME NEW q \in Queues, NEW n \in 1 .. MaxBatch, NEW v \in Visibilities,
             Lease(q, n, v)
      PROVE  TypeOK'
  BY <1>4, LeaseType
<1>5. ASSUME NEW c \in Callers, NEW j \in Jobs, AckCheck(c, j) \/ NackCheck(c, j)
      PROVE  TypeOK'
  BY <1>5, AckNackType, Zenon
<1>6. ASSUME NEW c \in Callers, CallStep(c) PROVE TypeOK'
  BY <1>6, EnqueueType, AckNackType, Zenon DEF CallStep
<1>7. CASE WorkerStep \/ Stop
  BY <1>7, WorkerType, Zenon DEF WorkerStep
<1>8. CASE Replay \/ Crash
  BY <1>8, RestartType, Zenon
<1>9. CASE Tick
  BY <1>9 DEF Tick, TypeOK, memory, durable, history
<1> QED BY <1>1, <1>2, <1>3, <1>4, <1>5, <1>6, <1>7, <1>8, <1>9, Zenon DEF Next

\* Every reachable state of the manager is well formed.
THEOREM TypeCorrect == Spec => []TypeOK
<1>1. Init => TypeOK
  <2> SUFFICES ASSUME Init PROVE TypeOK
    BY Zenon
  <2>1. job \in [Jobs -> Job]
    BY Zenon DEF Init, NoJobYet, Job, JobStatus, ZeroTime, NoLease
  <2>2. call \in [Callers -> Call] /\ \A c \in Callers : call[c].pc = "idle"
    BY Zenon DEF Init, Idle, Call, CallPC, NoLease
  <2>3. worker \in Worker /\ worker.expired = {}
    BY Zenon DEF Init, IdleWorker, Worker, ZeroTime
  <2> QED BY <2>1, <2>2, <2>3 DEF Init, TypeOK
<1> QED BY <1>1, TypeStep, PTL DEF Spec

-----------------------------------------------------------------------------
(* The log only grows *)

\* Appending a record adds its job to the jobs logged with its type.
LEMMA AppendLogged ==
  ASSUME NEW log \in Seq(Record), NEW rec \in Record, NEW type
  PROVE  LoggedBy(Append(log, rec), type) =
           LoggedBy(log, type) \cup (IF rec.type = type THEN {rec.job} ELSE {})
<1> DEFINE new == Append(log, rec)
<1>1. /\ new \in Seq(Record) /\ Len(new) = Len(log) + 1
      /\ new[Len(log) + 1] = rec
      /\ \A i \in 1 .. Len(log) : new[i] = log[i]
      /\ Len(log) \in Nat
  OBVIOUS
<1>2. /\ DOMAIN log = 1 .. Len(log)
      /\ DOMAIN new = 1 .. (Len(log) + 1)
  BY <1>1
<1> HIDE DEF new
<1>3. ASSUME NEW j \in LoggedBy(new, type)
      PROVE  j \in LoggedBy(log, type) \cup (IF rec.type = type THEN {rec.job} ELSE {})
  <2>1. PICK i \in 1 .. (Len(log) + 1) : new[i].type = type /\ j = new[i].job
    BY <1>2, <1>3, Zenon DEF LoggedBy
  <2>2. CASE i = Len(log) + 1
    BY <1>1, <2>1, <2>2, Zenon
  <2>3. CASE i \in 1 .. Len(log)
    BY <1>1, <1>2, <2>1, <2>3, Zenon DEF LoggedBy
  <2> QED BY <1>1, <2>2, <2>3
<1>4. ASSUME NEW j \in LoggedBy(log, type)
      PROVE  j \in LoggedBy(new, type)
  <2>1. PICK i \in 1 .. Len(log) : log[i].type = type /\ j = log[i].job
    BY <1>2, <1>4, Zenon DEF LoggedBy
  <2>2. i \in DOMAIN new /\ new[i] = log[i]
    BY <1>1, <1>2
  <2> QED BY <2>1, <2>2, Zenon DEF LoggedBy
<1>5. ASSUME rec.type = type PROVE rec.job \in LoggedBy(new, type)
  <2>1. Len(log) + 1 \in DOMAIN new
    BY <1>1, <1>2
  <2> QED BY <1>1, <1>5, <2>1, Zenon DEF LoggedBy
<1>6. LoggedBy(new, type) =
           LoggedBy(log, type) \cup (IF rec.type = type THEN {rec.job} ELSE {})
  BY <1>3, <1>4, <1>5, Zenon
<1> QED BY <1>6, Zenon DEF new

\* A write, successful or not, forgets nothing; a successful one logs its job.
LEMMA WriteLogged ==
  ASSUME wal \in Seq(Record), NEW rec \in Record,
         WalWrite(rec) \/ WalWriteFails(rec)
  PROVE  /\ Logged \subseteq Logged' /\ Acked \subseteq Acked'
         /\ Logged' \subseteq Logged \cup {rec.job}
         /\ rec.type # "enqueue" => Logged' = Logged
         /\ WalWrite(rec) /\ rec.type = "enqueue" => rec.job \in Logged'
         /\ WalWrite(rec) /\ rec.type = "ack" => rec.job \in Acked'
<1>1. wal' = wal \/ wal' = Append(wal, rec)
  BY Zenon DEF WalWrite, WalWriteFails
<1>2. WalWrite(rec) => wal' = Append(wal, rec)
  BY Zenon DEF WalWrite
<1>3. /\ LoggedBy(Append(wal, rec), "enqueue") =
           Logged \cup (IF rec.type = "enqueue" THEN {rec.job} ELSE {})
      /\ LoggedBy(Append(wal, rec), "ack") =
           Acked \cup (IF rec.type = "ack" THEN {rec.job} ELSE {})
  BY AppendLogged, Zenon DEF Logged, Acked
<1>4. Logged' = LoggedBy(wal', "enqueue") /\ Acked' = LoggedBy(wal', "ack")
  BY Zenon DEF Logged, Acked, LoggedBy
<1>5. Logged = LoggedBy(wal, "enqueue") /\ Acked = LoggedBy(wal, "ack")
  BY Zenon DEF Logged, Acked
<1> QED BY <1>1, <1>2, <1>3, <1>4, <1>5, Zenon

\* A step that does not write leaves the logged jobs as they are.
LEMMA SameLog ==
  ASSUME UNCHANGED wal PROVE Logged' = Logged /\ Acked' = Acked
BY Zenon DEF Logged, Acked, LoggedBy

-----------------------------------------------------------------------------
(* PlaceInv: the log is ahead of the memory *)

\* The steps of Enqueue keep PlaceInv.
LEMMA EnqueuePlace ==
  ASSUME TypeOK, PlaceInv, NEW c \in Callers
  PROVE  /\ \A key \in Keys \cup {NoKey} : EnqueueCheck(c, key) => PlaceInv'
         /\ \A j \in Jobs, q \in Queues, p \in Priorities, r \in Retries, d \in Delays :
              EnqueueWrite(c, j, NewJob(q, p, 0, r, clock + d)) => PlaceInv'
         /\ EnqueueStoreKey(c) => PlaceInv'
         /\ EnqueuePush(c) => PlaceInv'
<1> USE DEF memory, durable, history, PlaceInv, Holding
<1>0. call \in [Callers -> Call]
  BY Zenon DEF TypeOK
<1>1. ASSUME NEW key \in Keys \cup {NoKey}, EnqueueCheck(c, key)
      PROVE  PlaceInv'
  <2>1. /\ call'[c].pc = "enqWrite"
        /\ \A d \in Callers : d # c => call'[d] = call[d]
    BY <1>0, <1>1, Zenon DEF EnqueueCheck, Proceed
  <2>2. Logged' = Logged
    BY <1>1, SameLog, Zenon DEF EnqueueCheck
  <2>3. mode = "up" /\ mode' = "up"
    BY <1>1, Zenon DEF EnqueueCheck
  <2>4. ReplayInv' /\ LogInv' /\ FreshInv' /\ WorkerInv'
    BY <1>1, <2>1, <2>2, <2>3 DEF EnqueueCheck, ReplayInv, LogInv, FreshInv, WorkerInv
  <2> QED BY <1>1, <2>4, Zenon DEF EnqueueCheck
<1>2. ASSUME NEW j \in Jobs, NEW jb, jb \in Job, EnqueueWrite(c, j, jb), jb.queue \in Queues
      PROVE  PlaceInv'
  <2> DEFINE rec == FullRecord("enqueue", j, jb)
  <2>1. rec \in Record /\ rec.job = j /\ rec.type = "enqueue"
    BY <1>2, RecordTypes, Zenon DEF RecordType, FullRecord
  <2> HIDE DEF rec
  <2>2. /\ Logged \subseteq Logged'
        /\ WalWrite(rec) => j \in Logged'
    BY <1>2, <2>1, WriteLogged, Zenon DEF EnqueueWrite, rec, TypeOK
  <2>3. /\ j \notin Logged /\ call[c].pc = "enqWrite" /\ mode = "up" /\ mode' = mode
        /\ UNCHANGED <<clock, ready, inflight, dlq, worker, idem, accepted>>
    BY <1>2, Zenon DEF EnqueueWrite, ReplayInv, TypeOK
  <2>4. \A i \in inflight : job'[i] = job[i]
    BY <1>2, <2>3, Zenon DEF EnqueueWrite, TypeOK, LogInv
  <2>5. /\ \A d \in Callers : d # c => call'[d] = call[d]
        /\ \/ call'[c].pc = "idle"
           \/ call'[c].pc \in {"enqPush", "enqKey"} /\ call'[c].job = j /\ WalWrite(rec)
    BY <1>0, <1>2 DEF EnqueueWrite, Proceed, Return, Idle, rec
  <2>6. LogInv'
    BY <2>2, <2>3, <2>5, Zenon DEF LogInv
  <2>7. FreshInv'
    BY <2>3, <2>5 DEF FreshInv, LogInv
  <2>8. ReplayInv' /\ WorkerInv'
    BY <2>3, <2>4, Zenon DEF ReplayInv, WorkerInv
  <2> QED BY <2>3, <2>6, <2>7, <2>8, Zenon
<1>3. ASSUME NEW j \in Jobs, NEW q \in Queues, NEW p \in Priorities,
             NEW r \in Retries, NEW d \in Delays,
             EnqueueWrite(c, j, NewJob(q, p, 0, r, clock + d))
      PROVE  PlaceInv'
  <2>1. clock \in Nat /\ p \in Nat /\ r \in Nat /\ clock + d \in Nat
    BY EnqueueNumbers, Zenon
  <2>2. NewJob(q, p, 0, r, clock + d) \in Job /\ NewJob(q, p, 0, r, clock + d).queue = q
    BY <2>1, Zenon DEF NewJob, Job, JobStatus, NoLease, ZeroTime
  <2> QED BY <1>2, <1>3, <2>2, Zenon
<1>4. ASSUME EnqueueStoreKey(c) PROVE PlaceInv'
  <2>1. "enqPush" \in CallPC
    BY Zenon DEF CallPC, EnqueuePC
  <2>2. /\ \A d \in Callers : d # c => call'[d] = call[d]
        /\ call'[c].pc = "enqPush" /\ call'[c].job = call[c].job
    BY <1>0, <1>4, <2>1, GotoEffect, Zenon DEF EnqueueStoreKey
  <2>3. Logged' = Logged
    BY <1>4, SameLog, Zenon DEF EnqueueStoreKey
  <2>4. mode = "up" /\ mode' = "up" /\ call[c].pc = "enqKey"
    BY <1>4, Zenon DEF EnqueueStoreKey, ReplayInv, TypeOK
  <2>5. \A k \in Keys : idem'[k] = idem[k] \/ idem'[k] = call[c].job
    BY <1>4, Zenon DEF EnqueueStoreKey, TypeOK
  <2>6. ReplayInv' /\ LogInv' /\ FreshInv' /\ WorkerInv'
    BY <1>4, <2>2, <2>3, <2>4, <2>5 DEF EnqueueStoreKey, ReplayInv, LogInv, FreshInv, WorkerInv
  <2> QED BY <1>4, <2>6, Zenon DEF EnqueueStoreKey
<1>5. ASSUME EnqueuePush(c) PROVE PlaceInv'
  <2>1. /\ \A d \in Callers : d # c => call'[d] = call[d]
        /\ call'[c].pc = "idle"
    <3>1. Return(c)
      BY <1>5, Zenon DEF EnqueuePush
    <3> QED BY <1>0, <3>1, ReturnEffect, Zenon
  <2>2. Logged' = Logged
    BY <1>5, SameLog, Zenon DEF EnqueuePush
  <2>3. mode = "up" /\ mode' = "up" /\ call[c].pc = "enqPush"
    BY <1>5, Zenon DEF EnqueuePush, ReplayInv, TypeOK
  <2>4. ReplayInv' /\ LogInv' /\ FreshInv' /\ WorkerInv'
    BY <1>5, <2>1, <2>2, <2>3 DEF EnqueuePush, ReplayInv, LogInv, FreshInv, WorkerInv
  <2> QED BY <1>5, <2>3, <2>4, Zenon DEF EnqueuePush, FreshInv
<1> QED BY <1>1, <1>3, <1>4, <1>5, Zenon

\* Lease takes jobs from the heap, where no worker, Ack or Nack has them.
LEMMA LeasePlace ==
  ASSUME TypeOK, PlaceInv, NEW q \in Queues, NEW n \in Nat, NEW v \in Visibilities,
         Lease(q, n, v)
  PROVE  PlaceInv'
<1>1. PICK S \in SUBSET InQueue(ready, q) :
        /\ ready' = ready \ S
        /\ inflight' = inflight \cup S
        /\ \E id : job' = [j \in Jobs |-> IF j \in S
                                          THEN Leased(job[j], id[j], clock + v)
                                          ELSE job[j]]
  BY Zenon DEF Lease
<1>2. S \subseteq ready
  BY <1>1, Zenon DEF InQueue
<1>3. \A j \in Jobs : j \notin S => job'[j] = job[j]
  BY <1>1, Zenon
<1>4. UNCHANGED <<mode, clock, dlq, call, worker, wal, idem, accepted>> /\ mode = "up"
  BY Zenon DEF Lease, durable, history
<1>5. Logged' = Logged
  BY <1>4, SameLog, Zenon
<1>6. ReplayInv' /\ LogInv' /\ FreshInv'
  BY <1>1, <1>2, <1>4, <1>5, Zenon DEF PlaceInv, ReplayInv, LogInv, FreshInv, Holding
<1>7. WorkerInv'
  <2>1. \A j \in worker.expired : j \in inflight /\ j \in Jobs /\ job'[j] = job[j]
    BY <1>2, <1>3, Zenon DEF PlaceInv, WorkerInv, TypeOK
  <2> QED BY <1>1, <1>4, <2>1, Zenon DEF PlaceInv, WorkerInv
<1> QED BY <1>1, <1>2, <1>6, <1>7, Zenon DEF PlaceInv

\* The steps of Ack and Nack keep PlaceInv: those that take a job out of the
\* inflight map need the lock of its queue, which the worker holds while it
\* has expired jobs.
LEMMA AckNackPlace ==
  ASSUME TypeOK, PlaceInv, NEW c \in Callers
  PROVE  /\ \A j \in Jobs : AckCheck(c, j) \/ NackCheck(c, j) => PlaceInv'
         /\ AckWrite(c) => PlaceInv'
         /\ AckRemove(c) => PlaceInv'
         /\ NackLoad(c) => PlaceInv'
         /\ NackUpdate(c) => PlaceInv'
         /\ NackDecide(c) => PlaceInv'
         /\ NackWrite(c) => PlaceInv'
         /\ NackMove(c) => PlaceInv'
<1> USE DEF memory, durable, history, PlaceInv, Holding
<1> DEFINE j == call[c].job
<1>0. call \in [Callers -> Call]
  BY Zenon DEF TypeOK
<1>1. ASSUME NEW i \in Jobs, AckCheck(c, i) \/ NackCheck(c, i)
      PROVE  PlaceInv'
  <2>1. PICK pc \in {"ackWrite", "nackLoad"} : FindInflight(c, i, pc)
    BY <1>1, Zenon DEF AckCheck, NackCheck
  <2>2. pc \in CallPC
    BY Zenon DEF CallPC, AckPC, NackPC
  <2>3. /\ \A d \in Callers : d # c => call'[d] = call[d]
        /\ call'[c].pc = pc /\ call'[c].job = i
    BY <2>1, <2>2, FindEffect
  <2>4. Logged' = Logged
    BY <2>1, SameLog, Zenon DEF FindInflight
  <2>5. mode = "up" /\ mode' = "up" /\ i \in inflight
    BY <2>1, Zenon DEF FindInflight
  <2>6. UNCHANGED <<clock, memory, worker, idem, accepted>>
    BY <2>1, Zenon DEF FindInflight
  <2>7. ReplayInv' /\ LogInv' /\ FreshInv' /\ WorkerInv'
    BY <2>3, <2>4, <2>5, <2>6 DEF ReplayInv, LogInv, FreshInv, WorkerInv
  <2> QED BY <2>6, <2>7, Zenon
<1> DEFINE Later == (AckPC \cup NackPC) \ {"ackWrite", "nackLoad", "nackUpdate"}
<1>2. ASSUME Return(c) \/ NackLoad(c) \/ \E pc \in Later : Goto(c, pc),
             call[c].pc \notin {"idle", "enqWrite", "enqKey", "enqPush"},
             UNCHANGED <<mode, clock, ready, inflight, dlq, worker, idem, accepted>>,
             Logged' = Logged,
             \A i \in Jobs : job'[i].queue = job[i].queue,
             \A i \in Jobs : job'[i].deadline = job[i].deadline \/ job'[i].deadline = 0
      PROVE  PlaceInv'
  <2>1. /\ \A d \in Callers : d # c => call'[d] = call[d]
        /\ \/ call'[c].pc = "idle"
           \/ /\ call'[c].pc \notin {"idle", "enqWrite", "enqKey", "enqPush"}
              /\ call'[c].job = call[c].job
    <3>1. CASE Return(c)
      BY <1>0, <3>1, ReturnEffect, Zenon
    <3>2. CASE \E pc \in Later : Goto(c, pc)
      <4>1. PICK pc \in Later : Goto(c, pc)
        BY <3>2, Zenon
      <4>2. pc \in CallPC /\ pc \notin {"idle", "enqWrite", "enqKey", "enqPush"}
        BY Zenon DEF CallPC, AckPC, NackPC
      <4> QED BY <1>0, <4>1, <4>2, GotoEffect, Zenon
    <3>3. CASE NackLoad(c)
      BY <3>3, LoadEffect, Zenon
    <3> QED BY <1>2, <3>1, <3>2, <3>3, Zenon
  <2>2. mode = "up" /\ mode' = "up"
    BY <1>2, Zenon DEF ReplayInv, TypeOK
  <2>3. ReplayInv' /\ LogInv' /\ FreshInv'
    BY <1>2, <2>1, <2>2 DEF ReplayInv, LogInv, FreshInv
  <2>4. WorkerInv'
    BY <1>2 DEF WorkerInv, TypeOK
  <2> QED BY <1>2, <2>3, <2>4, Zenon
<1>3. ASSUME AckWrite(c) PROVE PlaceInv'
  <2> DEFINE rec == BareRecord("ack", j, job[j].queue, 0)
  <2>1. j \in Jobs /\ job[j].queue \in Queues
    BY <1>3, Zenon DEF AckWrite, TypeOK
  <2>2. rec \in Record /\ rec.type = "ack"
    BY <2>1, Zenon DEF BareRecord, Record, RecordType, ZeroTime
  <2>3. Logged' = Logged
    BY <1>3, <2>2, WriteLogged, Zenon DEF AckWrite, TypeOK
  <2>4. "ackRemove" \in Later
    BY Zenon DEF AckPC
  <2> QED BY <1>2, <1>3, <2>3, <2>4, Zenon DEF AckWrite
<1>4. ASSUME AckRemove(c) \/ NackMove(c) PROVE PlaceInv'
  <2>1. /\ \A d \in Callers : d # c => call'[d] = call[d]
        /\ call'[c].pc = "idle"
    <3>1. Return(c)
      BY <1>4, Zenon DEF AckRemove, NackMove
    <3> QED BY <1>0, <3>1, ReturnEffect, Zenon
  <2>2. Logged' = Logged
    BY <1>4, SameLog, Zenon DEF AckRemove, NackMove
  <2>3. /\ call[c].pc \notin {"idle", "enqWrite", "enqKey", "enqPush"}
        /\ mode = "up" /\ mode' = "up"
    BY <1>4, Zenon DEF AckRemove, NackMove, ReplayInv, TypeOK
  <2>4. /\ ~Locked(job[j].queue)
        /\ UNCHANGED <<clock, job, worker, idem, accepted>>
        /\ inflight' = inflight \ {j}
        /\ ready' \subseteq ready \cup {j} /\ dlq' \subseteq dlq \cup {j}
    BY <1>4, Zenon DEF AckRemove, NackMove
  <2>5. ReplayInv' /\ LogInv' /\ FreshInv'
    BY <2>1, <2>2, <2>3, <2>4 DEF ReplayInv, LogInv, FreshInv
  <2>6. WorkerInv'
    BY <2>4, Zenon DEF WorkerInv, Locked
  <2> QED BY <2>4, <2>5, <2>6, Zenon
<1>8. ASSUME NackLoad(c) PROVE PlaceInv'
  <2>1. Logged' = Logged
    BY <1>8, SameLog, Zenon DEF NackLoad
  <2> QED BY <1>2, <1>8, <2>1, Zenon DEF NackLoad
<1>5. ASSUME NackUpdate(c) PROVE PlaceInv'
  <2>1. PICK t, eta : job' = [job EXCEPT ![j] = Released(job[j], t, eta)]
    BY <1>5, Zenon DEF NackUpdate
  <2>2. \A i \in Jobs : /\ job'[i].queue = job[i].queue
                        /\ job'[i].deadline = job[i].deadline \/ job'[i].deadline = 0
    BY <2>1, Zenon DEF Released, ZeroTime, TypeOK, Job
  <2>3. Logged' = Logged
    BY <1>5, SameLog, Zenon DEF NackUpdate
  <2>4. "nackDecide" \in Later
    BY Zenon DEF NackPC
  <2> QED BY <1>2, <1>5, <2>2, <2>3, <2>4, Zenon DEF NackUpdate
<1>6. ASSUME NackDecide(c) PROVE PlaceInv'
  <2>1. \A i \in Jobs : /\ job'[i].queue = job[i].queue
                        /\ job'[i].deadline = job[i].deadline
    BY <1>6, Zenon DEF NackDecide, Decided, TypeOK, Job
  <2>2. Logged' = Logged
    BY <1>6, SameLog, Zenon DEF NackDecide
  <2>3. \E pc \in Later : Goto(c, pc)
    BY <1>6, Zenon DEF NackDecide, NackPC
  <2> QED BY <1>2, <1>6, <2>1, <2>2, <2>3, Zenon DEF NackDecide
<1>7. ASSUME NackWrite(c) PROVE PlaceInv'
  <2>1. j \in Jobs /\ job[j] \in Job /\ job[j].queue \in Queues
    BY <1>7, Zenon DEF NackWrite, TypeOK
  <2>2. PICK rec \in {FullRecord("nack", j, job[j]),
                      BareRecord("nack", j, job[j].queue, job[j].tries)} :
          WalWrite(rec) \/ WalWriteFails(rec)
    BY <1>7, Zenon DEF NackWrite
  <2>3. rec \in Record
    BY <2>1, <2>2, HandlerRecords, Zenon
  <2>6. rec.type # "enqueue"
    BY <2>1, <2>2, HandlerRecords, Zenon
  <2>4. Logged' = Logged
    BY <2>2, <2>3, <2>6, WriteLogged, Zenon DEF TypeOK
  <2>5. Return(c) \/ \E pc \in Later : Goto(c, pc)
    BY <1>7, Zenon DEF NackWrite, NackPC
  <2> QED BY <1>2, <1>7, <2>4, <2>5, Zenon DEF NackWrite
<1> QED BY <1>1, <1>3, <1>4, <1>5, <1>6, <1>7, <1>8, Zenon

\* The worker's steps keep PlaceInv.
LEMMA WorkerPlace ==
  ASSUME TypeOK, PlaceInv
  PROVE  /\ WorkerTick \/ Stop => PlaceInv'
         /\ \A q \in Queues : WorkerScan(q) => PlaceInv'
         /\ \A j \in Jobs : WorkerExpire(j) => PlaceInv'
<1> USE DEF memory, durable, history, PlaceInv
<1>1. ASSUME UNCHANGED <<mode, clock, memory, call, durable, accepted>>,
             mode = "up", WorkerInv'
      PROVE  PlaceInv'
  <2>1. Logged' = Logged
    BY <1>1, SameLog, Zenon
  <2> QED BY <1>1, <2>1, Zenon DEF ReplayInv, LogInv, FreshInv, Holding
<1>2. ASSUME WorkerTick \/ Stop PROVE PlaceInv'
  <2>1. worker'.expired = {} /\ worker'.now <= clock
    <3>1. CASE WorkerTick
      BY <3>1 DEF WorkerTick, IdleWorker, TypeOK, ZeroTime
    <3>2. CASE Stop
      BY <3>2, Zenon DEF Stop, WorkerInv, TypeOK, Worker
    <3> QED BY <1>2, <3>1, <3>2, Zenon
  <2>2. UNCHANGED <<mode, clock, memory, call, durable, accepted>> /\ mode = "up"
    BY <1>2, Zenon DEF WorkerTick, Stop
  <2>3. WorkerInv'
    BY <2>1, <2>2, Zenon DEF WorkerInv
  <2> QED BY <1>1, <2>2, <2>3, Zenon
<1>3. ASSUME NEW q \in Queues, WorkerScan(q) PROVE PlaceInv'
  <2>1. UNCHANGED <<mode, clock, memory, call, durable, accepted>> /\ mode = "up"
    BY <1>3 DEF WorkerScan, ReplayInv, IdleWorker, TypeOK
  <2> DEFINE expired == {j \in InQueue(inflight, q) : LeaseExpired(job[j], worker.now)}
  <2>2. \A j \in expired : j \in inflight /\ job[j].queue = q /\ job[j].deadline < clock
    BY DEF InQueue, LeaseExpired, WorkerInv, TypeOK, Worker, Job
  <2>3. CASE worker' = NextQueue(worker.todo \ {q})
    <3>1. worker'.expired = {} /\ worker'.now <= clock
      BY <2>3 DEF NextQueue, IdleWorker, ZeroTime, WorkerInv, TypeOK, Worker
    <3>2. WorkerInv'
      BY <2>1, <3>1, Zenon DEF WorkerInv
    <3> QED BY <1>1, <2>1, <3>2, Zenon
  <2>4. CASE worker' = [worker EXCEPT !.pc = "expire", !.queue = q,
                                      !.todo = @ \ {q}, !.expired = expired]
    <3> HIDE DEF expired
    <3>1. /\ worker'.pc = "expire" /\ worker'.expired = expired
          /\ worker'.queue = q /\ worker'.now = worker.now
      BY <2>4, Zenon DEF TypeOK, Worker
    <3>2. WorkerInv'
      BY <2>1, <2>2, <3>1, Zenon DEF WorkerInv
    <3> QED BY <1>1, <2>1, <3>2, Zenon
  <2> QED BY <1>3, <2>3, <2>4, Zenon DEF WorkerScan
<1>4. ASSUME NEW j \in Jobs, WorkerExpire(j) PROVE PlaceInv'
  <2>1. /\ j \in worker.expired /\ j \in inflight /\ inflight' = inflight \ {j}
        /\ UNCHANGED <<mode, clock, call, idem, accepted>> /\ mode = "up"
    BY <1>4, Zenon DEF WorkerExpire, WorkerInv, ReplayInv, IdleWorker, TypeOK
  <2>2. PICK delay \in Calculate(job[j].tries + 1) :
          LET jb == Failed(job[j], job[j].tries + 1, worker.now + delay)
              rec == FullRecord("requeue", j, jb)
          IN  /\ job' = [job EXCEPT ![j] = jb]
              /\ IF ShouldRetry(jb)
                 THEN /\ ready' = ready \cup {j}
                      /\ WalWrite(rec) \/ WalWriteFails(rec)
                      /\ UNCHANGED dlq
                 ELSE /\ dlq' = dlq \cup {j}
                      /\ UNCHANGED <<ready, wal, faults>>
    BY <1>4, Zenon DEF WorkerExpire
  <2> DEFINE jb == Failed(job[j], job[j].tries + 1, worker.now + delay)
             rec == FullRecord("requeue", j, jb)
  <2>3. ready' \subseteq ready \cup {j} /\ dlq' \subseteq dlq \cup {j}
    BY <2>2, Zenon
  <2>4. \A i \in Jobs : i # j => job'[i] = job[i]
    BY <2>2, Zenon DEF TypeOK
  <2>5. Logged' = Logged
    <3>1. job[j] \in Job /\ job[j].tries + 1 \in Nat /\ worker.now + delay \in Nat
      BY <2>2, ExpiredNat, Zenon
    <3>2. jb \in Job /\ jb.queue = job[j].queue
      BY <3>1, FailedType, Zenon
    <3>3. rec.type = "requeue"
      BY Zenon DEF FullRecord
    <3> HIDE DEF jb
    <3>4. rec \in Record
      <4>1. jb.queue \in Queues
        BY <2>1, <3>2, Zenon DEF TypeOK
      <4> QED BY <3>2, <4>1, RecordTypes, Zenon DEF RecordType
    <3>5. UNCHANGED wal \/ WalWrite(rec) \/ WalWriteFails(rec)
      BY <2>2, Zenon DEF jb
    <3> HIDE DEF rec
    <3>6. wal \in Seq(Record)
      BY Zenon DEF TypeOK
    <3> QED BY <3>3, <3>4, <3>5, <3>6, WriteLogged, SameLog, Zenon
  <2>6. /\ worker'.expired = worker.expired \ {j} /\ worker'.now <= clock
        /\ \/ worker'.expired = {}
           \/ worker'.pc = "expire" /\ worker'.queue = worker.queue
    BY <1>4 DEF WorkerExpire, NextQueue, IdleWorker, ZeroTime, WorkerInv, TypeOK, Worker
  <2>7. ReplayInv' /\ LogInv' /\ FreshInv'
    BY <2>1, <2>3, <2>5, Zenon DEF ReplayInv, LogInv, FreshInv, Holding
  <2>8. WorkerInv'
    BY <2>1, <2>4, <2>6, Zenon DEF WorkerInv, TypeOK
  <2> QED BY <2>1, <2>3, <2>7, <2>8, Zenon
<1> QED BY <1>2, <1>3, <1>4, Zenon

\* A crash and the replay of the log keep PlaceInv.
LEMMA RestartPlace ==
  ASSUME TypeOK, PlaceInv
  PROVE  /\ Crash => PlaceInv'
         /\ Replay => PlaceInv'
<1> USE DEF memory, durable, history, PlaceInv
<1>1. ASSUME Crash PROVE PlaceInv'
  <2>1. Logged' = Logged
    BY <1>1, SameLog, Zenon DEF Crash
  <2>2. \A c \in Callers : call'[c].pc = "idle"
    <3>1. Idle.pc = "idle"
      BY Zenon DEF Idle
    <3> QED BY <1>1, <3>1, Zenon DEF Crash
  <2>3. ReplayInv' /\ LogInv' /\ FreshInv'
    BY <1>1, <2>1, <2>2, Zenon DEF Crash, ReplayInv, LogInv, FreshInv, Holding
  <2>4. WorkerInv'
    BY <1>1 DEF Crash, WorkerInv, IdleWorker, ZeroTime, TypeOK
  <2> QED BY <1>1, <2>3, <2>4, Zenon DEF Crash
<1>2. ASSUME mode = "replay",
             UNCHANGED <<clock, call, worker, wal, idem, accepted>>,
             ready' \subseteq Logged, inflight' = {}, dlq' = {}
      PROVE  PlaceInv'
  <2>1. Logged' = Logged
    BY <1>2, SameLog, Zenon
  <2>2. worker.expired = {}
    BY <1>2 DEF ReplayInv, IdleWorker
  <2> QED BY <1>2, <2>1, <2>2, Zenon DEF ReplayInv, LogInv, FreshInv, WorkerInv, Holding
<1>3. ASSUME ReplayEnqueue PROVE PlaceInv'
  <2>1. /\ replayed + 1 \in DOMAIN wal /\ wal[replayed + 1].type = "enqueue"
    BY <1>3 DEF ReplayEnqueue, Replays, TypeOK
  <2>2. wal[replayed + 1].job \in Logged
    BY <2>1, Zenon DEF Logged, LoggedBy
  <2> QED BY <1>2, <1>3, <2>2, Zenon DEF ReplayEnqueue, Replays, ReplayInv, LogInv
<1>4. ASSUME ReplayAck PROVE PlaceInv'
  BY <1>2, <1>4, Zenon DEF ReplayAck, Replays, ReplayInv, LogInv
<1>5. ASSUME ReplayNack PROVE PlaceInv'
  BY <1>2, <1>5, Zenon DEF ReplayNack, Replays, ReplayInv, LogInv
<1>6. ASSUME ReplayDone PROVE PlaceInv'
  BY <1>2, <1>6, Zenon DEF ReplayDone, ReplayInv, LogInv
<1> QED BY <1>1, <1>3, <1>4, <1>5, <1>6, Zenon DEF Replay

\* Every step keeps PlaceInv.
LEMMA PlaceStep == TypeOK /\ PlaceInv /\ [Next]_vars => PlaceInv'
<1> SUFFICES ASSUME TypeOK, PlaceInv, [Next]_vars PROVE PlaceInv'
  BY Zenon
<1> USE DEF memory, durable, history
<1>1. ASSUME UNCHANGED <<mode, memory, call, worker, durable, accepted>>,
             clock' = clock \/ clock' = clock + 1
      PROVE  PlaceInv'
  <2>1. Logged' = Logged
    BY <1>1, SameLog, Zenon
  <2>2. ReplayInv' /\ LogInv' /\ FreshInv'
    BY <1>1, <2>1, Zenon DEF PlaceInv, ReplayInv, LogInv, FreshInv, Holding
  <2>3. WorkerInv'
    BY <1>1 DEF PlaceInv, WorkerInv, TypeOK, Worker, Job
  <2> QED BY <1>1, <2>2, <2>3, Zenon DEF PlaceInv
<1>2. CASE UNCHANGED vars \/ Tick
  BY <1>1, <1>2, Zenon DEF vars, Tick
<1>3. ASSUME NEW key \in Keys, EnqueueDuplicate(key) PROVE PlaceInv'
  <2>1. Logged' = Logged
    BY <1>3, SameLog, Zenon DEF EnqueueDuplicate
  <2> QED BY <1>3, <2>1, Zenon DEF EnqueueDuplicate, PlaceInv, ReplayInv, LogInv, FreshInv,
                            WorkerInv, Holding
<1>4. ASSUME NEW c \in Callers, NEW key \in Keys \cup {NoKey}, EnqueueCheck(c, key)
      PROVE  PlaceInv'
  BY <1>4, EnqueuePlace, Zenon
<1>5. ASSUME NEW q \in Queues, NEW n \in 1 .. MaxBatch, NEW v \in Visibilities,
             Lease(q, n, v)
      PROVE  PlaceInv'
  BY <1>5, LeasePlace
<1>6. ASSUME NEW c \in Callers, NEW j \in Jobs, AckCheck(c, j) \/ NackCheck(c, j)
      PROVE  PlaceInv'
  BY <1>6, AckNackPlace, Zenon
<1>7. ASSUME NEW c \in Callers, CallStep(c) PROVE PlaceInv'
  BY <1>7, EnqueuePlace, AckNackPlace, Zenon DEF CallStep
<1>8. CASE WorkerStep \/ Stop
  BY <1>8, WorkerPlace, Zenon DEF WorkerStep
<1>9. CASE Replay \/ Crash
  BY <1>9, RestartPlace, Zenon
<1> QED BY <1>2, <1>3, <1>4, <1>5, <1>6, <1>7, <1>8, <1>9, Zenon DEF Next

\* The initial state satisfies PlaceInv.
LEMMA PlaceInit == Init => PlaceInv
<1> SUFFICES ASSUME Init PROVE PlaceInv
  BY Zenon
<1>1. \A c \in Callers : call[c].pc = "idle"
  BY Zenon DEF Init, Idle
<1> QED BY <1>1 DEF Init, PlaceInv, ReplayInv, LogInv, FreshInv, WorkerInv, Holding,
                    IdleWorker, ZeroTime

-----------------------------------------------------------------------------
(* LossInv: no known job is lost *)

\* LossInv while the manager is up, from what a step does to the places: it
\* forgets no known job but an acknowledged one.
LEMMA LossUp ==
  ASSUME LossInv, mode = "up", mode' = "up",
         Acked \subseteq Acked',
         ready \cup inflight \cup dlq \subseteq ready' \cup inflight' \cup dlq' \cup Acked',
         \A j \in Known' :
           \/ j \in Known
           \/ \E c \in Callers : call'[c].pc = "enqPush" /\ call'[c].job = j,
         \A c \in Callers : call[c].pc = "enqPush" =>
           \/ call'[c].pc = "enqPush" /\ call'[c].job = call[c].job
           \/ call[c].job \in ready',
         \A c \in Callers : call'[c].pc = "ackRemove" => call'[c].job \in Acked'
  PROVE  LossInv'
<1>1. ASSUME NEW j \in Known', j \notin Acked'
      PROVE  \/ j \in ready' \cup inflight' \cup dlq'
             \/ \E c \in Callers : call'[c].pc = "enqPush" /\ call'[c].job = j
  <2>1. CASE j \in Known
    <3>1. \/ j \in ready \cup inflight \cup dlq
          \/ \E c \in Callers : call[c].pc = "enqPush" /\ call[c].job = j
      BY <1>1, <2>1, Zenon DEF LossInv
    <3> QED BY <1>1, <3>1, Zenon
  <2> QED BY <1>1, <2>1, Zenon
<1> QED BY <1>1, Zenon DEF LossInv

\* Nothing new is known when neither an answer nor a key is added.
LEMMA SameKnown ==
  ASSUME UNCHANGED <<accepted, idem>> PROVE Known' = Known
BY Zenon DEF Known

\* The steps of Enqueue keep LossInv.
LEMMA EnqueueLoss ==
  ASSUME TypeOK, PlaceInv, LossInv, NEW c \in Callers
  PROVE  /\ \A key \in Keys \cup {NoKey} : EnqueueCheck(c, key) => LossInv'
         /\ \A j \in Jobs, q \in Queues, p \in Priorities, r \in Retries, d \in Delays :
              EnqueueWrite(c, j, NewJob(q, p, 0, r, clock + d)) => LossInv'
         /\ EnqueueStoreKey(c) => LossInv'
         /\ EnqueuePush(c) => LossInv'
<1> USE DEF memory, durable, history
<1>0. /\ call \in [Callers -> Call]
      /\ \A d \in Callers : call[d].pc = "ackRemove" => call[d].job \in Acked
  BY Zenon DEF TypeOK, LossInv
<1>2. ASSUME NEW key \in Keys \cup {NoKey}, EnqueueCheck(c, key) PROVE LossInv'
  <2>1. /\ call'[c].pc = "enqWrite" /\ call[c].pc = "idle"
        /\ \A d \in Callers : d # c => call'[d] = call[d]
    BY <1>0, <1>2, Zenon DEF EnqueueCheck, Proceed
  <2>2. Known' = Known /\ Acked' = Acked
    BY <1>2, SameKnown, SameLog, Zenon DEF EnqueueCheck
  <2> QED BY <1>0, <1>2, <2>1, <2>2, LossUp, Zenon DEF EnqueueCheck
<1>3. ASSUME NEW j \in Jobs, NEW q \in Queues, NEW p \in Priorities,
             NEW r \in Retries, NEW d \in Delays,
             EnqueueWrite(c, j, NewJob(q, p, 0, r, clock + d))
      PROVE  LossInv'
  <2> DEFINE jb == NewJob(q, p, 0, r, clock + d)
             rec == FullRecord("enqueue", j, jb)
  <2>0. clock \in Nat /\ p \in Nat /\ r \in Nat /\ clock + d \in Nat
    BY EnqueueNumbers, Zenon
  <2>1. jb \in Job /\ jb.queue \in Queues
    BY <2>0, Zenon DEF NewJob, Job, JobStatus, NoLease, ZeroTime
  <2> HIDE DEF jb
  <2>2. EnqueueWrite(c, j, jb)
    BY <1>3, Zenon DEF jb
  <2>3. rec \in Record
    BY <2>1, RecordTypes, Zenon DEF RecordType
  <2> HIDE DEF rec
  <2>4. Acked \subseteq Acked'
    BY <2>2, <2>3, WriteLogged, Zenon DEF EnqueueWrite, rec, TypeOK
  <2>5. /\ call[c].pc = "enqWrite" /\ mode = "up" /\ mode' = "up"
        /\ UNCHANGED <<ready, inflight, dlq, idem, accepted>>
    BY <2>2, Zenon DEF EnqueueWrite, PlaceInv, ReplayInv, TypeOK
  <2>6. /\ \A e \in Callers : e # c => call'[e] = call[e]
        /\ call'[c].pc \in {"idle", "enqPush", "enqKey"}
    BY <1>0, <2>2 DEF EnqueueWrite, Proceed, Return, Idle
  <2> QED BY <1>0, <2>4, <2>5, <2>6, SameKnown, LossUp, Zenon
<1>4. ASSUME EnqueueStoreKey(c) PROVE LossInv'
  <2>1. "enqPush" \in CallPC
    BY Zenon DEF CallPC, EnqueuePC
  <2>2. /\ \A d \in Callers : d # c => call'[d] = call[d]
        /\ call'[c].pc = "enqPush" /\ call'[c].job = call[c].job
    BY <1>0, <1>4, <2>1, GotoEffect, Zenon DEF EnqueueStoreKey
  <2>3. /\ mode = "up" /\ mode' = "up" /\ call[c].pc = "enqKey"
        /\ UNCHANGED <<ready, inflight, dlq, wal, accepted>>
    BY <1>4, Zenon DEF EnqueueStoreKey, PlaceInv, ReplayInv, TypeOK
  <2>4. \A k \in Keys : idem'[k] = idem[k] \/ idem'[k] = call[c].job
    BY <1>4, Zenon DEF EnqueueStoreKey, TypeOK
  <2>5. \A j \in Known' : j \in Known \/ j = call[c].job
    BY <2>3, <2>4, Zenon DEF Known
  <2> QED BY <1>0, <2>2, <2>3, <2>5, SameLog, LossUp, Zenon
<1>5. ASSUME EnqueuePush(c) PROVE LossInv'
  <2>1. /\ \A d \in Callers : d # c => call'[d] = call[d]
        /\ call'[c].pc = "idle"
    <3>1. Return(c)
      BY <1>5, Zenon DEF EnqueuePush
    <3> QED BY <1>0, <3>1, ReturnEffect, Zenon
  <2>2. /\ mode = "up" /\ mode' = "up" /\ call[c].pc = "enqPush"
        /\ ready' = ready \cup {call[c].job}
        /\ accepted' = accepted \cup {call[c].job}
        /\ UNCHANGED <<inflight, dlq, wal, idem>>
    BY <1>5, Zenon DEF EnqueuePush, PlaceInv, ReplayInv, TypeOK
  <2>3. \A j \in Known' : j \in Known \/ j = call[c].job
    BY <2>2, Zenon DEF Known
  <2>4. Acked' = Acked
    BY <2>2, SameLog, Zenon
  <2>5. ASSUME NEW j \in Known', j \notin Acked'
        PROVE  \/ j \in ready' \cup inflight' \cup dlq'
               \/ \E d \in Callers : call'[d].pc = "enqPush" /\ call'[d].job = j
    BY <2>1, <2>2, <2>3, <2>4, <2>5 DEF LossInv
  <2> QED BY <1>0, <2>1, <2>2, <2>4, <2>5, Zenon DEF LossInv
<1> QED BY <1>2, <1>3, <1>4, <1>5, Zenon

\* Lease, Ack, Nack and the worker move jobs and lose none: the only step that
\* takes a job out of memory is the last step of Ack, after its record.
LEMMA MoveLoss ==
  ASSUME TypeOK, PlaceInv, LossInv
  PROVE  /\ \A q \in Queues, n \in Nat, v \in Visibilities : Lease(q, n, v) => LossInv'
         /\ \A c \in Callers, j \in Jobs : AckCheck(c, j) \/ NackCheck(c, j) => LossInv'
         /\ \A c \in Callers : AckWrite(c) => LossInv'
         /\ \A c \in Callers : AckRemove(c) => LossInv'
         /\ \A c \in Callers : NackLoad(c) => LossInv'
         /\ \A c \in Callers : NackUpdate(c) \/ NackDecide(c) => LossInv'
         /\ \A c \in Callers : NackWrite(c) => LossInv'
         /\ \A c \in Callers : NackMove(c) => LossInv'
         /\ WorkerTick \/ Stop \/ (\E q \in Queues : WorkerScan(q)) => LossInv'
         /\ \A j \in Jobs : WorkerExpire(j) => LossInv'
<1> USE DEF memory, durable, history
<1>0. /\ call \in [Callers -> Call] /\ wal \in Seq(Record)
      /\ \A d \in Callers : call[d].pc = "ackRemove" => call[d].job \in Acked
  BY Zenon DEF TypeOK, LossInv
<1>1. ASSUME NEW q \in Queues, NEW n \in Nat, NEW v \in Visibilities, Lease(q, n, v)
      PROVE  LossInv'
  <2>1. PICK S : ready' = ready \ S /\ inflight' = inflight \cup S
    BY <1>1, Zenon DEF Lease
  <2>2. /\ UNCHANGED <<mode, dlq, call, wal, idem, accepted>> /\ mode = "up"
    BY <1>1, Zenon DEF Lease
  <2>3. Known' = Known /\ Acked' = Acked
    BY <2>2, SameKnown, SameLog, Zenon
  <2> QED BY <1>0, <2>1, <2>2, <2>3, LossUp, Zenon
<1>2. ASSUME NEW c \in Callers, NEW j \in Jobs, AckCheck(c, j) \/ NackCheck(c, j)
      PROVE  LossInv'
  <2>1. PICK pc \in {"ackWrite", "nackLoad"} : FindInflight(c, j, pc)
    BY <1>2, Zenon DEF AckCheck, NackCheck
  <2>2. pc \in CallPC
    BY Zenon DEF CallPC, AckPC, NackPC
  <2>3. /\ \A d \in Callers : d # c => call'[d] = call[d]
        /\ call'[c].pc = pc /\ call[c].pc = "idle"
    BY <2>1, <2>2, FindEffect, Zenon DEF FindInflight
  <2>4. UNCHANGED <<mode, ready, inflight, dlq, wal, idem, accepted>> /\ mode = "up"
    BY <2>1, Zenon DEF FindInflight
  <2>5. Known' = Known /\ Acked' = Acked
    BY <2>4, SameKnown, SameLog, Zenon
  <2> QED BY <1>0, <2>3, <2>4, <2>5, LossUp, Zenon
<1>3. ASSUME NEW c \in Callers, call[c].pc \in AckPC \cup NackPC,
             UNCHANGED <<mode, idem, accepted>>,
             Acked \subseteq Acked',
             ready \cup inflight \cup dlq
               \subseteq ready' \cup inflight' \cup dlq' \cup Acked',
             \A d \in Callers : d # c => call'[d] = call[d],
             call'[c].pc = "ackRemove" => call'[c].job \in Acked'
      PROVE  LossInv'
  <2>1. mode = "up" /\ call[c].pc \notin {"idle", "enqPush"}
    BY <1>3, Zenon DEF PlaceInv, ReplayInv, TypeOK, AckPC, NackPC
  <2>2. Known' = Known
    BY <1>3, SameKnown, Zenon
  <2> QED BY <1>0, <1>3, <2>1, <2>2, LossUp, Zenon
<1>4. ASSUME NEW c \in Callers, AckWrite(c) PROVE LossInv'
  <2> DEFINE j == call[c].job
             rec == BareRecord("ack", j, job[j].queue, 0)
  <2>1. j \in Jobs /\ job[j].queue \in Queues
    BY <1>4, Zenon DEF AckWrite, TypeOK
  <2>2. rec \in Record /\ rec.type = "ack" /\ rec.job = j
    BY <2>1, Zenon DEF BareRecord, Record, RecordType, ZeroTime
  <2>3. \/ WalWrite(rec) /\ Goto(c, "ackRemove")
        \/ WalWriteFails(rec) /\ Return(c)
    BY <1>4, Zenon DEF AckWrite
  <2> HIDE DEF rec
  <2>4. Acked \subseteq Acked' /\ (WalWrite(rec) => j \in Acked')
    BY <1>0, <2>2, <2>3, WriteLogged, Zenon
  <2>5. /\ \A d \in Callers : d # c => call'[d] = call[d]
        /\ call'[c].pc = "ackRemove" => call'[c].job = j /\ WalWrite(rec)
    <3>1. "ackRemove" \in CallPC
      BY Zenon DEF CallPC, AckPC
    <3> QED BY <1>0, <2>3, <3>1, GotoEffect, ReturnEffect, Zenon
  <2>6. call[c].pc \in AckPC \cup NackPC /\ UNCHANGED <<mode, ready, inflight, dlq, idem, accepted>>
    BY <1>4, Zenon DEF AckWrite, AckPC
  <2> QED BY <1>3, <2>4, <2>5, <2>6, Zenon
<1>5. ASSUME NEW c \in Callers, AckRemove(c) PROVE LossInv'
  <2>1. /\ \A d \in Callers : d # c => call'[d] = call[d]
        /\ call'[c].pc = "idle"
    <3>1. Return(c)
      BY <1>5, Zenon DEF AckRemove
    <3> QED BY <1>0, <3>1, ReturnEffect, Zenon
  <2>2. /\ call[c].pc \in AckPC \cup NackPC /\ call[c].job \in Acked
        /\ inflight' = inflight \ {call[c].job}
        /\ UNCHANGED <<mode, ready, dlq, wal, idem, accepted>>
    BY <1>0, <1>5, Zenon DEF AckRemove, AckPC
  <2>3. Acked' = Acked
    BY <2>2, SameLog, Zenon
  <2> QED BY <1>3, <2>1, <2>2, <2>3, Zenon
<1>11. ASSUME NEW c \in Callers, NackLoad(c) PROVE LossInv'
  <2>1. /\ \A d \in Callers : d # c => call'[d] = call[d]
        /\ call'[c].pc # "ackRemove"
    BY <1>11, LoadEffect, Zenon
  <2>2. /\ call[c].pc \in AckPC \cup NackPC
        /\ UNCHANGED <<mode, ready, inflight, dlq, wal, idem, accepted>>
    BY <1>11, Zenon DEF NackLoad, NackPC
  <2>3. Acked' = Acked
    BY <2>2, SameLog, Zenon
  <2> QED BY <1>3, <2>1, <2>2, <2>3, Zenon
<1>6. ASSUME NEW c \in Callers, NackUpdate(c) \/ NackDecide(c) PROVE LossInv'
  <2>1. PICK pc \in {"nackDecide", "retryWrite", "dlqWrite"} : Goto(c, pc)
    BY <1>6, Zenon DEF NackUpdate, NackDecide
  <2>2. pc \in CallPC
    BY Zenon DEF CallPC, NackPC
  <2>3. /\ \A d \in Callers : d # c => call'[d] = call[d]
        /\ call'[c].pc # "ackRemove"
    BY <1>0, <2>1, <2>2, GotoEffect, Zenon
  <2>4. /\ call[c].pc \in AckPC \cup NackPC
        /\ UNCHANGED <<mode, ready, inflight, dlq, wal, idem, accepted>>
    BY <1>6, Zenon DEF NackUpdate, NackDecide, NackPC
  <2>5. Acked' = Acked
    BY <2>4, SameLog, Zenon
  <2> QED BY <1>3, <2>3, <2>4, <2>5, Zenon
<1>7. ASSUME NEW c \in Callers, NackWrite(c) PROVE LossInv'
  <2> DEFINE j == call[c].job
  <2>1. j \in Jobs /\ job[j] \in Job /\ job[j].queue \in Queues
    BY <1>7, Zenon DEF NackWrite, TypeOK
  <2>2. PICK rec \in {FullRecord("nack", j, job[j]),
                      BareRecord("nack", j, job[j].queue, job[j].tries)} :
          WalWrite(rec) \/ WalWriteFails(rec)
    BY <1>7, Zenon DEF NackWrite
  <2>3. rec \in Record
    BY <2>1, <2>2, HandlerRecords, Zenon
  <2>4. Acked \subseteq Acked'
    BY <1>0, <2>2, <2>3, WriteLogged, Zenon
  <2>5. Return(c) \/ Goto(c, "retryMove") \/ Goto(c, "dlqMove")
    BY <1>7, Zenon DEF NackWrite
  <2>6. /\ \A d \in Callers : d # c => call'[d] = call[d]
        /\ call'[c].pc # "ackRemove"
    <3>1. "retryMove" \in CallPC /\ "dlqMove" \in CallPC
      BY Zenon DEF CallPC, NackPC
    <3> QED BY <1>0, <2>5, <3>1, GotoEffect, ReturnEffect, Zenon
  <2>7. call[c].pc \in AckPC \cup NackPC /\ UNCHANGED <<mode, ready, inflight, dlq, idem, accepted>>
    BY <1>7, Zenon DEF NackWrite, NackPC
  <2> QED BY <1>3, <2>4, <2>6, <2>7, Zenon
<1>8. ASSUME NEW c \in Callers, NackMove(c) PROVE LossInv'
  <2>1. /\ \A d \in Callers : d # c => call'[d] = call[d]
        /\ call'[c].pc = "idle"
    <3>1. Return(c)
      BY <1>8, Zenon DEF NackMove
    <3> QED BY <1>0, <3>1, ReturnEffect, Zenon
  <2>2. /\ call[c].pc \in AckPC \cup NackPC
        /\ ready \cup inflight \cup dlq \subseteq ready' \cup inflight' \cup dlq'
        /\ UNCHANGED <<mode, wal, idem, accepted>>
    BY <1>8, Zenon DEF NackMove, NackPC
  <2>3. Acked' = Acked
    BY <2>2, SameLog, Zenon
  <2> QED BY <1>3, <2>1, <2>2, <2>3, Zenon
<1>9. ASSUME WorkerTick \/ Stop \/ \E q \in Queues : WorkerScan(q) PROVE LossInv'
  <2>1. /\ UNCHANGED <<mode, ready, inflight, dlq, call, wal, idem, accepted>>
        /\ mode = "up"
    <3>1. CASE WorkerTick \/ Stop
      BY <3>1, Zenon DEF WorkerTick, Stop
    <3>2. ASSUME NEW q \in Queues, WorkerScan(q) PROVE <2>1
      BY <3>2 DEF WorkerScan, PlaceInv, ReplayInv, IdleWorker, TypeOK
    <3> QED BY <1>9, <3>1, <3>2, Zenon
  <2>2. Known' = Known /\ Acked' = Acked
    BY <2>1, SameKnown, SameLog, Zenon
  <2> QED BY <1>0, <2>1, <2>2, LossUp, Zenon
<1>10. ASSUME NEW j \in Jobs, WorkerExpire(j) PROVE LossInv'
  <2>1. /\ j \in worker.expired /\ j \in inflight /\ inflight' = inflight \ {j}
        /\ UNCHANGED <<mode, call, idem, accepted>> /\ mode = "up"
    BY <1>10, Zenon DEF WorkerExpire, PlaceInv, WorkerInv, ReplayInv, IdleWorker, TypeOK
  <2>2. PICK delay \in Calculate(job[j].tries + 1) :
          LET jb == Failed(job[j], job[j].tries + 1, worker.now + delay)
              rec == FullRecord("requeue", j, jb)
          IN  IF ShouldRetry(jb)
              THEN /\ ready' = ready \cup {j}
                   /\ WalWrite(rec) \/ WalWriteFails(rec)
                   /\ UNCHANGED dlq
              ELSE /\ dlq' = dlq \cup {j}
                   /\ UNCHANGED <<ready, wal, faults>>
    BY <1>10, Zenon DEF WorkerExpire
  <2> DEFINE jb == Failed(job[j], job[j].tries + 1, worker.now + delay)
             rec == FullRecord("requeue", j, jb)
  <2>3. job[j] \in Job /\ job[j].tries + 1 \in Nat /\ worker.now + delay \in Nat
    BY <2>2, ExpiredNat, Zenon
  <2>4. jb \in Job /\ jb.queue = job[j].queue
    BY <2>3, FailedType, Zenon
  <2> HIDE DEF jb
  <2>5. rec \in Record
    <3>1. jb.queue \in Queues
      BY <2>1, <2>4, Zenon DEF TypeOK
    <3> QED BY <2>4, <3>1, RecordTypes, Zenon DEF RecordType
  <2>6. UNCHANGED wal \/ WalWrite(rec) \/ WalWriteFails(rec)
    BY <2>2, Zenon DEF jb
  <2>7. ready \cup inflight \cup dlq \subseteq ready' \cup inflight' \cup dlq'
    BY <2>1, <2>2, Zenon
  <2> HIDE DEF rec
  <2>8. Acked \subseteq Acked'
    BY <1>0, <2>5, <2>6, WriteLogged, SameLog, Zenon
  <2>9. Known' = Known
    BY <2>1, SameKnown, Zenon
  <2> QED BY <1>0, <2>1, <2>7, <2>8, <2>9, LossUp, Zenon
<1> QED BY <1>1, <1>2, <1>4, <1>5, <1>6, <1>7, <1>8, <1>9, <1>10, <1>11, Zenon

\* A crash starts the replay, each record replayed brings its job back, and at
\* the end of the log every logged job, so every known one, is in a heap.
LEMMA RestartLoss ==
  ASSUME TypeOK, PlaceInv, LossInv
  PROVE  /\ Crash => LossInv'
         /\ Replay => LossInv'
<1> USE DEF memory, durable, history
<1>1. ASSUME Crash PROVE LossInv'
  <2>1. \A c \in Callers : call'[c].pc = "idle"
    <3>1. Idle.pc = "idle"
      BY Zenon DEF Idle
    <3> QED BY <1>1, <3>1, Zenon DEF Crash
  <2>2. mode' = "replay" /\ replayed' = 0 /\ Len(wal') \in Nat
    BY <1>1 DEF Crash, TypeOK
  <2> QED BY <2>1, <2>2 DEF LossInv
<1>2. ASSUME mode = "replay", mode' = "replay", UNCHANGED <<call, wal>>,
             replayed < Len(wal), replayed' = replayed + 1, ready \subseteq ready',
             wal[replayed + 1].type = "enqueue" => wal[replayed + 1].job \in ready'
      PROVE  LossInv'
  <2>1. \A c \in Callers : call'[c].pc = "idle"
    BY <1>2, Zenon DEF PlaceInv, ReplayInv
  <2>2. replayed \in Nat /\ Len(wal) \in Nat
    BY DEF TypeOK
  <2>3. ASSUME NEW i \in 1 .. replayed', wal[i].type = "enqueue"
        PROVE  wal[i].job \in ready'
    <3>1. CASE i \in 1 .. replayed
      BY <1>2, <2>3, <3>1, Zenon DEF LossInv
    <3>2. CASE i = replayed + 1
      BY <1>2, <2>3, <3>2, Zenon
    <3> QED BY <1>2, <2>2, <3>1, <3>2
  <2> QED BY <1>2, <2>1, <2>2, <2>3 DEF LossInv
<1>3. ASSUME ReplayEnqueue PROVE LossInv'
  BY <1>2, <1>3, Zenon DEF ReplayEnqueue, Replays
<1>4. ASSUME ReplayAck \/ ReplayNack PROVE LossInv'
  BY <1>2, <1>4, Zenon DEF ReplayAck, ReplayNack, Replays
<1>5. ASSUME ReplayDone PROVE LossInv'
  <2>1. /\ mode = "replay" /\ replayed = Len(wal) /\ mode' = "up"
        /\ UNCHANGED <<ready, call, wal, idem, accepted>>
    BY <1>5, Zenon DEF ReplayDone
  <2>2. Logged \subseteq ready
    <3>1. DOMAIN wal = 1 .. Len(wal)
      BY DEF TypeOK
    <3> QED BY <2>1, <3>1, Zenon DEF LossInv, Logged, LoggedBy
  <2>3. Known' \subseteq Logged
    BY <2>1, Zenon DEF Known, PlaceInv, LogInv
  <2>4. \A c \in Callers : call'[c].pc = "idle"
    BY <2>1, Zenon DEF PlaceInv, ReplayInv
  <2> QED BY <2>1, <2>2, <2>3, <2>4, Zenon DEF LossInv
<1> QED BY <1>1, <1>3, <1>4, <1>5, Zenon DEF Replay

\* Every step keeps LossInv.
LEMMA LossStep == TypeOK /\ PlaceInv /\ LossInv /\ [Next]_vars => LossInv'
<1> SUFFICES ASSUME TypeOK, PlaceInv, LossInv, [Next]_vars PROVE LossInv'
  BY Zenon
<1>1. CASE UNCHANGED vars \/ Tick
  <2>1. UNCHANGED <<mode, ready, inflight, dlq, call, wal, idem, accepted, replayed>>
    BY <1>1, Zenon DEF vars, memory, durable, history, Tick
  <2>2. Known' = Known /\ Acked' = Acked
    BY <2>1, SameKnown, SameLog, Zenon
  <2> QED BY <2>1, <2>2, Zenon DEF LossInv
<1>2. ASSUME NEW key \in Keys, EnqueueDuplicate(key) PROVE LossInv'
  <2>1. Known' \subseteq Known
    BY <1>2, Zenon DEF EnqueueDuplicate, Known, durable
  <2>2. Acked' = Acked
    BY <1>2, SameLog, Zenon DEF EnqueueDuplicate, durable
  <2> QED BY <1>2, <2>1, <2>2, LossUp, Zenon DEF EnqueueDuplicate, memory, LossInv
<1>3. ASSUME NEW c \in Callers, NEW key \in Keys \cup {NoKey}, EnqueueCheck(c, key)
      PROVE  LossInv'
  BY <1>3, EnqueueLoss, Zenon
<1>4. ASSUME NEW q \in Queues, NEW n \in 1 .. MaxBatch, NEW v \in Visibilities,
             Lease(q, n, v)
      PROVE  LossInv'
  BY <1>4, MoveLoss
<1>5. ASSUME NEW c \in Callers, NEW j \in Jobs, AckCheck(c, j) \/ NackCheck(c, j)
      PROVE  LossInv'
  BY <1>5, MoveLoss, Zenon
<1>6. ASSUME NEW c \in Callers, CallStep(c) PROVE LossInv'
  BY <1>6, EnqueueLoss, MoveLoss, Zenon DEF CallStep
<1>7. CASE WorkerStep \/ Stop
  BY <1>7, MoveLoss, Zenon DEF WorkerStep
<1>8. CASE Replay \/ Crash
  BY <1>8, RestartLoss, Zenon
<1> QED BY <1>1, <1>2, <1>3, <1>4, <1>5, <1>6, <1>7, <1>8, Zenon DEF Next

-----------------------------------------------------------------------------
(* The theorems *)

\* No interleaving of requests, timeouts, log errors and restarts makes a job
\* ready and inflight at once.
THEOREM ReadyNotInflightHolds == Spec => []ReadyNotInflight
<1>1. TypeOK /\ PlaceInv => ReadyNotInflight
  BY Zenon DEF PlaceInv, ReadyNotInflight
<1> QED BY <1>1, TypeCorrect, PlaceInit, PlaceStep, PTL DEF Spec

\* Every job in memory, and every ID a client was given, is in the log.
THEOREM WriteAheadHolds == Spec => []WriteAhead
<1>1. PlaceInv => WriteAhead
  BY Zenon DEF PlaceInv, LogInv, WriteAhead
<1> QED BY <1>1, TypeCorrect, PlaceInit, PlaceStep, PTL DEF Spec

\* What the worker collected stays inflight and expired until it moves it.
THEOREM OnlyExpiredTakenHolds == Spec => []OnlyExpiredTaken
<1>1. PlaceInv => OnlyExpiredTaken
  BY Zenon DEF PlaceInv, WorkerInv, OnlyExpiredTaken
<1> QED BY <1>1, TypeCorrect, PlaceInit, PlaceStep, PTL DEF Spec

\* A client that was given a job ID finds its job in the manager, across
\* races, log errors and restarts, until an Ack of it is in the log.
THEOREM NoJobLostHolds == Spec => []NoJobLost
<1>1. Init => LossInv
  <2> SUFFICES ASSUME Init PROVE LossInv
    BY Zenon
  <2>1. \A c \in Callers : call[c].pc = "idle"
    BY Zenon DEF Init, Idle
  <2>2. mode = "replay" /\ replayed = 0 /\ wal = <<>>
    BY Zenon DEF Init
  <2> QED BY <2>1, <2>2 DEF LossInv
<1>2. LossInv => NoJobLost
  BY Zenon DEF LossInv, NoJobLost, Known
<1> QED BY <1>1, <1>2, TypeCorrect, PlaceInit, PlaceStep, LossStep, PTL DEF Spec

-----------------------------------------------------------------------------
(* Frames *)

\* A step that touches only job j, and only handlers of j, has to be checked
\* for j alone.
LEMMA OneJob ==
  ASSUME HandlerInv, UnracedConsistent, NEW j \in Jobs,
         \A c \in Callers : Handling(c) => call[c].job \in Jobs,
         \A i \in Jobs : i # j =>
           /\ job'[i] = job[i]
           /\ i \in ready' <=> i \in ready
           /\ i \in inflight' <=> i \in inflight
           /\ i \in dlq' <=> i \in dlq
           /\ i \in raced => i \in raced',
         \A c \in Callers : \/ call'[c] = call[c]
                            \/ ~Handling(c)'
                            \/ call'[c].job = j,
         j \notin raced' => Consistent(j)',
         \A c \in Callers : Handling(c)' /\ call'[c].job = j /\ j \notin raced' =>
           /\ j \in inflight' /\ HandlerState(call'[c], job'[j])
           /\ \A d \in Callers : Handling(d)' /\ d # c => call'[d].job # j
  PROVE  HandlerInv' /\ UnracedConsistent'
<1>1. UnracedConsistent'
  <2> SUFFICES ASSUME NEW i \in Jobs, i \notin raced' PROVE Consistent(i)'
    BY Zenon DEF UnracedConsistent
  <2>1. CASE i = j
    BY <2>1, Zenon
  <2>2. CASE i # j
    <3>1. Consistent(i)
      BY <2>2, Zenon DEF UnracedConsistent
    <3> QED BY <2>2, <3>1, Zenon DEF Consistent
  <2> QED BY <2>1, <2>2, Zenon
<1>2. ASSUME NEW c \in Callers, NEW d \in Callers, c # d,
             Handling(c)', Handling(d)', call'[c].job = call'[d].job
      PROVE  call'[c].job \in raced'
  <2>1. CASE call'[c].job = j
    BY <1>2, <2>1, Zenon
  <2>2. CASE call'[c].job # j
    <3>1. call'[c] = call[c] /\ call'[d] = call[d]
      BY <1>2, <2>2, Zenon
    <3>2. Handling(c) /\ Handling(d)
      BY <1>2, <3>1, Zenon DEF Handling
    <3> QED BY <1>2, <2>2, <3>1, <3>2, Zenon DEF HandlerInv
  <2> QED BY <2>1, <2>2, Zenon
<1>3. ASSUME NEW c \in Callers, Handling(c)', call'[c].job \notin raced'
      PROVE  call'[c].job \in inflight' /\ HandlerState(call'[c], job'[call'[c].job])
  <2>1. CASE call'[c].job = j
    BY <1>3, <2>1, Zenon
  <2>2. CASE call'[c].job # j
    <3>1. call'[c] = call[c]
      BY <1>3, <2>2, Zenon
    <3>2. Handling(c)
      BY <1>3, <3>1, Zenon DEF Handling
    <3>3. call[c].job \in Jobs /\ call[c].job # j /\ call[c].job \notin raced
      BY <1>3, <2>2, <3>1, <3>2, Zenon
    <3>4. call[c].job \in inflight /\ HandlerState(call[c], job[call[c].job])
      BY <3>2, <3>3, Zenon DEF HandlerInv
    <3> QED BY <3>1, <3>3, <3>4, Zenon
  <2> QED BY <2>1, <2>2, Zenon
<1>4. HandlerInv'
  <2>1. /\ \A c, d \in Callers :
             Handling(c)' /\ Handling(d)' /\ call'[c].job = call'[d].job /\ c # d
               => call'[c].job \in raced'
        /\ \A c \in Callers : Handling(c)' /\ call'[c].job \notin raced' =>
             call'[c].job \in inflight' /\ HandlerState(call'[c], job'[call'[c].job])
    BY <1>2, <1>3, Zenon
  <2> QED BY <2>1, Zenon DEF HandlerInv, HandlerState, ShouldRetry
<1> QED BY <1>1, <1>4, Zenon

\* The handlers' jobs are jobs.
LEMMA HandledJobs ==
  ASSUME TypeOK, NEW c \in Callers, Handling(c)
  PROVE  /\ call[c].job \in Jobs /\ job[call[c].job] \in Job
         /\ call[c].pc \notin {"idle", "enqWrite", "enqKey", "enqPush"} /\ Holding(c)
BY Zenon DEF TypeOK, Handling, AckPC, NackPC, Holding

\* A record that is not an Enqueue record leaves the Enqueue records as they
\* are.
LEMMA NewRecords ==
  ASSUME wal \in Seq(Record), NewInv, NEW rec \in Record,
         rec.type = "enqueue" => rec.tries = 0,
         UNCHANGED wal \/ WalWrite(rec) \/ WalWriteFails(rec)
  PROVE  \A i \in DOMAIN wal' : wal'[i].type = "enqueue" => wal'[i].tries = 0
<1>1. CASE wal' = wal
  BY <1>1, Zenon DEF NewInv
<1>2. CASE wal' = Append(wal, rec)
  <2>1. \A i \in DOMAIN wal' : (i \in DOMAIN wal /\ wal'[i] = wal[i]) \/ wal'[i] = rec
    BY <1>2
  <2> QED BY <2>1, Zenon DEF NewInv
<1> QED BY <1>1, <1>2, Zenon DEF WalWrite, WalWriteFails

\* A step that touches no job and starts or moves on no handler.
LEMMA NoJobTouched ==
  ASSUME HandlerInv, UnracedConsistent,
         UNCHANGED <<job, ready, inflight, dlq, raced>>,
         \A c \in Callers : call'[c] = call[c] \/ ~Handling(c)'
  PROVE  HandlerInv' /\ UnracedConsistent'
<1>1. UnracedConsistent'
  BY Zenon DEF UnracedConsistent, Consistent
<1>2. \A c \in Callers : Handling(c)' => call'[c] = call[c] /\ Handling(c)
  BY Zenon DEF Handling
<1>3. HandlerInv'
  <2>1. /\ \A c, d \in Callers :
             Handling(c)' /\ Handling(d)' /\ call'[c].job = call'[d].job /\ c # d
               => call'[c].job \in raced'
        /\ \A c \in Callers : Handling(c)' /\ call'[c].job \notin raced' =>
             call'[c].job \in inflight' /\ HandlerState(call'[c], job'[call'[c].job])
    BY <1>2, Zenon DEF HandlerInv
  <2> QED BY <2>1, Zenon DEF HandlerInv, HandlerState, ShouldRetry
<1> QED BY <1>1, <1>3, Zenon

-----------------------------------------------------------------------------
(* The steps *)

\* The steps of Enqueue keep ConsistInv.
LEMMA EnqueueConsist ==
  ASSUME TypeOK, PlaceInv, ConsistInv, NEW c \in Callers
  PROVE  /\ \A key \in Keys \cup {NoKey} : EnqueueCheck(c, key) => ConsistInv'
         /\ \A j \in Jobs, q \in Queues, p \in Priorities, r \in Retries, d \in Delays :
              EnqueueWrite(c, j, NewJob(q, p, 0, r, clock + d)) => ConsistInv'
         /\ EnqueueStoreKey(c) => ConsistInv'
         /\ EnqueuePush(c) => ConsistInv'
<1> USE DEF memory, durable, history, ConsistInv
<1>0. /\ call \in [Callers -> Call] /\ wal \in Seq(Record)
      /\ \A d \in Callers : Handling(d) => call[d].job \in Jobs
  BY HandledJobs, Zenon DEF TypeOK
<1>1. ASSUME NEW key \in Keys \cup {NoKey}, EnqueueCheck(c, key) PROVE ConsistInv'
  <2>1. /\ call'[c].pc = "enqWrite"
        /\ \A d \in Callers : d # c => call'[d] = call[d]
    BY <1>0, <1>1, Zenon DEF EnqueueCheck, Proceed
  <2>2. UNCHANGED <<job, ready, inflight, dlq, raced, wal>>
    BY <1>1, Zenon DEF EnqueueCheck
  <2>3. ~Handling(c)'
    BY <2>1, Zenon DEF Handling, AckPC, NackPC
  <2>4. HandlerInv' /\ UnracedConsistent'
    BY <2>1, <2>2, <2>3, NoJobTouched, Zenon
  <2> QED BY <2>1, <2>2, <2>4, Zenon DEF NewInv
<1>2. ASSUME NEW j \in Jobs, NEW q \in Queues, NEW p \in Priorities,
             NEW r \in Retries, NEW d \in Delays,
             EnqueueWrite(c, j, NewJob(q, p, 0, r, clock + d))
      PROVE  ConsistInv'
  <2> DEFINE jb == NewJob(q, p, 0, r, clock + d)
             rec == FullRecord("enqueue", j, jb)
  <2>0. clock \in Nat /\ p \in Nat /\ r \in Nat /\ clock + d \in Nat
    BY EnqueueNumbers, Zenon
  <2>1. /\ jb \in Job /\ jb.queue \in Queues
        /\ jb.status = "ready" /\ jb.lease = NoLease /\ jb.tries = 0
    BY <2>0, Zenon DEF NewJob, Job, JobStatus, NoLease, ZeroTime
  <2> HIDE DEF jb
  <2>2. EnqueueWrite(c, j, jb)
    BY <1>2, Zenon DEF jb
  <2>3. rec \in Record
    BY <2>1, RecordTypes, Zenon DEF RecordType
  <2>4. rec.tries = 0
    BY <2>1, Zenon DEF FullRecord
  <2>5. WalWrite(rec) \/ WalWriteFails(rec)
    BY <2>2, Zenon DEF EnqueueWrite
  <2> HIDE DEF rec
  <2>6. \A i \in DOMAIN wal' : wal'[i].type = "enqueue" => wal'[i].tries = 0
    BY <1>0, <2>3, <2>4, <2>5, NewRecords, Zenon
  <2>7. /\ j \notin Logged
        /\ UNCHANGED <<ready, inflight, dlq, raced>>
        /\ job' = job \/ job' = [job EXCEPT ![j] = jb]
    BY <2>2, Zenon DEF EnqueueWrite
  <2>8. /\ \A e \in Callers : e # c => call'[e] = call[e]
        /\ \/ call'[c].pc = "idle"
           \/ /\ call'[c].pc \in {"enqPush", "enqKey"} /\ call'[c].job = j
              /\ job' = [job EXCEPT ![j] = jb]
    BY <1>0, <2>2 DEF EnqueueWrite, Proceed, Return, Idle
  <2>9. \A e \in Callers : Holding(e) => call[e].job # j
    BY <2>7, Zenon DEF PlaceInv, LogInv
  <2>10. HandlerInv' /\ UnracedConsistent'
    <3>1. j \notin ready \cup inflight \cup dlq
      BY <2>7, Zenon DEF PlaceInv, LogInv
    <3>2. Consistent(j)'
      BY <2>7, <3>1, Zenon DEF Consistent
    <3>3. ~Handling(c)'
      BY <2>8, Zenon DEF Handling, AckPC, NackPC
    <3>4. \A e \in Callers : Handling(e)' => call'[e].job # j
      BY <2>8, <2>9, <3>3, HandledJobs, Zenon DEF Handling
    <3>5. \A i \in Jobs : i # j => job'[i] = job[i]
      BY <2>7, Zenon DEF TypeOK
    <3> QED BY <1>0, <2>7, <2>8, <3>2, <3>3, <3>4, <3>5, OneJob, Zenon
  <2>11. NewInv'
    <3>1. ASSUME NEW e \in Callers, call'[e].pc \in {"enqKey", "enqPush"}
          PROVE  LET b == job'[call'[e].job]
                 IN  b.status = "ready" /\ b.lease = NoLease /\ b.tries = 0
      <4>1. CASE e = c
        <5>1. job'[call'[e].job] = jb
          <6>1. job \in [Jobs -> Job]
            BY Zenon DEF TypeOK
          <6> QED BY <2>7, <2>8, <3>1, <4>1, <6>1, Zenon
        <5> QED BY <2>1, <5>1, Zenon
      <4>2. CASE e # c
        <5>1. call'[e] = call[e] /\ Holding(e)
          BY <2>8, <3>1, <4>2, Zenon DEF Holding
        <5>2. job'[call[e].job] = job[call[e].job]
          BY <2>7, <2>9, <3>1, <5>1, Zenon DEF TypeOK, Holding
        <5> QED BY <3>1, <5>1, <5>2, Zenon DEF NewInv
      <4> QED BY <4>1, <4>2, Zenon
    <3> QED BY <2>6, <3>1, Zenon DEF NewInv
  <2> QED BY <2>10, <2>11, Zenon
<1>3. ASSUME EnqueueStoreKey(c) PROVE ConsistInv'
  <2>1. "enqPush" \in CallPC
    BY Zenon DEF CallPC, EnqueuePC
  <2>2. /\ \A d \in Callers : d # c => call'[d] = call[d]
        /\ call[c].pc = "enqKey"
        /\ call'[c].pc = "enqPush" /\ call'[c].job = call[c].job
    BY <1>0, <1>3, <2>1, GotoEffect, Zenon DEF EnqueueStoreKey
  <2>3. UNCHANGED <<job, ready, inflight, dlq, raced, wal>>
    BY <1>3, Zenon DEF EnqueueStoreKey
  <2>4. ~Handling(c)'
    BY <2>2, Zenon DEF Handling, AckPC, NackPC
  <2>5. HandlerInv' /\ UnracedConsistent'
    BY <2>2, <2>3, <2>4, NoJobTouched, Zenon
  <2> QED BY <2>2, <2>3, <2>5, Zenon DEF NewInv
<1>4. ASSUME EnqueuePush(c) PROVE ConsistInv'
  <2>1. /\ \A d \in Callers : d # c => call'[d] = call[d]
        /\ call'[c].pc = "idle" /\ call[c].pc = "enqPush"
    <3>1. Return(c) /\ call[c].pc = "enqPush"
      BY <1>4, Zenon DEF EnqueuePush
    <3> QED BY <1>0, <3>1, ReturnEffect, Zenon
  <2>2. PICK j \in Jobs : j = call[c].job
    BY <2>1, Zenon DEF TypeOK
  <2>3. /\ ready' = ready \cup {j}
        /\ UNCHANGED <<job, inflight, dlq, raced, wal>>
    BY <1>4, <2>2, Zenon DEF EnqueuePush
  <2>4. /\ j \notin inflight \cup dlq
        /\ \A d \in Callers : Holding(d) /\ d # c => call[d].job # j
    BY <2>1, <2>2, Zenon DEF PlaceInv, FreshInv
  <2>5. job[j].status = "ready" /\ job[j].lease = NoLease /\ job[j].tries = 0
    BY <2>1, <2>2, Zenon DEF NewInv
  <2>6. Consistent(j)'
    BY <2>3, <2>4, <2>5, Zenon DEF Consistent
  <2>7. ~Handling(c)'
    BY <2>1, Zenon DEF Handling, AckPC, NackPC
  <2>8. \A d \in Callers : Handling(d)' => call'[d].job # j
    BY <2>1, <2>4, <2>7, HandledJobs, Zenon DEF Handling
  <2>9. HandlerInv' /\ UnracedConsistent'
    BY <1>0, <2>1, <2>3, <2>6, <2>7, <2>8, OneJob, Zenon
  <2>10. NewInv'
    BY <2>1, <2>3, Zenon DEF NewInv
  <2> QED BY <2>9, <2>10, Zenon
<1> QED BY <1>1, <1>2, <1>3, <1>4, Zenon

\* Lease takes ready jobs, which have no handler, and gives them a lease.
LEMMA LeaseConsist ==
  ASSUME TypeOK, PlaceInv, ConsistInv, NEW q \in Queues, NEW n \in Nat,
         NEW v \in Visibilities, Lease(q, n, v)
  PROVE  ConsistInv'
<1> DEFINE Granted(S, id) ==
             job' = [j \in Jobs |->
                       IF j \in S
                       THEN Leased(job[j], id[j], clock + v) ELSE job[j]]
<1>1. PICK k \in 1 .. (MaxLeases - leases), S \in SUBSET InQueue(ready, q) :
        /\ ready' = ready \ S
        /\ inflight' = inflight \cup S
        /\ \E id \in [S -> (leases + 1) .. (leases + k)] : Granted(S, id)
  BY DEF Lease
<1>2. PICK id \in [S -> (leases + 1) .. (leases + k)] : Granted(S, id)
  BY <1>1, Zenon
<1> HIDE DEF Granted
<1>3. S \subseteq ready /\ S \subseteq Jobs /\ S \cap inflight = {}
  BY <1>1, Zenon DEF InQueue, TypeOK, PlaceInv
<1>4. \A j \in S : id[j] # NoLease
  <2>1. leases \in Nat /\ k \in Nat
    <3>1. leases \in Nat
      BY Zenon DEF TypeOK
    <3>2. MaxLeases \in Nat
      BY ManagerAssumption
    <3> QED BY <3>1, <3>2
  <2>2. \A x \in (leases + 1) .. (leases + k) : x # 0
    BY <2>1
  <2> QED BY <2>2, Zenon DEF NoLease
<1>5. clock + v # ZeroTime
  BY ManagerAssumption DEF TypeOK, PlaceInv, WorkerInv, ZeroTime
<1>6. UNCHANGED <<dlq, call, wal, raced>>
  BY Zenon DEF Lease, durable, history
<1>7. \A j \in Jobs : j \notin S => job'[j] = job[j]
  BY <1>2, Zenon DEF Granted
<1>8. \A j \in S : /\ job'[j].lease # NoLease /\ job'[j].deadline # ZeroTime
                   /\ job'[j].status = "inflight" /\ job'[j].tries = job[j].tries
                   /\ job'[j].maxRetries = job[j].maxRetries
  <2> SUFFICES ASSUME NEW j \in S
               PROVE  /\ job'[j].lease # NoLease /\ job'[j].deadline # ZeroTime
                      /\ job'[j].status = "inflight" /\ job'[j].tries = job[j].tries
                      /\ job'[j].maxRetries = job[j].maxRetries
    BY Zenon
  <2>1. job[j] \in Job
    BY <1>3, Zenon DEF TypeOK
  <2>2. job'[j] = Leased(job[j], id[j], clock + v)
    BY <1>2, <1>3, Zenon DEF Granted
  <2> QED BY <1>4, <1>5, <2>1, <2>2, LeasedFields
<1>9. UnracedConsistent'
  <2> SUFFICES ASSUME NEW j \in Jobs, j \notin raced' PROVE Consistent(j)'
    BY Zenon DEF UnracedConsistent
  <2>1. Consistent(j)
    BY <1>6, Zenon DEF ConsistInv, UnracedConsistent
  <2>2. CASE j \in S
    BY <1>1, <1>3, <1>6, <1>8, <2>1, <2>2, Zenon DEF Consistent, ShouldRetry
  <2>3. CASE j \notin S
    BY <1>1, <1>6, <1>7, <2>1, <2>3, Zenon DEF Consistent
  <2> QED BY <2>2, <2>3, Zenon
<1>10. HandlerInv'
  <2>1. \A c \in Callers : Handling(c)' <=> Handling(c)
    BY <1>6, Zenon DEF Handling
  <2>2. ASSUME NEW c \in Callers, Handling(c), call[c].job \notin raced
        PROVE  call[c].job \in inflight' /\ HandlerState(call[c], job'[call[c].job])
    <3>1. call[c].job \in inflight /\ HandlerState(call[c], job[call[c].job])
      BY <2>2, Zenon DEF ConsistInv, HandlerInv
    <3>2. job'[call[c].job] = job[call[c].job]
      BY <1>3, <1>7, <3>1, Zenon DEF TypeOK
    <3> QED BY <1>1, <3>1, <3>2, Zenon
  <2>3. /\ \A c, d \in Callers :
             Handling(c)' /\ Handling(d)' /\ call'[c].job = call'[d].job /\ c # d
               => call'[c].job \in raced'
        /\ \A c \in Callers : Handling(c)' /\ call'[c].job \notin raced' =>
             call'[c].job \in inflight' /\ HandlerState(call'[c], job'[call'[c].job])
    BY <1>6, <2>1, <2>2, Zenon DEF ConsistInv, HandlerInv
  <2> QED BY <2>3, Zenon DEF HandlerInv, HandlerState, ShouldRetry
<1>11. NewInv'
  <2>1. \A c \in Callers : call[c].pc \in {"enqKey", "enqPush"} =>
                             job'[call[c].job] = job[call[c].job]
    BY <1>3, <1>7, Zenon DEF PlaceInv, FreshInv, TypeOK
  <2> QED BY <1>6, <2>1, Zenon DEF ConsistInv, NewInv
<1> QED BY <1>9, <1>10, <1>11, Zenon DEF ConsistInv

-----------------------------------------------------------------------------
(* The handlers, the worker and a restart *)

\* A step of the handler c of job j, checked for j.
LEMMA HandlerStep ==
  ASSUME TypeOK, PlaceInv, ConsistInv, NEW c \in Callers, NEW j \in Jobs,
         Handling(c), call[c].job = j,
         \A d \in Callers : d # c => call'[d] = call[d],
         call'[c].pc = "idle" \/ (Handling(c)' /\ call'[c].job = j),
         \A i \in Jobs : i # j =>
           /\ job'[i] = job[i]
           /\ i \in ready' <=> i \in ready
           /\ i \in inflight' <=> i \in inflight
           /\ i \in dlq' <=> i \in dlq,
         UNCHANGED raced,
         \A i \in DOMAIN wal' : wal'[i].type = "enqueue" => wal'[i].tries = 0,
         j \notin raced => Consistent(j)',
         Handling(c)' /\ j \notin raced =>
           j \in inflight' /\ HandlerState(call'[c], job'[j])
  PROVE  ConsistInv'
<1>1. /\ \A d \in Callers : Handling(d) => call[d].job \in Jobs
      /\ HandlerInv /\ UnracedConsistent /\ NewInv
  BY HandledJobs, Zenon DEF ConsistInv
<1>2. \A d \in Callers : d # c /\ Handling(d)' => Handling(d)
  BY Zenon DEF Handling
<1>3. ~Handling(c)' \/ call'[c].job = j
  BY Zenon DEF Handling, AckPC, NackPC
<1>4. j \notin raced => \A d \in Callers : Handling(d) /\ d # c => call[d].job # j
  BY <1>1, Zenon DEF HandlerInv
<1>5. HandlerInv' /\ UnracedConsistent'
  <2>1. \A e \in Callers : \/ call'[e] = call[e] \/ ~Handling(e)' \/ call'[e].job = j
    BY <1>3, Zenon
  <2>2. \A e \in Callers : Handling(e)' /\ call'[e].job = j /\ j \notin raced' =>
           /\ j \in inflight' /\ HandlerState(call'[e], job'[j])
           /\ \A d \in Callers : Handling(d)' /\ d # e => call'[d].job # j
    BY <1>2, <1>4, Zenon
  <2>3. \A i \in Jobs : i # j =>
           /\ job'[i] = job[i]
           /\ i \in ready' <=> i \in ready
           /\ i \in inflight' <=> i \in inflight
           /\ i \in dlq' <=> i \in dlq
           /\ i \in raced => i \in raced'
    BY Zenon
  <2>4. j \notin raced' => Consistent(j)'
    BY Zenon
  <2> QED BY <1>1, <2>1, <2>2, <2>3, <2>4, OneJob, Zenon
<1>6. ASSUME NEW d \in Callers, call'[d].pc \in {"enqKey", "enqPush"}
      PROVE  LET b == job'[call'[d].job]
             IN  b.status = "ready" /\ b.lease = NoLease /\ b.tries = 0
  <2>1. d # c /\ call'[d] = call[d]
    BY <1>6, Zenon DEF Handling, AckPC, NackPC
  <2>2. call[d].job \in Jobs /\ call[d].job # j
    <3>1. Holding(d) /\ FreshInv /\ call[d].pc \in {"enqKey", "enqPush"}
      BY <1>6, <2>1, Zenon DEF PlaceInv, Holding
    <3>2. call[d].job \in Jobs
      BY <1>6, <3>1, Zenon DEF TypeOK
    <3> QED BY <2>1, <3>1, <3>2, HandledJobs, Zenon DEF FreshInv
  <2>3. job'[call[d].job] = job[call[d].job]
    BY <2>2, Zenon
  <2>4. LET b == job[call[d].job]
        IN  b.status = "ready" /\ b.lease = NoLease /\ b.tries = 0
    BY <1>1, <1>6, <2>1, Zenon DEF NewInv
  <2> QED BY <2>1, <2>3, <2>4, Zenon
<1>7. NewInv'
  BY <1>6, Zenon DEF NewInv
<1> QED BY <1>5, <1>7, Zenon DEF ConsistInv

\* Ack and Nack keep ConsistInv: a second handler on a job marks it raced, and
\* a single one finds the job as its earlier steps left it.
LEMMA AckNackConsist ==
  ASSUME TypeOK, PlaceInv, ConsistInv, NEW c \in Callers
  PROVE  /\ \A j \in Jobs : AckCheck(c, j) \/ NackCheck(c, j) => ConsistInv'
         /\ AckWrite(c) => ConsistInv'
         /\ AckRemove(c) => ConsistInv'
         /\ NackLoad(c) => ConsistInv'
         /\ NackUpdate(c) => ConsistInv'
         /\ NackDecide(c) => ConsistInv'
         /\ NackWrite(c) => ConsistInv'
         /\ NackMove(c) => ConsistInv'
<1> USE DEF memory, durable, history
<1>0. /\ call \in [Callers -> Call] /\ wal \in Seq(Record) /\ job \in [Jobs -> Job]
      /\ \A d \in Callers : Handling(d) => call[d].job \in Jobs
      /\ HandlerInv /\ UnracedConsistent /\ NewInv
      /\ ready \cap inflight = {}
  BY HandledJobs, Zenon DEF TypeOK, ConsistInv, PlaceInv
<1>1. ASSUME NEW j \in Jobs, AckCheck(c, j) \/ NackCheck(c, j) PROVE ConsistInv'
  <2>1. PICK pc \in {"ackWrite", "nackLoad"} : FindInflight(c, j, pc)
    BY <1>1, Zenon DEF AckCheck, NackCheck
  <2>2. pc \in CallPC
    BY Zenon DEF CallPC, AckPC, NackPC
  <2>3. /\ \A d \in Callers : d # c => call'[d] = call[d]
        /\ call'[c].pc = pc /\ call'[c].job = j
    BY <2>1, <2>2, FindEffect
  <2>4. /\ UNCHANGED <<job, ready, inflight, dlq, wal>> /\ call[c].pc = "idle"
        /\ j \in inflight /\ MarkRace(j)
    BY <2>1, Zenon DEF FindInflight
  <2>5. j \notin raced' => \A d \in Callers : Handling(d) => call[d].job # j
    BY <2>4, Zenon DEF MarkRace, Busy, Handling
  <2>6. \A i \in Jobs : i \in raced => i \in raced'
    BY <2>4, Zenon DEF MarkRace
  <2>7. HandlerState(call'[c], job'[j])
    BY <2>3, <2>4, Zenon DEF HandlerState, AckPC, NackPC
  <2>8. \A d \in Callers : d # c /\ Handling(d)' => Handling(d)
    BY <2>3, Zenon DEF Handling
  <2>9. j \notin raced' => Consistent(j)'
    BY <1>0, <2>4, <2>6, Zenon DEF UnracedConsistent, Consistent
  <2>10. \A e \in Callers : Handling(e)' /\ call'[e].job = j /\ j \notin raced' =>
           /\ j \in inflight' /\ HandlerState(call'[e], job'[j])
           /\ \A d \in Callers : Handling(d)' /\ d # e => call'[d].job # j
    BY <2>3, <2>4, <2>5, <2>7, <2>8, Zenon
  <2>11. HandlerInv' /\ UnracedConsistent'
    <3>1. \A i \in Jobs : i # j =>
            /\ job'[i] = job[i]
            /\ i \in ready' <=> i \in ready
            /\ i \in inflight' <=> i \in inflight
            /\ i \in dlq' <=> i \in dlq
            /\ i \in raced => i \in raced'
      BY <2>4, <2>6, Zenon
    <3>2. \A d \in Callers : call'[d] = call[d] \/ ~Handling(d)' \/ call'[d].job = j
      BY <2>3, Zenon
    <3> QED BY <1>0, <2>9, <2>10, <3>1, <3>2, OneJob, Zenon
  <2>12. NewInv'
    BY <1>0, <2>3, <2>4, Zenon DEF NewInv
  <2> QED BY <2>11, <2>12, Zenon DEF ConsistInv
<1>2. ASSUME AckWrite(c) \/ NackWrite(c) PROVE ConsistInv'
  <2>1. Handling(c)
    BY <1>2, Zenon DEF AckWrite, NackWrite, Handling, AckPC, NackPC
  <2>2. PICK j \in Jobs : call[c].job = j
    BY <1>0, <2>1, Zenon
  <2>3. job[j] \in Job /\ job[j].queue \in Queues
    BY <2>1, <2>2, HandledJobs, Zenon DEF TypeOK
  <2>4. PICK rec \in {BareRecord("ack", j, job[j].queue, 0),
                      FullRecord("nack", j, job[j]),
                      BareRecord("nack", j, job[j].queue, job[j].tries)} :
          WalWrite(rec) \/ WalWriteFails(rec)
    BY <1>2, <2>2, Zenon DEF AckWrite, NackWrite
  <2>5. rec \in Record
    BY <2>3, <2>4, HandlerRecords, Zenon
  <2>6. rec.type # "enqueue"
    BY <2>3, <2>4, HandlerRecords, Zenon
  <2>7. \A i \in DOMAIN wal' : wal'[i].type = "enqueue" => wal'[i].tries = 0
    BY <1>0, <2>4, <2>5, <2>6, NewRecords, Zenon
  <2>8. UNCHANGED <<job, ready, inflight, dlq, raced>>
    BY <1>2, Zenon DEF AckWrite, NackWrite
  <2>9. j \notin raced => Consistent(j)'
    BY <1>0, <2>8, Zenon DEF UnracedConsistent, Consistent
  <2>10. /\ \A d \in Callers : d # c => call'[d] = call[d]
         /\ \/ call'[c].pc = "idle"
            \/ /\ call'[c].job = j
               /\ \/ call[c].pc = "ackWrite" /\ call'[c].pc = "ackRemove"
                  \/ call[c].pc = "retryWrite" /\ call'[c].pc = "retryMove"
                  \/ call[c].pc = "dlqWrite" /\ call'[c].pc = "dlqMove"
    <3>1. "ackRemove" \in CallPC /\ "retryMove" \in CallPC /\ "dlqMove" \in CallPC
      BY Zenon DEF CallPC, AckPC, NackPC
    <3>2. CASE AckWrite(c)
      <4>1. call[c].pc = "ackWrite" /\ (Goto(c, "ackRemove") \/ Return(c))
        BY <3>2, Zenon DEF AckWrite
      <4>2. CASE Goto(c, "ackRemove")
        BY <1>0, <2>2, <3>1, <4>1, <4>2, GotoEffect, Zenon
      <4>3. CASE Return(c)
        BY <1>0, <4>3, ReturnEffect, Zenon
      <4> QED BY <4>1, <4>2, <4>3, Zenon
    <3>3. CASE NackWrite(c)
      <4>1. \/ call[c].pc = "retryWrite" /\ Goto(c, "retryMove")
            \/ call[c].pc = "dlqWrite" /\ Goto(c, "dlqMove")
            \/ Return(c)
        BY <3>3, Zenon DEF NackWrite
      <4>2. CASE call[c].pc = "retryWrite" /\ Goto(c, "retryMove")
        BY <1>0, <2>2, <3>1, <4>2, GotoEffect, Zenon
      <4>3. CASE call[c].pc = "dlqWrite" /\ Goto(c, "dlqMove")
        BY <1>0, <2>2, <3>1, <4>3, GotoEffect, Zenon
      <4>4. CASE Return(c)
        BY <1>0, <4>4, ReturnEffect, Zenon
      <4> QED BY <4>1, <4>2, <4>3, <4>4, Zenon
    <3> QED BY <1>2, <3>2, <3>3, Zenon
  <2>11. Handling(c)' /\ j \notin raced =>
           j \in inflight' /\ HandlerState(call'[c], job'[j])
    <3>1. j \notin raced => j \in inflight /\ HandlerState(call[c], job[j])
      BY <1>0, <2>1, <2>2, Zenon DEF HandlerInv
    <3> QED BY <2>8, <2>10, <3>1, Zenon DEF HandlerState, Handling, AckPC, NackPC
  <2>12. call'[c].pc = "idle" \/ (Handling(c)' /\ call'[c].job = j)
    BY <2>10, Zenon DEF Handling, AckPC, NackPC
  <2> QED BY <2>1, <2>2, <2>7, <2>8, <2>9, <2>10, <2>11, <2>12, HandlerStep, Zenon
<1>3. ASSUME AckRemove(c) \/ NackMove(c) PROVE ConsistInv'
  <2>1. Handling(c)
    BY <1>3, Zenon DEF AckRemove, NackMove, Handling, AckPC, NackPC
  <2>2. PICK j \in Jobs : call[c].job = j
    BY <1>0, <2>1, Zenon
  <2>3. /\ \A d \in Callers : d # c => call'[d] = call[d]
        /\ call'[c].pc = "idle"
    <3>1. Return(c)
      BY <1>3, Zenon DEF AckRemove, NackMove
    <3> QED BY <1>0, <3>1, ReturnEffect, Zenon
  <2>4. /\ UNCHANGED <<job, wal, raced>>
        /\ inflight' = inflight \ {j}
        /\ \/ UNCHANGED <<ready, dlq>>
           \/ call[c].pc = "retryMove" /\ ready' = ready \cup {j} /\ UNCHANGED dlq
           \/ call[c].pc = "dlqMove" /\ dlq' = dlq \cup {j} /\ UNCHANGED ready
    BY <1>3, <2>2, Zenon DEF AckRemove, NackMove
  <2>5. j \notin raced => Consistent(j)'
    <3> SUFFICES ASSUME j \notin raced PROVE Consistent(j)'
      BY Zenon
    <3>1. j \in inflight /\ HandlerState(call[c], job[j]) /\ Consistent(j)
      BY <1>0, <2>1, <2>2, Zenon DEF HandlerInv, UnracedConsistent
    <3>2. j \notin ready /\ j \notin dlq
      BY <1>0, <3>1, Zenon DEF Consistent
    <3>3. call[c].pc = "retryMove" =>
            job[j].status = "ready" /\ ShouldRetry(job[j]) /\ job[j].lease = NoLease
      BY <3>1, Zenon DEF HandlerState, NackPC
    <3>4. call[c].pc = "dlqMove" => job[j].status = "dlq" /\ ~ShouldRetry(job[j])
      BY <3>1, Zenon DEF HandlerState
    <3> QED BY <2>4, <3>2, <3>3, <3>4, Zenon DEF Consistent, ShouldRetry
  <2>6. ~Handling(c)'
    BY <2>3, Zenon DEF Handling, AckPC, NackPC
  <2>7. \A i \in DOMAIN wal' : wal'[i].type = "enqueue" => wal'[i].tries = 0
    BY <1>0, <2>4, Zenon DEF NewInv
  <2> QED BY <2>1, <2>2, <2>3, <2>4, <2>5, <2>6, <2>7, HandlerStep, Zenon
<1>6. ASSUME NackLoad(c) PROVE ConsistInv'
  <2>1. Handling(c)
    BY <1>6, Zenon DEF NackLoad, Handling, NackPC
  <2>2. PICK j \in Jobs : call[c].job = j
    BY <1>0, <2>1, Zenon
  <2>3. /\ \A d \in Callers : d # c => call'[d] = call[d]
        /\ call'[c].pc = "nackUpdate" /\ call'[c].job = j
    BY <1>6, <2>2, LoadEffect, Zenon
  <2>4. UNCHANGED <<job, ready, inflight, dlq, raced, wal>>
    BY <1>6, Zenon DEF NackLoad
  <2>5. j \notin raced => j \in inflight /\ Consistent(j)
    BY <1>0, <2>1, <2>2, Zenon DEF HandlerInv, UnracedConsistent
  <2>6. j \notin raced => Consistent(j)'
    BY <2>4, <2>5, Zenon DEF Consistent
  <2>7. HandlerState(call'[c], job'[j])
    BY <2>3, Zenon DEF HandlerState
  <2>8. Handling(c)'
    BY <2>3, Zenon DEF Handling, NackPC
  <2>9. \A i \in DOMAIN wal' : wal'[i].type = "enqueue" => wal'[i].tries = 0
    BY <1>0, <2>4, Zenon DEF NewInv
  <2> QED BY <2>1, <2>2, <2>3, <2>4, <2>5, <2>6, <2>7, <2>8, <2>9, HandlerStep, Zenon
<1>4. ASSUME NackUpdate(c) PROVE ConsistInv'
  <2>1. Handling(c) /\ call[c].pc = "nackUpdate"
    BY <1>4, Zenon DEF NackUpdate, Handling, NackPC
  <2>2. PICK j \in Jobs : call[c].job = j
    BY <1>0, <2>1, Zenon
  <2>3. PICK t, eta : job' = [job EXCEPT ![j] = Released(job[j], t, eta)]
    BY <1>4, <2>2, Zenon DEF NackUpdate
  <2>4. "nackDecide" \in CallPC
    BY Zenon DEF CallPC, NackPC
  <2>5. /\ \A d \in Callers : d # c => call'[d] = call[d]
        /\ call'[c].pc = "nackDecide" /\ call'[c].job = j
    BY <1>0, <1>4, <2>2, <2>4, GotoEffect, Zenon DEF NackUpdate
  <2>6. UNCHANGED <<ready, inflight, dlq, raced, wal>>
    BY <1>4, Zenon DEF NackUpdate
  <2>7. /\ \A i \in Jobs : i # j => job'[i] = job[i]
        /\ job'[j].lease = NoLease /\ job'[j].deadline = ZeroTime
    BY <1>0, <2>3, Zenon DEF Released, Job
  <2>8. j \notin raced => j \in inflight /\ j \notin ready /\ Consistent(j)
    BY <1>0, <2>1, <2>2, Zenon DEF HandlerInv, UnracedConsistent
  <2>9. j \notin raced => Consistent(j)'
    BY <2>6, <2>7, <2>8, Zenon DEF Consistent
  <2>10. HandlerState(call'[c], job'[j])
    BY <2>5, <2>7, Zenon DEF HandlerState, AckPC
  <2>11. Handling(c)'
    BY <2>5, Zenon DEF Handling, NackPC
  <2>12. \A i \in DOMAIN wal' : wal'[i].type = "enqueue" => wal'[i].tries = 0
    BY <1>0, <2>6, Zenon DEF NewInv
  <2> QED BY <2>1, <2>2, <2>5, <2>6, <2>7, <2>8, <2>9, <2>10, <2>11, <2>12, HandlerStep, Zenon
<1>5. ASSUME NackDecide(c) PROVE ConsistInv'
  <2>1. Handling(c) /\ call[c].pc = "nackDecide"
    BY <1>5, Zenon DEF NackDecide, Handling, NackPC
  <2>2. PICK j \in Jobs : call[c].job = j
    BY <1>0, <2>1, Zenon
  <2>3. /\ job' = [job EXCEPT ![j] = Decided(job[j])]
        /\ Goto(c, IF ShouldRetry(job[j]) THEN "retryWrite" ELSE "dlqWrite")
        /\ UNCHANGED <<ready, inflight, dlq, raced, wal>>
    BY <1>5, <2>2, Zenon DEF NackDecide
  <2>4. "retryWrite" \in CallPC /\ "dlqWrite" \in CallPC
    BY Zenon DEF CallPC, NackPC
  <2>5. /\ \A d \in Callers : d # c => call'[d] = call[d]
        /\ call'[c].pc = IF ShouldRetry(job[j]) THEN "retryWrite" ELSE "dlqWrite"
        /\ call'[c].job = j
    BY <1>0, <2>2, <2>3, <2>4, GotoEffect, Zenon
  <2>6. /\ \A i \in Jobs : i # j => job'[i] = job[i]
        /\ job'[j].lease = job[j].lease /\ job'[j].deadline = job[j].deadline
        /\ job'[j].status = IF ShouldRetry(job[j]) THEN "ready" ELSE "dlq"
        /\ ShouldRetry(job'[j]) <=> ShouldRetry(job[j])
    BY <1>0, <2>3, Zenon DEF Decided, ShouldRetry, Job
  <2>7. j \notin raced => /\ j \in inflight /\ j \notin ready /\ Consistent(j)
                          /\ job[j].lease = NoLease
    BY <1>0, <2>1, <2>2, Zenon DEF HandlerInv, UnracedConsistent, HandlerState, NackPC
  <2>8. j \notin raced => Consistent(j)'
    BY <2>3, <2>6, <2>7, Zenon DEF Consistent
  <2>9. j \notin raced => HandlerState(call'[c], job'[j])
    BY <2>5, <2>6, <2>7, Zenon DEF HandlerState, AckPC
  <2>10. Handling(c)'
    BY <2>5, Zenon DEF Handling, NackPC
  <2>11. \A i \in DOMAIN wal' : wal'[i].type = "enqueue" => wal'[i].tries = 0
    BY <1>0, <2>3, Zenon DEF NewInv
  <2> QED BY <2>1, <2>2, <2>3, <2>5, <2>6, <2>7, <2>8, <2>9, <2>10, <2>11, HandlerStep, Zenon
<1> QED BY <1>1, <1>2, <1>3, <1>4, <1>5, <1>6, Zenon

\* The worker moves a job to the place its retry count asks for, and marks it
\* raced when a handler is on it.
LEMMA ExpireConsist ==
  ASSUME TypeOK, PlaceInv, ConsistInv, NEW j \in Jobs, WorkerExpire(j)
  PROVE  ConsistInv'
<1> USE DEF memory, durable, history
<1>0. /\ wal \in Seq(Record) /\ job \in [Jobs -> Job]
      /\ \A d \in Callers : Handling(d) => call[d].job \in Jobs
      /\ HandlerInv /\ UnracedConsistent /\ NewInv
  BY HandledJobs, Zenon DEF TypeOK, ConsistInv
<1>1. /\ j \in worker.expired /\ j \in inflight /\ j \notin ready
      /\ inflight' = inflight \ {j} /\ UNCHANGED call /\ MarkRace(j)
  BY Zenon DEF WorkerExpire, PlaceInv, WorkerInv
<1>2. PICK delay \in Calculate(job[j].tries + 1) :
        LET jb == Failed(job[j], job[j].tries + 1, worker.now + delay)
            rec == FullRecord("requeue", j, jb)
        IN  /\ job' = [job EXCEPT ![j] = jb]
            /\ IF ShouldRetry(jb)
               THEN /\ ready' = ready \cup {j}
                    /\ WalWrite(rec) \/ WalWriteFails(rec)
                    /\ UNCHANGED dlq
               ELSE /\ dlq' = dlq \cup {j}
                    /\ UNCHANGED <<ready, wal, faults>>
  BY Zenon DEF WorkerExpire
<1> DEFINE jb == Failed(job[j], job[j].tries + 1, worker.now + delay)
           rec == FullRecord("requeue", j, jb)
<1>3. job[j] \in Job /\ job[j].tries + 1 \in Nat /\ worker.now + delay \in Nat
  BY <1>2, ExpiredNat, Zenon
<1>4. jb \in Job /\ jb.queue = job[j].queue
  BY <1>3, FailedType, Zenon
<1>5. /\ jb.lease = NoLease
      /\ jb.status = IF ShouldRetry(jb) THEN "ready" ELSE "dlq"
  BY <1>3, Zenon DEF Failed, Released, Decided, ShouldRetry, Job
<1>6. rec.type = "requeue"
  BY Zenon DEF FullRecord
<1> HIDE DEF jb
<1>7. rec \in Record
  <2>1. jb.queue \in Queues
    BY <1>1, <1>4, Zenon DEF TypeOK
  <2> QED BY <1>4, <2>1, RecordTypes, Zenon DEF RecordType
<1>8. /\ UNCHANGED wal \/ WalWrite(rec) \/ WalWriteFails(rec)
      /\ job' = [job EXCEPT ![j] = jb]
      /\ \/ ShouldRetry(jb) /\ ready' = ready \cup {j} /\ dlq' = dlq
         \/ ~ShouldRetry(jb) /\ ready' = ready /\ dlq' = dlq \cup {j}
  BY <1>2, Zenon DEF jb
<1> HIDE DEF rec
<1>9. \A i \in DOMAIN wal' : wal'[i].type = "enqueue" => wal'[i].tries = 0
  BY <1>0, <1>6, <1>7, <1>8, NewRecords, Zenon
<1>10. /\ \A i \in Jobs : i # j => job'[i] = job[i]
       /\ job'[j] = jb
  BY <1>0, <1>8, Zenon
<1>11. /\ \A i \in Jobs : i \in raced => i \in raced'
       /\ j \notin raced' => \A d \in Callers : Handling(d) => call[d].job # j
  BY <1>1, Zenon DEF MarkRace, Busy, Handling
<1>12. j \notin raced' => Consistent(j)'
  <2> SUFFICES ASSUME j \notin raced' PROVE Consistent(j)'
    BY Zenon
  <2>1. j \notin dlq
    BY <1>0, <1>1, <1>11, Zenon DEF UnracedConsistent, Consistent
  <2> QED BY <1>1, <1>5, <1>8, <1>10, <2>1, Zenon DEF Consistent
<1>13. \A d \in Callers : (Handling(d)' <=> Handling(d)) /\ call'[d] = call[d]
  BY <1>1, Zenon DEF Handling
<1>14. HandlerInv' /\ UnracedConsistent'
  <2>1. \A i \in Jobs : i # j => /\ i \in ready' <=> i \in ready
                                 /\ i \in inflight' <=> i \in inflight
                                 /\ i \in dlq' <=> i \in dlq
    BY <1>1, <1>8
  <2>2. \A i \in Jobs : i # j => /\ job'[i] = job[i]
                                 /\ i \in ready' <=> i \in ready
                                 /\ i \in inflight' <=> i \in inflight
                                 /\ i \in dlq' <=> i \in dlq
                                 /\ i \in raced => i \in raced'
    BY <1>10, <1>11, <2>1, Zenon
  <2>3. \A d \in Callers : ~(Handling(d)' /\ call'[d].job = j /\ j \notin raced')
    BY <1>11, <1>13, Zenon
  <2>4. \A d \in Callers : call'[d] = call[d]
    BY <1>13, Zenon
  <2> HIDE DEF memory, durable, history
  <2> QED BY <1>0, <1>12, <2>2, <2>3, <2>4, OneJob, Zenon
<1>15. NewInv'
  <2>1. \A d \in Callers : call[d].pc \in {"enqKey", "enqPush"} =>
                             job'[call[d].job] = job[call[d].job]
    BY <1>1, <1>10, Zenon DEF PlaceInv, FreshInv, TypeOK
  <2> QED BY <1>0, <1>1, <1>9, <2>1, Zenon DEF NewInv
<1> QED BY <1>14, <1>15, Zenon DEF ConsistInv

\* After a crash nothing is in memory, and the replay brings jobs back new.
LEMMA RestartConsist ==
  ASSUME TypeOK, PlaceInv, ConsistInv
  PROVE  /\ Crash => ConsistInv'
         /\ Replay => ConsistInv'
<1> USE DEF memory, durable, history
<1>0. /\ \A d \in Callers : Handling(d) => call[d].job \in Jobs
      /\ HandlerInv /\ UnracedConsistent /\ NewInv
  BY HandledJobs, Zenon DEF ConsistInv
<1>1. ASSUME Crash PROVE ConsistInv'
  <2>1. \A c \in Callers : call'[c].pc = "idle" /\ ~Handling(c)'
    BY <1>1, Zenon DEF Crash, Idle, Handling, AckPC, NackPC
  <2>2. HandlerInv'
    BY <2>1, Zenon DEF HandlerInv
  <2>3. UnracedConsistent'
    BY <1>1, Zenon DEF Crash, UnracedConsistent, Consistent
  <2>4. NewInv'
    BY <1>0, <1>1, <2>1, Zenon DEF Crash, NewInv
  <2> QED BY <2>2, <2>3, <2>4, Zenon DEF ConsistInv
<1>2. ASSUME mode = "replay", UNCHANGED <<job, ready, inflight, dlq, call, wal, raced>>
      PROVE  ConsistInv'
  <2>1. HandlerInv' /\ UnracedConsistent'
    BY <1>0, <1>2, NoJobTouched, Zenon
  <2> QED BY <1>0, <1>2, <2>1, Zenon DEF ConsistInv, NewInv
<1>3. ASSUME ReplayEnqueue PROVE ConsistInv'
  <2>1. replayed + 1 \in DOMAIN wal /\ wal[replayed + 1].type = "enqueue"
    <3>1. replayed < Len(wal) /\ wal[replayed + 1].type = "enqueue"
      BY <1>3, Zenon DEF ReplayEnqueue, Replays
    <3>2. replayed \in Nat /\ wal \in Seq(Record)
      BY Zenon DEF TypeOK
    <3> QED BY <3>1, <3>2
  <2>2. PICK rec \in Record : rec = wal[replayed + 1]
    BY <2>1 DEF TypeOK
  <2>3. PICK j \in Jobs : j = rec.job
    BY Zenon DEF Record
  <2> DEFINE jb == NewJob(rec.queue, rec.priority, rec.tries, rec.maxRetries, rec.eta)
  <2>4. jb.status = "ready" /\ jb.lease = NoLease /\ jb.tries = 0
    BY <1>0, <2>1, <2>2, Zenon DEF NewJob, NewInv
  <2> HIDE DEF jb
  <2>5. /\ ready' = ready \cup {j} /\ inflight' = {} /\ inflight = {} /\ dlq' = {} /\ dlq = {}
        /\ job' = [job EXCEPT ![j] = IF j \in ready THEN @ ELSE jb]
        /\ UNCHANGED <<call, wal, raced>>
        /\ \A c \in Callers : call[c].pc = "idle"
    BY <1>3, <2>2, <2>3, Zenon DEF ReplayEnqueue, Replays, jb, PlaceInv, ReplayInv
  <2>6. /\ \A i \in Jobs : i # j => job'[i] = job[i]
        /\ job'[j] = IF j \in ready THEN job[j] ELSE jb
    BY <2>5, Zenon DEF TypeOK
  <2>7. j \notin raced => Consistent(j)'
    <3>1. CASE j \in ready
      BY <1>0, <2>5, <2>6, <3>1, Zenon DEF UnracedConsistent, Consistent
    <3>2. CASE j \notin ready
      BY <2>4, <2>5, <2>6, <3>2, Zenon DEF Consistent
    <3> QED BY <3>1, <3>2, Zenon
  <2>8. \A c \in Callers : ~Handling(c)'
    BY <2>5, Zenon DEF Handling, AckPC, NackPC
  <2>9. HandlerInv' /\ UnracedConsistent'
    BY <1>0, <2>5, <2>6, <2>7, <2>8, OneJob, Zenon
  <2>10. NewInv'
    BY <1>0, <2>5, Zenon DEF NewInv
  <2> QED BY <2>9, <2>10, Zenon DEF ConsistInv
<1>4. ASSUME ReplayAck PROVE ConsistInv'
  BY <1>2, <1>4, Zenon DEF ReplayAck, Replays, PlaceInv, ReplayInv
<1>5. ASSUME ReplayNack PROVE ConsistInv'
  BY <1>2, <1>5, Zenon DEF ReplayNack, Replays, PlaceInv, ReplayInv
<1>6. ASSUME ReplayDone PROVE ConsistInv'
  BY <1>2, <1>6, Zenon DEF ReplayDone
<1> QED BY <1>1, <1>3, <1>4, <1>5, <1>6, Zenon DEF Replay

\* Every step keeps ConsistInv.
LEMMA ConsistStep == TypeOK /\ PlaceInv /\ ConsistInv /\ [Next]_vars => ConsistInv'
<1> SUFFICES ASSUME TypeOK, PlaceInv, ConsistInv, [Next]_vars PROVE ConsistInv'
  BY Zenon
<1>1. ASSUME UNCHANGED <<job, ready, inflight, dlq, call, wal, raced>>
      PROVE  ConsistInv'
  <2>1. HandlerInv' /\ UnracedConsistent'
    BY <1>1, NoJobTouched, Zenon DEF ConsistInv
  <2> QED BY <1>1, <2>1, Zenon DEF ConsistInv, NewInv
<1>2. ASSUME \/ UNCHANGED vars \/ Tick \/ Stop \/ WorkerTick
             \/ \E key \in Keys : EnqueueDuplicate(key)
             \/ \E q \in Queues : WorkerScan(q)
      PROVE  ConsistInv'
  <2>1. UNCHANGED <<job, ready, inflight, dlq, call, wal, raced>>
    BY <1>2, Zenon DEF vars, memory, durable, history, Tick, Stop, WorkerTick, WorkerScan,
                EnqueueDuplicate
  <2> QED BY <1>1, <2>1, Zenon
<1>3. ASSUME NEW c \in Callers, NEW key \in Keys \cup {NoKey}, EnqueueCheck(c, key)
      PROVE  ConsistInv'
  BY <1>3, EnqueueConsist, Zenon
<1>4. ASSUME NEW q \in Queues, NEW n \in 1 .. MaxBatch, NEW v \in Visibilities,
             Lease(q, n, v)
      PROVE  ConsistInv'
  BY <1>4, LeaseConsist
<1>5. ASSUME NEW c \in Callers, NEW j \in Jobs, AckCheck(c, j) \/ NackCheck(c, j)
      PROVE  ConsistInv'
  BY <1>5, AckNackConsist, Zenon
<1>6. ASSUME NEW c \in Callers, CallStep(c) PROVE ConsistInv'
  BY <1>6, EnqueueConsist, AckNackConsist, Zenon DEF CallStep
<1>7. ASSUME NEW j \in Jobs, WorkerExpire(j) PROVE ConsistInv'
  BY <1>7, ExpireConsist, Zenon
<1>8. CASE Replay \/ Crash
  BY <1>8, RestartConsist, Zenon
<1> QED BY <1>2, <1>3, <1>4, <1>5, <1>6, <1>7, <1>8, Zenon DEF Next, WorkerStep

-----------------------------------------------------------------------------
(* The theorem *)

\* The status, the lease and the retry count of a job agree with the place it
\* is in, unless two handlers worked on it at the same time.
THEOREM UnracedConsistentHolds == Spec => []UnracedConsistent
<1>1. Init => ConsistInv
  <2> SUFFICES ASSUME Init PROVE ConsistInv
    BY Zenon
  <2>1. \A c \in Callers : call[c].pc = "idle" /\ ~Handling(c)
    BY Zenon DEF Init, Idle, Handling, AckPC, NackPC
  <2>2. ready = {} /\ inflight = {} /\ dlq = {} /\ wal = <<>>
    BY Zenon DEF Init
  <2>3. HandlerInv
    BY <2>1, Zenon DEF HandlerInv
  <2>4. NewInv
    <3>1. DOMAIN wal = {}
      BY <2>2
    <3> QED BY <2>1, <3>1, Zenon DEF NewInv
  <2>5. UnracedConsistent
    BY <2>2, Zenon DEF UnracedConsistent, Consistent
  <2> QED BY <2>3, <2>4, <2>5, Zenon DEF ConsistInv
<1>2. ConsistInv => UnracedConsistent
  BY Zenon DEF ConsistInv
<1> QED BY <1>1, <1>2, TypeCorrect, PlaceInit, PlaceStep, ConsistStep, PTL DEF Spec
=============================================================================
