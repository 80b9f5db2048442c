------------------------- MODULE ManagerInvariants --------------------------
(***************************************************************************)
(* The inductive invariants behind the theorems about the queue manager.    *)
(***************************************************************************)
EXTENDS Manager

-----------------------------------------------------------------------------
(* Where jobs can be: the log is ahead of the memory, and no job is ready   *)
(* and inflight at once                                                     *)

\* Request c works on a job that is in the log.
Holding(c) == call[c].pc \notin {"idle", "enqWrite"}

\* Nothing but the heaps is filled while the log is replayed.
ReplayInv ==
    mode = "replay" =>
      /\ \A c \in Callers : call[c].pc = "idle"
      /\ worker = IdleWorker
      /\ inflight = {} /\ dlq = {}

\* Whatever a request, the memory or the store knows is in the log.
LogInv ==
    /\ ready \cup inflight \cup dlq \cup accepted \subseteq Logged
    /\ \A k \in Keys : idem[k] # NoJob => idem[k] \in Logged
    /\ \A c \in Callers : Holding(c) => call[c].job \in Logged

\* The job of an Enqueue that has not pushed it yet is nowhere else: Ack, Nack
\* and the worker can only reach a job through the inflight map.
FreshInv ==
    \A c \in Callers : call[c].pc \in {"enqKey", "enqPush"} =>
      /\ call[c].job \notin ready \cup inflight \cup dlq
      /\ \A d \in Callers : Holding(d) /\ d # c => call[d].job # call[c].job

\* From the scan to the last move the worker holds the lock of the queue its
\* expired jobs are in, so they stay inflight and expired.
WorkerInv ==
    /\ clock >= 1 /\ worker.now <= clock
    /\ worker.pc # "expire" => worker.expired = {}
    /\ \A j \in worker.expired :
         j \in inflight /\ job[j].queue = worker.queue
    /\ \A j \in worker.expired : job[j].deadline < clock

PlaceInv == ReplayInv /\ LogInv /\ FreshInv /\ WorkerInv /\ ready \cap inflight = {}

-----------------------------------------------------------------------------
(* No accepted job is lost *)

\* A client that knows an ID got it from Enqueue or finds it under its key.
Known == accepted \cup ({idem[k] : k \in Keys} \ {NoJob})

\* A known job that is not acknowledged is in memory or about to be pushed; an
\* Ack removes a job only after its record; and in replay the part of the log
\* that is still to come holds what is missing from the heaps.
LossInv ==
    /\ \A c \in Callers : call[c].pc = "ackRemove" => call[c].job \in Acked
    /\ mode = "up" =>
         \A j \in Known \ Acked :
           \/ j \in ready \cup inflight \cup dlq
           \/ \E c \in Callers : call[c].pc = "enqPush" /\ call[c].job = j
    /\ mode = "replay" =>
         /\ replayed <= Len(wal)
         /\ \A i \in 1 .. replayed : wal[i].type = "enqueue" => wal[i].job \in ready

-----------------------------------------------------------------------------
(* The status of a job agrees with its place *)

\* Request c is an Ack or a Nack that has passed its lease check.
Handling(c) == call[c].pc \in AckPC \cup NackPC

\* What a handler that is the only one on its job finds when it goes on.
HandlerState(cl, jb) ==
    /\ cl.pc \in NackPC \ {"nackLoad", "nackUpdate"} => jb.lease = NoLease
    /\ cl.pc \in {"retryWrite", "retryMove"} =>
         jb.status = "ready" /\ ShouldRetry(jb)
    /\ cl.pc \in {"dlqWrite", "dlqMove"} =>
         jb.status = "dlq" /\ ~ShouldRetry(jb)

\* An unraced job has one handler at most, and is inflight while it has one.
HandlerInv ==
    /\ \A c, d \in Callers :
         Handling(c) /\ Handling(d) /\ call[c].job = call[d].job /\ c # d
           => call[c].job \in raced
    /\ \A c \in Callers : Handling(c) /\ call[c].job \notin raced =>
         call[c].job \in inflight /\ HandlerState(call[c], job[call[c].job])

\* A job that is not pushed or not replayed yet is as Enqueue made it.
NewInv ==
    /\ \A c \in Callers : call[c].pc \in {"enqKey", "enqPush"} =>
         LET jb == job[call[c].job]
         IN  jb.status = "ready" /\ jb.lease = NoLease /\ jb.tries = 0
    /\ \A i \in DOMAIN wal : wal[i].type = "enqueue" => wal[i].tries = 0

ConsistInv == HandlerInv /\ NewInv /\ UnracedConsistent
=============================================================================
