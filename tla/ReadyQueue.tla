----------------------------- MODULE ReadyQueue -----------------------------
(***************************************************************************)
(* What a queue's heap promises the manager, and all the manager's model   *)
(* uses of it: a set of job IDs, out of which Pop takes one that no other  *)
(* precedes under Less, or any of them after a job's fields were written   *)
(* while it was in the set.                                                *)
(***************************************************************************)
EXTENDS Job

CONSTANTS Jobs, NoJob,
          Now   \* the time PopReady is called with

VARIABLES job, ready, disordered,
          last   \* the last operation and the job it returned

vars == <<job, ready, disordered, last>>

First(j) == j \in ready /\ (disordered \/ \A k \in ready : ~Less(job[k], job[j]))

Returns(op, j) ==
    /\ last' = [op |-> op, result |-> j]
    /\ ready' = ready \ {j}
    /\ UNCHANGED <<job, disordered>>

Init == ready = {} /\ disordered = FALSE /\ last = [op |-> "New", result |-> NoJob]

\* Somebody writes to the fields of a job.
Write(j) ==
    /\ \A k \in Jobs \ {j} : job'[k] = job[k]
    /\ disordered' = (disordered \/ j \in ready)
    /\ last' = [op |-> "Write", result |-> NoJob]
    /\ UNCHANGED ready

Push(j) ==
    /\ ready' = ready \cup {j}
    /\ last' = [op |-> "Push", result |-> NoJob]
    /\ UNCHANGED <<job, disordered>>

Pop ==
    \/ ready = {} /\ Returns("Pop", NoJob)
    \/ \E j \in ready : First(j) /\ Returns("Pop", j)

\* The first job if it is ready; nothing if the first job is not.
PopReady ==
    \/ ready = {} /\ Returns("PopReady", NoJob)
    \/ \E j \in ready : /\ First(j)
                        /\ Returns("PopReady", IF IsReady(job[j], Now) THEN j ELSE NoJob)

Remove(j) == Returns("Remove", IF j \in ready THEN j ELSE NoJob)

Next == Pop \/ PopReady \/ \E j \in Jobs : Write(j) \/ Push(j) \/ Remove(j)

Spec == Init /\ [][Next]_vars
=============================================================================
