-------------------------------- MODULE Job --------------------------------
(***************************************************************************)
(* A job as the manager keeps it in memory (internal/queue/job.go), and    *)
(* the order in which a queue hands jobs out (internal/queue/heap.go).     *)
(* Payload and headers are carried through unread and are left out.        *)
(***************************************************************************)
EXTENDS Naturals

CONSTANTS
    Queues,   \* names of queues
    NoQueue   \* the Queue of a job that is not in memory

ASSUME NoQueueAssumption == NoQueue \notin Queues

ZeroTime == 0   \* time.Time{}; the clock starts later than this
NoLease == 0    \* the empty lease ID; leases are numbered from 1

JobStatus == {"ready", "inflight", "dlq"}

Job == [queue : Queues \cup {NoQueue}, priority : Nat, tries : Nat,
        maxRetries : Nat, eta : Nat, lease : Nat, deadline : Nat,
        status : JobStatus, enqueuedAt : Nat]

IsReady(job, now) ==
    /\ job.status = "ready"
    /\ job.eta = ZeroTime \/ job.eta <= now

ShouldRetry(job) == job.tries < job.maxRetries

\* Mutant of LeaseExpired: After where the code has Before.
LeaseExpiredAfter(job, now) == job.deadline # ZeroTime /\ job.deadline > now

\* The lease of an inflight job has run out at time now.
LeaseExpired(job, now) == job.deadline # ZeroTime /\ job.deadline < now

\* Heap order: higher priority, then earlier ETA, then earlier enqueue time.
Less(a, b) ==
    \/ a.priority > b.priority
    \/ /\ a.priority = b.priority
       /\ \/ a.eta < b.eta
          \/ a.eta = b.eta /\ a.enqueuedAt < b.enqueuedAt
=============================================================================
