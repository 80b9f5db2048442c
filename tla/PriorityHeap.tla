---------------------------- MODULE PriorityHeap ----------------------------
(***************************************************************************)
(* The heap of a queue, internal/queue/heap.go on container/heap, array    *)
(* for array: positions count from 0 as in the code, and every item keeps  *)
(* its own position in index, which Remove relies on.  The manager pushes  *)
(* and pops under queue.mu, but Nack writes to its job without it, also    *)
(* when the timeout worker has put the job back into the heap.             *)
(***************************************************************************)
EXTENDS Job, Integers, Sequences, FiniteSets

CONSTANTS Jobs, NoJob,
          Fields,   \* scheduling fields a job may have
          Now       \* the time PopReady is called with

ASSUME PriorityHeapAssumption ==
    /\ IsFiniteSet(Jobs) /\ NoJob \notin Jobs
    /\ \A f \in Fields : {f.priority, f.eta, f.enqueuedAt} \subseteq Nat
    /\ Now \in Nat

VARIABLES job,        \* the fields of each job
          heap,       \* priorityQueue.heap, as IDs
          index,      \* jobHeapItem.index
          items,      \* the IDs in priorityQueue.items
          disordered, \* history: a job was written to inside the heap
          last        \* history: the last operation and the job it returned

vars == <<job, heap, index, items, disordered, last>>

-----------------------------------------------------------------------------
(* container/heap over an array h.heap and the positions h.index.          *)

At(h, i) == h.heap[i + 1]

\* Mutant of Before: the later ETA comes first.
BeforeLater(h, i, k) ==
    LET a == job[At(h, i)]  b == job[At(h, k)]
    IN  \/ a.priority > b.priority
        \/ a.priority = b.priority /\ a.eta > b.eta

Before(h, i, k) == Less(job[At(h, i)], job[At(h, k)])

\* Mutant of Swap: the items keep their old index.
SwapOnly(h, i, k) ==
    [heap |-> [h.heap EXCEPT ![i + 1] = At(h, k), ![k + 1] = At(h, i)], index |-> h.index]

Swap(h, i, k) ==
    LET a == At(h, i)  b == At(h, k)
    IN  [heap |-> [h.heap EXCEPT ![i + 1] = b, ![k + 1] = a],
         index |-> [h.index EXCEPT ![b] = i, ![a] = k]]

Parent(k) == (k - 1) \div 2

\* The loop of up: a round, and as many of them as it can take from k.
UpOnce(s) ==
    IF s.at = 0 \/ ~Before(s.h, s.at, Parent(s.at)) THEN s
    ELSE [h |-> Swap(s.h, Parent(s.at), s.at), at |-> Parent(s.at)]

Up(h, k) ==
    LET up[m \in 0 .. k] == IF m = 0 THEN [h |-> h, at |-> k] ELSE UpOnce(up[m - 1])
    IN  up[k].h

\* The loop of down, from position i among the first n.
FirstChild(h, i, n) ==
    LET left == 2 * i + 1
    IN  IF left + 1 < n /\ Before(h, left + 1, left) THEN left + 1 ELSE left

DownOnce(s, n) ==
    LET child == FirstChild(s.h, s.at, n)
    IN  IF 2 * s.at + 1 >= n \/ ~Before(s.h, child, s.at) THEN s
        ELSE [h |-> Swap(s.h, s.at, child), at |-> child]

Down(h, i, n) ==
    LET down[m \in 0 .. n] == IF m = 0 THEN [h |-> h, at |-> i] ELSE DownOnce(down[m - 1], n)
    IN  down[n].h

\* jobHeap.Push and jobHeap.Pop: at the end of the array.
AppendItem(h, j) ==
    [heap |-> Append(h.heap, j), index |-> [h.index EXCEPT ![j] = Len(h.heap)]]

DropItem(h) ==
    [heap |-> SubSeq(h.heap, 1, Len(h.heap) - 1),
     index |-> [h.index EXCEPT ![At(h, Len(h.heap) - 1)] = -1]]

HeapPush(h, j) == Up(AppendItem(h, j), Len(h.heap))

HeapPop(h) ==
    LET n == Len(h.heap) - 1
    IN  DropItem(Down(Swap(h, 0, n), 0, n))

\* The last item takes the place of the one removed; it goes down or, if it
\* does not move, up.
HeapRemove(h, i) ==
    LET n == Len(h.heap) - 1
        moved == Swap(h, i, n)
        sunk == Down(moved, i, n)
    IN  DropItem(IF i = n THEN h ELSE IF sunk # moved THEN sunk ELSE Up(moved, i))

-----------------------------------------------------------------------------
(* priorityQueue                                                           *)

pq == [heap |-> heap, index |-> index]

Becomes(h) == heap' = h.heap /\ index' = h.index

Returns(op, j) == last' = [op |-> op, result |-> j]

Init ==
    /\ job \in [Jobs -> Fields]
    /\ heap = <<>> /\ index = [j \in Jobs |-> -1] /\ items = {}
    /\ disordered = FALSE
    /\ last = [op |-> "New", result |-> NoJob]

\* A handler writes to the job, in the heap or not.
Write(j) ==
    /\ \E f \in Fields : job' = [job EXCEPT ![j] = f]
    /\ disordered' = (disordered \/ j \in items)
    /\ Returns("Write", NoJob)
    /\ UNCHANGED <<heap, index, items>>

\* Mutant of Push: the items map is not consulted.
PushTwice(j) ==
    /\ Becomes(HeapPush(pq, j))
    /\ items' = items \cup {j}
    /\ Returns("Push", NoJob)
    /\ UNCHANGED <<job, disordered>>

\* An ID that is there already is left alone.
Push(j) ==
    /\ Becomes(IF j \in items THEN pq ELSE HeapPush(pq, j))
    /\ items' = items \cup {j}
    /\ Returns("Push", NoJob)
    /\ UNCHANGED <<job, disordered>>

PopTop(op) ==
    /\ Becomes(HeapPop(pq))
    /\ items' = items \ {heap[1]}
    /\ Returns(op, heap[1])
    /\ UNCHANGED <<job, disordered>>

NothingFound(op) ==
    /\ Returns(op, NoJob)
    /\ UNCHANGED <<job, heap, index, items, disordered>>

Pop == IF heap = <<>> THEN NothingFound("Pop") ELSE PopTop("Pop")

PopReady ==
    IF heap = <<>> \/ ~IsReady(job[heap[1]], Now)
    THEN NothingFound("PopReady") ELSE PopTop("PopReady")

\* The item's own index says where it is.
Remove(j) ==
    IF j \notin items THEN NothingFound("Remove")
    ELSE /\ Becomes(HeapRemove(pq, index[j]))
         /\ items' = items \ {j}
         /\ Returns("Remove", j)
         /\ UNCHANGED <<job, disordered>>

Next == Pop \/ PopReady \/ \E j \in Jobs : Write(j) \/ Push(j) \/ Remove(j)

Spec == Init /\ [][Next]_vars

-----------------------------------------------------------------------------
(* Properties *)

\* Types, and an array that holds no job twice.
TypeOK ==
    /\ job \in [Jobs -> Fields]
    /\ heap \in Seq(Jobs) /\ Len(heap) <= Cardinality(Jobs)
    /\ index \in [Jobs -> -1 .. Cardinality(Jobs) - 1]
    /\ items \subseteq Jobs
    /\ disordered \in BOOLEAN

\* The three places that know of a job agree through any mix of sifts: the
\* map has exactly the jobs of the array, and an item's index is its position,
\* so Remove takes out the job it was asked for.
IndexAgrees ==
    /\ items = {heap[i] : i \in DOMAIN heap}
    /\ \A i \in DOMAIN heap : index[heap[i]] = i - 1
    /\ \A j \in Jobs \ items : index[j] = -1

\* The heap is the set of jobs the manager's model takes it for: Pop and
\* PopReady return a first job, PopReady nothing only if a first job is not
\* ready, Push and Remove change nothing else.
Promise == INSTANCE ReadyQueue WITH ready <- {heap[i] : i \in DOMAIN heap}

KeepsPromise == Promise!Spec
=============================================================================
