--------------------------- MODULE MCPriorityHeap ---------------------------
(* Three jobs' fields in heap order: the first is not due yet, so it holds  *)
(* up the second, which is.                                                 *)
EXTENDS PriorityHeap, TLC

F(priority, eta, enqueuedAt) ==
    [priority |-> priority, eta |-> eta, enqueuedAt |-> enqueuedAt, status |-> "ready"]

MCFields == {F(1, 2, 1), F(0, 1, 2), F(0, 2, 1)}

Symmetry == Permutations(Jobs)
=============================================================================
