----------------------------- MODULE MCManager -----------------------------
(* Instances of Manager for TLC. *)
EXTENDS Manager, TLC

\* Job IDs, request goroutines and queues are interchangeable.
Symmetry == Permutations(Jobs) \cup Permutations(Callers) \cup Permutations(Queues)
=============================================================================
