--------------------------- MODULE MCReplication ---------------------------
(* The servers are alike, and so are the limits. *)
EXTENDS Replication, TLC

Symmetry == Permutations(Servers) \cup Permutations(Limits)
=============================================================================
