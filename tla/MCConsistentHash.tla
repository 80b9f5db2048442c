-------------------------- MODULE MCConsistentHash --------------------------
(* ConsistentHash for TLC. *)
EXTENDS ConsistentHash, TLC

\* The nodes differ only in their hashes, and every choice of those is initial.
NodeSymmetry == Permutations(NodeIDs)
=============================================================================
