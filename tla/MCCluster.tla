----------------------------- MODULE MCCluster -----------------------------
(* The server s, whose queue prefers another node, a. *)
EXTENDS Cluster

CONSTANTS s, a

MCPreference == [n \in Nodes |-> IF n = a THEN 1 ELSE IF n = s THEN 2 ELSE 3]
=============================================================================
