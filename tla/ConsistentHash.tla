--------------------------- MODULE ConsistentHash ---------------------------
(***************************************************************************)
(* The hash ring of internal/cluster/sharding.go, by which a server finds   *)
(* the node of a queue.  Every operation holds the ring's mutex throughout. *)
(*                                                                          *)
(* A queue is the hash of its name.  The hashes of the virtual nodes are    *)
(* arbitrary: two of them can be equal.                                     *)
(***************************************************************************)
EXTENDS Naturals, FiniteSets

CONSTANTS
    NodeIDs,
    VirtualNodes,
    HashSpace,     \* hashes are the numbers below it; 2^32 in the code
    Replication,   \* Sharding.replication
    NoNode,        \* "", what the map of members has for a hash it lacks
    Unavailable,   \* the error of an empty ring
    MaxCopies      \* bound: entries of the slice with one hash

ASSUME HashAssumption ==
    /\ HashSpace \in Nat \ {0} /\ VirtualNodes \in Nat \ {0} /\ Replication \in Nat
    /\ MaxCopies \in Nat
    /\ NoNode \notin NodeIDs /\ Unavailable \notin NodeIDs /\ NoNode # Unavailable

Hashes == 0 .. HashSpace - 1
Indexes == 1 .. VirtualNodes

VARIABLES
    vhash,         \* hashKey("<node>:<i>") of every virtual node; never changes
    ring,          \* how often each hash is in the sorted slice
    members,       \* hash -> node ID
    nodes

vars == <<vhash, ring, members, nodes>>

-----------------------------------------------------------------------------
(* AddNode and RemoveNode *)

Points(n) == {vhash[n][i] : i \in Indexes}

Times(n, h) == Cardinality({i \in Indexes : vhash[n][i] = h})

\* Mutant of AddNode: the virtual nodes do not get into the slice.
AddNodeUnlisted(n) ==
    /\ n \notin nodes
    /\ nodes' = nodes \cup {n}
    /\ ring' = ring
    /\ members' = [h \in Hashes |-> IF h \in Points(n) THEN n ELSE members[h]]
    /\ UNCHANGED vhash

\* One entry of the slice for each virtual node, and one of the map for each
\* hash; the node that was added last has it.
AddNode(n) ==
    \/ n \in nodes /\ UNCHANGED vars
    \/ /\ n \notin nodes
       /\ \A h \in Hashes : ring[h] + Times(n, h) <= MaxCopies
       /\ nodes' = nodes \cup {n}
       /\ ring' = [h \in Hashes |-> ring[h] + Times(n, h)]
       /\ members' = [h \in Hashes |-> IF h \in Points(n) THEN n ELSE members[h]]
       /\ UNCHANGED vhash

\* Mutant of RemoveNode: the entries of the map stay.
RemoveNodeKeepsMember(n) ==
    /\ n \in nodes
    /\ nodes' = nodes \ {n}
    /\ ring' = [h \in Hashes |-> IF members[h] = n THEN ring[h] - 1 ELSE ring[h]]
    /\ UNCHANGED <<vhash, members>>

\* Mutant of RemoveNode: the hashes of the node are computed again, and their
\* entries go whoever has them.
RemoveNodeByHash(n) ==
    /\ n \in nodes
    /\ nodes' = nodes \ {n}
    /\ ring' = [h \in Hashes |-> IF h \in Points(n) THEN 0 ELSE ring[h]]
    /\ members' = [h \in Hashes |-> IF h \in Points(n) THEN NoNode ELSE members[h]]
    /\ UNCHANGED vhash

\* Of equal hashes that belong to the node, the first loses its entry in the
\* slice and in the map, and the others stay without a member.
RemoveNode(n) ==
    \/ n \notin nodes /\ UNCHANGED vars
    \/ /\ n \in nodes
       /\ nodes' = nodes \ {n}
       /\ ring' = [h \in Hashes |-> IF members[h] = n THEN ring[h] - 1 ELSE ring[h]]
       /\ members' = [h \in Hashes |-> IF members[h] = n THEN NoNode ELSE members[h]]
       /\ UNCHANGED vhash

-----------------------------------------------------------------------------
(* GetNode and GetNodes *)

Ring == {h \in Hashes : ring[h] > 0}

\* How far the search for key k goes before it meets h: the first hash that
\* is not smaller, and from the start of the slice after its end.
Clockwise(k, h) == IF h >= k THEN h - k ELSE h + HashSpace - k

\* The search in the hashes R for key k ends at h.
First(R, k, h) == h \in R /\ \A g \in R : Clockwise(k, h) <= Clockwise(k, g)

\* Mutant of GetNode: past the end of the slice, its last entry.
GetNodeNoWrap(k) ==
    IF Ring = {} THEN Unavailable
    ELSE IF \E h \in Ring : h >= k THEN members[CHOOSE h \in Hashes : First(Ring, k, h)]
    ELSE members[CHOOSE h \in Ring : \A g \in Ring : g <= h]

GetNode(k) ==
    IF Ring = {} THEN Unavailable ELSE members[CHOOSE h \in Hashes : First(Ring, k, h)]

\* How many nodes GetQueueNodes asks for.
Wanted == IF Replication > Cardinality(nodes) THEN Cardinality(nodes) ELSE Replication

\* The walk from key k meets node n for the first time at h.
Meets(k, n, h) ==
    /\ h \in Ring /\ members[h] = n
    /\ \A g \in Ring : members[g] = n => Clockwise(k, h) <= Clockwise(k, g)

\* The nodes the walk from key k meets before it meets n, and n.
MetUpTo(k, n) ==
    {m \in {members[h] : h \in Ring} :
       \E g, h \in Ring : Meets(k, m, g) /\ Meets(k, n, h) /\ Clockwise(k, g) <= Clockwise(k, h)}

\* Mutant of GetNodes: no check for a node it has seen.
GetNodesRepeats(k) ==
    [i \in 1 .. Wanted |-> members[CHOOSE h \in Ring :
       Cardinality({g \in Ring : Clockwise(k, g) <= Clockwise(k, h)}) = i]]

\* Mutant of GetNodes: the walk starts after the entry the search ended at.
GetNodesLastFirst(k) ==
    [i \in 1 .. Wanted |->
       CHOOSE n \in {members[h] : h \in Ring} :
         Cardinality(MetUpTo((k + 1) % HashSpace, n)) = i]

GetNodes(k) ==
    [i \in 1 .. Wanted |->
       CHOOSE n \in {members[h] : h \in Ring} : Cardinality(MetUpTo(k, n)) = i]

-----------------------------------------------------------------------------

Init ==
    /\ vhash \in [NodeIDs -> [Indexes -> Hashes]]
    /\ ring = [h \in Hashes |-> 0]
    /\ members = [h \in Hashes |-> NoNode]
    /\ nodes = {}

Next == \E n \in NodeIDs : AddNode(n) \/ RemoveNode(n)

Spec == Init /\ [][Next]_vars

-----------------------------------------------------------------------------
(* Properties *)

\* No two virtual nodes have the same hash.
Distinct ==
    \A n, m \in NodeIDs : \A i, j \in Indexes :
      vhash[n][i] = vhash[m][j] => n = m /\ i = j

\* Types; the slice never loses more entries than it got.
TypeOK ==
    /\ vhash \in [NodeIDs -> [Indexes -> Hashes]]
    /\ ring \in [Hashes -> Nat]
    /\ members \in [Hashes -> NodeIDs \cup {NoNode}]
    /\ nodes \subseteq NodeIDs

\* The node of a queue is the node of the nearest virtual node, whatever
\* nodes came and went and in whatever order: servers that know the same nodes
\* send a queue to the same one.
OwnerIsNearest ==
    Distinct /\ nodes # {} =>
      \A k \in Hashes : \E n \in nodes, i \in Indexes :
        /\ GetNode(k) = n
        /\ \A m \in nodes, j \in Indexes : Clockwise(k, vhash[n][i]) <= Clockwise(k, vhash[m][j])

\* GetNode never names a node that was removed, not even after hashes of two
\* nodes collided; and it names one if there is a node and none collide.
LiveOwner ==
    \A k \in Hashes :
      \/ GetNode(k) \in nodes
      \/ GetNode(k) = Unavailable /\ nodes = {}
      \/ GetNode(k) = NoNode /\ ~Distinct

\* "Minimal disruption on rebalancing": a node that is added takes queues over
\* and a node that is removed gives its queues up, and no other queue moves,
\* even if hashes collide.
MinimalDisruption ==
    [][\A k \in Hashes :
         \/ GetNode(k)' = GetNode(k)
         \/ GetNode(k)' \in nodes' \ nodes
         \/ GetNode(k) \in nodes \ nodes']_vars

\* GetQueueNodes' walk ends: it finds as many different nodes as it looks
\* for, all of them in the ring, the primary first.
ReplicasFound ==
    Distinct => \A k \in Hashes :
      LET found == GetNodes(k)
      IN  /\ DOMAIN found = 1 .. Wanted
          /\ \A i \in 1 .. Wanted : found[i] \in nodes
          /\ \A i, j \in 1 .. Wanted : found[i] = found[j] => i = j
          /\ Wanted > 0 => found[1] = GetNode(k)

\* When the primary of a queue is removed, its first replica becomes primary.
ReplicaTakesOver ==
    [][Distinct => \A k \in Hashes :
         GetNode(k) \in nodes \ nodes' /\ Wanted > 1 => GetNode(k)' = GetNodes(k)[2]]_vars
=============================================================================
