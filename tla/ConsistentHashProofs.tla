------------------------ MODULE ConsistentHashProofs ------------------------
(***************************************************************************)
(* What the hash ring guarantees for any nodes, number of virtual nodes,   *)
(* size of the hash space and hash function.                               *)
(***************************************************************************)
EXTENDS ConsistentHash, FiniteSetTheorems, WellFoundedInduction, TLAPS

\* The induction needs: a hash with a member has an entry in the slice; a hash
\* of a node that is there has one, and one more if another node is its
\* member, so that removing the other leaves it; and without collisions every
\* hash of a node, and no other, has that node as member and one entry.
HashInv ==
    /\ TypeOK
    /\ \A h \in Hashes : members[h] # NoNode =>
         ring[h] >= 1 /\ members[h] \in nodes /\ h \in Points(members[h])
    /\ \A n \in nodes : \A h \in Points(n) :
         ring[h] >= IF members[h] = n \/ members[h] = NoNode THEN 1 ELSE 2
    /\ Distinct =>
         /\ \A h \in Hashes : ring[h] = IF members[h] = NoNode THEN 0 ELSE 1
         /\ \A n \in nodes : \A h \in Points(n) : members[h] = n

-----------------------------------------------------------------------------
(* Hashes and searches *)

\* Every non-empty set of numbers has a least element.
LEMMA LeastNat ==
  ASSUME NEW S, S \subseteq Nat, S # {}
  PROVE  \E x \in S : \A y \in S : x <= y
<1> DEFINE Less == {p \in Nat \X Nat : p[1] < p[2]}
<1>1. IsWellFoundedOn(Less, Nat)
  BY NatLessThanWellFounded, Zenon DEF OpToRel
<1>2. PICK x \in S : \A y \in S : ~(<<y, x>> \in Less)
  <2> HIDE DEF Less
  <2> QED BY <1>1, WFMin, Zenon
<1>3. \A y \in S : ~(y < x)
  BY <1>2, Zenon
<1> QED BY <1>3

\* No two hashes are equally far from a key.
LEMMA ClockwiseFacts ==
  ASSUME NEW k \in Hashes, NEW g \in Hashes, NEW h \in Hashes
  PROVE  /\ Clockwise(k, h) \in Nat
         /\ Clockwise(k, g) = Clockwise(k, h) => g = h
  BY HashAssumption DEF Hashes, Clockwise

\* A search in a ring that is not empty ends at one hash.
LEMMA SearchEnds ==
  ASSUME NEW R, R \subseteq Hashes, R # {}, NEW k \in Hashes
  PROVE  \E h \in Hashes : First(R, k, h)
<1> DEFINE D == {Clockwise(k, h) : h \in R}
<1>1. D \subseteq Nat /\ D # {}
  BY ClockwiseFacts
<1>2. PICK d \in D : \A e \in D : d <= e
  <2> HIDE DEF D
  <2> QED BY <1>1, LeastNat, Zenon
<1>3. PICK h \in R : d = Clockwise(k, h)
  BY Zenon
<1>4. \A g \in R : Clockwise(k, h) <= Clockwise(k, g)
  BY <1>2, <1>3, Zenon
<1> QED BY <1>4, Zenon DEF First

LEMMA SearchFinds ==
  ASSUME NEW R, R \subseteq Hashes, NEW k \in Hashes, NEW h \in Hashes, First(R, k, h)
  PROVE  (CHOOSE g \in Hashes : First(R, k, g)) = h
<1> DEFINE x == CHOOSE g \in Hashes : First(R, k, g)
<1>1. x \in Hashes /\ First(R, k, x)
  BY Zenon
<1> HIDE DEF x
<1>2. Clockwise(k, x) <= Clockwise(k, h) /\ Clockwise(k, h) <= Clockwise(k, x)
  BY <1>1, Zenon DEF First
<1>3. x = h
  BY <1>1, <1>2, ClockwiseFacts
<1> QED BY <1>3, Zenon DEF x

\* The number of virtual nodes of n with hash h.
LEMMA TimesFacts ==
  ASSUME NEW n \in NodeIDs, NEW h \in Hashes
  PROVE  /\ Times(n, h) \in Nat
         /\ h \in Points(n) => Times(n, h) >= 1
         /\ h \notin Points(n) => Times(n, h) = 0
         /\ Distinct => Times(n, h) <= 1
<1> DEFINE S == {i \in Indexes : vhash[n][i] = h}
<1>1. IsFiniteSet(Indexes)
  BY HashAssumption, FS_Interval DEF Indexes
<1>2. IsFiniteSet(S)
  BY <1>1, FS_Subset, Zenon
<1>3. Cardinality(S) \in Nat /\ (Cardinality(S) = 0 <=> S = {})
  BY <1>2, FS_CardinalityType, FS_EmptySet, Zenon
<1>4. h \in Points(n) <=> S # {}
  BY Zenon DEF Points
<1>5. ASSUME Distinct, S # {} PROVE Cardinality(S) = 1
  <2>1. PICK i \in S : TRUE
    BY <1>5, Zenon
  <2>2. S = {i}
    BY <1>5, <2>1 DEF Distinct
  <2> QED BY <2>2, FS_Singleton, Zenon
<1> QED BY <1>3, <1>4, <1>5 DEF Times

-----------------------------------------------------------------------------
(* The invariant *)

LEMMA HashInit == Init => HashInv
<1> SUFFICES ASSUME Init PROVE HashInv
  BY Zenon
<1>1. TypeOK
  BY Zenon DEF Init, TypeOK
<1> QED BY <1>1, Zenon DEF Init, HashInv

\* A new entry for every virtual node.
LEMMA AddNodeStep ==
  ASSUME HashInv, NEW n \in NodeIDs, AddNode(n), n \notin nodes
  PROVE  HashInv'
<1>0. /\ nodes' = nodes \cup {n} /\ vhash' = vhash
      /\ ring' = [h \in Hashes |-> ring[h] + Times(n, h)]
      /\ members' = [h \in Hashes |-> IF h \in Points(n) THEN n ELSE members[h]]
  BY Zenon DEF AddNode
<1>1. n # NoNode /\ TypeOK
  BY HashAssumption, Zenon DEF HashInv
<1>2. Points(n) \subseteq Hashes
  BY <1>1, Zenon DEF TypeOK, Points
<1>3. \A h \in Hashes :
        /\ ring[h] \in Nat /\ Times(n, h) \in Nat
        /\ ring'[h] = ring[h] + Times(n, h)
        /\ members'[h] = IF h \in Points(n) THEN n ELSE members[h]
  BY <1>0, <1>1, TimesFacts, Zenon DEF TypeOK
<1>4. \A m \in NodeIDs : Points(m)' = Points(m) /\ Points(m) \subseteq Hashes
  BY <1>0, <1>1 DEF TypeOK, Points
<1>5. Distinct' = Distinct
  BY <1>0 DEF Distinct
<1>6. TypeOK'
  BY <1>0, <1>1, <1>3 DEF TypeOK
<1>7. ASSUME NEW h \in Hashes, members'[h] # NoNode
      PROVE  (ring[h] >= 1 /\ members[h] \in nodes /\ h \in Points(members[h]))'
  <2>1. CASE h \in Points(n)
    <3>1. Times(n, h) >= 1
      BY <2>1, TimesFacts, Zenon
    <3>2. ring'[h] >= 1
      BY <1>3, <3>1
    <3> QED BY <1>0, <1>3, <2>1, <3>2, Zenon DEF Points
  <2>2. CASE h \notin Points(n)
    <3>1. members'[h] = members[h] /\ ring'[h] = ring[h]
      BY <1>3, <2>2, TimesFacts
    <3>2. ring[h] >= 1 /\ members[h] \in nodes /\ h \in Points(members[h])
      BY <1>7, <3>1, Zenon DEF HashInv
    <3> QED BY <1>0, <3>1, <3>2, Zenon DEF Points
  <2> QED BY <2>1, <2>2, Zenon
<1>8. ASSUME NEW m \in nodes', NEW h \in Points(m)'
      PROVE  ring'[h] >= IF members'[h] = m \/ members'[h] = NoNode THEN 1 ELSE 2
  <2>0. m \in NodeIDs /\ h \in Points(m) /\ h \in Hashes
    BY <1>0, <1>1, <1>4, <1>8, Zenon DEF TypeOK
  <2>1. CASE m = n
    <3>1. Times(n, h) >= 1 /\ members'[h] = n
      BY <1>3, <2>0, <2>1, TimesFacts, Zenon
    <3> QED BY <1>3, <2>0, <2>1, <3>1
  <2>2. CASE m # n /\ h \in Points(n)
    <3>1. Times(n, h) >= 1
      BY <2>0, <2>2, TimesFacts, Zenon
    <3>2. ring[h] >= 1
      BY <1>0, <1>3, <2>0, <2>2, Zenon DEF HashInv
    <3> QED BY <1>3, <2>0, <3>1, <3>2
  <2>3. CASE m # n /\ h \notin Points(n)
    <3>1. members'[h] = members[h] /\ ring'[h] = ring[h]
      BY <1>3, <2>0, <2>3, TimesFacts
    <3> QED BY <1>0, <2>0, <2>3, <3>1, Zenon DEF HashInv
  <2> QED BY <2>1, <2>2, <2>3, Zenon
<1>9. ASSUME Distinct
      PROVE  /\ \A h \in Hashes : ring'[h] = IF members'[h] = NoNode THEN 0 ELSE 1
             /\ \A m \in nodes' : \A h \in Points(m)' : members'[h] = m
  <2>1. \A m \in NodeIDs : m # n => Points(m) \cap Points(n) = {}
    BY <1>9 DEF Distinct, Points
  <2>2. \A m \in nodes : m \in NodeIDs /\ m # n
    BY <1>1, Zenon DEF TypeOK
  <2>3. ASSUME NEW h \in Hashes
        PROVE  ring'[h] = IF members'[h] = NoNode THEN 0 ELSE 1
    <3>1. CASE h \in Points(n)
      <4>1. members[h] = NoNode
        BY <2>1, <2>2, <3>1, Zenon DEF HashInv
      <4>2. ring[h] = 0
        BY <1>9, <4>1, Zenon DEF HashInv
      <4>3. Times(n, h) >= 1 /\ Times(n, h) <= 1
        BY <1>9, <3>1, TimesFacts, Zenon
      <4> QED BY <1>1, <1>3, <3>1, <4>2, <4>3
    <3>2. CASE h \notin Points(n)
      <4>1. members'[h] = members[h] /\ ring'[h] = ring[h]
        BY <1>3, <3>2, TimesFacts
      <4> QED BY <1>9, <4>1, Zenon DEF HashInv
    <3> QED BY <3>1, <3>2, Zenon
  <2>4. ASSUME NEW m \in nodes', NEW h \in Points(m)
        PROVE  members'[h] = m
    <3>1. CASE m = n
      BY <1>2, <1>3, <3>1, Zenon
    <3>2. CASE m # n
      <4>1. m \in nodes /\ m \in NodeIDs
        BY <1>0, <2>2, <3>2, Zenon
      <4>2. h \in Hashes /\ h \notin Points(n)
        BY <1>4, <2>1, <3>2, <4>1, Zenon
      <4>3. members[h] = m
        BY <1>9, <4>1, Zenon DEF HashInv
      <4> QED BY <1>3, <4>2, <4>3, Zenon
    <3> QED BY <3>1, <3>2, Zenon
  <2>5. \A m \in nodes' : m \in NodeIDs
    BY <1>0, <2>2, Zenon
  <2> QED BY <1>4, <2>3, <2>4, <2>5, Zenon
<1> QED BY <1>5, <1>6, <1>7, <1>8, <1>9, Zenon DEF HashInv

\* The entries whose member is the node go; a hash that another node has too
\* keeps an entry.
LEMMA RemoveNodeStep ==
  ASSUME HashInv, NEW n \in NodeIDs, RemoveNode(n), n \in nodes
  PROVE  HashInv'
<1>0. /\ nodes' = nodes \ {n} /\ vhash' = vhash
      /\ ring' = [h \in Hashes |-> IF members[h] = n THEN ring[h] - 1 ELSE ring[h]]
      /\ members' = [h \in Hashes |-> IF members[h] = n THEN NoNode ELSE members[h]]
  BY Zenon DEF RemoveNode
<1>1. n # NoNode /\ TypeOK
  BY HashAssumption, Zenon DEF HashInv
<1>2. \A h \in Hashes :
        /\ ring[h] \in Nat /\ (members[h] = n => ring[h] >= 1)
        /\ ring'[h] = IF members[h] = n THEN ring[h] - 1 ELSE ring[h]
        /\ members'[h] = IF members[h] = n THEN NoNode ELSE members[h]
  BY <1>0, <1>1, Zenon DEF HashInv, TypeOK
<1>3. \A m \in NodeIDs : Points(m)' = Points(m) /\ Points(m) \subseteq Hashes
  BY <1>0, <1>1, Zenon DEF TypeOK, Points
<1>4. Distinct' = Distinct
  BY <1>0 DEF Distinct
<1>5. TypeOK'
  <2>1. \A h \in Hashes : ring'[h] \in Nat /\ members'[h] \in NodeIDs \cup {NoNode}
    BY <1>1, <1>2 DEF TypeOK
  <2> QED BY <1>0, <1>1, <2>1, Zenon DEF TypeOK
<1>6. ASSUME NEW h \in Hashes, members'[h] # NoNode
      PROVE  (ring[h] >= 1 /\ members[h] \in nodes /\ h \in Points(members[h]))'
  <2>1. members[h] # n /\ members'[h] = members[h] /\ ring'[h] = ring[h]
    BY <1>2, <1>6, Zenon
  <2>2. ring[h] >= 1 /\ members[h] \in nodes /\ h \in Points(members[h])
    BY <1>6, <2>1, Zenon DEF HashInv
  <2> QED BY <1>0, <2>1, <2>2, Zenon DEF Points
<1>7. ASSUME NEW m \in nodes', NEW h \in Points(m)'
      PROVE  ring'[h] >= IF members'[h] = m \/ members'[h] = NoNode THEN 1 ELSE 2
  <2>1. m \in nodes /\ m # n /\ h \in Points(m) /\ h \in Hashes
    BY <1>0, <1>1, <1>3, <1>7, Zenon DEF TypeOK
  <2>2. m # NoNode
    BY <1>1, <2>1, HashAssumption, Zenon DEF TypeOK
  <2>3. ring[h] >= IF members[h] = m \/ members[h] = NoNode THEN 1 ELSE 2
    BY <2>1, Zenon DEF HashInv
  <2> QED BY <1>1, <1>2, <2>1, <2>2, <2>3
<1>8. ASSUME Distinct
      PROVE  /\ \A h \in Hashes : ring'[h] = IF members'[h] = NoNode THEN 0 ELSE 1
             /\ \A m \in nodes' : \A h \in Points(m)' : members'[h] = m
  <2>1. \A h \in Hashes : ring[h] = IF members[h] = NoNode THEN 0 ELSE 1
    BY <1>8, Zenon DEF HashInv
  <2>2. \A h \in Hashes : ring'[h] = IF members'[h] = NoNode THEN 0 ELSE 1
    BY <1>1, <1>2, <2>1
  <2>3. ASSUME NEW m \in nodes', NEW h \in Points(m)'
        PROVE  members'[h] = m
    <3>1. m \in nodes /\ m # n /\ h \in Points(m) /\ h \in Hashes
      BY <1>0, <1>1, <1>3, <2>3, Zenon DEF TypeOK
    <3>2. members[h] = m
      BY <1>8, <3>1, Zenon DEF HashInv
    <3> QED BY <1>2, <3>1, <3>2, Zenon
  <2> QED BY <2>2, <2>3, Zenon
<1> QED BY <1>4, <1>5, <1>6, <1>7, <1>8, Zenon DEF HashInv

LEMMA HashStep == HashInv /\ [Next]_vars => HashInv'
<1> SUFFICES ASSUME HashInv, [Next]_vars PROVE HashInv'
  BY Zenon
<1>1. CASE UNCHANGED vars
  BY <1>1 DEF vars, HashInv, TypeOK, Distinct, Points, Times
<1>2. ASSUME NEW n \in NodeIDs, AddNode(n), n \notin nodes PROVE HashInv'
  BY <1>2, AddNodeStep, Zenon
<1>3. ASSUME NEW n \in NodeIDs, RemoveNode(n), n \in nodes PROVE HashInv'
  BY <1>3, RemoveNodeStep, Zenon
<1>4. ASSUME NEW n \in NodeIDs, AddNode(n), n \in nodes PROVE UNCHANGED vars
  BY <1>4, Zenon DEF AddNode
<1>5. ASSUME NEW n \in NodeIDs, RemoveNode(n), n \notin nodes PROVE UNCHANGED vars
  BY <1>5, Zenon DEF RemoveNode
<1> QED BY <1>1, <1>2, <1>3, <1>4, <1>5, Zenon DEF Next

-----------------------------------------------------------------------------
(* The theorems *)

\* What GetNode returns, from the hash the search ends at.
LEMMA GetNodeFacts ==
  ASSUME HashInv, NEW k \in Hashes
  PROVE  /\ Ring = {} => GetNode(k) = Unavailable /\ nodes = {}
         /\ Ring # {} => \E h \in Hashes : First(Ring, k, h) /\ GetNode(k) = members[h]
<1>1. CASE Ring = {}
  <2>1. \A n \in nodes : \A h \in Points(n) : h \in Hashes /\ ring[h] >= 1
    BY DEF HashInv, TypeOK, Points
  <2>4. \A h \in Hashes : ring[h] \in Nat
    BY Zenon DEF HashInv, TypeOK
  <2>2. \A n \in nodes : vhash[n][1] \in Points(n)
    BY HashAssumption DEF Points, Indexes
  <2>3. nodes = {}
    BY <1>1, <2>1, <2>2, <2>4 DEF Ring
  <2> QED BY <1>1, <2>3, Zenon DEF GetNode
<1>2. CASE Ring # {}
  <2>1. Ring \subseteq Hashes
    BY Zenon DEF Ring
  <2>2. PICK h \in Hashes : First(Ring, k, h)
    BY <1>2, <2>1, SearchEnds, Zenon
  <2>3. (CHOOSE g \in Hashes : First(Ring, k, g)) = h
    BY <2>1, <2>2, SearchFinds, Zenon
  <2> QED BY <1>2, <2>2, <2>3, Zenon DEF GetNode
<1> QED BY <1>1, <1>2, Zenon

\* The type of the ring.
THEOREM HashTyped == Spec => []TypeOK
<1>1. HashInv => TypeOK
  BY Zenon DEF HashInv
<1> QED BY <1>1, HashInit, HashStep, PTL DEF Spec

\* GetNode names a node that is there; only a ring in which hashes collided
\* can have an entry without one.
THEOREM LiveOwnerHolds == Spec => []LiveOwner
<1>1. HashInv => LiveOwner
  <2> SUFFICES ASSUME HashInv, NEW k \in Hashes
               PROVE  \/ GetNode(k) \in nodes
                      \/ GetNode(k) = Unavailable /\ nodes = {}
                      \/ GetNode(k) = NoNode /\ ~Distinct
    BY Zenon DEF LiveOwner
  <2>1. CASE Ring = {}
    BY <2>1, GetNodeFacts, Zenon
  <2>2. CASE Ring # {}
    <3>1. PICK h \in Hashes : First(Ring, k, h) /\ GetNode(k) = members[h]
      BY <2>2, GetNodeFacts, Zenon
    <3>2. ring[h] > 0
      BY <3>1, Zenon DEF First, Ring
    <3> QED BY <3>1, <3>2 DEF HashInv
  <2> QED BY <2>1, <2>2, Zenon
<1> QED BY <1>1, HashInit, HashStep, PTL DEF Spec

\* Without collisions the node of a queue depends on the set of nodes alone.
THEOREM OwnerIsNearestHolds == Spec => []OwnerIsNearest
<1>1. HashInv => OwnerIsNearest
  <2> SUFFICES ASSUME HashInv, Distinct, nodes # {}, NEW k \in Hashes
               PROVE  \E n \in nodes, i \in Indexes :
                        /\ GetNode(k) = n
                        /\ \A m \in nodes, j \in Indexes :
                             Clockwise(k, vhash[n][i]) <= Clockwise(k, vhash[m][j])
    BY Zenon DEF OwnerIsNearest
  <2>1. PICK h \in Hashes : First(Ring, k, h) /\ GetNode(k) = members[h]
    BY GetNodeFacts, Zenon
  <2>2. members[h] \in nodes /\ h \in Points(members[h])
    BY <2>1 DEF HashInv, First, Ring
  <2>3. PICK i \in Indexes : h = vhash[members[h]][i]
    BY <2>2, Zenon DEF Points
  <2>4. ASSUME NEW m \in nodes, NEW j \in Indexes
        PROVE  Clockwise(k, h) <= Clockwise(k, vhash[m][j])
    <3>1. vhash[m][j] \in Points(m) /\ vhash[m][j] \in Hashes
      BY DEF Points, HashInv, TypeOK
    <3>2. ring[vhash[m][j]] >= 1
      BY <3>1, Zenon DEF HashInv
    <3>3. vhash[m][j] \in Ring
      BY <3>1, <3>2 DEF Ring, HashInv, TypeOK
    <3> QED BY <2>1, <3>3, Zenon DEF First
  <2> QED BY <2>1, <2>2, <2>3, <2>4, Zenon
<1> QED BY <1>1, HashInit, HashStep, PTL DEF Spec

\* A change of the nodes moves no queue but those of the node it is about,
\* even in a ring in which hashes collided.
THEOREM MinimalDisruptionHolds == Spec => MinimalDisruption
<1> DEFINE Moves(k) == \/ GetNode(k)' = GetNode(k)
                       \/ GetNode(k)' \in nodes' \ nodes
                       \/ GetNode(k) \in nodes \ nodes'
<1>1. ASSUME NEW k \in Hashes, NEW h \in Hashes
      PROVE  /\ First(Ring, k, h) => GetNode(k) = members[h]
             /\ First(Ring', k, h) => GetNode(k)' = members'[h]
  <2>1. Ring \subseteq Hashes /\ Ring' \subseteq Hashes
    BY Zenon DEF Ring
  <2>2. First(Ring, k, h) => Ring # {} /\ (CHOOSE g \in Hashes : First(Ring, k, g)) = h
    BY <2>1, SearchFinds, Zenon DEF First
  <2>3. First(Ring', k, h) => Ring' # {} /\ (CHOOSE g \in Hashes : First(Ring', k, g)) = h
    BY <2>1, SearchFinds, Zenon DEF First
  <2> QED BY <2>2, <2>3, Zenon DEF GetNode
<1>2. ASSUME HashInv, NEW n \in NodeIDs, AddNode(n), n \notin nodes, NEW k \in Hashes
      PROVE  Moves(k)
  <2>0. /\ nodes' = nodes \cup {n}
        /\ ring' = [h \in Hashes |-> ring[h] + Times(n, h)]
        /\ members' = [h \in Hashes |-> IF h \in Points(n) THEN n ELSE members[h]]
    BY <1>2, Zenon DEF AddNode
  <2>1. \A h \in Hashes : /\ ring[h] \in Nat /\ Times(n, h) \in Nat
                          /\ h \in Points(n) => Times(n, h) >= 1
                          /\ h \notin Points(n) => Times(n, h) = 0
    BY <1>2, TimesFacts, Zenon DEF HashInv, TypeOK
  <2>2. Ring' = {h \in Hashes : ring[h] + Times(n, h) > 0}
    BY <2>0, Zenon DEF Ring
  <2>3. Ring \subseteq Ring' /\ \A h \in Ring' : h \in Hashes /\ (h \in Ring \/ h \in Points(n))
    BY <2>1, <2>2 DEF Ring
  <2>4. Ring' # {}
    <3>1. vhash[n][1] \in Points(n) /\ vhash[n][1] \in Hashes
      BY <1>2, HashAssumption DEF Points, Indexes, HashInv, TypeOK
    <3>2. vhash[n][1] \in Ring'
      BY <2>1, <2>2, <3>1
    <3> QED BY <3>2, Zenon
  <2>5. PICK h \in Hashes : First(Ring', k, h)
    BY <2>3, <2>4, SearchEnds, Zenon
  <2>6. CASE h \in Points(n)
    BY <1>1, <1>2, <2>0, <2>5, <2>6, Zenon
  <2>7. CASE h \notin Points(n)
    <3>1. First(Ring, k, h)
      BY <2>3, <2>5, <2>7, Zenon DEF First
    <3> QED BY <1>1, <2>0, <2>5, <2>7, <3>1, Zenon
  <2> QED BY <2>6, <2>7, Zenon
<1>3. ASSUME HashInv, NEW n \in NodeIDs, RemoveNode(n), n \in nodes, NEW k \in Hashes
      PROVE  Moves(k)
  <2>0. /\ nodes' = nodes \ {n}
        /\ ring' = [h \in Hashes |-> IF members[h] = n THEN ring[h] - 1 ELSE ring[h]]
        /\ members' = [h \in Hashes |-> IF members[h] = n THEN NoNode ELSE members[h]]
    BY <1>3, Zenon DEF RemoveNode
  <2>1. \A h \in Hashes : ring[h] \in Nat
    BY <1>3, Zenon DEF HashInv, TypeOK
  <2>2. /\ Ring' \subseteq Ring
        /\ \A h \in Ring : members[h] # n => h \in Ring' /\ members'[h] = members[h]
    BY <2>0, <2>1 DEF Ring
  <2>3. CASE Ring = {}
    BY <2>2, <2>3, Zenon DEF GetNode
  <2>4. CASE Ring # {}
    <3>1. PICK h \in Hashes : First(Ring, k, h) /\ GetNode(k) = members[h]
      BY <1>3, <2>4, GetNodeFacts, Zenon
    <3>2. CASE members[h] = n
      BY <1>3, <2>0, <3>1, <3>2, Zenon
    <3>3. CASE members[h] # n
      <4>1. First(Ring', k, h) /\ members'[h] = members[h]
        BY <2>2, <3>1, <3>3, Zenon DEF First
      <4> QED BY <1>1, <3>1, <4>1, Zenon
    <3> QED BY <3>2, <3>3, Zenon
  <2> QED BY <2>3, <2>4, Zenon
<1>4. HashInv /\ [Next]_vars => [\A k \in Hashes : Moves(k)]_vars
  <2> SUFFICES ASSUME HashInv, Next, vars' # vars, NEW k \in Hashes PROVE Moves(k)
    BY Zenon
  <2>1. ASSUME NEW n \in NodeIDs, AddNode(n) PROVE n \notin nodes
    BY <2>1, Zenon DEF AddNode
  <2>2. ASSUME NEW n \in NodeIDs, RemoveNode(n) PROVE n \in nodes
    BY <2>2, Zenon DEF RemoveNode
  <2> QED BY <1>2, <1>3, <2>1, <2>2, Zenon DEF Next
<1> QED BY <1>4, HashInit, HashStep, PTL DEF Spec, MinimalDisruption

-----------------------------------------------------------------------------
(* Replicas.  Without collisions the walk from a key ranks the nodes by how *)
(* far it goes before it meets them.                                        *)

\* Where the walk from key k first meets n, and how far that is.
Met(k, n) == CHOOSE h \in Ring : Meets(k, n, h)
Far(k, n) == Clockwise(k, Met(k, n))

Rank(k, n) == Cardinality(MetUpTo(k, n))

\* The nodes on the ring are the nodes, and there are finitely many.
LEMMA RingNodes ==
  ASSUME HashInv, Distinct
  PROVE  /\ {members[h] : h \in Ring} = nodes /\ Ring \subseteq Hashes
         /\ \A n \in nodes : \E h \in Ring : members[h] = n
         /\ IsFiniteSet(nodes) /\ Cardinality(nodes) \in Nat
<1>1. Ring \subseteq Hashes
  BY Zenon DEF Ring
<1>2. \A h \in Ring : members[h] \in nodes
  <2>1. \A h \in Hashes : ring[h] = IF members[h] = NoNode THEN 0 ELSE 1
    BY Zenon DEF HashInv
  <2>2. \A h \in Ring : members[h] # NoNode
    BY <2>1 DEF Ring
  <2> QED BY <1>1, <2>2, Zenon DEF HashInv
<1>3. \A n \in nodes : \E h \in Ring : members[h] = n
  <2> SUFFICES ASSUME NEW n \in nodes PROVE \E h \in Ring : members[h] = n
    BY Zenon
  <2>1. TypeOK /\ n \in NodeIDs /\ 1 \in Indexes
    BY HashAssumption DEF HashInv, TypeOK, Indexes
  <2>2. vhash[n][1] \in Points(n) /\ vhash[n][1] \in Hashes
    BY <2>1, Zenon DEF Points, TypeOK
  <2>3. members[vhash[n][1]] = n /\ n # NoNode
    BY <2>1, <2>2, HashAssumption, Zenon DEF HashInv
  <2>4. ring[vhash[n][1]] = 1
    BY <2>2, <2>3, Zenon DEF HashInv
  <2>5. vhash[n][1] \in Ring
    BY <2>2, <2>4 DEF Ring
  <2> QED BY <2>3, <2>5, Zenon
<1>4. IsFiniteSet(Hashes)
  <2>1. 0 \in Int /\ HashSpace - 1 \in Int
    BY HashAssumption
  <2> QED BY <2>1, FS_Interval, Zenon DEF Hashes
<1>5. IsFiniteSet(Ring)
  BY <1>1, <1>4, FS_Subset, Zenon
<1>6. [h \in Ring |-> members[h]] \in Surjection(Ring, nodes)
  BY <1>2, <1>3, Zenon DEF Surjection
<1>7. IsFiniteSet(nodes)
  BY <1>5, <1>6, FS_Surjection, Zenon
<1> QED BY <1>1, <1>2, <1>3, <1>7, FS_CardinalityType, Zenon

\* The walk meets every node, at one hash.
LEMMA MetFacts ==
  ASSUME HashInv, Distinct, NEW k \in Hashes, NEW n \in nodes
  PROVE  /\ Met(k, n) \in Ring /\ members[Met(k, n)] = n /\ Far(k, n) \in Nat
         /\ \A h \in Ring : members[h] = n => Far(k, n) <= Clockwise(k, h)
         /\ \A h : Meets(k, n, h) <=> h = Met(k, n)
<1> DEFINE R == {h \in Ring : members[h] = n}
<1>1. R \subseteq Hashes /\ R # {} /\ Ring \subseteq Hashes
  BY RingNodes, Zenon
<1>2. PICK h \in Hashes : First(R, k, h)
  <2> HIDE DEF R
  <2> QED BY <1>1, SearchEnds, Zenon
<1>3. h \in Ring /\ Meets(k, n, h)
  BY <1>2, Zenon DEF First, Meets
<1>4. Met(k, n) \in Ring /\ Meets(k, n, Met(k, n))
  BY <1>3, Zenon DEF Met
<1>5. \A g : Meets(k, n, g) => g = Met(k, n)
  <2> SUFFICES ASSUME NEW g, Meets(k, n, g) PROVE g = Met(k, n)
    BY Zenon
  <2>1. /\ g \in Hashes /\ Met(k, n) \in Hashes
        /\ Clockwise(k, g) <= Clockwise(k, Met(k, n))
        /\ Clockwise(k, Met(k, n)) <= Clockwise(k, g)
    BY <1>1, <1>4, Zenon DEF Meets
  <2>2. Clockwise(k, g) \in Nat /\ Clockwise(k, Met(k, n)) \in Nat
    BY <2>1, ClockwiseFacts, Zenon
  <2>3. Clockwise(k, g) = Clockwise(k, Met(k, n))
    BY <2>1, <2>2
  <2> QED BY <2>1, <2>3, ClockwiseFacts, Zenon
<1>6. Far(k, n) \in Nat
  BY <1>1, <1>4, ClockwiseFacts, Zenon DEF Far
<1> QED BY <1>4, <1>5, <1>6, Zenon DEF Meets, Far

\* No two nodes are met at the same place.
LEMMA FarDiffers ==
  ASSUME HashInv, Distinct, NEW k \in Hashes, NEW m \in nodes, NEW n \in nodes,
         Far(k, m) = Far(k, n)
  PROVE  m = n
<1>1. /\ Met(k, m) \in Hashes /\ Met(k, n) \in Hashes
      /\ members[Met(k, m)] = m /\ members[Met(k, n)] = n
  BY MetFacts, RingNodes, Zenon
<1>2. Met(k, m) = Met(k, n)
  BY <1>1, ClockwiseFacts, Zenon DEF Far
<1> QED BY <1>1, <1>2, Zenon

LEMMA MetBefore ==
  ASSUME HashInv, Distinct, NEW k \in Hashes, NEW n \in nodes
  PROVE  MetUpTo(k, n) = {m \in nodes : Far(k, m) <= Far(k, n)}
<1>1. {members[h] : h \in Ring} = nodes
  BY RingNodes, Zenon
<1>2. ASSUME NEW m \in nodes
      PROVE  (\E g, h \in Ring : /\ Meets(k, m, g) /\ Meets(k, n, h)
                                 /\ Clockwise(k, g) <= Clockwise(k, h))
             <=> Far(k, m) <= Far(k, n)
  <2>1. /\ Met(k, m) \in Ring /\ Met(k, n) \in Ring
        /\ \A g : Meets(k, m, g) <=> g = Met(k, m)
        /\ \A g : Meets(k, n, g) <=> g = Met(k, n)
    BY MetFacts, Zenon
  <2> QED BY <2>1, Zenon DEF Far
<1> QED BY <1>1, <1>2, Zenon DEF MetUpTo

\* Ranks are the numbers up to that of the nodes, in the order of the walk.
LEMMA RankFacts ==
  ASSUME HashInv, Distinct, NEW k \in Hashes, NEW n \in nodes
  PROVE  /\ Rank(k, n) \in 1 .. Cardinality(nodes)
         /\ \A m \in nodes : Far(k, m) < Far(k, n) => Rank(k, m) < Rank(k, n)
         /\ \A m \in nodes : Rank(k, m) = Rank(k, n) => m = n
<1>0. IsFiniteSet(nodes) /\ Cardinality(nodes) \in Nat
  BY RingNodes, Zenon
<1>1. \A m \in nodes :
        /\ MetUpTo(k, m) = {x \in nodes : Far(k, x) <= Far(k, m)}
        /\ Far(k, m) \in Nat
  BY MetBefore, MetFacts, Zenon
<1>2. \A m \in nodes : /\ m \in MetUpTo(k, m) /\ MetUpTo(k, m) \subseteq nodes
                       /\ \A x \in nodes : x \in MetUpTo(k, m) <=> Far(k, x) <= Far(k, m)
  BY <1>1
<1>3. \A m \in nodes : /\ IsFiniteSet(MetUpTo(k, m)) /\ Rank(k, m) \in Nat
                       /\ Rank(k, m) <= Cardinality(nodes) /\ Rank(k, m) # 0
  <2> SUFFICES ASSUME NEW m \in nodes
               PROVE  /\ IsFiniteSet(MetUpTo(k, m)) /\ Rank(k, m) \in Nat
                      /\ Rank(k, m) <= Cardinality(nodes) /\ Rank(k, m) # 0
    BY Zenon
  <2>1. IsFiniteSet(MetUpTo(k, m)) /\ Rank(k, m) <= Cardinality(nodes)
    BY <1>0, <1>2, FS_Subset, Zenon DEF Rank
  <2>2. Rank(k, m) \in Nat
    BY <2>1, FS_CardinalityType, Zenon DEF Rank
  <2>3. Rank(k, m) # 0
    BY <1>2, <2>1, FS_EmptySet, Zenon DEF Rank
  <2> QED BY <2>1, <2>2, <2>3, Zenon
<1>4. ASSUME NEW l \in nodes, NEW m \in nodes, Far(k, l) < Far(k, m)
      PROVE  Rank(k, l) < Rank(k, m)
  <2>1. Far(k, l) \in Nat /\ Far(k, m) \in Nat
    BY <1>1, Zenon
  <2>2. ~(Far(k, m) <= Far(k, l))
    BY <1>4, <2>1
  <2>3. \A x \in nodes : Far(k, x) <= Far(k, l) => Far(k, x) <= Far(k, m)
    BY <1>1, <1>4, <2>1
  <2>4. MetUpTo(k, l) \in SUBSET MetUpTo(k, m) /\ MetUpTo(k, l) # MetUpTo(k, m)
    BY <1>2, <2>2, <2>3, Zenon
  <2>5. Rank(k, l) <= Rank(k, m) /\ Rank(k, l) # Rank(k, m)
    BY <1>3, <2>4, FS_Subset, Zenon DEF Rank
  <2>6. Rank(k, l) \in Nat /\ Rank(k, m) \in Nat
    BY <1>3, Zenon
  <2> QED BY <2>5, <2>6
<1>5. ASSUME NEW m \in nodes, Rank(k, m) = Rank(k, n) PROVE m = n
  <2>1. ~(Far(k, m) < Far(k, n)) /\ ~(Far(k, n) < Far(k, m))
    <3>1. Rank(k, m) \in Nat /\ ~(Rank(k, m) < Rank(k, m))
      BY <1>3
    <3> QED BY <1>4, <1>5, <3>1, Zenon
  <2>2. Far(k, m) \in Nat /\ Far(k, n) \in Nat
    BY <1>1, Zenon
  <2>3. Far(k, m) = Far(k, n)
    BY <2>1, <2>2
  <2> QED BY <2>3, FarDiffers, Zenon
<1>6. Rank(k, n) \in 1 .. Cardinality(nodes)
  <2>1. Rank(k, n) \in Nat /\ Rank(k, n) <= Cardinality(nodes) /\ Rank(k, n) # 0
    BY <1>3, Zenon
  <2> QED BY <1>0, <2>1
<1> QED BY <1>4, <1>5, <1>6, Zenon

LEMMA RankTaken ==
  ASSUME HashInv, Distinct, NEW k \in Hashes, NEW i \in 1 .. Cardinality(nodes)
  PROVE  \E n \in nodes : Rank(k, n) = i
<1> DEFINE N == Cardinality(nodes)
           f == [n \in nodes |-> Rank(k, n)]
<1>1. IsFiniteSet(nodes) /\ N \in Nat
  BY RingNodes, Zenon
<1>2. IsFiniteSet(1 .. N) /\ Cardinality(1 .. N) = N
  <2>1. 1 \in Int /\ N \in Int
    BY <1>1
  <2>2. IsFiniteSet(1 .. N) /\ Cardinality(1 .. N) = IF 1 > N THEN 0 ELSE N - 1 + 1
    BY <2>1, FS_Interval, Zenon
  <2> HIDE DEF N
  <2> QED BY <1>1, <2>2
<1>3. f \in [nodes -> 1 .. N] /\ \A m, n \in nodes : f[m] = f[n] => m = n
  BY RankFacts, Zenon
<1>4. f \in Injection(nodes, 1 .. N)
  <2> HIDE DEF f, N
  <2> QED BY <1>3, Zenon DEF Injection, IsInjective
<1>5. f \in Surjection(nodes, 1 .. N)
  <2> HIDE DEF f
  <2> QED BY <1>2, <1>4, FS_Injection, Zenon
<1>6. \E n \in nodes : f[n] = i
  <2> HIDE DEF f, N
  <2> QED BY <1>5, Zenon DEF Surjection, N
<1> QED BY <1>6, Zenon

\* GetNodes lists the nodes by their rank.
LEMMA GetNodesFacts ==
  ASSUME HashInv, Distinct, NEW k \in Hashes
  PROVE  /\ Wanted \in Nat /\ Wanted <= Cardinality(nodes)
         /\ DOMAIN GetNodes(k) = 1 .. Wanted
         /\ \A i \in 1 .. Wanted : GetNodes(k)[i] \in nodes /\ Rank(k, GetNodes(k)[i]) = i
<1>1. Wanted \in Nat /\ Wanted <= Cardinality(nodes)
  <2>1. Cardinality(nodes) \in Nat /\ Replication \in Nat
    BY RingNodes, HashAssumption, Zenon
  <2> QED BY <2>1 DEF Wanted
<1>2. ASSUME NEW i \in 1 .. Wanted
      PROVE  GetNodes(k)[i] \in nodes /\ Rank(k, GetNodes(k)[i]) = i
  <2>1. i \in 1 .. Cardinality(nodes)
    <3>1. Cardinality(nodes) \in Nat
      BY RingNodes, Zenon
    <3> QED BY <1>1, <3>1
  <2>2. \E n \in nodes : Rank(k, n) = i
    BY <2>1, RankTaken, Zenon
  <2>3. GetNodes(k)[i] = CHOOSE n \in {members[h] : h \in Ring} : Cardinality(MetUpTo(k, n)) = i
    BY Zenon DEF GetNodes
  <2>4. GetNodes(k)[i] = CHOOSE n \in nodes : Rank(k, n) = i
    BY <2>3, RingNodes, Zenon DEF Rank
  <2> QED BY <2>2, <2>4, Zenon
<1>3. DOMAIN GetNodes(k) = 1 .. Wanted
  BY Zenon DEF GetNodes
<1> QED BY <1>1, <1>2, <1>3, Zenon

\* The node the walk meets first is the one GetNode names.
LEMMA OwnerRank ==
  ASSUME HashInv, Distinct, NEW k \in Hashes, nodes # {}
  PROVE  GetNode(k) \in nodes /\ \A n \in nodes : Far(k, GetNode(k)) <= Far(k, n)
<1>1. Ring # {} /\ Ring \subseteq Hashes
  BY RingNodes, Zenon
<1>2. PICK h \in Hashes : First(Ring, k, h) /\ GetNode(k) = members[h]
  BY <1>1, GetNodeFacts, Zenon
<1>3. h \in Ring /\ GetNode(k) \in nodes
  BY <1>2, RingNodes, Zenon DEF First
<1>4. Meets(k, GetNode(k), h)
  BY <1>2, <1>3, Zenon DEF Meets, First
<1>5. h = Met(k, GetNode(k))
  BY <1>3, <1>4, MetFacts, Zenon
<1>6. \A n \in nodes : Met(k, n) \in Ring
  BY MetFacts, Zenon
<1> QED BY <1>2, <1>3, <1>5, <1>6, Zenon DEF First, Far

\* GetQueueNodes finds as many different nodes as it looks for, the primary
\* first.
THEOREM ReplicasFoundHolds == Spec => []ReplicasFound
<1>1. HashInv => ReplicasFound
  <2> SUFFICES ASSUME HashInv, Distinct, NEW k \in Hashes
               PROVE  /\ DOMAIN GetNodes(k) = 1 .. Wanted
                      /\ \A i \in 1 .. Wanted : GetNodes(k)[i] \in nodes
                      /\ \A i, j \in 1 .. Wanted : GetNodes(k)[i] = GetNodes(k)[j] => i = j
                      /\ Wanted > 0 => GetNodes(k)[1] = GetNode(k)
    BY Zenon DEF ReplicasFound
  <2>1. /\ DOMAIN GetNodes(k) = 1 .. Wanted
        /\ \A i \in 1 .. Wanted : GetNodes(k)[i] \in nodes
        /\ \A i, j \in 1 .. Wanted : GetNodes(k)[i] = GetNodes(k)[j] => i = j
    BY GetNodesFacts, Zenon
  <2>2. ASSUME Wanted > 0 PROVE GetNodes(k)[1] = GetNode(k)
    <3>1. 1 \in 1 .. Wanted
      BY <2>2, GetNodesFacts
    <3> DEFINE n == GetNodes(k)[1]
    <3>2. n \in nodes /\ Rank(k, n) = 1
      BY <3>1, GetNodesFacts, Zenon
    <3> HIDE DEF n
    <3>3. GetNode(k) \in nodes /\ Far(k, GetNode(k)) <= Far(k, n)
      BY <3>2, OwnerRank, Zenon
    <3>4. ~(Far(k, GetNode(k)) < Far(k, n))
      <4>1. Rank(k, GetNode(k)) \in 1 .. Cardinality(nodes) /\ Cardinality(nodes) \in Nat
        BY <3>3, RankFacts, RingNodes, Zenon
      <4>2. ~(Rank(k, GetNode(k)) < 1)
        BY <4>1
      <4> QED BY <3>2, <3>3, <4>2, RankFacts, Zenon
    <3>5. Far(k, n) \in Nat /\ Far(k, GetNode(k)) \in Nat
      BY <3>2, <3>3, MetFacts, Zenon
    <3>6. Far(k, n) = Far(k, GetNode(k))
      BY <3>3, <3>4, <3>5
    <3>7. n = GetNode(k)
      BY <3>2, <3>3, <3>6, FarDiffers, Zenon
    <3> QED BY <3>7, Zenon DEF n
  <2> QED BY <2>1, <2>2, Zenon
<1> QED BY <1>1, HashInit, HashStep, PTL DEF Spec

\* When the primary of a queue is removed, its first replica becomes primary.
THEOREM ReplicaTakesOverHolds == Spec => ReplicaTakesOver
<1> DEFINE Over(k) == GetNode(k) \in nodes \ nodes' /\ Wanted > 1
                        => GetNode(k)' = GetNodes(k)[2]
<1>1. ASSUME HashInv, Distinct, [Next]_vars, NEW k \in Hashes, GetNode(k) \in nodes \ nodes',
             Wanted > 1
      PROVE  GetNode(k)' = GetNodes(k)[2]
  <2> DEFINE n == GetNode(k)
             m == GetNodes(k)[2]
  <2>1. /\ n \in nodes
        /\ members' = [h \in Hashes |-> IF members[h] = n THEN NoNode ELSE members[h]]
        /\ ring' = [h \in Hashes |-> IF members[h] = n THEN ring[h] - 1 ELSE ring[h]]
    BY <1>1, Zenon DEF Next, AddNode, RemoveNode, vars
  <2>2. 2 \in 1 .. Wanted /\ nodes # {}
    BY <1>1, GetNodesFacts
  <2>3. m \in nodes /\ Rank(k, m) = 2
    BY <1>1, <2>2, GetNodesFacts, Zenon
  <2>4. \A x \in nodes : Far(k, n) <= Far(k, x)
    BY <1>1, <2>2, OwnerRank, Zenon
  <2> HIDE DEF n, m
  <2>5. Rank(k, n) = 1
    <3>1. MetUpTo(k, n) = {n}
      <4>1. \A x \in nodes : Far(k, x) <= Far(k, n) => x = n
        <5> SUFFICES ASSUME NEW x \in nodes, Far(k, x) <= Far(k, n) PROVE x = n
          BY Zenon
        <5>1. Far(k, x) \in Nat /\ Far(k, n) \in Nat /\ Far(k, n) <= Far(k, x)
          BY <1>1, <2>1, <2>4, MetFacts, Zenon
        <5>2. Far(k, x) = Far(k, n)
          BY <5>1
        <5> QED BY <1>1, <2>1, <5>2, FarDiffers, Zenon
      <4>2. MetUpTo(k, n) = {x \in nodes : Far(k, x) <= Far(k, n)}
        BY <1>1, <2>1, MetBefore, Zenon
      <4> QED BY <2>1, <2>4, <4>1, <4>2, Zenon
    <3> QED BY <3>1, FS_Singleton, Zenon DEF Rank
  <2>6. m # n
    BY <2>3, <2>5
  <2>7. \A x \in nodes : x # n => Far(k, m) <= Far(k, x)
    <3> SUFFICES ASSUME NEW x \in nodes, x # n, ~(Far(k, m) <= Far(k, x)) PROVE FALSE
      BY Zenon
    <3>1. Far(k, m) \in Nat /\ Far(k, x) \in Nat
      BY <1>1, <2>3, MetFacts, Zenon
    <3>2. Far(k, x) < Far(k, m)
      BY <3>1
    <3>3. Rank(k, x) < 2 /\ Rank(k, x) \in 1 .. Cardinality(nodes) /\ Cardinality(nodes) \in Nat
      BY <1>1, <2>3, <3>2, RankFacts, RingNodes
    <3>4. Rank(k, x) = 1
      BY <3>3
    <3> QED BY <1>1, <2>1, <2>5, <3>4, RankFacts, Zenon
  <2>8. Ring' = {h \in Ring : members[h] # n}
    <3>1. \A h \in Hashes : ring[h] = IF members[h] = NoNode THEN 0 ELSE 1
      BY <1>1, Zenon DEF HashInv
    <3>2. n # NoNode
      BY <1>1, <2>1, HashAssumption, Zenon DEF HashInv, TypeOK
    <3>3. \A h \in Hashes : ring'[h] > 0 <=> ring[h] > 0 /\ members[h] # n
      BY <2>1, <3>1, <3>2
    <3> QED BY <3>3, Zenon DEF Ring
  <2>9. First(Ring', k, Met(k, m))
    <3>1. Met(k, m) \in Ring /\ members[Met(k, m)] = m
      BY <1>1, <2>3, MetFacts, Zenon
    <3>2. ASSUME NEW g \in Ring' PROVE Clockwise(k, Met(k, m)) <= Clockwise(k, g)
      <4>1. g \in Ring /\ g \in Hashes /\ members[g] \in nodes /\ members[g] # n
        BY <1>1, <2>8, <3>2, RingNodes, Zenon
      <4>2. Far(k, m) <= Far(k, members[g]) /\ Far(k, members[g]) <= Clockwise(k, g)
        BY <1>1, <2>7, <4>1, MetFacts, Zenon
      <4>3. Far(k, m) \in Nat /\ Far(k, members[g]) \in Nat /\ Clockwise(k, g) \in Nat
        BY <1>1, <2>3, <4>1, MetFacts, ClockwiseFacts, Zenon
      <4>4. Far(k, m) <= Clockwise(k, g)
        BY <4>2, <4>3
      <4> QED BY <4>4, Zenon DEF Far
    <3> QED BY <2>6, <2>8, <3>1, <3>2, Zenon DEF First
  <2>10. Met(k, m) \in Hashes /\ members[Met(k, m)] = m
    BY <1>1, <2>3, MetFacts, RingNodes, Zenon
  <2>11. /\ Ring' # {} /\ Ring' \subseteq Hashes
         /\ (CHOOSE h \in Hashes : First(Ring', k, h)) = Met(k, m)
    <3>1. Ring' # {} /\ Ring' \subseteq Hashes
      BY <2>9, Zenon DEF First, Ring
    <3> QED BY <2>9, <2>10, <3>1, SearchFinds, Zenon
  <2>12. GetNode(k)' = members'[Met(k, m)]
    BY <2>11, Zenon DEF GetNode
  <2>13. GetNode(k)' = m
    BY <2>1, <2>6, <2>10, <2>12, Zenon
  <2> QED BY <2>13, Zenon DEF m
<1>2. HashInv /\ [Next]_vars => [Distinct => \A k \in Hashes : Over(k)]_vars
  BY <1>1, Zenon
<1> QED BY <1>2, HashInit, HashStep, PTL DEF Spec, ReplicaTakesOver
=============================================================================
