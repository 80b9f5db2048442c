------------------------- MODULE PriorityHeapProofs -------------------------
(***************************************************************************)
(* The heap keeps its index, and keeps what module ReadyQueue promises of  *)
(* it, for any finite set of jobs and any fields they may have.            *)
(***************************************************************************)
EXTENDS PriorityHeap, FiniteSetTheorems, WellFoundedInduction, TLAPS

\* The jobs in the array of h.
Held(h) == {h.heap[i] : i \in DOMAIN h.heap}

\* Every job of the array is there once, and its index is its position.
Shape(h) ==
    /\ h.heap \in Seq(Jobs) /\ h.index \in [Jobs -> Int]
    /\ \A i \in DOMAIN h.heap : h.index[h.heap[i]] = i - 1
    /\ \A j \in Jobs \ Held(h) : h.index[j] = -1

Positions(h) == 0 .. Len(h.heap) - 1

\* g has the jobs of h, in other places.
SameItems(g, h) == Shape(g) /\ Len(g.heap) = Len(h.heap) /\ Held(g) = Held(h)

\* No job of the first n comes before its parent.
HeapOrder(h, n) == \A c \in 1 .. n - 1 : ~Before(h, c, Parent(c))

\* The induction needs the order of the array as well, until a job is written
\* to inside it.
HeapInv ==
    /\ TypeOK
    /\ Shape(pq) /\ items = Held(pq)
    /\ ~disordered => HeapOrder(pq, Len(heap))

-----------------------------------------------------------------------------
(* Numbers, positions and the order of jobs *)

\* Every non-empty set of numbers has a least element.
LEMMA LeastNumber ==
  ASSUME NEW S, S \subseteq Nat, S # {}
  PROVE  \E x \in S : \A y \in S : x <= y
<1> DEFINE Less2 == {p \in Nat \X Nat : p[1] < p[2]}
<1>1. IsWellFoundedOn(Less2, Nat)
  BY NatLessThanWellFounded, Zenon DEF OpToRel
<1>2. PICK x \in S : \A y \in S : ~(<<y, x>> \in Less2)
  <2> HIDE DEF Less2
  <2> QED BY <1>1, WFMin, Zenon
<1>3. \A y \in S : ~(y < x)
  BY <1>2, Zenon
<1> QED BY <1>3

\* A set of numbers that holds 0 and every successor up to n is all of them.
LEMMA Upwards ==
  ASSUME NEW n \in Nat, NEW S, 0 \in S, \A k \in 1 .. n : k - 1 \in S => k \in S
  PROVE  \A k \in 0 .. n : k \in S
<1> DEFINE T == {k \in 0 .. n : k \notin S}
<1> SUFFICES ASSUME T # {} PROVE FALSE
  BY Zenon
<1>1. PICK x \in T : \A y \in T : x <= y
  <2>1. T \subseteq Nat
    OBVIOUS
  <2> HIDE DEF T
  <2> QED BY <2>1, LeastNumber, Zenon
<1>2. x \in 1 .. n /\ x - 1 \in 0 .. n /\ ~(x <= x - 1)
  <2>1. x \in 0 .. n /\ x # 0
    BY Zenon
  <2> QED BY <2>1
<1>3. x - 1 \in S
  BY <1>1, <1>2, Zenon
<1> QED BY <1>2, <1>3, Zenon

LEMMA ParentFacts ==
  ASSUME NEW c \in Nat \ {0}
  PROVE  /\ Parent(c) \in Nat /\ Parent(c) < c
         /\ \A k \in Nat : Parent(c) = k <=> c = 2 * k + 1 \/ c = 2 * k + 2
  BY DEF Parent

\* Job a goes before job b.
Prec(a, b) == Less(job[a], job[b])

LEMMA PrecFacts ==
  ASSUME TypeOK, NEW a \in Jobs, NEW b \in Jobs, NEW c \in Jobs
  PROVE  /\ Prec(a, b) /\ Prec(b, c) => Prec(a, c)
         /\ ~Prec(a, b) /\ ~Prec(b, c) => ~Prec(a, c)
         /\ Prec(a, b) => ~Prec(b, a)
         /\ ~Prec(a, a)
<1>1. \A j \in Jobs : job[j].priority \in Nat /\ job[j].eta \in Nat /\ job[j].enqueuedAt \in Nat
  BY PriorityHeapAssumption, Zenon DEF TypeOK
<1> QED BY <1>1 DEF Prec, Less

LEMMA PositionFacts ==
  ASSUME NEW h, Shape(h)
  PROVE  /\ Len(h.heap) \in Nat
         /\ \A x \in Positions(h) :
              x \in Nat /\ x < Len(h.heap) /\ x + 1 \in DOMAIN h.heap
              /\ At(h, x) \in Jobs /\ At(h, x) \in Held(h)
         /\ \A x, y \in Positions(h) : At(h, x) = At(h, y) => x = y
         /\ \A x \in Positions(h) : h.index[At(h, x)] = x
         /\ \A j \in Held(h) : \E x \in Positions(h) : At(h, x) = j
<1>1. h.heap \in Seq(Jobs) /\ \A i \in DOMAIN h.heap : h.index[h.heap[i]] = i - 1
  BY Zenon DEF Shape
<1>2. DOMAIN h.heap = 1 .. Len(h.heap) /\ Len(h.heap) \in Nat
      /\ \A i \in DOMAIN h.heap : h.heap[i] \in Jobs
  BY <1>1
<1>3. \A x \in Positions(h) : x \in Nat /\ x < Len(h.heap) /\ x + 1 \in DOMAIN h.heap
                              /\ (x + 1) - 1 = x
  BY <1>2 DEF Positions
<1>4. \A x \in Positions(h) : At(h, x) \in Jobs /\ At(h, x) \in Held(h) /\ h.index[At(h, x)] = x
  BY <1>1, <1>2, <1>3, Zenon DEF At, Held
<1>5. \A i \in DOMAIN h.heap : i - 1 \in Positions(h) /\ (i - 1) + 1 = i
  BY <1>2 DEF Positions
<1>6. \A j \in Held(h) : \E x \in Positions(h) : At(h, x) = j
  BY <1>5, Zenon DEF Held, At
<1> QED BY <1>2, <1>3, <1>4, <1>6, Zenon

\* Two arrays of one length with the same jobs in the first n places are in
\* the same order there.
LEMMA SameOrder ==
  ASSUME NEW g, NEW h, NEW n \in Nat, \A x \in 0 .. n - 1 : At(g, x) = At(h, x), HeapOrder(h, n)
  PROVE  HeapOrder(g, n)
<1> SUFFICES ASSUME NEW c \in 1 .. n - 1 PROVE ~Before(g, c, Parent(c))
  BY Zenon DEF HeapOrder
<1>1. c \in Nat \ {0} /\ c \in 0 .. n - 1
  OBVIOUS
<1>2. Parent(c) \in Nat /\ Parent(c) < c
  BY <1>1, ParentFacts, Zenon
<1>3. Parent(c) \in 0 .. n - 1
  BY <1>2
<1> QED BY <1>1, <1>3, Zenon DEF HeapOrder, Before

-----------------------------------------------------------------------------
(* The operations of jobHeap *)

LEMMA SwapFacts ==
  ASSUME NEW h, Shape(h), NEW i \in Positions(h), NEW k \in Positions(h)
  PROVE  LET g == Swap(h, i, k) IN
         /\ SameItems(g, h) /\ Positions(g) = Positions(h)
         /\ At(g, i) = At(h, k) /\ At(g, k) = At(h, i)
         /\ \A x \in Positions(h) : x # i /\ x # k => At(g, x) = At(h, x)
<1> DEFINE g == Swap(h, i, k)
           a == At(h, i)
           b == At(h, k)
<1>1. /\ h.heap \in Seq(Jobs) /\ h.index \in [Jobs -> Int]
      /\ \A j \in Jobs \ Held(h) : h.index[j] = -1
  BY Zenon DEF Shape
<1>2. /\ a \in Jobs /\ b \in Jobs /\ i \in Nat /\ k \in Nat /\ (a = b => i = k)
      /\ i + 1 \in DOMAIN h.heap /\ k + 1 \in DOMAIN h.heap
      /\ a \in Held(h) /\ b \in Held(h)
  BY PositionFacts, Zenon
<1>3. /\ g.heap = [h.heap EXCEPT ![i + 1] = b, ![k + 1] = a]
      /\ g.index = [h.index EXCEPT ![b] = i, ![a] = k]
  BY Zenon DEF Swap
<1>13. /\ i + 1 = k + 1 => i = k
       /\ \A x \in Nat : (x + 1 = i + 1 => x = i) /\ (x + 1 = k + 1 => x = k)
  BY <1>2
<1> HIDE DEF g, a, b
<1>4. /\ g.heap \in Seq(Jobs) /\ DOMAIN g.heap = DOMAIN h.heap /\ Len(g.heap) = Len(h.heap)
  BY <1>1, <1>2, <1>3
<1>5. g.index \in [Jobs -> Int]
  <2>1. i \in Int /\ k \in Int
    BY <1>2
  <2> QED BY <1>1, <1>2, <1>3, <2>1, Zenon
<1>6. Positions(g) = Positions(h)
  BY <1>4, Zenon DEF Positions
<1>7. At(g, i) = b /\ At(g, k) = a
  <2>1. g.heap[k + 1] = a
    BY <1>2, <1>3, Zenon
  <2>2. g.heap[i + 1] = b
    <3>1. CASE i = k
      BY <1>2, <1>3, <3>1, <2>1, Zenon DEF a, b
    <3>2. CASE i # k
      BY <1>2, <1>3, <1>13, <3>2, Zenon
    <3> QED BY <3>1, <3>2, Zenon
  <2> QED BY <2>1, <2>2, Zenon DEF At
<1>8. ASSUME NEW x \in Positions(h), x # i, x # k PROVE At(g, x) = At(h, x)
  <2>1. x \in Nat /\ x + 1 \in DOMAIN h.heap /\ x + 1 # i + 1 /\ x + 1 # k + 1
    BY <1>8, <1>13, PositionFacts, Zenon
  <2> QED BY <1>3, <2>1, Zenon DEF At
<1>9. \A x \in Positions(h) : g.index[At(g, x)] = x
  <2> SUFFICES ASSUME NEW x \in Positions(h) PROVE g.index[At(g, x)] = x
    BY Zenon
  <2>1. CASE x = k
    BY <1>1, <1>2, <1>3, <1>7, <2>1, Zenon
  <2>2. CASE x = i /\ x # k
    BY <1>1, <1>2, <1>3, <1>7, <2>2, PositionFacts, Zenon DEF a, b
  <2>3. CASE x # i /\ x # k
    <3>1. At(g, x) = At(h, x) /\ At(h, x) \in Jobs /\ At(h, x) # a /\ At(h, x) # b
          /\ h.index[At(h, x)] = x
      BY <1>8, <2>3, PositionFacts, Zenon DEF a, b
    <3> QED BY <1>1, <1>2, <1>3, <3>1, Zenon
  <2> QED BY <2>1, <2>2, <2>3, Zenon
<1>10. Held(g) = Held(h)
  <2>1. \A x \in Positions(h) : \E y \in Positions(h) : At(g, x) = At(h, y)
    BY <1>7, <1>8, Zenon DEF a, b
  <2>2. \A x \in Positions(h) : \E y \in Positions(h) : At(h, x) = At(g, y)
    BY <1>7, <1>8, Zenon DEF a, b
  <2>3. DOMAIN h.heap = 1 .. Len(h.heap) /\ Len(h.heap) \in Nat
    BY <1>1
  <2>4. /\ \A m \in DOMAIN h.heap : m - 1 \in Positions(h) /\ (m - 1) + 1 = m
        /\ \A y \in Positions(h) : y + 1 \in DOMAIN h.heap
    BY <2>3 DEF Positions
  <2>5. \A j : j \in Held(h) <=> \E y \in Positions(h) : j = At(h, y)
    BY <2>4, Zenon DEF Held, At
  <2>6. \A j : j \in Held(g) <=> \E y \in Positions(h) : j = At(g, y)
    BY <1>4, <2>4, Zenon DEF Held, At
  <2>7. ASSUME NEW j PROVE j \in Held(g) <=> j \in Held(h)
    <3>1. ASSUME j \in Held(g) PROVE j \in Held(h)
      <4>1. PICK y \in Positions(h) : j = At(g, y)
        BY <2>6, <3>1, Zenon
      <4> QED BY <2>1, <2>5, <4>1, Zenon
    <3>2. ASSUME j \in Held(h) PROVE j \in Held(g)
      <4>1. PICK y \in Positions(h) : j = At(h, y)
        BY <2>5, <3>2, Zenon
      <4> QED BY <2>2, <2>6, <4>1, Zenon
    <3> QED BY <3>1, <3>2, Zenon
  <2> QED BY <2>7, Zenon
<1>11. \A m \in DOMAIN g.heap : g.index[g.heap[m]] = m - 1
  <2>1. DOMAIN h.heap = 1 .. Len(h.heap) /\ Len(h.heap) \in Nat
    BY <1>1
  <2>2. \A m \in DOMAIN h.heap : m - 1 \in Positions(h) /\ (m - 1) + 1 = m
    BY <2>1 DEF Positions
  <2> QED BY <1>4, <1>9, <2>2, Zenon DEF At
<1>12. \A j \in Jobs \ Held(g) : g.index[j] = -1
  BY <1>1, <1>2, <1>3, <1>10, Zenon
<1> QED BY <1>4, <1>5, <1>6, <1>7, <1>8, <1>10, <1>11, <1>12, Zenon DEF SameItems, Shape, g, a, b

LEMMA DropFacts ==
  ASSUME NEW h, Shape(h), NEW n \in Nat, Len(h.heap) = n + 1
  PROVE  LET g == DropItem(h) IN
         /\ Shape(g) /\ Len(g.heap) = n /\ Held(g) = Held(h) \ {At(h, n)}
         /\ \A x \in 0 .. n - 1 : At(g, x) = At(h, x)
<1> DEFINE g == DropItem(h)
           z == At(h, n)
<1>1. /\ h.heap \in Seq(Jobs) /\ h.index \in [Jobs -> Int]
      /\ \A i \in DOMAIN h.heap : h.index[h.heap[i]] = i - 1
      /\ \A j \in Jobs \ Held(h) : h.index[j] = -1
  BY Zenon DEF Shape
<1>2. DOMAIN h.heap = 1 .. n + 1 /\ \A i \in 1 .. n + 1 : h.heap[i] \in Jobs
  BY <1>1
<1>3. g.heap = SubSeq(h.heap, 1, n) /\ g.index = [h.index EXCEPT ![z] = -1]
  <2>1. Len(h.heap) - 1 = n
    OBVIOUS
  <2> QED BY <2>1, Zenon DEF DropItem
<1>4. z \in Jobs /\ z = h.heap[n + 1] /\ n + 1 \in 1 .. n + 1
  BY <1>2 DEF At
<1> HIDE DEF g, z
<1>5. /\ g.heap \in Seq(Jobs) /\ Len(g.heap) = n /\ DOMAIN g.heap = 1 .. n
      /\ \A i \in 1 .. n : g.heap[i] = h.heap[i]
  <2> DEFINE s == h.heap
             sub == SubSeq(s, 1, n)
  <2>1. s \in Seq(Jobs) /\ Len(s) = n + 1
    BY <1>1, Zenon
  <2> HIDE DEF s
  <2>2. sub \in Seq(Jobs) /\ Len(sub) = n /\ \A i \in 1 .. n : sub[i] = s[i]
    BY <2>1
  <2> HIDE DEF sub
  <2>3. DOMAIN sub = 1 .. n
    BY <2>2
  <2> QED BY <1>3, <2>2, <2>3, Zenon DEF sub, s
<1>6. g.index \in [Jobs -> Int]
  <2>1. -1 \in Int
    OBVIOUS
  <2> QED BY <1>1, <1>3, <1>4, <2>1, Zenon
<1>7. \A i \in 1 .. n : h.heap[i] # z /\ h.heap[i] \in Jobs /\ h.index[h.heap[i]] = i - 1
  <2> SUFFICES ASSUME NEW i \in 1 .. n
               PROVE  h.heap[i] # z /\ h.heap[i] \in Jobs /\ h.index[h.heap[i]] = i - 1
    BY Zenon
  <2>1. i \in 1 .. n + 1 /\ i - 1 # (n + 1) - 1
    OBVIOUS
  <2> QED BY <1>1, <1>2, <1>4, <2>1, Zenon
<1>8. \A i \in DOMAIN g.heap : g.index[g.heap[i]] = i - 1
  BY <1>1, <1>3, <1>5, <1>7, Zenon
<1>9. Held(g) = Held(h) \ {z}
  <2>1. \A i \in 1 .. n + 1 : i \in 1 .. n \/ i = n + 1
    OBVIOUS
  <2>2. \A i \in 1 .. n : i \in 1 .. n + 1
    OBVIOUS
  <2>3. \A j : j \in Held(h) <=> \E i \in 1 .. n + 1 : j = h.heap[i]
    BY <1>2, Zenon DEF Held
  <2>4. \A j : j \in Held(g) <=> \E i \in 1 .. n : j = h.heap[i]
    BY <1>5, Zenon DEF Held
  <2> QED BY <1>4, <1>7, <2>1, <2>2, <2>3, <2>4, Zenon
<1>10. \A j \in Jobs \ Held(g) : g.index[j] = -1
  <2> SUFFICES ASSUME NEW j \in Jobs \ Held(g) PROVE g.index[j] = -1
    BY Zenon
  <2>1. j = z \/ j \notin Held(h)
    BY <1>9, Zenon
  <2> QED BY <1>1, <1>3, <1>4, <2>1, Zenon
<1>11. \A x \in 0 .. n - 1 : At(g, x) = At(h, x)
  <2>1. \A x \in 0 .. n - 1 : x + 1 \in 1 .. n
    OBVIOUS
  <2> QED BY <1>5, <2>1, Zenon DEF At
<1> QED BY <1>5, <1>6, <1>8, <1>9, <1>10, <1>11, Zenon DEF Shape, g, z

LEMMA AppendFacts ==
  ASSUME NEW h, Shape(h), NEW j \in Jobs \ Held(h)
  PROVE  LET g == AppendItem(h, j) IN
         /\ Shape(g) /\ Len(g.heap) = Len(h.heap) + 1 /\ Held(g) = Held(h) \cup {j}
         /\ \A x \in Positions(h) : At(g, x) = At(h, x)
<1> DEFINE g == AppendItem(h, j)
           n == Len(h.heap)
<1>1. /\ h.heap \in Seq(Jobs) /\ h.index \in [Jobs -> Int] /\ n \in Nat
      /\ \A i \in DOMAIN h.heap : h.index[h.heap[i]] = i - 1
      /\ \A m \in Jobs \ Held(h) : h.index[m] = -1
  BY DEF Shape
<1>2. DOMAIN h.heap = 1 .. n /\ \A i \in 1 .. n : h.heap[i] \in Jobs
  BY <1>1
<1>3. g.heap = Append(h.heap, j) /\ g.index = [h.index EXCEPT ![j] = n]
  BY Zenon DEF AppendItem
<1> HIDE DEF g, n
<1>4. /\ g.heap \in Seq(Jobs) /\ Len(g.heap) = n + 1 /\ DOMAIN g.heap = 1 .. n + 1
      /\ g.heap[n + 1] = j /\ \A i \in 1 .. n : g.heap[i] = h.heap[i]
  BY <1>1, <1>3 DEF n
<1>5. g.index \in [Jobs -> Int]
  <2>1. n \in Int
    BY <1>1
  <2> QED BY <1>1, <1>3, <2>1, Zenon
<1>6. \A i \in 1 .. n : h.heap[i] # j
  BY <1>2, Zenon DEF Held
<1>7. \A i \in DOMAIN g.heap : g.index[g.heap[i]] = i - 1
  <2>1. \A i \in 1 .. n + 1 : i \in 1 .. n \/ i = n + 1
    BY <1>1
  <2>2. n = (n + 1) - 1
    BY <1>1
  <2> QED BY <1>1, <1>2, <1>3, <1>4, <1>6, <2>1, <2>2
<1>8. Held(g) = Held(h) \cup {j}
  <2>1. \A i \in 1 .. n + 1 : i \in 1 .. n \/ i = n + 1
    BY <1>1
  <2>2. n + 1 \in 1 .. n + 1 /\ \A i \in 1 .. n : i \in 1 .. n + 1
    BY <1>1
  <2> QED BY <1>2, <1>4, <2>1, <2>2, Zenon DEF Held
<1>9. \A m \in Jobs \ Held(g) : g.index[m] = -1
  BY <1>1, <1>3, <1>8, Zenon
<1>10. \A x \in Positions(h) : At(g, x) = At(h, x)
  <2>1. \A x \in Positions(h) : x + 1 \in 1 .. n
    BY <1>1 DEF Positions, n
  <2> QED BY <1>4, <2>1, Zenon DEF At
<1> QED BY <1>4, <1>5, <1>7, <1>8, <1>9, <1>10, Zenon DEF Shape, g, n

-----------------------------------------------------------------------------
(* up *)

\* There is a function that Up can define by recursion.
LEMMA UpLoop ==
  ASSUME NEW h, NEW k \in Nat
  PROVE  \E f : /\ f[0] = [h |-> h, at |-> k]
                /\ \A m \in 1 .. k : f[m] = UpOnce(f[m - 1])
                /\ Up(h, k) = f[k].h
<1> DEFINE s == [h |-> h, at |-> k]
           Loop(n, f) == f = [m \in 0 .. n |-> IF m = 0 THEN s ELSE UpOnce(f[m - 1])]
           S == {n \in 0 .. k : \E f : Loop(n, f)}
           up == CHOOSE f : f = [m \in 0 .. k |-> IF m = 0 THEN [h |-> h, at |-> k]
                                                  ELSE UpOnce(f[m - 1])]
<1>0. Up(h, k) = up[k].h
  BY Zenon DEF Up
<1>9. up = CHOOSE f : Loop(k, f)
  BY Zenon
<1> HIDE DEF s, up
<1>1. 0 \in S
  <2> DEFINE f == [m \in 0 .. 0 |-> s]
  <2>1. f = [m \in 0 .. 0 |-> IF m = 0 THEN s ELSE UpOnce(f[m - 1])]
    <3>1. \A m \in 0 .. 0 : m = 0
      OBVIOUS
    <3>2. \A m \in 0 .. 0 : s = IF m = 0 THEN s ELSE UpOnce(f[m - 1])
      BY <3>1, Zenon
    <3> QED BY <3>2, Zenon
  <2>2. Loop(0, f) /\ 0 \in 0 .. k
    BY <2>1
  <2> QED BY <2>2, Zenon
<1>2. ASSUME NEW n \in 1 .. k, n - 1 \in S PROVE n \in S
  <2>1. PICK f : Loop(n - 1, f)
    BY <1>2, Zenon
  <2> DEFINE g == [m \in 0 .. n |-> IF m = n THEN UpOnce(f[n - 1]) ELSE f[m]]
  <2>2. \A m \in 0 .. n - 1 : m \in 0 .. n /\ m # n
    OBVIOUS
  <2>3. \A m \in 0 .. n - 1 : g[m] = f[m]
    BY <2>2, Zenon
  <2>4. \A m \in 0 .. n - 1 : f[m] = IF m = 0 THEN s ELSE UpOnce(f[m - 1])
    BY <2>1, Zenon
  <2>5. n - 1 \in 0 .. n - 1 /\ n # 0 /\ n \in 0 .. n /\ n \in 0 .. k
    OBVIOUS
  <2>6. g[n] = UpOnce(f[n - 1])
    BY <2>5, Zenon
  <2>7. g = [m \in 0 .. n |-> g[m]]
    BY Zenon
  <2> HIDE DEF g
  <2>8. ASSUME NEW m \in 0 .. n PROVE g[m] = IF m = 0 THEN s ELSE UpOnce(g[m - 1])
    <3>1. CASE m = n
      BY <2>3, <2>5, <2>6, <3>1, Zenon
    <3>2. CASE m # n
      <4>1. m \in 0 .. n - 1 /\ (m # 0 => m - 1 \in 0 .. n - 1)
        BY <3>2
      <4> QED BY <2>3, <2>4, <4>1, Zenon
    <3> QED BY <3>1, <3>2, Zenon
  <2>9. Loop(n, g)
    BY <2>7, <2>8, Zenon
  <2> QED BY <2>5, <2>9, Zenon
<1>3. k \in 0 .. k
  OBVIOUS
<1>4. k \in S
  <2> HIDE DEF S
  <2> QED BY <1>1, <1>2, <1>3, Upwards, Zenon
<1>5. Loop(k, up)
  BY <1>4, <1>9, Zenon
<1>6. 0 \in 0 .. k /\ \A m \in 1 .. k : m \in 0 .. k /\ m # 0
  OBVIOUS
<1>7. up[0] = s /\ \A m \in 1 .. k : up[m] = UpOnce(up[m - 1])
  BY <1>5, <1>6, Zenon
<1> QED BY <1>0, <1>7, Zenon DEF s

\* The order but for the job at k, which may have to go up.
UpReady(h, k, n) ==
    /\ \A c \in 1 .. n - 1 : c # k => ~Before(h, c, Parent(c))
    /\ k > 0 => \A c \in 1 .. n - 1 : Parent(c) = k => ~Before(h, c, Parent(k))

LEMMA UpReadyStep ==
  ASSUME TypeOK, NEW h, Shape(h), NEW n \in 0 .. Len(h.heap), NEW k \in 1 .. n - 1,
         UpReady(h, k, n), Before(h, k, Parent(k))
  PROVE  UpReady(Swap(h, Parent(k), k), Parent(k), n)
<1> DEFINE p == Parent(k)
           g == Swap(h, p, k)
<1>0. Len(h.heap) \in Nat /\ n \in Nat
  BY PositionFacts
<1>1. k \in Nat \ {0} /\ p \in Nat /\ p < k
  <2>1. k \in Nat \ {0}
    BY <1>0
  <2> QED BY <2>1, ParentFacts, Zenon
<1>2. /\ k \in Positions(h) /\ p \in Positions(h) /\ \A c \in 1 .. n - 1 : c \in Positions(h)
  BY <1>0, <1>1 DEF Positions
<1> HIDE DEF p
<1>3. /\ At(g, p) = At(h, k) /\ At(g, k) = At(h, p)
      /\ \A x \in Positions(h) : x # p /\ x # k => At(g, x) = At(h, x)
  BY <1>2, SwapFacts, Zenon
<1> HIDE DEF g
<1>4. \A x \in Positions(h) : At(h, x) \in Jobs
  BY PositionFacts, Zenon
<1>5. \A c \in 1 .. n - 1 : /\ c \in Nat \ {0}
                            /\ Parent(c) \in Nat /\ Parent(c) < c /\ Parent(c) # c
                            /\ Parent(c) \in Positions(h)
  <2> SUFFICES ASSUME NEW c \in 1 .. n - 1
               PROVE  /\ c \in Nat \ {0} /\ Parent(c) \in Nat /\ Parent(c) < c /\ Parent(c) # c
                      /\ Parent(c) \in Positions(h)
    BY Zenon
  <2>1. c \in Nat \ {0}
    BY <1>0
  <2>2. Parent(c) \in Nat /\ Parent(c) < c
    BY <2>1, ParentFacts, Zenon
  <2> QED BY <1>0, <2>1, <2>2 DEF Positions
<1>6. /\ \A c \in 1 .. n - 1 : c # k => ~Prec(At(h, c), At(h, Parent(c)))
      /\ \A c \in 1 .. n - 1 : Parent(c) = k => ~Prec(At(h, c), At(h, p))
      /\ Prec(At(h, k), At(h, p))
  <2>1. k > 0
    BY <1>1
  <2> QED BY <2>1, Zenon DEF UpReady, Before, Prec, p
<1>7. ASSUME NEW c \in 1 .. n - 1, c # p PROVE ~Prec(At(g, c), At(g, Parent(c)))
  <2>1. CASE c = k
    BY <1>2, <1>3, <1>4, <1>6, <2>1, PrecFacts, Zenon DEF p
  <2>2. CASE c # k /\ Parent(c) = p
    <3>1. At(g, c) = At(h, c) /\ At(g, Parent(c)) = At(h, k) /\ ~Prec(At(h, c), At(h, p))
      BY <1>2, <1>3, <1>6, <1>7, <2>2, Zenon
    <3> QED BY <1>2, <1>4, <1>6, <3>1, PrecFacts, Zenon
  <2>3. CASE c # k /\ Parent(c) = k
    <3>1. At(g, c) = At(h, c) /\ At(g, Parent(c)) = At(h, p)
      BY <1>2, <1>3, <1>7, <2>3, Zenon
    <3> QED BY <1>6, <2>3, <3>1, Zenon
  <2>4. CASE c # k /\ Parent(c) # p /\ Parent(c) # k
    <3>1. At(g, c) = At(h, c) /\ At(g, Parent(c)) = At(h, Parent(c))
      BY <1>2, <1>3, <1>5, <1>7, <2>4, Zenon
    <3> QED BY <1>6, <2>4, <3>1, Zenon
  <2> QED BY <2>1, <2>2, <2>3, <2>4, Zenon
<1>8. ASSUME p > 0, NEW c \in 1 .. n - 1, Parent(c) = p PROVE ~Prec(At(g, c), At(g, Parent(p)))
  <2>0. p \in 1 .. n - 1 /\ p # k
    BY <1>0, <1>1, <1>8
  <2>1. Parent(p) \in Positions(h) /\ Parent(p) # p /\ Parent(p) # k
    <3>1. Parent(p) \in Positions(h) /\ Parent(p) \in Nat /\ Parent(p) < p
      BY <1>5, <2>0, Zenon
    <3> QED BY <1>1, <3>1
  <2>2. At(g, Parent(p)) = At(h, Parent(p)) /\ ~Prec(At(h, p), At(h, Parent(p)))
    BY <1>3, <1>6, <2>0, <2>1, Zenon
  <2>3. CASE c = k
    BY <1>3, <2>2, <2>3, Zenon
  <2>4. CASE c # k
    <3>1. c # p
      BY <1>5, <1>8, Zenon
    <3>2. At(g, c) = At(h, c) /\ ~Prec(At(h, c), At(h, p))
      BY <1>2, <1>3, <1>6, <1>8, <2>4, <3>1, Zenon
    <3> QED BY <1>2, <1>4, <2>1, <2>2, <3>2, PrecFacts, Zenon
  <2> QED BY <2>3, <2>4, Zenon
<1> QED BY <1>7, <1>8, Zenon DEF UpReady, Before, Prec, p, g

\* The job at k goes up as far as it has to.
LEMMA UpFacts ==
  ASSUME TypeOK, NEW h, Shape(h), NEW n \in 0 .. Len(h.heap), NEW k \in 0 .. n - 1
  PROVE  LET g == Up(h, k) IN
         /\ SameItems(g, h)
         /\ \A x \in Positions(h) : x > k => At(g, x) = At(h, x)
         /\ UpReady(h, k, n) => HeapOrder(g, n)
<1>0. Len(h.heap) \in Nat /\ n \in Nat /\ k \in Nat /\ k \in Positions(h)
  <2>1. Len(h.heap) \in Nat
    BY PositionFacts, Zenon
  <2> QED BY <2>1 DEF Positions
<1>1. PICK f : /\ f[0] = [h |-> h, at |-> k]
               /\ \A m \in 1 .. k : f[m] = UpOnce(f[m - 1])
               /\ Up(h, k) = f[k].h
  BY <1>0, UpLoop, Zenon
<1> DEFINE Stops(s) == s.at = 0 \/ ~Before(s.h, s.at, Parent(s.at))
           Good(s) == /\ s.at \in 0 .. k /\ SameItems(s.h, h)
                      /\ \A x \in Positions(h) : x > k => At(s.h, x) = At(h, x)
                      /\ UpReady(h, k, n) => UpReady(s.h, s.at, n)
           S == {m \in 0 .. k : Good(f[m]) /\ (Stops(f[m]) \/ f[m].at + m <= k)}
<1>2. 0 \in S
  <2>1. f[0].h = h /\ f[0].at = k
    BY <1>1
  <2>2. SameItems(h, h)
    BY Zenon DEF SameItems
  <2>3. k \in 0 .. k /\ 0 \in 0 .. k /\ k + 0 <= k
    BY <1>0
  <2>4. Good(f[0])
    BY <2>1, <2>2, <2>3, Zenon
  <2> HIDE DEF Good, Stops
  <2> QED BY <2>1, <2>3, <2>4, Zenon
<1>3. ASSUME NEW m \in 1 .. k, m - 1 \in S PROVE m \in S
  <2> DEFINE s == f[m - 1]
  <2>1. /\ Good(s) /\ (Stops(s) \/ s.at + (m - 1) <= k) /\ f[m] = UpOnce(s)
    <3> HIDE DEF Good, Stops
    <3> QED BY <1>1, <1>3, Zenon
  <2>2. m \in 0 .. k /\ m \in Nat
    BY <1>0
  <2> HIDE DEF s
  <2>3. CASE Stops(s)
    <3>1. f[m] = s
      BY <2>1, <2>3, Zenon DEF UpOnce
    <3> HIDE DEF Good, Stops
    <3> QED BY <2>1, <2>2, <2>3, <3>1, Zenon
  <2>4. CASE ~Stops(s)
    <3> DEFINE p == Parent(s.at)
               g == Swap(s.h, p, s.at)
    <3>1. f[m] = [h |-> g, at |-> p]
      BY <2>1, <2>4, Zenon DEF UpOnce
    <3>2. s.at \in 0 .. k /\ s.at # 0 /\ s.at + (m - 1) <= k
      BY <2>1, <2>4, Zenon
    <3>3. s.at \in Nat \ {0} /\ s.at <= k
      BY <1>0, <3>2
    <3>4. p \in Nat /\ p < s.at
      BY <3>3, ParentFacts, Zenon
    <3>5. /\ Shape(s.h) /\ Len(s.h.heap) = Len(h.heap) /\ Held(s.h) = Held(h)
          /\ Positions(s.h) = Positions(h)
      BY <2>1, Zenon DEF SameItems, Positions
    <3>6. /\ p \in Positions(s.h) /\ s.at \in Positions(s.h) /\ s.at \in 1 .. n - 1
          /\ p \in 0 .. k /\ p + m <= k
      <4>1. p \in 0 .. k /\ s.at \in 1 .. n - 1
        BY <1>0, <3>3, <3>4
      <4>2. p + m <= k
        BY <1>0, <2>2, <3>2, <3>3, <3>4
      <4>3. p \in Positions(h) /\ s.at \in Positions(h)
        BY <1>0, <3>3, <3>4 DEF Positions
      <4> QED BY <3>5, <4>1, <4>2, <4>3, Zenon
    <3>7. /\ SameItems(g, s.h)
          /\ \A x \in Positions(s.h) : x # p /\ x # s.at => At(g, x) = At(s.h, x)
      BY <3>5, <3>6, SwapFacts, Zenon
    <3>8. SameItems(g, h)
      BY <3>5, <3>7, Zenon DEF SameItems
    <3>9. UpReady(s.h, s.at, n) => UpReady(g, p, n)
      <4>1. Before(s.h, s.at, Parent(s.at)) /\ n \in 0 .. Len(s.h.heap)
        BY <2>4, <3>5, Zenon
      <4> QED BY <3>5, <3>6, <4>1, UpReadyStep, Zenon
    <3> HIDE DEF p, g
    <3>10. \A x \in Positions(h) : x > k => At(g, x) = At(h, x)
      <4> SUFFICES ASSUME NEW x \in Positions(h), x > k PROVE At(g, x) = At(h, x)
        BY Zenon
      <4>1. x # p /\ x # s.at
        BY <1>0, <3>3, <3>4 DEF Positions
      <4> QED BY <2>1, <3>5, <3>7, <4>1, Zenon
    <3>11. f[m].h = g /\ f[m].at = p
      BY <3>1
    <3>12. Good(f[m])
      BY <2>1, <3>6, <3>8, <3>9, <3>10, <3>11, Zenon
    <3> HIDE DEF Good, Stops
    <3> QED BY <2>2, <3>6, <3>11, <3>12, Zenon
  <2> QED BY <2>3, <2>4, Zenon
<1>4. k \in S
  <2>1. k \in 0 .. k
    BY <1>0
  <2> HIDE DEF S
  <2> QED BY <1>0, <1>2, <1>3, <2>1, Upwards, Zenon
<1> DEFINE s == f[k]
<1>5. Good(s) /\ (Stops(s) \/ s.at + k <= k)
  <2> HIDE DEF Good, Stops
  <2> QED BY <1>4, Zenon
<1> HIDE DEF s
<1>6. Stops(s)
  <2>1. s.at \in 0 .. k
    BY <1>5, Zenon
  <2>2. s.at + k <= k => s.at = 0
    BY <1>0, <2>1
  <2> QED BY <1>5, <2>2, Zenon
<1>7. ASSUME UpReady(h, k, n) PROVE HeapOrder(s.h, n)
  <2>1. UpReady(s.h, s.at, n)
    BY <1>5, <1>7, Zenon
  <2>2. \A c \in 1 .. n - 1 : c # 0
    BY <1>0
  <2>3. \A c \in 1 .. n - 1 : ~Before(s.h, c, Parent(c))
    BY <1>6, <2>1, <2>2, Zenon DEF UpReady
  <2> QED BY <2>3, Zenon DEF HeapOrder
<1> QED BY <1>1, <1>5, <1>7, Zenon DEF s

-----------------------------------------------------------------------------
(* down *)

\* The rounds of a loop from i among the first n, and where it ends.
DownRounds(f, h, i, n) ==
    /\ f[0] = [h |-> h, at |-> i]
    /\ \A m \in 1 .. n : f[m] = DownOnce(f[m - 1], n)
    /\ Down(h, i, n) = f[n].h

\* There is a function that Down can define by recursion.
LEMMA DownLoop ==
  ASSUME NEW h, NEW i \in Nat, NEW k \in Nat
  PROVE  \E f : DownRounds(f, h, i, k)
<1> DEFINE s == [h |-> h, at |-> i]
           Loop(n, f) == f = [m \in 0 .. n |-> IF m = 0 THEN s ELSE DownOnce(f[m - 1], k)]
           S == {n \in 0 .. k : \E f : Loop(n, f)}
           down == CHOOSE f : f = [m \in 0 .. k |-> IF m = 0 THEN [h |-> h, at |-> i]
                                                  ELSE DownOnce(f[m - 1], k)]
<1>0. Down(h, i, k) = down[k].h
  BY Zenon DEF Down
<1>9. down = CHOOSE f : Loop(k, f)
  BY Zenon
<1> HIDE DEF s, down
<1>1. 0 \in S
  <2> DEFINE f == [m \in 0 .. 0 |-> s]
  <2>1. f = [m \in 0 .. 0 |-> IF m = 0 THEN s ELSE DownOnce(f[m - 1], k)]
    <3>1. \A m \in 0 .. 0 : m = 0
      OBVIOUS
    <3>2. \A m \in 0 .. 0 : s = IF m = 0 THEN s ELSE DownOnce(f[m - 1], k)
      BY <3>1, Zenon
    <3> QED BY <3>2, Zenon
  <2>2. Loop(0, f) /\ 0 \in 0 .. k
    BY <2>1
  <2> QED BY <2>2, Zenon
<1>2. ASSUME NEW n \in 1 .. k, n - 1 \in S PROVE n \in S
  <2>1. PICK f : Loop(n - 1, f)
    BY <1>2, Zenon
  <2> DEFINE g == [m \in 0 .. n |-> IF m = n THEN DownOnce(f[n - 1], k) ELSE f[m]]
  <2>2. \A m \in 0 .. n - 1 : m \in 0 .. n /\ m # n
    OBVIOUS
  <2>3. \A m \in 0 .. n - 1 : g[m] = f[m]
    BY <2>2, Zenon
  <2>4. \A m \in 0 .. n - 1 : f[m] = IF m = 0 THEN s ELSE DownOnce(f[m - 1], k)
    BY <2>1, Zenon
  <2>5. n - 1 \in 0 .. n - 1 /\ n # 0 /\ n \in 0 .. n /\ n \in 0 .. k
    OBVIOUS
  <2>6. g[n] = DownOnce(f[n - 1], k)
    BY <2>5, Zenon
  <2>7. g = [m \in 0 .. n |-> g[m]]
    BY Zenon
  <2> HIDE DEF g
  <2>8. ASSUME NEW m \in 0 .. n PROVE g[m] = IF m = 0 THEN s ELSE DownOnce(g[m - 1], k)
    <3>1. CASE m = n
      BY <2>3, <2>5, <2>6, <3>1, Zenon
    <3>2. CASE m # n
      <4>1. m \in 0 .. n - 1 /\ (m # 0 => m - 1 \in 0 .. n - 1)
        BY <3>2
      <4> QED BY <2>3, <2>4, <4>1, Zenon
    <3> QED BY <3>1, <3>2, Zenon
  <2>9. Loop(n, g)
    BY <2>7, <2>8, Zenon
  <2> QED BY <2>5, <2>9, Zenon
<1>3. k \in 0 .. k
  OBVIOUS
<1>4. k \in S
  <2> HIDE DEF S
  <2> QED BY <1>1, <1>2, <1>3, Upwards, Zenon
<1>5. Loop(k, down)
  BY <1>4, <1>9, Zenon
<1>6. 0 \in 0 .. k /\ \A m \in 1 .. k : m \in 0 .. k /\ m # 0
  OBVIOUS
<1>7. down[0] = s /\ \A m \in 1 .. k : down[m] = DownOnce(down[m - 1], k)
  BY <1>5, <1>6, Zenon
<1> QED BY <1>0, <1>7, Zenon DEF s, DownRounds

\* The order among the first n but for the job at i, which may have to go up
\* or down.
DownReady(h, i, n) ==
    /\ \A c \in 1 .. n - 1 : c # i /\ Parent(c) # i => ~Before(h, c, Parent(c))
    /\ i > 0 => \A c \in 1 .. n - 1 : Parent(c) = i => ~Before(h, c, Parent(i))

\* The same when it need not go up.
DownOnly(h, i, n) ==
    /\ \A c \in 1 .. n - 1 : Parent(c) # i => ~Before(h, c, Parent(c))
    /\ i > 0 => \A c \in 1 .. n - 1 : Parent(c) = i => ~Before(h, c, Parent(i))

\* No child of i comes before the one that down compares with i.
LEMMA FirstChildFacts ==
  ASSUME TypeOK, NEW h, Shape(h), NEW n \in 0 .. Len(h.heap), NEW i \in Nat, 2 * i + 1 < n
  PROVE  LET l == FirstChild(h, i, n) IN
         /\ l \in 1 .. n - 1 /\ Parent(l) = i /\ i < l
         /\ \A c \in 1 .. n - 1 : Parent(c) = i => ~Prec(At(h, c), At(h, l))
<1> DEFINE l == FirstChild(h, i, n)
           a == 2 * i + 1
           b == a + 1
<1>0. Len(h.heap) \in Nat /\ n \in Nat
  BY PositionFacts
<1>1. a \in Nat \ {0} /\ b \in Nat \ {0} /\ b = 2 * i + 2 /\ a < n /\ i < a /\ i < b
  OBVIOUS
<1>2. Parent(a) = i /\ Parent(b) = i
  BY <1>1, ParentFacts, Zenon
<1>3. \A c \in 1 .. n - 1 : Parent(c) = i => c = a \/ c = b
  <2> SUFFICES ASSUME NEW c \in 1 .. n - 1, Parent(c) = i PROVE c = a \/ c = b
    BY Zenon
  <2>1. c \in Nat \ {0}
    BY <1>0
  <2> QED BY <1>1, <2>1, ParentFacts, Zenon
<1>4. l = IF b < n /\ Before(h, b, a) THEN b ELSE a
  BY Zenon DEF FirstChild
<1>5. /\ a \in 1 .. n - 1 /\ (b < n => b \in 1 .. n - 1)
      /\ \A c \in 1 .. n - 1 : c < n /\ c \in Positions(h)
  BY <1>0, <1>1 DEF Positions
<1> HIDE DEF l, a, b
<1>6. l \in 1 .. n - 1 /\ Parent(l) = i /\ i < l
  BY <1>1, <1>2, <1>4, <1>5, Zenon
<1>7. ASSUME NEW c \in 1 .. n - 1, Parent(c) = i PROVE ~Prec(At(h, c), At(h, l))
  <2>1. /\ At(h, c) \in Jobs /\ At(h, a) \in Jobs /\ c < n
        /\ b < n => At(h, b) \in Jobs
    BY <1>5, PositionFacts, Zenon
  <2>2. l = IF b < n /\ Prec(At(h, b), At(h, a)) THEN b ELSE a
    BY <1>4, Zenon DEF Before, Prec
  <2>3. CASE c = a
    BY <2>1, <2>2, <2>3, PrecFacts, Zenon
  <2>4. CASE c = b
    BY <2>1, <2>2, <2>4, PrecFacts, Zenon
  <2> QED BY <1>3, <1>7, <2>3, <2>4, Zenon
<1> QED BY <1>6, <1>7, Zenon DEF l

LEMMA DownReadyStep ==
  ASSUME TypeOK, NEW h, Shape(h), NEW n \in 0 .. Len(h.heap), NEW i \in Nat, 2 * i + 1 < n,
         DownReady(h, i, n), Before(h, FirstChild(h, i, n), i)
  PROVE  DownOnly(Swap(h, i, FirstChild(h, i, n)), FirstChild(h, i, n), n)
<1> DEFINE l == FirstChild(h, i, n)
           g == Swap(h, i, l)
<1>0. Len(h.heap) \in Nat /\ n \in Nat
  BY PositionFacts
<1>1. /\ l \in 1 .. n - 1 /\ Parent(l) = i /\ i < l
      /\ \A c \in 1 .. n - 1 : Parent(c) = i => ~Prec(At(h, c), At(h, l))
  BY FirstChildFacts, Zenon
<1>12. Prec(At(h, l), At(h, i))
  BY Zenon DEF Before, Prec
<1> HIDE DEF l
<1>2. l \in Positions(h) /\ i \in Positions(h) /\ i # l /\ \A c \in 1 .. n - 1 : c \in Positions(h)
  BY <1>0, <1>1 DEF Positions
<1>3. /\ At(g, i) = At(h, l) /\ At(g, l) = At(h, i)
      /\ \A x \in Positions(h) : x # i /\ x # l => At(g, x) = At(h, x)
  BY <1>2, SwapFacts, Zenon
<1> HIDE DEF g
<1>4. \A x \in Positions(h) : At(h, x) \in Jobs
  BY PositionFacts, Zenon
<1>5. \A c \in 1 .. n - 1 : /\ c \in Nat \ {0}
                            /\ Parent(c) \in Nat /\ Parent(c) < c /\ Parent(c) # c
                            /\ Parent(c) \in Positions(h)
  <2> SUFFICES ASSUME NEW c \in 1 .. n - 1
               PROVE  /\ c \in Nat \ {0} /\ Parent(c) \in Nat /\ Parent(c) < c /\ Parent(c) # c
                      /\ Parent(c) \in Positions(h)
    BY Zenon
  <2>1. c \in Nat \ {0}
    BY <1>0
  <2>2. Parent(c) \in Nat /\ Parent(c) < c
    BY <2>1, ParentFacts, Zenon
  <2> QED BY <1>0, <2>1, <2>2 DEF Positions
<1>6. /\ \A c \in 1 .. n - 1 : c # i /\ Parent(c) # i => ~Prec(At(h, c), At(h, Parent(c)))
      /\ i > 0 => \A c \in 1 .. n - 1 : Parent(c) = i => ~Prec(At(h, c), At(h, Parent(i)))
  BY Zenon DEF DownReady, Before, Prec
<1>7. ASSUME NEW c \in 1 .. n - 1, Parent(c) # l PROVE ~Prec(At(g, c), At(g, Parent(c)))
  <2>1. CASE c = l
    BY <1>1, <1>2, <1>3, <1>4, <1>12, <2>1, PrecFacts, Zenon
  <2>2. CASE c # l /\ Parent(c) = i
    <3>1. c # i
      BY <1>5, <2>2, Zenon
    <3> QED BY <1>1, <1>2, <1>3, <2>2, <3>1, Zenon
  <2>3. CASE c = i
    <3>1. i > 0 /\ Parent(i) \in Positions(h) /\ Parent(i) # i /\ Parent(i) # l
      <4>1. i \in Nat \ {0} /\ Parent(i) \in Positions(h) /\ Parent(i) # i
        BY <1>5, <2>3, Zenon
      <4> QED BY <1>7, <2>3, <4>1
    <3>2. At(g, i) = At(h, l) /\ At(g, Parent(i)) = At(h, Parent(i))
      BY <1>3, <3>1, Zenon
    <3> QED BY <1>1, <1>6, <2>3, <3>1, <3>2, Zenon
  <2>4. CASE c # l /\ c # i /\ Parent(c) # i
    <3>1. At(g, c) = At(h, c) /\ At(g, Parent(c)) = At(h, Parent(c))
      BY <1>2, <1>3, <1>5, <1>7, <2>4, Zenon
    <3> QED BY <1>6, <2>4, <3>1, Zenon
  <2> QED BY <2>1, <2>2, <2>3, <2>4, Zenon
<1>8. ASSUME NEW c \in 1 .. n - 1, Parent(c) = l PROVE ~Prec(At(g, c), At(g, Parent(l)))
  <2>1. c # l /\ c # i
    <3>1. c \in Nat /\ l \in Nat /\ l < c
      BY <1>1, <1>5, <1>8, Zenon
    <3> QED BY <1>1, <3>1
  <2>2. At(g, c) = At(h, c) /\ At(g, Parent(l)) = At(h, l)
    BY <1>1, <1>2, <1>3, <2>1, Zenon
  <2>3. ~Prec(At(h, c), At(h, Parent(c)))
    BY <1>2, <1>6, <1>8, <2>1, Zenon
  <2> QED BY <1>8, <2>2, <2>3, Zenon
<1> QED BY <1>7, <1>8, Zenon DEF DownOnly, Before, Prec, g, l

\* The job at i goes down among the first n, or stays because none of its
\* children comes before it.
LEMMA DownFacts ==
  ASSUME TypeOK, NEW h, Shape(h), NEW n \in 0 .. Len(h.heap), NEW i \in Nat
  PROVE  LET g == Down(h, i, n) IN
         /\ SameItems(g, h)
         /\ \A x \in Positions(h) : x >= n => At(g, x) = At(h, x)
         /\ DownReady(h, i, n) =>
              \/ HeapOrder(g, n)
              \/ g = h /\ \A c \in 1 .. n - 1 : Parent(c) = i => ~Before(h, c, i)
<1>0. Len(h.heap) \in Nat /\ n \in Nat
  BY PositionFacts
<1>10. PICK f : DownRounds(f, h, i, n)
  BY <1>0, DownLoop, Zenon
<1>1. /\ f[0] = [h |-> h, at |-> i]
      /\ \A m \in 1 .. n : f[m] = DownOnce(f[m - 1], n)
      /\ Down(h, i, n) = f[n].h
  BY <1>10, Zenon DEF DownRounds
<1> DEFINE Stops(s) == 2 * s.at + 1 >= n \/ ~Before(s.h, FirstChild(s.h, s.at, n), s.at)
           Good(s) == /\ s.at \in Nat /\ SameItems(s.h, h)
                      /\ \A x \in Positions(h) : x >= n => At(s.h, x) = At(h, x)
                      /\ DownReady(h, i, n) => \/ s.h = h /\ s.at = i
                                               \/ DownOnly(s.h, s.at, n)
           S == {m \in 0 .. n : Good(f[m]) /\ (Stops(f[m]) \/ f[m].at >= m)}
<1>2. 0 \in S
  <2>1. f[0].h = h /\ f[0].at = i
    BY <1>1
  <2>2. SameItems(h, h)
    BY Zenon DEF SameItems
  <2>3. 0 \in 0 .. n /\ i >= 0
    BY <1>0
  <2>4. Good(f[0])
    BY <2>1, <2>2, <2>3, Zenon
  <2> HIDE DEF Good, Stops
  <2> QED BY <2>1, <2>3, <2>4, Zenon
<1>3. ASSUME NEW m \in 1 .. n, m - 1 \in S PROVE m \in S
  <2> DEFINE s == f[m - 1]
  <2>1. /\ Good(s) /\ (Stops(s) \/ s.at >= m - 1) /\ f[m] = DownOnce(s, n)
    <3> HIDE DEF Good, Stops
    <3> QED BY <1>1, <1>3, Zenon
  <2>2. m \in 0 .. n /\ m \in Nat
    BY <1>0
  <2> HIDE DEF s
  <2>3. CASE Stops(s)
    <3>1. f[m] = s
      BY <2>1, <2>3, Zenon DEF DownOnce
    <3> HIDE DEF Good, Stops
    <3> QED BY <2>1, <2>2, <2>3, <3>1, Zenon
  <2>4. CASE ~Stops(s)
    <3> DEFINE l == FirstChild(s.h, s.at, n)
               g == Swap(s.h, s.at, l)
    <3>1. f[m] = [h |-> g, at |-> l]
      BY <2>1, <2>4, Zenon DEF DownOnce
    <3>2. s.at \in Nat /\ s.at >= m - 1 /\ ~(2 * s.at + 1 >= n) /\ Before(s.h, l, s.at)
      BY <2>1, <2>4, Zenon
    <3>3. 2 * s.at + 1 < n
      BY <1>0, <3>2
    <3>5. /\ Shape(s.h) /\ Len(s.h.heap) = Len(h.heap) /\ Held(s.h) = Held(h)
          /\ Positions(s.h) = Positions(h)
      BY <2>1, Zenon DEF SameItems, Positions
    <3>13. n \in 0 .. Len(s.h.heap)
      BY <3>5, Zenon
    <3>4. l \in 1 .. n - 1 /\ s.at < l
      BY <3>2, <3>3, <3>5, <3>13, FirstChildFacts, Zenon
    <3>9. DownReady(s.h, s.at, n) => DownOnly(g, l, n)
      BY <3>2, <3>3, <3>5, <3>13, DownReadyStep, Zenon
    <3>14. DownOnly(s.h, s.at, n) => DownReady(s.h, s.at, n)
      BY Zenon DEF DownOnly, DownReady
    <3> HIDE DEF l
    <3>6. /\ l \in Positions(s.h) /\ s.at \in Positions(s.h)
          /\ l \in Nat /\ l >= m /\ l < n /\ s.at < n
      <4>1. l \in Nat /\ l >= m /\ l < n /\ s.at < n
        BY <1>0, <2>2, <3>2, <3>4
      <4>2. l \in Positions(h) /\ s.at \in Positions(h)
        BY <1>0, <3>2, <4>1 DEF Positions
      <4> QED BY <3>5, <4>1, <4>2, Zenon
    <3>7. /\ SameItems(g, s.h)
          /\ \A x \in Positions(s.h) : x # s.at /\ x # l => At(g, x) = At(s.h, x)
      BY <3>5, <3>6, SwapFacts, Zenon
    <3>8. SameItems(g, h)
      BY <3>5, <3>7, Zenon DEF SameItems
    <3> HIDE DEF g
    <3>10. \A x \in Positions(h) : x >= n => At(g, x) = At(h, x)
      <4> SUFFICES ASSUME NEW x \in Positions(h), x >= n PROVE At(g, x) = At(h, x)
        BY Zenon
      <4>1. x # l /\ x # s.at
        BY <1>0, <3>2, <3>6 DEF Positions
      <4> QED BY <2>1, <3>5, <3>7, <4>1, Zenon
    <3>11. f[m].h = g /\ f[m].at = l
      BY <3>1
    <3>15. DownReady(h, i, n) => DownOnly(g, l, n)
      BY <2>1, <3>9, <3>14, Zenon
    <3>12. Good(f[m])
      BY <3>6, <3>8, <3>10, <3>11, <3>15, Zenon
    <3> HIDE DEF Good, Stops
    <3> QED BY <2>2, <3>6, <3>11, <3>12, Zenon
  <2> QED BY <2>3, <2>4, Zenon
<1>4. n \in S
  <2>1. n \in 0 .. n
    BY <1>0
  <2> HIDE DEF S
  <2> QED BY <1>0, <1>2, <1>3, <2>1, Upwards, Zenon
<1> DEFINE s == f[n]
<1>5. Good(s) /\ (Stops(s) \/ s.at >= n)
  <2> HIDE DEF Good, Stops
  <2> QED BY <1>4, Zenon
<1> HIDE DEF s
<1>6. Stops(s) /\ s.at \in Nat
  <2>1. s.at \in Nat
    BY <1>5, Zenon
  <2>2. s.at >= n => 2 * s.at + 1 >= n
    BY <1>0, <2>1
  <2> QED BY <1>5, <2>1, <2>2, Zenon
<1>7. \A c \in 1 .. n - 1 : Parent(c) = s.at => ~Before(s.h, c, s.at)
  <2> SUFFICES ASSUME NEW c \in 1 .. n - 1, Parent(c) = s.at PROVE ~Before(s.h, c, s.at)
    BY Zenon
  <2>1. c \in Nat \ {0} /\ c < n
    BY <1>0
  <2>2. c = 2 * s.at + 1 \/ c = 2 * s.at + 2
    BY <1>6, <2>1, ParentFacts, Zenon
  <2>3. 2 * s.at + 1 < n
    BY <1>0, <1>6, <2>1, <2>2
  <2>4. Shape(s.h) /\ n \in 0 .. Len(s.h.heap) /\ Len(s.h.heap) \in Nat
    BY <1>0, <1>5, Zenon DEF SameItems
  <2> DEFINE l == FirstChild(s.h, s.at, n)
  <2>5. l \in 1 .. n - 1 /\ ~Prec(At(s.h, c), At(s.h, l))
    BY <1>6, <2>3, <2>4, FirstChildFacts, Zenon
  <2>6. ~Before(s.h, l, s.at)
    <3>1. ~(2 * s.at + 1 >= n)
      BY <1>0, <1>6, <2>3
    <3> QED BY <1>6, <3>1, Zenon
  <2> HIDE DEF l
  <2>7. c \in Positions(s.h) /\ l \in Positions(s.h) /\ s.at \in Positions(s.h)
    <3>1. \A x \in Nat : x < n => x \in Positions(s.h)
      BY <1>0, <2>4 DEF Positions
    <3>2. l \in Nat /\ l < n
      BY <1>0, <2>5
    <3>3. s.at < n
      BY <1>0, <1>6, <2>3
    <3> QED BY <1>6, <2>1, <3>1, <3>2, <3>3, Zenon
  <2>8. At(s.h, c) \in Jobs /\ At(s.h, l) \in Jobs /\ At(s.h, s.at) \in Jobs
    BY <2>4, <2>7, PositionFacts, Zenon
  <2>9. ~Prec(At(s.h, l), At(s.h, s.at))
    BY <2>6, Zenon DEF Before, Prec
  <2>10. ~Prec(At(s.h, c), At(s.h, s.at))
    BY <2>5, <2>8, <2>9, PrecFacts, Zenon
  <2> QED BY <2>10, Zenon DEF Before, Prec
<1>8. ASSUME DownOnly(s.h, s.at, n) PROVE HeapOrder(s.h, n)
  BY <1>7, <1>8, Zenon DEF DownOnly, HeapOrder
<1>9. DownReady(h, i, n) => \/ HeapOrder(s.h, n)
                            \/ s.h = h /\ \A c \in 1 .. n - 1 : Parent(c) = i => ~Before(h, c, i)
  BY <1>5, <1>7, <1>8, Zenon
<1> QED BY <1>1, <1>5, <1>9, Zenon DEF s

-----------------------------------------------------------------------------
(* container/heap *)

LEMMA HeapPushFacts ==
  ASSUME TypeOK, NEW h, Shape(h), NEW j \in Jobs \ Held(h)
  PROVE  LET g == HeapPush(h, j) IN
         /\ Shape(g) /\ Held(g) = Held(h) \cup {j}
         /\ HeapOrder(h, Len(h.heap)) => HeapOrder(g, Len(g.heap))
<1> DEFINE n == Len(h.heap)
           a == AppendItem(h, j)
           g == Up(a, n)
<1>0. n \in Nat
  BY PositionFacts, Zenon
<1>1. /\ Shape(a) /\ Len(a.heap) = n + 1 /\ Held(a) = Held(h) \cup {j}
      /\ \A x \in Positions(h) : At(a, x) = At(h, x)
  BY AppendFacts, Zenon
<1> HIDE DEF a
<1>2. n + 1 \in 0 .. Len(a.heap) /\ n \in 0 .. (n + 1) - 1
  BY <1>0, <1>1
<1>3. SameItems(g, a) /\ (UpReady(a, n, n + 1) => HeapOrder(g, n + 1))
  BY <1>1, <1>2, UpFacts, Zenon
<1>4. ASSUME HeapOrder(h, n) PROVE UpReady(a, n, n + 1)
  <2>1. \A c \in 1 .. (n + 1) - 1 : c \in Nat \ {0} /\ c <= n /\ (c # n => c \in 1 .. n - 1)
    BY <1>0
  <2>2. \A c \in 1 .. (n + 1) - 1 : Parent(c) \in Nat /\ Parent(c) < c
    BY <2>1, ParentFacts, Zenon
  <2>3. ASSUME NEW c \in 1 .. (n + 1) - 1, c # n PROVE ~Before(a, c, Parent(c))
    <3>1. c \in Positions(h) /\ Parent(c) \in Positions(h)
      BY <1>0, <2>1, <2>2, <2>3 DEF Positions
    <3>2. ~Before(h, c, Parent(c))
      BY <1>4, <2>1, <2>3, Zenon DEF HeapOrder
    <3> QED BY <1>1, <3>1, <3>2, Zenon DEF Before
  <2>4. \A c \in 1 .. (n + 1) - 1 : Parent(c) # n
    BY <1>0, <2>1, <2>2
  <2> QED BY <2>3, <2>4, Zenon DEF UpReady
<1>5. Shape(g) /\ Held(g) = Held(h) \cup {j} /\ Len(g.heap) = n + 1
  BY <1>1, <1>3, Zenon DEF SameItems
<1>6. HeapPush(h, j) = g
  BY Zenon DEF HeapPush, a
<1> HIDE DEF g
<1> QED BY <1>3, <1>4, <1>5, <1>6, Zenon

\* When place i and the last place n have been exchanged, the first n jobs
\* are in order but for the one at i.
LEMMA SwappedReady ==
  ASSUME TypeOK, NEW h, Shape(h), NEW n \in Nat, Len(h.heap) = n + 1, NEW i \in 0 .. n,
         HeapOrder(h, n + 1)
  PROVE  DownReady(Swap(h, i, n), i, n)
<1> DEFINE m == Swap(h, i, n)
<1>1. i \in Positions(h) /\ n \in Positions(h) /\ i \in Nat
  BY DEF Positions
<1>2. \A x \in Positions(h) : x # i /\ x # n => At(m, x) = At(h, x)
  BY <1>1, SwapFacts, Zenon
<1> HIDE DEF m
<1>3. \A c \in 1 .. n - 1 : /\ c \in Nat \ {0} /\ c \in Positions(h) /\ c # n
                            /\ c \in 1 .. (n + 1) - 1
  BY DEF Positions
<1>4. \A c \in 1 .. n - 1 : Parent(c) \in Nat /\ Parent(c) < c
  BY <1>3, ParentFacts, Zenon
<1>5. \A c \in 1 .. n - 1 : Parent(c) \in Positions(h) /\ Parent(c) # n /\ Parent(c) # c
  BY <1>3, <1>4 DEF Positions
<1>6. \A c \in 1 .. n - 1 : ~Prec(At(h, c), At(h, Parent(c)))
  BY <1>3, Zenon DEF HeapOrder, Before, Prec
<1>7. ASSUME NEW c \in 1 .. n - 1, c # i, Parent(c) # i PROVE ~Prec(At(m, c), At(m, Parent(c)))
  <2>1. At(m, c) = At(h, c) /\ At(m, Parent(c)) = At(h, Parent(c))
    BY <1>2, <1>3, <1>5, <1>7, Zenon
  <2> QED BY <1>6, <2>1, Zenon
<1>8. ASSUME i > 0, NEW c \in 1 .. n - 1, Parent(c) = i PROVE ~Prec(At(m, c), At(m, Parent(i)))
  <2>1. i \in 1 .. n - 1 /\ c # i
    <3>1. c \in Nat /\ c < n /\ i < c
      BY <1>3, <1>4, <1>8
    <3> QED BY <1>1, <1>8, <3>1
  <2>2. At(m, c) = At(h, c) /\ At(m, Parent(i)) = At(h, Parent(i))
    BY <1>2, <1>3, <1>5, <2>1, Zenon
  <2>3. ~Prec(At(h, c), At(h, i)) /\ ~Prec(At(h, i), At(h, Parent(i)))
    BY <1>6, <1>8, <2>1, Zenon
  <2>4. At(h, c) \in Jobs /\ At(h, i) \in Jobs /\ At(h, Parent(i)) \in Jobs
    BY <1>1, <1>3, <1>5, <2>1, PositionFacts, Zenon
  <2>5. ~Prec(At(h, c), At(h, Parent(i)))
    BY <2>3, <2>4, PrecFacts, Zenon
  <2> QED BY <2>2, <2>5, Zenon
<1> QED BY <1>7, <1>8, Zenon DEF DownReady, Before, Prec, m

LEMMA HeapPopFacts ==
  ASSUME TypeOK, NEW h, Shape(h), h.heap # <<>>
  PROVE  LET g == HeapPop(h) IN
         /\ Shape(g) /\ Held(g) = Held(h) \ {At(h, 0)}
         /\ HeapOrder(h, Len(h.heap)) => HeapOrder(g, Len(g.heap))
<1> DEFINE n == Len(h.heap) - 1
           m == Swap(h, 0, n)
           d == Down(m, 0, n)
           g == DropItem(d)
<1>0. n \in Nat /\ Len(h.heap) = n + 1
  BY DEF Shape
<1> HIDE DEF n
<1>1. 0 \in Positions(h) /\ n \in Positions(h) /\ 0 \in 0 .. n
  BY <1>0 DEF Positions
<1>2. SameItems(m, h) /\ At(m, n) = At(h, 0) /\ Positions(m) = Positions(h)
  BY <1>1, SwapFacts, Zenon
<1>3. HeapOrder(h, n + 1) => DownReady(m, 0, n)
  BY <1>0, <1>1, SwappedReady, Zenon
<1> HIDE DEF m
<1>4. Shape(m) /\ n \in 0 .. Len(m.heap) /\ 0 \in Nat
  BY <1>0, <1>2 DEF SameItems
<1>5. /\ SameItems(d, m)
      /\ \A x \in Positions(m) : x >= n => At(d, x) = At(m, x)
      /\ DownReady(m, 0, n) =>
           \/ HeapOrder(d, n)
           \/ d = m /\ \A c \in 1 .. n - 1 : Parent(c) = 0 => ~Before(m, c, 0)
  BY <1>4, DownFacts, Zenon
<1> HIDE DEF d
<1>6. Shape(d) /\ Len(d.heap) = n + 1 /\ Held(d) = Held(h) /\ At(d, n) = At(h, 0)
  <2>1. n >= n
    BY <1>0
  <2> QED BY <1>0, <1>1, <1>2, <1>5, <2>1, Zenon DEF SameItems
<1>7. ASSUME DownReady(m, 0, n) PROVE HeapOrder(d, n)
  <2>1. \A c \in 1 .. n - 1 : c # 0
    BY <1>0
  <2>2. ASSUME d = m, \A c \in 1 .. n - 1 : Parent(c) = 0 => ~Before(m, c, 0)
        PROVE  HeapOrder(d, n)
    BY <1>7, <2>1, <2>2, Zenon DEF DownReady, HeapOrder
  <2> QED BY <1>5, <1>7, <2>2, Zenon
<1>8. /\ Shape(g) /\ Len(g.heap) = n /\ Held(g) = Held(d) \ {At(d, n)}
      /\ \A x \in 0 .. n - 1 : At(g, x) = At(d, x)
  BY <1>0, <1>6, DropFacts, Zenon
<1> HIDE DEF g
<1>9. HeapOrder(h, n + 1) => HeapOrder(g, n)
  BY <1>0, <1>3, <1>7, <1>8, SameOrder, Zenon
<1>10. HeapPop(h) = g
  BY Zenon DEF HeapPop, g, d, m, n
<1> QED BY <1>0, <1>6, <1>8, <1>9, <1>10, Zenon

LEMMA HeapRemoveFacts ==
  ASSUME TypeOK, NEW h, Shape(h), NEW i \in Positions(h)
  PROVE  LET g == HeapRemove(h, i) IN
         /\ Shape(g) /\ Held(g) = Held(h) \ {At(h, i)}
         /\ HeapOrder(h, Len(h.heap)) => HeapOrder(g, Len(g.heap))
<1> DEFINE n == Len(h.heap) - 1
           m == Swap(h, i, n)
           d == Down(m, i, n)
           u == Up(m, i)
           e == IF i = n THEN h ELSE IF d # m THEN d ELSE u
           g == DropItem(e)
<1>0. n \in Nat /\ Len(h.heap) = n + 1 /\ i \in 0 .. n /\ n \in Positions(h) /\ i \in Nat
  <2>1. Len(h.heap) \in Nat
    BY PositionFacts, Zenon
  <2> QED BY <2>1 DEF Positions
<1> HIDE DEF n
<1>1. /\ SameItems(m, h) /\ At(m, n) = At(h, i) /\ Positions(m) = Positions(h)
  BY <1>0, SwapFacts, Zenon
<1>2. HeapOrder(h, n + 1) => DownReady(m, i, n)
  BY <1>0, SwappedReady, Zenon
<1> HIDE DEF m
<1>3. Shape(m) /\ n \in 0 .. Len(m.heap) /\ Len(m.heap) = n + 1
  BY <1>0, <1>1 DEF SameItems
<1>4. /\ SameItems(d, m)
      /\ \A x \in Positions(m) : x >= n => At(d, x) = At(m, x)
      /\ DownReady(m, i, n) =>
           \/ HeapOrder(d, n)
           \/ d = m /\ \A c \in 1 .. n - 1 : Parent(c) = i => ~Before(m, c, i)
  BY <1>0, <1>3, DownFacts, Zenon
<1> HIDE DEF d
<1>5. ASSUME i # n
      PROVE  /\ SameItems(u, m)
             /\ \A x \in Positions(m) : x > i => At(u, x) = At(m, x)
             /\ UpReady(m, i, n) => HeapOrder(u, n)
  <2>1. i \in 0 .. n - 1
    BY <1>0, <1>5
  <2> QED BY <1>3, <2>1, UpFacts, Zenon
<1> HIDE DEF u
<1>6. ASSUME DownReady(m, i, n), d = m PROVE UpReady(m, i, n)
  <2>1. \A c \in 1 .. n - 1 : Parent(c) = i /\ c # i => ~Before(m, c, Parent(c))
    <3>1. CASE HeapOrder(d, n)
      BY <1>6, <3>1, Zenon DEF HeapOrder
    <3>2. CASE \A c \in 1 .. n - 1 : Parent(c) = i => ~Before(m, c, i)
      BY <3>2, Zenon
    <3> QED BY <1>4, <1>6, <3>1, <3>2, Zenon
  <2> QED BY <1>6, <2>1, Zenon DEF DownReady, UpReady
<1>7. SameItems(e, h) /\ At(e, n) = At(h, i) /\ (HeapOrder(h, n + 1) => HeapOrder(e, n))
  <2>1. CASE i = n
    <3>1. SameItems(h, h)
      BY Zenon DEF SameItems
    <3>2. \A c \in 1 .. n - 1 : c \in 1 .. (n + 1) - 1
      BY <1>0
    <3>3. HeapOrder(h, n + 1) => HeapOrder(h, n)
      BY <3>2, Zenon DEF HeapOrder
    <3> QED BY <2>1, <3>1, <3>3, Zenon
  <2>2. CASE i # n /\ d # m
    <3>1. n >= n
      BY <1>0
    <3>2. At(d, n) = At(m, n)
      BY <1>0, <1>1, <1>4, <3>1, Zenon
    <3> QED BY <1>1, <1>2, <1>4, <2>2, <3>2, Zenon DEF SameItems
  <2>3. CASE i # n /\ d = m
    <3>1. n > i
      BY <1>0, <2>3
    <3>2. At(u, n) = At(m, n)
      BY <1>0, <1>1, <1>5, <2>3, <3>1, Zenon
    <3> QED BY <1>1, <1>2, <1>5, <1>6, <2>3, <3>2, Zenon DEF SameItems
  <2> QED BY <2>1, <2>2, <2>3, Zenon
<1>8. HeapRemove(h, i) = g
  BY Zenon DEF HeapRemove, u, d, m, n
<1> HIDE DEF e
<1>9. Shape(e) /\ Len(e.heap) = n + 1 /\ Held(e) = Held(h)
  BY <1>0, <1>7, Zenon DEF SameItems
<1>10. /\ Shape(g) /\ Len(g.heap) = n /\ Held(g) = Held(e) \ {At(e, n)}
       /\ \A x \in 0 .. n - 1 : At(g, x) = At(e, x)
  BY <1>0, <1>9, DropFacts, Zenon
<1> HIDE DEF g
<1>11. HeapOrder(h, n + 1) => HeapOrder(g, n)
  BY <1>0, <1>7, <1>10, SameOrder, Zenon
<1> QED BY <1>0, <1>7, <1>8, <1>9, <1>10, <1>11, Zenon

\* Nothing comes before the top of a heap.
LEMMA TopFirst ==
  ASSUME TypeOK, NEW h, Shape(h), HeapOrder(h, Len(h.heap)), NEW j \in Held(h)
  PROVE  ~Prec(j, At(h, 0))
<1> DEFINE S == {x \in Positions(h) : Prec(At(h, x), At(h, 0))}
<1>0. Len(h.heap) \in Nat /\ \A x \in Positions(h) : x \in Nat /\ x < Len(h.heap)
  BY PositionFacts, Zenon
<1>1. PICK y \in Positions(h) : At(h, y) = j
  BY PositionFacts, Zenon
<1>2. SUFFICES ASSUME S # {} PROVE FALSE
  BY <1>1, Zenon
<1>3. PICK x \in S : \A z \in S : x <= z
  <2>1. S \subseteq Nat
    BY <1>0, Zenon
  <2> HIDE DEF S
  <2> QED BY <1>2, <2>1, LeastNumber, Zenon
<1>4. x \in Nat /\ x < Len(h.heap) /\ 0 \in Positions(h)
  <2>1. x \in Nat /\ x < Len(h.heap)
    BY <1>0, Zenon
  <2> QED BY <1>0, <2>1 DEF Positions
<1>5. \A z \in Positions(h) : At(h, z) \in Jobs
  BY PositionFacts, Zenon
<1>6. x # 0
  BY <1>4, <1>5, PrecFacts, Zenon
<1>7. Parent(x) \in Nat /\ Parent(x) < x
  <2>1. x \in Nat \ {0}
    BY <1>4, <1>6, Zenon
  <2> QED BY <2>1, ParentFacts, Zenon
<1>8. Parent(x) \in Positions(h) /\ ~(x <= Parent(x)) /\ x \in 1 .. Len(h.heap) - 1
  BY <1>0, <1>4, <1>6, <1>7 DEF Positions
<1>9. ~Prec(At(h, Parent(x)), At(h, 0))
  BY <1>3, <1>8, Zenon
<1>10. ~Prec(At(h, x), At(h, Parent(x)))
  BY <1>8, Zenon DEF HeapOrder, Before, Prec
<1> QED BY <1>4, <1>5, <1>8, <1>9, <1>10, PrecFacts, Zenon

-----------------------------------------------------------------------------
(* The invariant *)

\* No job is in the array twice, so it is no longer than there are jobs.
LEMMA ShapeTypes ==
  ASSUME NEW h, Shape(h)
  PROVE  /\ Len(h.heap) <= Cardinality(Jobs)
         /\ h.index \in [Jobs -> -1 .. Cardinality(Jobs) - 1]
<1> DEFINE n == Len(h.heap)
           N == Cardinality(Jobs)
<1>0. /\ n \in Nat /\ h.heap \in Seq(Jobs) /\ h.index \in [Jobs -> Int]
      /\ \A i \in DOMAIN h.heap : h.index[h.heap[i]] = i - 1
      /\ \A j \in Jobs \ Held(h) : h.index[j] = -1
  BY DEF Shape
<1>1. N \in Nat /\ IsFiniteSet(Jobs)
  BY FS_CardinalityType, PriorityHeapAssumption, Zenon
<1>2. Cardinality(1 .. n) = n
  <2>1. 1 \in Int /\ n \in Int
    BY <1>0
  <2>2. Cardinality(1 .. n) = IF 1 > n THEN 0 ELSE n - 1 + 1
    BY <2>1, FS_Interval, Zenon
  <2> HIDE DEF n
  <2> QED BY <1>0, <2>2
<1>3. DOMAIN h.heap = 1 .. n /\ h.heap \in [1 .. n -> Jobs]
  BY <1>0
<1>4. \A i, k \in 1 .. n : h.heap[i] = h.heap[k] => i = k
  <2> SUFFICES ASSUME NEW i \in 1 .. n, NEW k \in 1 .. n, h.heap[i] = h.heap[k] PROVE i = k
    BY Zenon
  <2>1. i - 1 = k - 1
    BY <1>0, <1>3, Zenon
  <2> QED BY <1>0, <2>1
<1>5. h.heap \in Injection(1 .. n, Jobs)
  BY <1>3, <1>4, Zenon DEF Injection, IsInjective
<1>6. n <= N
  BY <1>1, <1>2, <1>5, FS_Injection
<1> HIDE DEF n, N
<1>7. ASSUME NEW j \in Jobs PROVE h.index[j] \in -1 .. N - 1
  <2>1. CASE j \notin Held(h)
    <3>1. h.index[j] = -1
      BY <1>0, <2>1
    <3> QED BY <1>1, <3>1
  <2>2. CASE j \in Held(h)
    <3>1. PICK i \in 1 .. n : h.heap[i] = j
      BY <1>3, <2>2, Zenon DEF Held
    <3>2. h.index[j] = i - 1
      BY <1>0, <1>3, <3>1, Zenon
    <3> QED BY <1>0, <1>1, <1>6, <3>2
  <2> QED BY <2>1, <2>2, Zenon
<1>8. h.index \in [Jobs -> -1 .. N - 1]
  BY <1>0, <1>7, Zenon
<1> QED BY <1>6, <1>8, Zenon DEF n, N

\* An operation that leaves a heap h with the jobs in items.
LEMMA BecomesStep ==
  ASSUME HeapInv, NEW h, Becomes(h), Shape(h), items' = Held(h), UNCHANGED <<job, disordered>>,
         ~disordered => HeapOrder(h, Len(h.heap))
  PROVE  HeapInv'
<1>1. heap' = h.heap /\ index' = h.index /\ pq'.heap = h.heap /\ pq'.index = h.index
  BY Zenon DEF Becomes, pq
<1>2. Shape(pq') /\ Held(pq') = Held(h) /\ items' = Held(pq')
  BY <1>1, Zenon DEF Shape, Held
<1>3. h.heap \in Seq(Jobs) /\ Len(h.heap) <= Cardinality(Jobs)
      /\ h.index \in [Jobs -> -1 .. Cardinality(Jobs) - 1]
  BY ShapeTypes, Zenon DEF Shape
<1>4. items' \subseteq Jobs
  BY <1>3 DEF Held
<1>5. TypeOK'
  BY <1>1, <1>3, <1>4, Zenon DEF HeapInv, TypeOK
<1>6. \A x, y : Before(pq, x, y)' <=> Before(h, x, y)
  BY <1>1, Zenon DEF Before, At
<1>7. ~disordered' => HeapOrder(pq, Len(heap))'
  BY <1>1, <1>6, Zenon DEF HeapOrder
<1> QED BY <1>2, <1>5, <1>7, Zenon DEF HeapInv, Shape, Held

LEMMA HeapInit == Init => HeapInv
<1> SUFFICES ASSUME Init PROVE HeapInv
  BY Zenon
<1>1. heap = <<>> /\ index = [j \in Jobs |-> -1] /\ items = {} /\ pq.heap = <<>> /\ pq.index = index
      /\ job \in [Jobs -> Fields] /\ disordered = FALSE
  BY Zenon DEF Init, pq
<1>2. heap \in Seq(Jobs) /\ DOMAIN heap = {} /\ Len(heap) = 0 /\ -1 \in Int
  BY <1>1
<1>3. Held(pq) = {}
  BY <1>1, <1>2, Zenon DEF Held
<1>4. Shape(pq)
  BY <1>1, <1>2, <1>3, Zenon DEF Shape
<1>5. HeapOrder(pq, Len(heap))
  BY <1>2 DEF HeapOrder
<1>6. TypeOK
  <2>1. Len(pq.heap) <= Cardinality(Jobs) /\ pq.index \in [Jobs -> -1 .. Cardinality(Jobs) - 1]
    BY <1>4, ShapeTypes, Zenon
  <2> QED BY <1>1, <1>2, <2>1, Zenon DEF TypeOK
<1> QED BY <1>1, <1>3, <1>4, <1>5, <1>6, Zenon DEF HeapInv

LEMMA HeapStep == HeapInv /\ [Next]_vars => HeapInv'
<1> SUFFICES ASSUME HeapInv, [Next]_vars PROVE HeapInv'
  BY Zenon
<1>0. /\ TypeOK /\ Shape(pq) /\ items = Held(pq) /\ pq.heap = heap /\ pq.index = index
      /\ ~disordered => HeapOrder(pq, Len(pq.heap))
  BY Zenon DEF HeapInv, pq
<1>1. ASSUME UNCHANGED <<job, heap, index, items, disordered>> PROVE HeapInv'
  <2>1. Becomes(pq)
    BY <1>1, Zenon DEF Becomes, pq
  <2> QED BY <1>0, <1>1, <2>1, BecomesStep, Zenon
<1>2. ASSUME NEW j \in Jobs, Write(j) PROVE HeapInv'
  <2>1. /\ job' \in [Jobs -> Fields] /\ (\A x \in Jobs \ {j} : job'[x] = job[x])
        /\ disordered' = (disordered \/ j \in items)
        /\ UNCHANGED <<heap, index, items>> /\ pq' = pq
    BY <1>0, <1>2, Zenon DEF Write, TypeOK, pq
  <2>2. TypeOK'
    BY <1>0, <2>1, Zenon DEF TypeOK
  <2>3. Shape(pq)' /\ items' = Held(pq)'
    BY <1>0, <2>1, Zenon DEF Shape, Held
  <2>4. ASSUME ~disordered' PROVE HeapOrder(pq, Len(heap))'
    <3>1. ~disordered /\ j \notin Held(pq) /\ HeapOrder(pq, Len(heap))
      BY <1>0, <2>1, <2>4, Zenon
    <3>2. \A x \in Positions(pq) : At(pq, x) # j /\ At(pq, x) \in Jobs
      BY <1>0, <3>1, PositionFacts
    <3>3. ASSUME NEW c \in 1 .. Len(heap) - 1 PROVE ~Before(pq, c, Parent(c))'
      <4>1. Len(heap) \in Nat /\ c \in Nat \ {0}
        BY <1>0 DEF TypeOK
      <4>2. Parent(c) \in Nat /\ Parent(c) < c
        BY <4>1, ParentFacts, Zenon
      <4>3. c \in Positions(pq) /\ Parent(c) \in Positions(pq)
        BY <1>0, <4>1, <4>2 DEF Positions
      <4>4. ~Less(job[At(pq, c)], job[At(pq, Parent(c))])
        BY <3>1, Zenon DEF HeapOrder, Before
      <4>5. job'[At(pq, c)] = job[At(pq, c)] /\ job'[At(pq, Parent(c))] = job[At(pq, Parent(c))]
        BY <2>1, <3>2, <4>3, Zenon
      <4> QED BY <2>1, <4>4, <4>5, Zenon DEF Before, At
    <3> QED BY <2>1, <3>3, Zenon DEF HeapOrder
  <2> QED BY <2>2, <2>3, <2>4, Zenon DEF HeapInv
<1>3. ASSUME NEW j \in Jobs, Push(j) PROVE HeapInv'
  <2> DEFINE h == IF j \in items THEN pq ELSE HeapPush(pq, j)
  <2>1. Becomes(h) /\ items' = items \cup {j} /\ UNCHANGED <<job, disordered>>
    BY <1>3, Zenon DEF Push
  <2>2. Shape(h) /\ Held(h) = items \cup {j} /\ (~disordered => HeapOrder(h, Len(h.heap)))
    <3>1. CASE j \in items
      BY <1>0, <3>1, Zenon
    <3>2. CASE j \notin items
      BY <1>0, <3>2, HeapPushFacts, Zenon
    <3> QED BY <3>1, <3>2, Zenon
  <2> HIDE DEF h
  <2> QED BY <2>1, <2>2, BecomesStep, Zenon
<1>4. ASSUME NEW op, PopTop(op), heap # <<>> PROVE HeapInv'
  <2> DEFINE h == HeapPop(pq)
  <2>1. Becomes(h) /\ items' = items \ {heap[1]} /\ UNCHANGED <<job, disordered>>
    BY <1>4, Zenon DEF PopTop
  <2>2. At(pq, 0) = heap[1]
    BY <1>0 DEF At
  <2>3. Shape(h) /\ Held(h) = items' /\ (~disordered => HeapOrder(h, Len(h.heap)))
    BY <1>0, <1>4, <2>1, <2>2, HeapPopFacts, Zenon
  <2> HIDE DEF h
  <2> QED BY <2>1, <2>3, BecomesStep, Zenon
<1>5. ASSUME NEW j \in items, Becomes(HeapRemove(pq, index[j])), items' = items \ {j},
             UNCHANGED <<job, disordered>>
      PROVE  HeapInv'
  <2> DEFINE i == index[j]
             h == HeapRemove(pq, i)
  <2>1. i \in Positions(pq) /\ At(pq, i) = j
    BY <1>0, PositionFacts
  <2>2. Shape(h) /\ Held(h) = items' /\ (~disordered => HeapOrder(h, Len(h.heap)))
    <3> HIDE DEF i
    <3> QED BY <1>0, <1>5, <2>1, HeapRemoveFacts, Zenon
  <2> QED BY <1>5, <2>2, BecomesStep, Zenon
<1>6. ASSUME NEW op, NothingFound(op) PROVE HeapInv'
  BY <1>1, <1>6, Zenon DEF NothingFound
<1>7. CASE UNCHANGED vars
  BY <1>1, <1>7, Zenon DEF vars
<1>8. ASSUME Pop \/ PopReady PROVE HeapInv'
  BY <1>4, <1>6, <1>8, Zenon DEF Pop, PopReady
<1>9. ASSUME NEW j \in Jobs, Remove(j) PROVE HeapInv'
  BY <1>5, <1>6, <1>9, Zenon DEF Remove
<1> QED BY <1>2, <1>3, <1>7, <1>8, <1>9, Zenon DEF Next

\* Types, and an array no longer than there are jobs.
THEOREM HeapTyped == Spec => []TypeOK
<1>1. HeapInv => TypeOK
  BY Zenon DEF HeapInv
<1> QED BY <1>1, HeapInit, HeapStep, PTL DEF Spec

\* The array, the map and the items' own positions agree after any sequence of
\* Push, Pop, PopReady and Remove, also when jobs were written to meanwhile.
THEOREM IndexAgreesHolds == Spec => []IndexAgrees
<1>1. HeapInv => IndexAgrees
  BY Zenon DEF HeapInv, Shape, Held, IndexAgrees, pq
<1> QED BY <1>1, HeapInit, HeapStep, PTL DEF Spec

-----------------------------------------------------------------------------
(* Refinement *)

LEMMA PromiseStep == HeapInv /\ [Next]_vars => [Promise!Next]_(Promise!vars)
<1> DEFINE ready == {heap[i] : i \in DOMAIN heap}
<1> SUFFICES ASSUME HeapInv, HeapInv', [Next]_vars PROVE [Promise!Next]_(Promise!vars)
  BY HeapStep, Zenon
<1>0. /\ TypeOK /\ Shape(pq) /\ items = ready /\ items' = ready' /\ pq.heap = heap
      /\ Held(pq) = ready /\ NoJob \notin ready
      /\ ~disordered => HeapOrder(pq, Len(pq.heap))
  <2>1. /\ TypeOK /\ Shape(pq) /\ items = ready /\ items' = ready' /\ pq.heap = heap
        /\ Held(pq) = ready
        /\ ~disordered => HeapOrder(pq, Len(pq.heap))
    BY Zenon DEF HeapInv, Held, pq
  <2>2. items \subseteq Jobs
    BY <2>1, Zenon DEF TypeOK
  <2> QED BY <2>1, <2>2, PriorityHeapAssumption
<1>1. ASSUME heap # <<>> PROVE heap[1] \in ready /\ Promise!First(heap[1])
  <2>1. heap[1] \in ready
    <3>1. 1 \in DOMAIN heap
      BY <1>0, <1>1 DEF TypeOK
    <3> QED BY <3>1, Zenon
  <2>2. ASSUME ~disordered, NEW k \in ready PROVE ~Prec(k, heap[1])
    <3>1. At(pq, 0) = heap[1]
      BY <1>0 DEF At
    <3> QED BY <1>0, <2>2, <3>1, TopFirst, Zenon
  <2> QED BY <2>1, <2>2, Zenon DEF Promise!First, Promise!Less, Prec, Less
<1>2. ASSUME NEW op, NothingFound(op)
      PROVE  last' = [op |-> op, result |-> NoJob] /\ ready' = ready \ {NoJob}
             /\ UNCHANGED <<job, disordered>>
  <2>1. last' = [op |-> op, result |-> NoJob] /\ items' = items /\ UNCHANGED <<job, disordered>>
    BY <1>2, Zenon DEF NothingFound, Returns
  <2> QED BY <1>0, <2>1, Zenon
<1>3. ASSUME NEW op, PopTop(op)
      PROVE  last' = [op |-> op, result |-> heap[1]] /\ ready' = ready \ {heap[1]}
             /\ UNCHANGED <<job, disordered>>
  BY <1>0, <1>3, Zenon DEF PopTop, Returns
<1>4. heap = <<>> => ready = {}
  OBVIOUS
<1> HIDE DEF ready
<1>5. ASSUME Pop PROVE Promise!Pop
  <2>1. CASE heap = <<>>
    BY <1>2, <1>4, <1>5, <2>1, Zenon DEF Pop, Promise!Pop, Promise!Returns, ready
  <2>2. CASE heap # <<>>
    BY <1>1, <1>3, <1>5, <2>2, Zenon DEF Pop, Promise!Pop, Promise!Returns, ready
  <2> QED BY <2>1, <2>2, Zenon
<1>6. ASSUME PopReady PROVE Promise!PopReady
  <2>1. CASE heap = <<>>
    BY <1>2, <1>4, <1>6, <2>1, Zenon DEF PopReady, Promise!PopReady, Promise!Returns, ready
  <2>2. CASE heap # <<>> /\ ~IsReady(job[heap[1]], Now)
    <3>1. NothingFound("PopReady") /\ ~Promise!IsReady(job[heap[1]], Now)
      BY <1>6, <2>2, Zenon DEF PopReady, IsReady, Promise!IsReady, ZeroTime, Promise!ZeroTime
    <3> QED BY <1>1, <1>2, <2>2, <3>1, Zenon DEF Promise!PopReady, Promise!Returns, ready
  <2>3. CASE heap # <<>> /\ IsReady(job[heap[1]], Now)
    <3>1. PopTop("PopReady") /\ Promise!IsReady(job[heap[1]], Now)
      BY <1>6, <2>3, Zenon DEF PopReady, IsReady, Promise!IsReady, ZeroTime, Promise!ZeroTime
    <3> QED BY <1>1, <1>3, <2>3, <3>1, Zenon DEF Promise!PopReady, Promise!Returns, ready
  <2> QED BY <2>1, <2>2, <2>3, Zenon
<1>7. ASSUME NEW j \in Jobs, Write(j) PROVE Promise!Write(j)
  <2>1. /\ \A x \in Jobs \ {j} : job'[x] = job[x]
        /\ disordered' = (disordered \/ j \in items)
        /\ last' = [op |-> "Write", result |-> NoJob] /\ items' = items
    BY <1>0, <1>7, Zenon DEF Write, Returns, TypeOK
  <2> QED BY <1>0, <2>1, Zenon DEF Promise!Write, ready
<1>8. ASSUME NEW j \in Jobs, Push(j) PROVE Promise!Push(j)
  <2>1. /\ last' = [op |-> "Push", result |-> NoJob] /\ items' = items \cup {j}
        /\ UNCHANGED <<job, disordered>>
    BY <1>8, Zenon DEF Push, Returns
  <2> QED BY <1>0, <2>1, Zenon DEF Promise!Push, ready
<1>9. ASSUME NEW j \in Jobs, Remove(j) PROVE Promise!Remove(j)
  <2>1. CASE j \notin items
    <3>1. NothingFound("Remove")
      BY <1>9, <2>1, Zenon DEF Remove
    <3> QED BY <1>0, <1>2, <2>1, <3>1, Zenon DEF Promise!Remove, Promise!Returns, ready
  <2>2. CASE j \in items
    <3>1. /\ last' = [op |-> "Remove", result |-> j] /\ items' = items \ {j}
          /\ UNCHANGED <<job, disordered>>
      BY <1>9, <2>2, Zenon DEF Remove, Returns
    <3> QED BY <1>0, <2>2, <3>1, Zenon DEF Promise!Remove, Promise!Returns, ready
  <2> QED BY <2>1, <2>2, Zenon
<1>10. CASE UNCHANGED vars
  BY <1>10, Zenon DEF vars, Promise!vars
<1> QED BY <1>5, <1>6, <1>7, <1>8, <1>9, <1>10, Zenon DEF Next, Promise!Next

\* The heap is the set the manager's model takes it for: Pop and PopReady
\* return a job that no other precedes, until a job is written to inside it.
THEOREM KeepsPromiseHolds == Spec => KeepsPromise
<1>1. Init => Promise!Init
  <2> SUFFICES ASSUME Init PROVE Promise!Init
    BY Zenon
  <2>1. heap = <<>> /\ disordered = FALSE /\ last = [op |-> "New", result |-> NoJob]
    BY Zenon DEF Init
  <2>2. {heap[i] : i \in DOMAIN heap} = {}
    BY <2>1
  <2> QED BY <2>1, <2>2, Zenon DEF Promise!Init
<1> QED BY <1>1, HeapInit, HeapStep, PromiseStep, PTL DEF Spec, KeepsPromise, Promise!Spec
=============================================================================
