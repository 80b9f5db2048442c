------------------------- MODULE RecordCodecProofs -------------------------
(***************************************************************************)
(* Unmarshal gives back what Marshal was given, for records with strings   *)
(* and headers of any number and length that their length fields can hold. *)
(***************************************************************************)
EXTENDS RecordCodec, WellFoundedInduction, TLAPS

-----------------------------------------------------------------------------
(* Sequences of cells *)

\* Every non-empty set of numbers has a least element.
LEMMA LeastNumber ==
  ASSUME NEW S, S \subseteq Nat, S # {}
  PROVE  \E x \in S : \A y \in S : x <= y
<1> DEFINE Less == {p \in Nat \X Nat : p[1] < p[2]}
<1>1. IsWellFoundedOn(Less, Nat)
  BY NatLessThanWellFounded, Zenon DEF OpToRel
<1>2. PICK x \in S : \A y \in S : ~(<<y, x>> \in Less)
  <2> HIDE DEF Less
  <2> QED BY <1>1, WFMin, Zenon
<1>3. \A y \in S : ~(y < x)
  BY <1>2, Zenon
<1> QED BY <1>3

\* A set of numbers that holds 0 and every successor up to n is all of them.
LEMMA Upwards ==
  ASSUME NEW n \in Nat, NEW S, 0 \in S, \A k \in 1 .. n : k - 1 \in S => k \in S
  PROVE  \A k \in 0 .. n : k \in S
<1> DEFINE T == {k \in 0 .. n : k \notin S}
<1> SUFFICES ASSUME T # {} PROVE FALSE
  BY Zenon
<1>1. PICK x \in T : \A y \in T : x <= y
  <2>1. T \subseteq Nat
    OBVIOUS
  <2> HIDE DEF T
  <2> QED BY <2>1, LeastNumber, Zenon
<1>2. x \in 1 .. n /\ x - 1 \in 0 .. n /\ ~(x <= x - 1)
  <2>1. x \in 0 .. n /\ x # 0
    BY Zenon
  <2> QED BY <2>1
<1>3. x - 1 \in S
  BY <1>1, <1>2, Zenon
<1> QED BY <1>2, <1>3, Zenon

\* d is a and then b.
Joins(a, b, d) ==
    /\ d \in Seq(Nat) /\ Len(d) = Len(a) + Len(b)
    /\ \A i \in 1 .. Len(a) : d[i] = a[i]
    /\ \A i \in 1 .. Len(b) : d[Len(a) + i] = b[i]

LEMMA JoinFacts ==
  ASSUME NEW a \in Seq(Nat), NEW b \in Seq(Nat)
  PROVE  Joins(a, b, a \o b)
BY DEF Joins

\* Sequences with the same elements are the same.
LEMMA SameSeq ==
  ASSUME NEW S, NEW a \in Seq(S), NEW b \in Seq(S), Len(a) = Len(b),
         \A i \in 1 .. Len(a) : a[i] = b[i]
  PROVE  a = b
<1>1. a \in [1 .. Len(a) -> S] /\ b \in [1 .. Len(a) -> S]
  OBVIOUS
<1>2. a = [i \in 1 .. Len(a) |-> a[i]] /\ b = [i \in 1 .. Len(a) |-> b[i]]
  BY <1>1, Zenon
<1> QED BY <1>2, Zenon

\* A part of a sequence.
LEMMA PartFacts ==
  ASSUME NEW r \in Seq(Nat), NEW m \in 0 .. Len(r), NEW n \in m .. Len(r)
  PROVE  /\ SubSeq(r, m + 1, n) \in Seq(Nat) /\ Len(SubSeq(r, m + 1, n)) = n - m
         /\ \A i \in 1 .. n - m : SubSeq(r, m + 1, n)[i] = r[m + i]
OBVIOUS

\* Position i of parts y and z long is the (i - y)th of the second.
InSecond(x, y, z, n, i) == i - y \in 1 .. z /\ y + (i - y) = i /\ x + (i - y) = n + i

LEMMA SecondPart ==
  ASSUME NEW x \in Nat, NEW y \in Nat, NEW z \in Nat, NEW n \in Nat, NEW i \in 1 .. y + z,
         y = x - n, ~(i <= y)
  PROVE  InSecond(x, y, z, n, i)
BY DEF InSecond

\* r and what is missing of the data are p and then s: r begins with p, and s
\* follows, or r ends before p does.
Begins(r, missing, p, s) ==
    /\ Len(p) <= Len(r) =>
         /\ \A i \in 1 .. Len(p) : r[i] = p[i]
         /\ SubSeq(r, Len(p) + 1, Len(r)) \in Seq(Nat)
         /\ SubSeq(r, Len(p) + 1, Len(r)) \o missing = s
    /\ Len(p) > Len(r) => missing # <<>>
    /\ \A i \in 1 .. Len(p) : i <= Len(r) => r[i] = p[i]

LEMMA Behind ==
  ASSUME NEW r \in Seq(Nat), NEW missing \in Seq(Nat), NEW p \in Seq(Nat), NEW s \in Seq(Nat),
         r \o missing = p \o s
  PROVE  Begins(r, missing, p, s)
<1> DEFINE d == r \o missing
           n == Len(p)
<1>1. Len(r) \in Nat /\ Len(missing) \in Nat /\ n \in Nat /\ Len(s) \in Nat
  OBVIOUS
<1>2. Joins(r, missing, d) /\ Joins(p, s, d)
  <2>1. Joins(r, missing, r \o missing) /\ Joins(p, s, p \o s)
    BY JoinFacts, Zenon
  <2> QED BY <2>1, Zenon
<1> HIDE DEF d
<1>3. /\ Len(d) = Len(r) + Len(missing) /\ Len(d) = n + Len(s)
      /\ \A i \in 1 .. Len(r) : d[i] = r[i]
      /\ \A i \in 1 .. Len(missing) : d[Len(r) + i] = missing[i]
      /\ \A i \in 1 .. n : d[i] = p[i]
      /\ \A i \in 1 .. Len(s) : d[n + i] = s[i]
  BY <1>2, Zenon DEF Joins
<1>4. \A i \in 1 .. n : i <= Len(r) => r[i] = p[i]
  BY <1>1, <1>3
<1>5. n > Len(r) => missing # <<>>
  <2>1. missing = <<>> => Len(missing) = 0
    OBVIOUS
  <2> QED BY <1>1, <1>3, <2>1
<1>6. ASSUME n <= Len(r)
      PROVE  /\ SubSeq(r, n + 1, Len(r)) \in Seq(Nat)
             /\ SubSeq(r, n + 1, Len(r)) \o missing = s
  <2> DEFINE t == SubSeq(r, n + 1, Len(r))
             u == t \o missing
  <2>1. t \in Seq(Nat) /\ Len(t) = Len(r) - n /\ \A i \in 1 .. Len(t) : t[i] = r[n + i]
    <3>1. n \in 0 .. Len(r) /\ Len(r) \in n .. Len(r)
      BY <1>1, <1>6
    <3>2. /\ SubSeq(r, n + 1, Len(r)) \in Seq(Nat) /\ Len(SubSeq(r, n + 1, Len(r))) = Len(r) - n
          /\ \A i \in 1 .. Len(r) - n : SubSeq(r, n + 1, Len(r))[i] = r[n + i]
      BY <3>1, PartFacts, Zenon
    <3> QED BY <3>2, Zenon
  <2> HIDE DEF t
  <2>2. /\ u \in Seq(Nat) /\ Len(u) = Len(t) + Len(missing)
        /\ \A i \in 1 .. Len(t) : u[i] = t[i]
        /\ \A i \in 1 .. Len(missing) : u[Len(t) + i] = missing[i]
    BY <2>1, JoinFacts, Zenon DEF Joins
  <2> HIDE DEF u
  <2>3. Len(u) = Len(s)
    BY <1>1, <1>3, <2>1, <2>2
  <2>4. ASSUME NEW i \in 1 .. Len(s) PROVE u[i] = s[i]
    <3>1. CASE i <= Len(t)
      <4>1. i \in 1 .. Len(t) /\ n + i \in 1 .. Len(r)
        BY <1>1, <1>6, <2>1, <3>1
      <4>2. i \in 1 .. Len(s)
        OBVIOUS
      <4> QED BY <1>3, <2>1, <2>2, <4>1, <4>2, Zenon
    <3>2. CASE ~(i <= Len(t))
      <4> DEFINE j == i - Len(t)
      <4>1. j \in 1 .. Len(missing) /\ Len(t) + j = i /\ Len(r) + j = n + i
        <5>1. Len(t) \in Nat /\ Len(missing) \in Nat /\ Len(r) \in Nat /\ n \in Nat
          BY <1>1, <2>1
        <5>2. i \in 1 .. Len(t) + Len(missing)
          BY <2>2, <2>3, Zenon
        <5>3. InSecond(Len(r), Len(t), Len(missing), n, i)
          BY <2>1, <3>2, <5>1, <5>2, SecondPart, Zenon
        <5> QED BY <5>3, Zenon DEF InSecond
      <4> HIDE DEF j
      <4> QED BY <1>3, <2>2, <4>1, Zenon
    <3> QED BY <3>1, <3>2, Zenon
  <2>5. u = s
    BY <2>2, <2>3, <2>4, SameSeq, Zenon
  <2> QED BY <2>1, <2>5, Zenon DEF t, u
<1>7. n <= Len(r) => \A i \in 1 .. n : i <= Len(r)
  BY <1>1
<1> QED BY <1>4, <1>5, <1>6, <1>7, Zenon DEF Begins

\* A cell is read: it is there, and the rest follows, or the data ends before it.
CellIs(r, missing, c, s) ==
    /\ r # <<>> => /\ Head(r) = c
                   /\ SubSeq(r, 1 + 1, Len(r)) \in Seq(Nat)
                   /\ SubSeq(r, 1 + 1, Len(r)) \o missing = s
    /\ r = <<>> => missing # <<>>

LEMMA CellRead ==
  ASSUME NEW r \in Seq(Nat), NEW missing \in Seq(Nat), NEW c \in Nat, NEW s \in Seq(Nat),
         r \o missing = <<c>> \o s
  PROVE  CellIs(r, missing, c, s)
<1> DEFINE p == <<c>>
<1>1. p \in Seq(Nat) /\ Len(p) = 1 /\ p[1] = c /\ Len(r) \in Nat
  OBVIOUS
<1>2. (r = <<>> <=> Len(r) = 0) /\ (r # <<>> => Head(r) = r[1])
  OBVIOUS
<1> HIDE DEF p
<1>3. Begins(r, missing, p, s)
  BY <1>1, Behind, Zenon DEF p
<1>4. (r # <<>> => Len(p) <= Len(r)) /\ (r = <<>> => Len(p) > Len(r)) /\ 1 \in 1 .. Len(p)
  BY <1>1, <1>2
<1> QED BY <1>1, <1>2, <1>3, <1>4, Zenon DEF Begins, CellIs

\* A length and as many cells are read, or the data ends before them.
StringIs(r, missing, s, t) ==
    LET has == r # <<>> /\ Len(Tail(r)) >= Head(r)
    IN  /\ has => /\ SubSeq(r, 2, Head(r) + 1) = s
                  /\ SubSeq(r, (Head(r) + 1) + 1, Len(r)) \in Seq(Nat)
                  /\ SubSeq(r, (Head(r) + 1) + 1, Len(r)) \o missing = t
        /\ ~has => missing # <<>>

LEMMA StringRead ==
  ASSUME NEW r \in Seq(Nat), NEW missing \in Seq(Nat), NEW s \in Seq(Nat), NEW t \in Seq(Nat),
         r \o missing = (<<Len(s)>> \o s) \o t
  PROVE  StringIs(r, missing, s, t)
<1> DEFINE n == Len(s)
           p == <<n>> \o s
<1>1. n \in Nat /\ Len(r) \in Nat /\ Len(<<n>>) = 1 /\ <<n>>[1] = n /\ <<n>> \in Seq(Nat)
  OBVIOUS
<1>2. p \in Seq(Nat) /\ Len(p) = n + 1 /\ p[1] = n /\ \A i \in 1 .. n : p[i + 1] = s[i]
  <2>1. /\ p \in Seq(Nat) /\ Len(p) = 1 + n
        /\ \A i \in 1 .. 1 : p[i] = <<n>>[i]
        /\ \A i \in 1 .. n : p[1 + i] = s[i]
    BY <1>1, JoinFacts DEF Joins
  <2> QED BY <1>1, <2>1
<1>3. /\ r = <<>> <=> Len(r) = 0
      /\ r # <<>> => Head(r) = r[1] /\ Len(Tail(r)) = Len(r) - 1
  OBVIOUS
<1>4. Begins(r, missing, p, t)
  <2>1. r \o missing = p \o t
    BY Zenon
  <2> HIDE DEF p
  <2> QED BY <1>2, <2>1, Behind, Zenon
<1> HIDE DEF p
<1>5. r # <<>> => Head(r) = n
  <2>1. 1 \in 1 .. Len(p) /\ (r # <<>> => 1 <= Len(r))
    BY <1>1, <1>2, <1>3
  <2> QED BY <1>2, <1>3, <1>4, <2>1, Zenon DEF Begins
<1>6. (r # <<>> /\ Len(Tail(r)) >= Head(r)) <=> Len(p) <= Len(r)
  <2>1. r # <<>> => Head(r) = n /\ Len(Tail(r)) = Len(r) - 1
    BY <1>3, <1>5, Zenon
  <2>2. CASE r = <<>>
    BY <1>1, <1>2, <1>3, <2>2
  <2>3. CASE r # <<>>
    <3>1. Len(Tail(r)) >= Head(r) <=> Len(r) - 1 >= n
      BY <2>1, <2>3, Zenon
    <3>2. Len(r) - 1 >= n <=> n + 1 <= Len(r)
      BY <1>1
    <3> QED BY <1>2, <2>3, <3>1, <3>2, Zenon
  <2> QED BY <2>2, <2>3, Zenon
<1>7. ASSUME Len(p) <= Len(r) PROVE SubSeq(r, 2, n + 1) = s
  <2> DEFINE q == SubSeq(r, 2, n + 1)
  <2>1. q \in Seq(Nat) /\ Len(q) = n /\ \A i \in 1 .. n : q[i] = r[i + 1]
    <3>1. 1 \in 0 .. Len(r) /\ n + 1 \in 1 .. Len(r) /\ (n + 1) - 1 = n /\ 1 + 1 = 2
          /\ \A i \in 1 .. n : 1 + i = i + 1
      BY <1>1, <1>2, <1>7
    <3>2. /\ SubSeq(r, 1 + 1, n + 1) \in Seq(Nat) /\ Len(SubSeq(r, 1 + 1, n + 1)) = (n + 1) - 1
          /\ \A i \in 1 .. (n + 1) - 1 : SubSeq(r, 1 + 1, n + 1)[i] = r[1 + i]
      BY <3>1, PartFacts, Zenon
    <3> QED BY <3>1, <3>2, Zenon
  <2>2. \A i \in 1 .. n : q[i] = s[i]
    <3>1. \A i \in 1 .. n : i + 1 \in 1 .. Len(p)
      BY <1>1, <1>2
    <3> HIDE DEF q
    <3> QED BY <1>2, <1>4, <1>7, <2>1, <3>1, Zenon DEF Begins
  <2> HIDE DEF q
  <2>3. q = s
    BY <2>1, <2>2, SameSeq, Zenon
  <2> QED BY <2>3, Zenon DEF q
<1>8. Len(p) <= Len(r) \/ Len(p) > Len(r)
  BY <1>1, <1>2
<1> QED BY <1>2, <1>4, <1>5, <1>6, <1>7, <1>8, Zenon DEF Begins, StringIs

-----------------------------------------------------------------------------
(* What Marshal writes *)

Fields == {"type", "queue", "job", "priority", "tries", "maxRetries", "eta",
           "payload", "headers", "lease", "reason"}

\* The order of the fields.
LEMMA LayoutFacts ==
  /\ Len(Layout) = 11
  /\ Layout[1] = "type" /\ Layout[2] = "queue" /\ Layout[3] = "job"
  /\ Layout[4] = "priority" /\ Layout[5] = "tries" /\ Layout[6] = "maxRetries"
  /\ Layout[7] = "eta" /\ Layout[8] = "payload" /\ Layout[9] = "headers"
  /\ Layout[10] = "lease" /\ Layout[11] = "reason"
BY DEF Layout

LEMMA LayoutFields ==
  /\ \A k \in 1 .. 11 : Layout[k] \in Fields
  /\ \A f \in Fields : \E k \in 1 .. 11 : Layout[k] = f
  /\ \A k \in 1 .. 11 : k # 9 => Layout[k] # "headers"
<1>1. \A k \in 1 .. 11 : k = 1 \/ k = 2 \/ k = 3 \/ k = 4 \/ k = 5 \/ k = 6 \/ k = 7
                         \/ k = 8 \/ k = 9 \/ k = 10 \/ k = 11
  OBVIOUS
<1>2. 1 \in 1 .. 11 /\ 2 \in 1 .. 11 /\ 3 \in 1 .. 11 /\ 4 \in 1 .. 11 /\ 5 \in 1 .. 11
      /\ 6 \in 1 .. 11 /\ 7 \in 1 .. 11 /\ 8 \in 1 .. 11 /\ 9 \in 1 .. 11
      /\ 10 \in 1 .. 11 /\ 11 \in 1 .. 11
  OBVIOUS
<1>3. \A k \in 1 .. 11 : Layout[k] \in Fields
  BY <1>1, LayoutFacts, Zenon DEF Fields
<1>4. \A f \in Fields : \E k \in 1 .. 11 : Layout[k] = f
  BY <1>2, LayoutFacts, Zenon DEF Fields
<1>5. \A k \in 1 .. 11 : k # 9 => Layout[k] # "headers"
  BY <1>1, LayoutFacts, Zenon
<1> QED BY <1>3, <1>4, <1>5, Zenon

\* The fields up to the n-th.
LEMMA UpToField ==
  ASSUME NEW n \in 1 .. 11
  PROVE  \A k \in 1 .. n : k \in 1 .. 11 /\ (k = n \/ k \in 1 .. n - 1)
OBVIOUS

LEMMA BeforeHeaders == 9 \in 1 .. 11 /\ \A k \in 1 .. 9 - 1 : k \in 1 .. 11 /\ k # 9
OBVIOUS

\* A record is a function on the fields.
LEMMA RecordFacts ==
  ASSUME rec \in Records
  PROVE  /\ {rec.type, rec.priority, rec.tries, rec.maxRetries, rec.eta} \subseteq Nat
         /\ {rec.queue, rec.job, rec.payload, rec.lease, rec.reason} \subseteq Seq(Nat)
         /\ rec.headers \in [DOMAIN rec.headers -> Seq(Nat)]
         /\ DOMAIN rec.headers \subseteq Seq(Nat) /\ Cardinality(DOMAIN rec.headers) \in Nat
         /\ rec = [f \in Fields |-> rec[f]]
<1>1. /\ rec \in [type : Nat, queue : Seq(Nat), job : Seq(Nat), priority : Nat, tries : Nat,
                  maxRetries : Nat, eta : Nat, payload : Seq(Nat),
                  headers : [DOMAIN rec.headers -> Seq(Nat)], lease : Seq(Nat), reason : Seq(Nat)]
      /\ DOMAIN rec.headers \subseteq Seq(Nat) /\ Cardinality(DOMAIN rec.headers) \in Nat
  BY RecordCodecAssumption, Zenon
<1>2. rec = [f \in Fields |-> rec[f]]
  BY <1>1, Zenon DEF Fields
<1>3. /\ rec.type \in Nat /\ rec.priority \in Nat /\ rec.tries \in Nat
      /\ rec.maxRetries \in Nat /\ rec.eta \in Nat
      /\ rec.queue \in Seq(Nat) /\ rec.job \in Seq(Nat) /\ rec.payload \in Seq(Nat)
      /\ rec.lease \in Seq(Nat) /\ rec.reason \in Seq(Nat)
      /\ rec.headers \in [DOMAIN rec.headers -> Seq(Nat)]
  BY <1>1, Zenon
<1> QED BY <1>1, <1>2, <1>3, Zenon

\* A string whose length fits is written as its length and its characters.
LEMMA PutStringFacts ==
  ASSUME NEW s \in Seq(Nat)
  PROVE  /\ PutString(s) \in Seq(Nat)
         /\ Len(s) < LenMod => PutString(s) = <<Len(s)>> \o s
<1>1. LenMod \in Nat \ {0} /\ Len(s) \in Nat
  BY RecordCodecAssumption
<1>2. Len(s) % LenMod \in Nat /\ (Len(s) < LenMod => Len(s) % LenMod = Len(s))
  BY <1>1
<1>3. <<Len(s) % LenMod>> \in Seq(Nat)
  BY <1>2
<1> QED BY <1>2, <1>3, JoinFacts, Zenon DEF PutString, Joins

\* Every key is written, and as many as there are.
LEMMA OrderFacts ==
  ASSUME rec \in Records, NEW order \in Orders(rec.headers)
  PROVE  /\ Len(order) \in Nat /\ DOMAIN order = 1 .. Len(order)
         /\ Len(order) = Cardinality(DOMAIN rec.headers)
         /\ \A i \in 1 .. Len(order) :
              /\ order[i] \in DOMAIN rec.headers /\ order[i] \in Seq(Nat)
              /\ rec.headers[order[i]] \in Seq(Nat)
         /\ \A k \in DOMAIN rec.headers : \E i \in 1 .. Len(order) : order[i] = k
<1> DEFINE n == Cardinality(DOMAIN rec.headers)
           D == DOMAIN rec.headers
<1>1. n \in Nat /\ D \subseteq Seq(Nat) /\ rec.headers \in [D -> Seq(Nat)]
  BY RecordFacts, Zenon
<1>2. order \in [1 .. n -> D] /\ \A k \in D : \E i \in DOMAIN order : order[i] = k
  BY Zenon DEF Orders
<1> HIDE DEF n, D
<1>3. Len(order) = n /\ DOMAIN order = 1 .. n
  <2>1. order \in Seq(D) /\ DOMAIN order = 1 .. n
    BY <1>1, <1>2
  <2> QED BY <1>1, <2>1
<1> QED BY <1>1, <1>2, <1>3, Zenon DEF n, D

\* There is a function that LastHeaders can define by recursion.
LEMMA PutExists ==
  ASSUME NEW n \in Nat, NEW R
  PROVE  \E f : f = [k \in 0 .. n |-> IF k = 0 THEN <<>> ELSE R[k] \o f[k - 1]]
<1> DEFINE Puts(m, f) == f = [k \in 0 .. m |-> IF k = 0 THEN <<>> ELSE R[k] \o f[k - 1]]
           S == {m \in 0 .. n : \E f : Puts(m, f)}
<1>1. 0 \in S
  <2> DEFINE f == [k \in 0 .. 0 |-> <<>>]
  <2>1. f = [k \in 0 .. 0 |-> IF k = 0 THEN <<>> ELSE R[k] \o f[k - 1]]
    OBVIOUS
  <2>2. Puts(0, f) /\ 0 \in 0 .. n
    BY <2>1
  <2> QED BY <2>2, Zenon
<1>2. ASSUME NEW m \in 1 .. n, m - 1 \in S PROVE m \in S
  <2>1. PICK f : Puts(m - 1, f)
    BY <1>2, Zenon
  <2> DEFINE g == [k \in 0 .. m |-> IF k = m THEN R[m] \o f[m - 1] ELSE f[k]]
  <2>2. \A k \in 0 .. m - 1 : g[k] = f[k] /\ k # m
    OBVIOUS
  <2>3. \A k \in 0 .. m - 1 : f[k] = IF k = 0 THEN <<>> ELSE R[k] \o f[k - 1]
    BY <2>1, Zenon
  <2>4. ASSUME NEW k \in 0 .. m PROVE g[k] = IF k = 0 THEN <<>> ELSE R[k] \o g[k - 1]
    <3>1. CASE k = m
      <4>0. m - 1 \in 0 .. m - 1 /\ m # 0 /\ m \in 0 .. m
        OBVIOUS
      <4>1. m - 1 \in 0 .. m - 1 /\ m # 0 /\ g[k] = R[m] \o f[m - 1]
        BY <3>1, <4>0, Zenon
      <4> HIDE DEF g
      <4>2. g[m - 1] = f[m - 1]
        BY <2>2, <4>1, Zenon
      <4> QED BY <3>1, <4>1, <4>2, Zenon
    <3>2. CASE k # m
      <4>1. k \in 0 .. m - 1 /\ (k # 0 => k - 1 \in 0 .. m - 1)
        BY <3>2
      <4> HIDE DEF g
      <4> QED BY <2>2, <2>3, <4>1, Zenon
    <3> QED BY <3>1, <3>2, Zenon
  <2>5. DOMAIN g = 0 .. m /\ g = [k \in 0 .. m |-> g[k]]
    BY Zenon
  <2> HIDE DEF g
  <2>6. Puts(m, g)
    BY <2>4, <2>5, Zenon
  <2>7. m \in 0 .. n
    OBVIOUS
  <2> QED BY <2>6, <2>7, Zenon
<1>3. n \in 0 .. n
  OBVIOUS
<1>4. n \in S
  <2> HIDE DEF S
  <2> QED BY <1>1, <1>2, <1>3, Upwards, Zenon
<1> QED BY <1>4, Zenon

\* The last n headers are the first of them and the last n - 1.
LEMMA LastHeadersFacts ==
  ASSUME rec \in Records, NEW order \in Orders(rec.headers)
  PROVE  LET last == LastHeaders(rec.headers, order)
         IN  /\ last[0] = <<>>
             /\ \A n \in 0 .. Len(order) : last[n] \in Seq(Nat)
             /\ \A n \in 1 .. Len(order) :
                  last[n] = PutString(order[n]) \o PutString(rec.headers[order[n]]) \o last[n - 1]
<1> DEFINE h == rec.headers
           m == Len(order)
           last == LastHeaders(h, order)
           R == [k \in 1 .. m |-> PutString(order[k]) \o PutString(h[order[k]])]
           Puts(f, k) == IF k = 0 THEN <<>>
                         ELSE PutString(order[k]) \o PutString(h[order[k]]) \o f[k - 1]
<1>1. m \in Nat
  BY OrderFacts, Zenon
<1>2. \A k \in 1 .. m : R[k] = PutString(order[k]) \o PutString(h[order[k]]) /\ R[k] \in Seq(Nat)
  <2>1. \A k \in 1 .. m : PutString(order[k]) \in Seq(Nat) /\ PutString(h[order[k]]) \in Seq(Nat)
    BY OrderFacts, PutStringFacts, Zenon
  <2> QED BY <2>1, JoinFacts, Zenon DEF Joins
<1>3. \E f : f = [k \in 0 .. m |-> Puts(f, k)]
  <2>1. PICK f : f = [k \in 0 .. m |-> IF k = 0 THEN <<>> ELSE R[k] \o f[k - 1]]
    BY <1>1, PutExists, Zenon
  <2>2. \A k \in 0 .. m : (IF k = 0 THEN <<>> ELSE R[k] \o f[k - 1]) = Puts(f, k)
    <3>1. \A k \in 0 .. m : k = 0 \/ k \in 1 .. m
      BY <1>1
    <3> HIDE DEF R
    <3> QED BY <1>2, <3>1, Zenon
  <2> HIDE DEF R
  <2>3. [k \in 0 .. m |-> IF k = 0 THEN <<>> ELSE R[k] \o f[k - 1]] = [k \in 0 .. m |-> Puts(f, k)]
    BY <2>2, Zenon
  <2> QED BY <2>1, <2>3, Zenon
<1>4. last = [k \in 0 .. m |-> Puts(last, k)]
  BY <1>3, Zenon DEF LastHeaders
<1> HIDE DEF last
<1>5. /\ last[0] = <<>>
      /\ \A n \in 1 .. m : last[n] = PutString(order[n]) \o PutString(h[order[n]]) \o last[n - 1]
  <2>1. 0 \in 0 .. m /\ \A n \in 1 .. m : n \in 0 .. m /\ n # 0
    BY <1>1
  <2> QED BY <1>4, <2>1, Zenon
<1>6. \A n \in 0 .. m : last[n] \in Seq(Nat)
  <2> DEFINE S == {n \in 0 .. m : last[n] \in Seq(Nat)}
  <2>1. 0 \in S
    <3>1. 0 \in 0 .. m /\ <<>> \in Seq(Nat)
      BY <1>1
    <3> QED BY <1>5, <3>1, Zenon
  <2>2. ASSUME NEW k \in 1 .. m, k - 1 \in S PROVE k \in S
    <3>1. k \in 0 .. m /\ last[k] = R[k] \o last[k - 1] /\ R[k] \in Seq(Nat)
      <4>1. k \in 0 .. m
        OBVIOUS
      <4> HIDE DEF R
      <4> QED BY <1>2, <1>5, <4>1, Zenon
    <3> HIDE DEF R
    <3> QED BY <2>2, <3>1, JoinFacts, Zenon DEF Joins
  <2> HIDE DEF S
  <2>3. \A k \in 0 .. m : k \in S
    BY <1>1, <2>1, <2>2, Upwards, Zenon
  <2> QED BY <2>3, Zenon DEF S
<1> QED BY <1>5, <1>6, Zenon DEF last

\* The cells of a field.
Cells(f, order) ==
    IF f \in Strings THEN PutString(rec[f])
    ELSE IF f = "payload" THEN <<Len(rec.payload)>> \o rec.payload
    ELSE IF f = "headers" THEN PutHeaders(rec.headers, order)
    ELSE IF f = "eta" THEN <<rec.eta \div TicksPerMs>>
    ELSE <<rec[f]>>

\* ahead[k] is the data from the k-th field on.
AheadOf(ahead, order) ==
    /\ \A k \in 1 .. 12 : ahead[k] \in Seq(Nat)
    /\ ahead[12] = <<>>
    /\ \A k \in 1 .. 11 : ahead[k] = Cells(Layout[k], order) \o ahead[k + 1]

\* A place in one of three parts, counted from the first or from the second.
InParts(x, y, z, i) ==
    \/ i \in 1 .. x /\ i \in 1 .. x + y
    \/ \E j \in 1 .. y : j \in 1 .. y + z /\ x + j = i /\ i \in 1 .. x + y
    \/ \E j \in 1 .. z : (x + y) + j = i /\ y + j \in 1 .. y + z /\ x + (y + j) = i

LEMMA ThreeParts ==
  ASSUME NEW x \in Nat, NEW y \in Nat, NEW z \in Nat, NEW i \in 1 .. (x + y) + z
  PROVE  InParts(x, y, z, i)
<1>1. CASE i <= x
  <2>1. i \in 1 .. x /\ i \in 1 .. x + y
    BY <1>1
  <2> QED BY <2>1, Zenon DEF InParts
<1>2. CASE ~(i <= x) /\ i <= x + y
  <2>1. i - x \in 1 .. y /\ i - x \in 1 .. y + z /\ x + (i - x) = i /\ i \in 1 .. x + y
    BY <1>2
  <2> QED BY <2>1, Zenon DEF InParts
<1>3. CASE ~(i <= x + y)
  <2> DEFINE j == i - (x + y)
  <2>1. j \in 1 .. z /\ (x + y) + j = i /\ y + j \in 1 .. y + z /\ x + (y + j) = i
    BY <1>3
  <2> QED BY <2>1, Zenon DEF InParts
<1> QED BY <1>1, <1>2, <1>3, Zenon

Assoc(a, b, c) == (a \o b) \o c = a \o (b \o c)

\* Whether the first two or the last two are put together first.
LEMMA Associative ==
  ASSUME NEW a \in Seq(Nat), NEW b \in Seq(Nat), NEW c \in Seq(Nat)
  PROVE  Assoc(a, b, c)
<1> DEFINE ab == a \o b
           bc == b \o c
           l == ab \o c
           r == a \o bc
<1>1. Joins(a, b, ab) /\ Joins(b, c, bc)
  BY JoinFacts, Zenon
<1>2. ab \in Seq(Nat) /\ bc \in Seq(Nat)
  BY <1>1, Zenon DEF Joins
<1> HIDE DEF ab, bc
<1>3. Joins(ab, c, l) /\ Joins(a, bc, r)
  BY <1>2, JoinFacts, Zenon
<1> HIDE DEF l, r
<1>4. Len(a) \in Nat /\ Len(b) \in Nat /\ Len(c) \in Nat
  OBVIOUS
<1>5. /\ l \in Seq(Nat) /\ r \in Seq(Nat)
      /\ Len(ab) = Len(a) + Len(b) /\ Len(bc) = Len(b) + Len(c)
      /\ Len(l) = Len(ab) + Len(c) /\ Len(r) = Len(a) + Len(bc)
  BY <1>1, <1>3, Zenon DEF Joins
<1>6. Len(l) = Len(r)
  BY <1>4, <1>5
<1>7. ASSUME NEW i \in 1 .. Len(l) PROVE l[i] = r[i]
  <2>1. i \in 1 .. (Len(a) + Len(b)) + Len(c)
    BY <1>5, <1>7, Zenon
  <2>2. CASE i \in 1 .. Len(a) /\ i \in 1 .. Len(ab)
    <3>1. l[i] = ab[i] /\ r[i] = a[i]
      BY <1>3, <2>2, Zenon DEF Joins
    <3> QED BY <1>1, <2>2, <3>1, Zenon DEF Joins
  <2>3. ASSUME NEW j \in 1 .. Len(b), j \in 1 .. Len(bc), Len(a) + j = i, i \in 1 .. Len(ab)
        PROVE  l[i] = r[i]
    <3>1. l[i] = ab[i] /\ r[i] = bc[j]
      BY <1>3, <2>3, Zenon DEF Joins
    <3> QED BY <1>1, <2>3, <3>1, Zenon DEF Joins
  <2>4. ASSUME NEW j \in 1 .. Len(c), Len(ab) + j = i,
               Len(b) + j \in 1 .. Len(bc), Len(a) + (Len(b) + j) = i
        PROVE  l[i] = r[i]
    <3>1. l[i] = c[j] /\ r[i] = bc[Len(b) + j]
      BY <1>3, <2>4, Zenon DEF Joins
    <3> QED BY <1>1, <2>4, <3>1, Zenon DEF Joins
  <2>5. InParts(Len(a), Len(b), Len(c), i)
    BY <1>4, <2>1, ThreeParts, Zenon
  <2> QED BY <1>5, <2>2, <2>3, <2>4, <2>5, Zenon DEF InParts
<1>8. l = r
  BY <1>5, <1>6, <1>7, SameSeq, Zenon
<1> QED BY <1>8, Zenon DEF Assoc, l, r, ab, bc

\* The fields but for the headers.
LEMMA CellsFacts ==
  ASSUME rec \in Records, NEW order \in Orders(rec.headers)
  PROVE  /\ \A f \in Fields : Cells(f, order) \in Seq(Nat)
         /\ \A f \in Strings : Cells(f, order) = PutString(rec[f]) /\ rec[f] \in Seq(Nat)
         /\ Cells("payload", order) = <<Len(rec.payload)>> \o rec.payload
         /\ Cells("headers", order) = PutHeaders(rec.headers, order)
         /\ Cells("eta", order) = <<rec.eta \div TicksPerMs>> /\ rec.eta \div TicksPerMs \in Nat
         /\ \A f \in Scalars \ {"eta"} : Cells(f, order) = <<rec[f]>> /\ rec[f] \in Nat
<1>1. \A f \in Strings : Cells(f, order) = PutString(rec[f]) /\ rec[f] \in Seq(Nat)
  BY RecordFacts, Zenon DEF Cells, Strings
<1>2. /\ Cells("payload", order) = <<Len(rec.payload)>> \o rec.payload
      /\ Cells("headers", order) = PutHeaders(rec.headers, order)
      /\ Cells("eta", order) = <<rec.eta \div TicksPerMs>>
  BY Zenon DEF Cells, Strings
<1>3. \A f \in Scalars \ {"eta"} : Cells(f, order) = <<rec[f]>> /\ rec[f] \in Nat
  BY RecordFacts, Zenon DEF Cells, Strings, Scalars
<1>4. rec.eta \div TicksPerMs \in Nat
  <2>1. rec.eta \in Nat /\ TicksPerMs \in Nat \ {0}
    BY RecordFacts, RecordCodecAssumption, Zenon
  <2> QED BY <2>1
<1>5. \A x \in Nat : <<x>> \in Seq(Nat)
  OBVIOUS
<1>6. Cells("payload", order) \in Seq(Nat)
  <2>1. rec.payload \in Seq(Nat)
    BY RecordFacts, Zenon
  <2>2. Len(rec.payload) \in Nat
    BY <2>1
  <2> QED BY <1>2, <1>5, <2>1, <2>2, JoinFacts, Zenon DEF Joins
<1>7. Cells("headers", order) \in Seq(Nat)
  <2> DEFINE last == LastHeaders(rec.headers, order)[Len(order)]
             n == Len(order) % LenMod
  <2>1. Len(order) \in Nat
    BY OrderFacts, Zenon
  <2>2. n \in Nat /\ Len(order) \in 0 .. Len(order)
    <3>1. LenMod \in Nat \ {0}
      BY RecordCodecAssumption, Zenon
    <3> QED BY <2>1, <3>1
  <2>3. last \in Seq(Nat)
    BY <2>2, LastHeadersFacts, Zenon
  <2> HIDE DEF last, n
  <2>4. <<n>> \in Seq(Nat)
    BY <1>5, <2>2, Zenon
  <2>5. <<n>> \o last \in Seq(Nat)
    BY <2>3, <2>4, JoinFacts, Zenon DEF Joins
  <2> QED BY <1>2, <2>5, Zenon DEF PutHeaders, last, n
<1>8. \A f \in Strings : Cells(f, order) \in Seq(Nat)
  BY <1>1, PutStringFacts, Zenon
<1>9. \A f \in Scalars : Cells(f, order) \in Seq(Nat)
  BY <1>2, <1>3, <1>4, <1>5, Zenon
<1>10. \A f \in Fields : f \in Strings \/ f \in Scalars \/ f \in {"payload", "headers"}
  BY Zenon DEF Fields, Strings, Scalars
<1> QED BY <1>1, <1>2, <1>3, <1>4, <1>6, <1>7, <1>8, <1>9, <1>10, Zenon

\* The data is c1 and then c2 up to c11, and a[k] is what begins with the k-th.
Parts(a, c1, c2, c3, c4, c5, c6, c7, c8, c9, c10, c11) ==
    /\ \A k \in 1 .. 12 : a[k] \in Seq(Nat)
    /\ a[1] = c1 \o c2 \o c3 \o c4 \o c5 \o c6 \o c7 \o c8 \o c9 \o c10 \o c11
    /\ a[1] = c1 \o a[2] /\ a[2] = c2 \o a[3] /\ a[3] = c3 \o a[4]
    /\ a[4] = c4 \o a[5] /\ a[5] = c5 \o a[6] /\ a[6] = c6 \o a[7]
    /\ a[7] = c7 \o a[8] /\ a[8] = c8 \o a[9] /\ a[9] = c9 \o a[10]
    /\ a[10] = c10 \o a[11] /\ a[11] = c11 \o a[12] /\ a[12] = <<>>

LEMMA ElevenParts ==
  ASSUME NEW c1 \in Seq(Nat), NEW c2 \in Seq(Nat), NEW c3 \in Seq(Nat), NEW c4 \in Seq(Nat),
         NEW c5 \in Seq(Nat), NEW c6 \in Seq(Nat), NEW c7 \in Seq(Nat), NEW c8 \in Seq(Nat),
         NEW c9 \in Seq(Nat), NEW c10 \in Seq(Nat), NEW c11 \in Seq(Nat)
  PROVE  \E a : Parts(a, c1, c2, c3, c4, c5, c6, c7, c8, c9, c10, c11)
<1> DEFINE a12 == <<>>
           a11 == c11 \o a12
           a10 == c10 \o a11
           a9 == c9 \o a10
           a8 == c8 \o a9
           a7 == c7 \o a8
           a6 == c6 \o a7
           a5 == c5 \o a6
           a4 == c4 \o a5
           a3 == c3 \o a4
           a2 == c2 \o a3
           a1 == c1 \o a2
           p1 == c1
           p2 == p1 \o c2
           p3 == p2 \o c3
           p4 == p3 \o c4
           p5 == p4 \o c5
           p6 == p5 \o c6
           p7 == p6 \o c7
           p8 == p7 \o c8
           p9 == p8 \o c9
           p10 == p9 \o c10
           p11 == p10 \o c11
<1>1. a12 \in Seq(Nat)
  OBVIOUS
<1> HIDE DEF a1, a2, a3, a4, a5, a6, a7, a8, a9, a10, a11, a12, p1, p2, p3, p4, p5, p6, p7, p8, p9, p10, p11
<1>2. a11 \in Seq(Nat) /\ a11 = c11 \o a12
  BY <1>1, JoinFacts, Zenon DEF Joins, a11
<1>3. a10 \in Seq(Nat) /\ a10 = c10 \o a11
  BY <1>2, JoinFacts, Zenon DEF Joins, a10
<1>4. a9 \in Seq(Nat) /\ a9 = c9 \o a10
  BY <1>3, JoinFacts, Zenon DEF Joins, a9
<1>5. a8 \in Seq(Nat) /\ a8 = c8 \o a9
  BY <1>4, JoinFacts, Zenon DEF Joins, a8
<1>6. a7 \in Seq(Nat) /\ a7 = c7 \o a8
  BY <1>5, JoinFacts, Zenon DEF Joins, a7
<1>7. a6 \in Seq(Nat) /\ a6 = c6 \o a7
  BY <1>6, JoinFacts, Zenon DEF Joins, a6
<1>8. a5 \in Seq(Nat) /\ a5 = c5 \o a6
  BY <1>7, JoinFacts, Zenon DEF Joins, a5
<1>9. a4 \in Seq(Nat) /\ a4 = c4 \o a5
  BY <1>8, JoinFacts, Zenon DEF Joins, a4
<1>10. a3 \in Seq(Nat) /\ a3 = c3 \o a4
  BY <1>9, JoinFacts, Zenon DEF Joins, a3
<1>11. a2 \in Seq(Nat) /\ a2 = c2 \o a3
  BY <1>10, JoinFacts, Zenon DEF Joins, a2
<1>12. a1 \in Seq(Nat) /\ a1 = c1 \o a2
  BY <1>11, JoinFacts, Zenon DEF Joins, a1
<1>13. p1 \in Seq(Nat) /\ p1 \o a2 = a1
  BY Zenon DEF p1, a1
<1>14. p2 \in Seq(Nat) /\ p2 \o a3 = a1
  <2>1. p2 = p1 \o c2 /\ p2 \in Seq(Nat)
    BY <1>13, JoinFacts, Zenon DEF Joins, p2
  <2>2. Assoc(p1, c2, a3)
    BY <1>10, <1>13, Associative, Zenon
  <2> QED BY <1>11, <1>13, <2>1, <2>2, Zenon DEF Assoc
<1>15. p3 \in Seq(Nat) /\ p3 \o a4 = a1
  <2>1. p3 = p2 \o c3 /\ p3 \in Seq(Nat)
    BY <1>14, JoinFacts, Zenon DEF Joins, p3
  <2>2. Assoc(p2, c3, a4)
    BY <1>9, <1>14, Associative, Zenon
  <2> QED BY <1>10, <1>14, <2>1, <2>2, Zenon DEF Assoc
<1>16. p4 \in Seq(Nat) /\ p4 \o a5 = a1
  <2>1. p4 = p3 \o c4 /\ p4 \in Seq(Nat)
    BY <1>15, JoinFacts, Zenon DEF Joins, p4
  <2>2. Assoc(p3, c4, a5)
    BY <1>8, <1>15, Associative, Zenon
  <2> QED BY <1>9, <1>15, <2>1, <2>2, Zenon DEF Assoc
<1>17. p5 \in Seq(Nat) /\ p5 \o a6 = a1
  <2>1. p5 = p4 \o c5 /\ p5 \in Seq(Nat)
    BY <1>16, JoinFacts, Zenon DEF Joins, p5
  <2>2. Assoc(p4, c5, a6)
    BY <1>7, <1>16, Associative, Zenon
  <2> QED BY <1>8, <1>16, <2>1, <2>2, Zenon DEF Assoc
<1>18. p6 \in Seq(Nat) /\ p6 \o a7 = a1
  <2>1. p6 = p5 \o c6 /\ p6 \in Seq(Nat)
    BY <1>17, JoinFacts, Zenon DEF Joins, p6
  <2>2. Assoc(p5, c6, a7)
    BY <1>6, <1>17, Associative, Zenon
  <2> QED BY <1>7, <1>17, <2>1, <2>2, Zenon DEF Assoc
<1>19. p7 \in Seq(Nat) /\ p7 \o a8 = a1
  <2>1. p7 = p6 \o c7 /\ p7 \in Seq(Nat)
    BY <1>18, JoinFacts, Zenon DEF Joins, p7
  <2>2. Assoc(p6, c7, a8)
    BY <1>5, <1>18, Associative, Zenon
  <2> QED BY <1>6, <1>18, <2>1, <2>2, Zenon DEF Assoc
<1>20. p8 \in Seq(Nat) /\ p8 \o a9 = a1
  <2>1. p8 = p7 \o c8 /\ p8 \in Seq(Nat)
    BY <1>19, JoinFacts, Zenon DEF Joins, p8
  <2>2. Assoc(p7, c8, a9)
    BY <1>4, <1>19, Associative, Zenon
  <2> QED BY <1>5, <1>19, <2>1, <2>2, Zenon DEF Assoc
<1>21. p9 \in Seq(Nat) /\ p9 \o a10 = a1
  <2>1. p9 = p8 \o c9 /\ p9 \in Seq(Nat)
    BY <1>20, JoinFacts, Zenon DEF Joins, p9
  <2>2. Assoc(p8, c9, a10)
    BY <1>3, <1>20, Associative, Zenon
  <2> QED BY <1>4, <1>20, <2>1, <2>2, Zenon DEF Assoc
<1>22. p10 \in Seq(Nat) /\ p10 \o a11 = a1
  <2>1. p10 = p9 \o c10 /\ p10 \in Seq(Nat)
    BY <1>21, JoinFacts, Zenon DEF Joins, p10
  <2>2. Assoc(p9, c10, a11)
    BY <1>2, <1>21, Associative, Zenon
  <2> QED BY <1>3, <1>21, <2>1, <2>2, Zenon DEF Assoc
<1>23. p11 \in Seq(Nat) /\ p11 \o a12 = a1
  <2>1. p11 = p10 \o c11 /\ p11 \in Seq(Nat)
    BY <1>22, JoinFacts, Zenon DEF Joins, p11
  <2>2. Assoc(p10, c11, a12)
    BY <1>1, <1>22, Associative, Zenon
  <2> QED BY <1>2, <1>22, <2>1, <2>2, Zenon DEF Assoc
<1>24. p11 = a1
  <2>1. p11 \o <<>> = p11
    BY <1>23
  <2> QED BY <1>23, <2>1, Zenon DEF a12
<1> DEFINE a == <<a1, a2, a3, a4, a5, a6, a7, a8, a9, a10, a11, a12>>
<1>25. a[1] = a1 /\ a[2] = a2 /\ a[3] = a3 /\ a[4] = a4 /\ a[5] = a5 /\ a[6] = a6
      /\ a[7] = a7 /\ a[8] = a8 /\ a[9] = a9 /\ a[10] = a10 /\ a[11] = a11 /\ a[12] = a12
  OBVIOUS
<1>26. \A k \in 1 .. 12 : k = 1 \/ k = 2 \/ k = 3 \/ k = 4 \/ k = 5 \/ k = 6 \/ k = 7 \/ k = 8 \/ k = 9 \/ k = 10 \/ k = 11 \/ k = 12
  OBVIOUS
<1> HIDE DEF a
<1>27. \A k \in 1 .. 12 : a[k] \in Seq(Nat)
  BY <1>1, <1>2, <1>3, <1>4, <1>5, <1>6, <1>7, <1>8, <1>9, <1>10, <1>11, <1>12, <1>25, <1>26, Zenon
<1>28. a[1] = c1 \o c2 \o c3 \o c4 \o c5 \o c6 \o c7 \o c8 \o c9 \o c10 \o c11
  BY <1>24, <1>25, Zenon DEF p1, p2, p3, p4, p5, p6, p7, p8, p9, p10, p11
<1> QED BY <1>2, <1>3, <1>4, <1>5, <1>6, <1>7, <1>8, <1>9, <1>10, <1>11, <1>12, <1>25, <1>27, <1>28, Zenon DEF Parts, a12

\* What Marshal writes, seen from each field.
LEMMA MarshalAhead ==
  ASSUME rec \in Records, NEW order \in Orders(rec.headers)
  PROVE  \E ahead : AheadOf(ahead, order) /\ ahead[1] = Marshal(rec, order)
<1> DEFINE C(f) == Cells(f, order)
<1>1. \A f \in Fields : C(f) \in Seq(Nat)
  BY CellsFacts, Zenon
<1>2. C("type") \in Seq(Nat) /\ C("queue") \in Seq(Nat) /\ C("job") \in Seq(Nat) /\ C("priority") \in Seq(Nat)
      /\ C("tries") \in Seq(Nat) /\ C("maxRetries") \in Seq(Nat) /\ C("eta") \in Seq(Nat)
      /\ C("payload") \in Seq(Nat) /\ C("headers") \in Seq(Nat) /\ C("lease") \in Seq(Nat) /\ C("reason") \in Seq(Nat)
  BY <1>1, Zenon DEF Fields
<1> HIDE DEF C
<1>3. PICK a : Parts(a, C("type"), C("queue"), C("job"), C("priority"),
                 C("tries"), C("maxRetries"), C("eta"), C("payload"),
                 C("headers"), C("lease"), C("reason"))
  BY <1>2, ElevenParts, Zenon
<1>4. a[1] = Marshal(rec, order)
  <2>1. /\ a[1] = C("type") \o C("queue") \o C("job") \o C("priority") \o C("tries") \o C("maxRetries")
                   \o C("eta") \o C("payload") \o C("headers") \o C("lease") \o C("reason")
    BY <1>3, Zenon DEF Parts
  <2>2. /\ C("type") = <<rec.type>>
        /\ C("priority") = <<rec.priority>>
        /\ C("tries") = <<rec.tries>>
        /\ C("maxRetries") = <<rec.maxRetries>>
        /\ C("queue") = PutString(rec.queue)
        /\ C("job") = PutString(rec.job)
        /\ C("lease") = PutString(rec.lease)
        /\ C("reason") = PutString(rec.reason)
        /\ C("eta") = <<rec.eta \div TicksPerMs>>
        /\ C("payload") = <<Len(rec.payload)>> \o rec.payload
        /\ C("headers") = PutHeaders(rec.headers, order)
    BY CellsFacts, Zenon DEF C, Scalars, Strings
  <2> QED BY <2>1, <2>2, Zenon DEF Marshal
<1>5. \A k \in 1 .. 11 : a[k] = Cells(Layout[k], order) \o a[k + 1]
  <2>1. \A k \in 1 .. 11 : k = 1 \/ k = 2 \/ k = 3 \/ k = 4 \/ k = 5 \/ k = 6 \/ k = 7 \/ k = 8 \/ k = 9 \/ k = 10 \/ k = 11
    OBVIOUS
  <2>2. 1 + 1 = 2 /\ 2 + 1 = 3 /\ 3 + 1 = 4 /\ 4 + 1 = 5 /\ 5 + 1 = 6 /\ 6 + 1 = 7
        /\ 7 + 1 = 8 /\ 8 + 1 = 9 /\ 9 + 1 = 10 /\ 10 + 1 = 11 /\ 11 + 1 = 12
    OBVIOUS
  <2>3. /\ a[1] = Cells(Layout[1], order) \o a[2]
        /\ a[2] = Cells(Layout[2], order) \o a[3]
        /\ a[3] = Cells(Layout[3], order) \o a[4]
        /\ a[4] = Cells(Layout[4], order) \o a[5]
        /\ a[5] = Cells(Layout[5], order) \o a[6]
        /\ a[6] = Cells(Layout[6], order) \o a[7]
        /\ a[7] = Cells(Layout[7], order) \o a[8]
        /\ a[8] = Cells(Layout[8], order) \o a[9]
        /\ a[9] = Cells(Layout[9], order) \o a[10]
        /\ a[10] = Cells(Layout[10], order) \o a[11]
        /\ a[11] = Cells(Layout[11], order) \o a[12]
    BY <1>3, LayoutFacts, Zenon DEF Parts, C
  <2> DEFINE Q(k) == a[k] = Cells(Layout[k], order) \o a[k + 1]
  <2>4. Q(1) /\ Q(2) /\ Q(3) /\ Q(4) /\ Q(5) /\ Q(6) /\ Q(7) /\ Q(8) /\ Q(9) /\ Q(10) /\ Q(11)
    BY <2>2, <2>3, Zenon
  <2> HIDE DEF Q
  <2>5. \A k \in 1 .. 11 : Q(k)
    BY <2>1, <2>4, Zenon
  <2> QED BY <2>5, Zenon DEF Q
<1>6. AheadOf(a, order)
  BY <1>3, <1>5, Zenon DEF Parts, AheadOf
<1> QED BY <1>4, <1>6, Zenon

-----------------------------------------------------------------------------
(* The inductive invariant *)

NoHeaders == [k \in {} |-> <<>>]

\* The headers that were read when some are left.
HeadersRead(order) ==
    out.headers = [k \in {order[i] : i \in left + 1 .. Len(order)} |-> rec.headers[k]]

\* A key is next, or the value of the key that was read.
HeaderNext(order, ahead, data) ==
    LET last == LastHeaders(rec.headers, order)
    IN  \/ key = <<>> /\ data = last[left] \o ahead[10]
        \/ /\ key = <<order[left]>>
           /\ data = PutString(rec.headers[order[left]]) \o (last[left - 1] \o ahead[10])

\* What is out is right, and the data to come is that of the fields, or of the
\* headers, that are still to be read.
Progress(order, ahead, data) ==
    /\ field \in 1 .. 11
    /\ out = [f \in Fields |-> out[f]]
    /\ \A k \in 1 .. field - 1 : out[Layout[k]] = Stored[Layout[k]]
    /\ \/ /\ left = 0 /\ key = <<>> /\ data = ahead[field]
          /\ field <= 9 => out.headers = NoHeaders
       \/ /\ field = 9 /\ left \in 1 .. Len(order) /\ HeadersRead(order)
          /\ HeaderNext(order, ahead, data)

Underway(order, missing, ahead) ==
    /\ order \in Orders(rec.headers) /\ AheadOf(ahead, order)
    /\ missing \in Seq(Nat) /\ (cut <=> missing # <<>>)
    /\ rest \in Seq(Nat) /\ Progress(order, ahead, rest \o missing)

\* While a record is read, what is left of the data and what is missing of it
\* are the fields still to come, written in some order of the headers.
CodecInv ==
    /\ rec \in Records
    /\ status \in {"new", "reading", "done", "invalid"}
    /\ status = "new" => field = 1 /\ left = 0 /\ key = <<>> /\ out = EmptyRecord
    /\ Fits => /\ status = "reading" => \E order, missing, ahead : Underway(order, missing, ahead)
               /\ status = "done" => out = Stored /\ rest = <<>> /\ ~cut
               /\ status = "invalid" => cut

-----------------------------------------------------------------------------
(* Steps *)

\* What Marshal keeps of each field.
LEMMA StoredFacts ==
  ASSUME rec \in Records
  PROVE  /\ Stored = [f \in Fields |-> Stored[f]]
         /\ Stored["eta"] = (rec.eta \div TicksPerMs) * TicksPerMs
         /\ \A f \in Fields : f # "eta" => Stored[f] = rec[f]
<1>1. rec = [f \in Fields |-> rec[f]]
  BY RecordFacts, Zenon
<1>2. "eta" \in Fields
  BY Zenon DEF Fields
<1> QED BY <1>1, <1>2, Zenon DEF Stored

\* Nothing of the record that is written changes.
LEMMA SameRecord ==
  ASSUME rec' = rec
  PROVE  /\ Stored' = Stored /\ (Fits' <=> Fits)
         /\ \A order, ahead : AheadOf(ahead, order)' <=> AheadOf(ahead, order)
BY Zenon DEF Stored, Fits, AheadOf, Cells

\* The value of a field is stored, and it is the one that was written: what
\* follows is the next field, or nothing.
LEMMA StoreStep ==
  ASSUME rec \in Records, status = "reading", field \in 1 .. 11,
         NEW order \in Orders(rec.headers), NEW missing \in Seq(Nat), NEW ahead,
         AheadOf(ahead, order), (cut <=> missing # <<>>),
         out = [f \in Fields |-> out[f]],
         \A k \in 1 .. field - 1 : out[Layout[k]] = Stored[Layout[k]],
         field < 9 => out.headers = NoHeaders,
         Store(Layout[field], Stored[Layout[field]]),
         rest' \in Seq(Nat), rest' \o missing = ahead[field + 1],
         left' = 0, key' = <<>>, rec' = rec, cut' = cut
  PROVE  /\ status' \in {"reading", "done"}
         /\ status' = "reading" => Underway(order, missing, ahead)'
         /\ status' = "done" => out' = Stored' /\ rest' = <<>> /\ ~cut'
<1>1. /\ Stored' = Stored /\ (AheadOf(ahead, order)' <=> AheadOf(ahead, order))
  BY SameRecord, Zenon
<1>2. /\ Layout[field] \in Fields /\ field' = field + 1
      /\ out' = [out EXCEPT ![Layout[field]] = Stored[Layout[field]]]
      /\ status' = IF field = 11 THEN "done" ELSE "reading"
  <2>1. Layout[field] \in Fields
    BY LayoutFields, Zenon
  <2> QED BY <2>1, LayoutFacts, Zenon DEF Store
<1>3. /\ out' = [f \in Fields |-> out'[f]]
      /\ \A f \in Fields : out'[f] = IF f = Layout[field] THEN Stored[f] ELSE out[f]
  BY <1>2, Zenon
<1>4. \A k \in 1 .. field : out'[Layout[k]] = Stored[Layout[k]]
  <2>1. \A k \in 1 .. field : k \in 1 .. 11 /\ (k = field \/ k \in 1 .. field - 1)
    BY UpToField, Zenon
  <2> QED BY <1>3, <2>1, LayoutFields, Zenon
<1>5. CASE field = 11
  <2>1. ASSUME NEW f \in Fields PROVE out'[f] = Stored[f]
    <3>1. PICK k \in 1 .. 11 : Layout[k] = f
      BY LayoutFields, Zenon
    <3> QED BY <1>4, <1>5, <3>1, Zenon
  <2>2. out' = Stored
    <3>1. Stored = [f \in Fields |-> Stored[f]]
      BY StoredFacts, Zenon
    <3>2. [f \in Fields |-> out'[f]] = [f \in Fields |-> Stored[f]]
      BY <2>1, Zenon
    <3> QED BY <1>3, <3>1, <3>2, Zenon
  <2>3. rest' \o missing = <<>>
    <3>1. 11 + 1 = 12
      OBVIOUS
    <3> QED BY <1>5, <3>1, Zenon DEF AheadOf
  <2>4. rest' = <<>> /\ missing = <<>>
    <3>1. \A a, b \in Seq(Nat) : a \o b = <<>> => a = <<>> /\ b = <<>>
      OBVIOUS
    <3> QED BY <2>3, <3>1, Zenon
  <2> QED BY <1>1, <1>2, <1>5, <2>2, <2>4, Zenon
<1>6. CASE field # 11
  <2>1. field' \in 1 .. 11 /\ field' - 1 = field /\ (field' <= 9 => field < 9)
    BY <1>2, <1>6
  <2>2. field' <= 9 => out'.headers = NoHeaders
    <3>1. field < 9 => Layout[field] # "headers"
      <4>1. field < 9 => field # 9
        OBVIOUS
      <4> QED BY <4>1, LayoutFields, Zenon
    <3>2. "headers" \in Fields
      BY Zenon DEF Fields
    <3> QED BY <1>3, <2>1, <3>1, <3>2, Zenon
  <2>3. Progress(order, ahead, rest \o missing)'
    BY <1>1, <1>2, <1>3, <1>4, <2>1, <2>2, Zenon DEF Progress
  <2> QED BY <1>1, <1>2, <1>6, <2>3, Zenon DEF Underway
<1> QED BY <1>5, <1>6, Zenon

\* The strings of a record that fits are read as they were written.
LEMMA FitsFacts ==
  ASSUME Fits, rec \in Records, NEW order \in Orders(rec.headers)
  PROVE  /\ \A f \in Strings : Cells(f, order) = <<Len(rec[f])>> \o rec[f] /\ rec[f] \in Seq(Nat)
         /\ Len(order) < LenMod
         /\ \A i \in 1 .. Len(order) :
              /\ PutString(order[i]) = <<Len(order[i])>> \o order[i]
              /\ PutString(rec.headers[order[i]])
                   = <<Len(rec.headers[order[i]])>> \o rec.headers[order[i]]
<1>1. \A f \in Strings : /\ Cells(f, order) = PutString(rec[f]) /\ rec[f] \in Seq(Nat)
                         /\ Len(rec[f]) < LenMod
  BY CellsFacts, Zenon DEF Fits
<1>2. /\ Len(order) < LenMod
      /\ \A i \in 1 .. Len(order) :
           /\ order[i] \in Seq(Nat) /\ Len(order[i]) < LenMod
           /\ rec.headers[order[i]] \in Seq(Nat) /\ Len(rec.headers[order[i]]) < LenMod
  BY OrderFacts, Zenon DEF Fits
<1> QED BY <1>1, <1>2, PutStringFacts, Zenon

\* The handling of a field begins with the state of the fields before it.
AtField(order, missing, ahead) ==
    /\ rec \in Records /\ Fits /\ status = "reading"
    /\ Underway(order, missing, ahead)

\* A step that ends the reading, or goes on as it should.
Goes(order, missing, ahead) ==
    /\ status \in {"reading", "done", "invalid"}
    /\ status = "reading" => Underway(order, missing, ahead)
    /\ status = "done" => out = Stored /\ rest = <<>> /\ ~cut
    /\ status = "invalid" => cut

\* The data ends where more was written.
LEMMA InvalidStep ==
  ASSUME NEW order, NEW missing, NEW ahead, AtField(order, missing, ahead),
         Invalid, cut' = cut, missing # <<>>
  PROVE  Goes(order, missing, ahead)'
BY Zenon DEF AtField, Underway, Invalid, Goes

\* Outside the headers the data is that of the field and of those behind it.
LEMMA FieldAhead ==
  ASSUME NEW order, NEW missing, NEW ahead, AtField(order, missing, ahead),
         Layout[field] # "headers" \/ left = 0
  PROVE  /\ order \in Orders(rec.headers) /\ missing \in Seq(Nat) /\ rest \in Seq(Nat)
         /\ field \in 1 .. 11 /\ field + 1 \in 1 .. 12 /\ ahead[field + 1] \in Seq(Nat)
         /\ left = 0 /\ key = <<>> /\ (field <= 9 => out.headers = NoHeaders)
         /\ rest \o missing = Cells(Layout[field], order) \o ahead[field + 1]
<1>1. Progress(order, ahead, rest \o missing) /\ AheadOf(ahead, order)
  BY Zenon DEF AtField, Underway
<1>2. field \in 1 .. 11 /\ (field = 9 => Layout[field] = "headers") /\ 0 \notin 1 .. Len(order)
  <2>1. 0 \notin 1 .. Len(order)
    OBVIOUS
  <2> QED BY <1>1, <2>1, LayoutFacts, Zenon DEF Progress
<1>3. field + 1 \in 1 .. 12
  BY <1>2
<1>4. /\ left = 0 /\ key = <<>> /\ rest \o missing = ahead[field]
      /\ field <= 9 => out.headers = NoHeaders
  BY <1>1, <1>2, Zenon DEF Progress
<1> QED BY <1>1, <1>2, <1>3, <1>4, Zenon DEF AheadOf, AtField, Underway

\* A field was read and stored.
LEMMA FieldStored ==
  ASSUME NEW order, NEW missing, NEW ahead, AtField(order, missing, ahead),
         Layout[field] # "headers" \/ left = 0,
         Store(Layout[field], Stored[Layout[field]]),
         rest' \in Seq(Nat), rest' \o missing = ahead[field + 1],
         left' = 0, key' = <<>>, rec' = rec, cut' = cut
  PROVE  Goes(order, missing, ahead)'
<1>1. /\ order \in Orders(rec.headers) /\ missing \in Seq(Nat) /\ field \in 1 .. 11
      /\ field <= 9 => out.headers = NoHeaders
  BY FieldAhead, Zenon
<1>2. field < 9 => field <= 9
  BY <1>1
<1>3. /\ rec \in Records /\ status = "reading" /\ AheadOf(ahead, order)
      /\ (cut <=> missing # <<>>) /\ out = [f \in Fields |-> out[f]]
      /\ \A k \in 1 .. field - 1 : out[Layout[k]] = Stored[Layout[k]]
  BY Zenon DEF AtField, Underway, Progress
<1>4. /\ status' \in {"reading", "done"}
      /\ status' = "reading" => Underway(order, missing, ahead)'
      /\ status' = "done" => out' = Stored' /\ rest' = <<>> /\ ~cut'
  BY <1>1, <1>2, <1>3, StoreStep, Zenon
<1> QED BY <1>4, Zenon DEF Goes

\* A string is there, and is what was written.
LEMMA StringAhead ==
  ASSUME rest \in Seq(Nat), NEW missing \in Seq(Nat), NEW s \in Seq(Nat), NEW t \in Seq(Nat),
         rest \o missing = (<<Len(s)>> \o s) \o t
  PROVE  /\ HasString /\ Skip(Head(rest) + 1) =>
              NextString = s /\ rest' \in Seq(Nat) /\ rest' \o missing = t
         /\ ~HasString => missing # <<>>
<1>1. StringIs(rest, missing, s, t)
  BY StringRead, Zenon
<1> QED BY <1>1, Zenon DEF StringIs, HasString, NextString, Skip

LEMMA ReadScalarStep ==
  ASSUME NEW order, NEW missing, NEW ahead, AtField(order, missing, ahead), ReadScalar
  PROVE  Goes(order, missing, ahead)'
<1> DEFINE f == Layout[field]
           t == ahead[field + 1]
           c == IF f = "eta" THEN rec.eta \div TicksPerMs ELSE rec[f]
<1>1. f \in Scalars /\ f # "headers" /\ rec' = rec /\ cut' = cut /\ f \in Fields
  BY Zenon DEF ReadScalar, Reading, Scalars, Fields
<1>2. /\ order \in Orders(rec.headers) /\ missing \in Seq(Nat) /\ rest \in Seq(Nat)
      /\ t \in Seq(Nat) /\ left = 0 /\ key = <<>> /\ rest \o missing = Cells(f, order) \o t
  BY <1>1, FieldAhead, Zenon
<1>3. rec \in Records
  BY Zenon DEF AtField
<1>4. Cells(f, order) = <<c>> /\ c \in Nat
  BY <1>1, <1>2, <1>3, CellsFacts, Zenon
<1>5. Stored[f] = IF f = "eta" THEN c * TicksPerMs ELSE c
  BY <1>1, <1>3, StoredFacts, Zenon
<1> HIDE DEF c, t
<1>6. CellIs(rest, missing, c, t)
  BY <1>2, <1>4, CellRead, Zenon
<1>7. CASE rest = <<>> /\ Invalid
  BY <1>1, <1>6, <1>7, InvalidStep, Zenon DEF CellIs
<1>8. CASE /\ rest # <<>>
           /\ Store(f, IF f = "eta" THEN Head(rest) * TicksPerMs ELSE Head(rest))
           /\ Skip(1) /\ UNCHANGED <<left, key>>
  <2>1. rest' \in Seq(Nat) /\ rest' \o missing = t /\ Head(rest) = c
    BY <1>6, <1>8, Zenon DEF CellIs, Skip
  <2>2. Store(f, Stored[f])
    BY <1>5, <1>8, <2>1, Zenon
  <2> QED BY <1>1, <1>2, <1>8, <2>1, <2>2, FieldStored, Zenon DEF t
<1> QED BY <1>7, <1>8, Zenon DEF ReadScalar

LEMMA ReadStringStep ==
  ASSUME NEW order, NEW missing, NEW ahead, AtField(order, missing, ahead), ReadString
  PROVE  Goes(order, missing, ahead)'
<1> DEFINE f == Layout[field]
           t == ahead[field + 1]
<1>1. /\ f \in Strings \cup {"payload"} /\ f # "headers" /\ f # "eta"
      /\ rec' = rec /\ cut' = cut /\ f \in Fields
  BY Zenon DEF ReadString, Reading, Strings, Fields
<1>2. /\ order \in Orders(rec.headers) /\ missing \in Seq(Nat) /\ rest \in Seq(Nat)
      /\ t \in Seq(Nat) /\ left = 0 /\ key = <<>> /\ rest \o missing = Cells(f, order) \o t
  BY <1>1, FieldAhead, Zenon
<1>3. rec \in Records /\ Fits
  BY Zenon DEF AtField
<1>4. Cells(f, order) = <<Len(rec[f])>> \o rec[f] /\ rec[f] \in Seq(Nat)
  <2>1. CASE f = "payload"
    BY <1>2, <1>3, <2>1, CellsFacts, RecordFacts, Zenon
  <2>2. CASE f \in Strings
    BY <1>2, <1>3, <2>2, FitsFacts, Zenon
  <2> QED BY <1>1, <2>1, <2>2, Zenon
<1>5. Stored[f] = rec[f]
  BY <1>1, <1>3, StoredFacts, Zenon
<1> HIDE DEF t
<1>6. /\ HasString /\ Skip(Head(rest) + 1) =>
           NextString = rec[f] /\ rest' \in Seq(Nat) /\ rest' \o missing = t
      /\ ~HasString => missing # <<>>
  BY <1>2, <1>4, StringAhead, Zenon
<1>7. CASE ~HasString /\ Invalid
  BY <1>1, <1>6, <1>7, InvalidStep, Zenon
<1>8. CASE /\ HasString /\ Store(f, NextString)
           /\ Skip(Head(rest) + 1) /\ UNCHANGED <<left, key>>
  <2>1. rest' \in Seq(Nat) /\ rest' \o missing = t /\ Store(f, Stored[f])
    BY <1>5, <1>6, <1>8, Zenon
  <2> QED BY <1>1, <1>2, <1>8, <2>1, FieldStored, Zenon DEF t
<1> QED BY <1>7, <1>8, Zenon DEF ReadString

\* All headers are those of the record.
LEMMA AllRead ==
  ASSUME rec \in Records, NEW order \in Orders(rec.headers)
  PROVE  [k \in {order[i] : i \in 1 .. Len(order)} |-> rec.headers[k]] = rec.headers
<1>1. {order[i] : i \in 1 .. Len(order)} = DOMAIN rec.headers
  <2>1. \A i \in 1 .. Len(order) : order[i] \in DOMAIN rec.headers
    BY OrderFacts, Zenon
  <2>2. \A k \in DOMAIN rec.headers : \E i \in 1 .. Len(order) : order[i] = k
    BY OrderFacts, Zenon
  <2> QED BY <2>1, <2>2, Zenon
<1>2. rec.headers = [k \in DOMAIN rec.headers |-> rec.headers[k]]
  BY RecordFacts, Zenon
<1> QED BY <1>1, <1>2, Zenon

\* The headers begin with a key, its value follows, and then the others.
LEMMA HeaderAhead ==
  ASSUME rec \in Records, NEW order \in Orders(rec.headers), NEW n \in 1 .. Len(order),
         NEW t \in Seq(Nat)
  PROVE  LET last == LastHeaders(rec.headers, order)
             others == last[n - 1] \o t
             value == PutString(rec.headers[order[n]])
         IN  /\ others \in Seq(Nat) /\ value \o others \in Seq(Nat)
             /\ last[n] \o t = PutString(order[n]) \o (value \o others)
<1> DEFINE last == LastHeaders(rec.headers, order)
           a == PutString(order[n])
           b == PutString(rec.headers[order[n]])
           c == last[n - 1]
<1>1. n - 1 \in 0 .. Len(order)
  <2>1. Len(order) \in Nat
    BY OrderFacts, Zenon
  <2> QED BY <2>1
<1>2. last[n] = (a \o b) \o c /\ c \in Seq(Nat)
  BY <1>1, LastHeadersFacts, Zenon
<1>3. a \in Seq(Nat) /\ b \in Seq(Nat)
  <2>1. order[n] \in Seq(Nat) /\ rec.headers[order[n]] \in Seq(Nat)
    BY OrderFacts, Zenon
  <2> QED BY <2>1, PutStringFacts, Zenon
<1> HIDE DEF a, b, c
<1>4. Joins(a, b, a \o b) /\ Joins(c, t, c \o t)
  BY <1>2, <1>3, JoinFacts, Zenon
<1>5. a \o b \in Seq(Nat) /\ c \o t \in Seq(Nat)
  BY <1>4, Zenon DEF Joins
<1>6. Joins(b, c \o t, b \o (c \o t))
  BY <1>3, <1>5, JoinFacts, Zenon
<1>7. b \o (c \o t) \in Seq(Nat)
  BY <1>6, Zenon DEF Joins
<1>8. Assoc(a \o b, c, t)
  BY <1>2, <1>5, Associative, Zenon
<1>9. Assoc(a, b, c \o t)
  BY <1>3, <1>5, Associative, Zenon
<1>10. last[n] \o t = a \o (b \o (c \o t))
  BY <1>2, <1>8, <1>9, Zenon DEF Assoc
<1> QED BY <1>5, <1>7, <1>10, Zenon DEF a, b, c

\* The next header, or its value, is to be read.
LEMMA HeadersStep ==
  ASSUME NEW order, NEW missing, NEW ahead, AtField(order, missing, ahead), field = 9,
         rec' = rec, cut' = cut, status' = status, field' = field, rest' \in Seq(Nat),
         out' = [f \in Fields |-> out'[f]],
         \A f \in Fields : f # "headers" => out'[f] = out[f],
         left' \in 1 .. Len(order), HeadersRead(order)', HeaderNext(order, ahead, rest \o missing)'
  PROVE  Goes(order, missing, ahead)'
<1>1. AheadOf(ahead, order)' /\ Stored' = Stored
  BY SameRecord, Zenon DEF AtField, Underway
<1>2. 9 \in 1 .. 11 /\ \A k \in 1 .. 9 - 1 : k \in 1 .. 11 /\ k # 9
  BY BeforeHeaders, Zenon
<1>3. \A k \in 1 .. field' - 1 : out'[Layout[k]] = Stored[Layout[k]]
  <2>1. \A k \in 1 .. 9 - 1 : out[Layout[k]] = Stored[Layout[k]]
    BY Zenon DEF AtField, Underway, Progress
  <2> QED BY <1>2, <2>1, LayoutFields, Zenon
<1>4. Progress(order, ahead, rest \o missing)'
  BY <1>1, <1>2, <1>3, Zenon DEF Progress
<1>5. Underway(order, missing, ahead)'
  BY <1>1, <1>4, Zenon DEF AtField, Underway
<1> QED BY <1>5, Zenon DEF AtField, Goes

LEMMA ReadCountStep ==
  ASSUME NEW order, NEW missing, NEW ahead, AtField(order, missing, ahead), ReadCount
  PROVE  Goes(order, missing, ahead)'
<1> DEFINE n == Len(order)
           last == LastHeaders(rec.headers, order)
           t == ahead[10]
<1>1. Layout[field] = "headers" /\ left = 0 /\ rec' = rec /\ cut' = cut
  BY Zenon DEF ReadCount, Reading
<1>2. /\ order \in Orders(rec.headers) /\ missing \in Seq(Nat) /\ rest \in Seq(Nat)
      /\ field \in 1 .. 11 /\ ahead[field + 1] \in Seq(Nat) /\ key = <<>>
      /\ field <= 9 => out.headers = NoHeaders
      /\ rest \o missing = Cells(Layout[field], order) \o ahead[field + 1]
  BY <1>1, FieldAhead, Zenon
<1>3. field = 9
  BY <1>1, <1>2, LayoutFields, Zenon
<1>4. 9 <= 9 /\ 9 + 1 = 10
  OBVIOUS
<1>5. /\ t \in Seq(Nat) /\ out.headers = NoHeaders
      /\ rest \o missing = Cells("headers", order) \o t
  BY <1>1, <1>2, <1>3, <1>4, Zenon
<1>6. rec \in Records /\ Fits /\ status = "reading" /\ out = [f \in Fields |-> out[f]]
  BY Zenon DEF AtField, Underway, Progress
<1>7. n \in Nat /\ n < LenMod /\ n \in 0 .. n
  <2>1. n \in Nat /\ n < LenMod
    BY <1>2, <1>6, OrderFacts, FitsFacts, Zenon
  <2> QED BY <2>1
<1>8. last[n] \in Seq(Nat) /\ last[0] = <<>>
  BY <1>2, <1>6, <1>7, LastHeadersFacts, Zenon
<1>9. n % LenMod = n
  <2>1. LenMod \in Nat \ {0}
    BY RecordCodecAssumption, Zenon
  <2> QED BY <1>7, <2>1
<1>10. Cells("headers", order) = <<n>> \o last[n]
  <2>1. Cells("headers", order) = PutHeaders(rec.headers, order)
    BY <1>2, <1>6, CellsFacts, Zenon
  <2> QED BY <1>9, <2>1, Zenon DEF PutHeaders
<1> HIDE DEF n, t
<1>11. <<n>> \in Seq(Nat)
  BY <1>7
<1>12. rest \o missing = <<n>> \o (last[n] \o t) /\ last[n] \o t \in Seq(Nat)
  <2>1. Assoc(<<n>>, last[n], t)
    BY <1>5, <1>8, <1>11, Associative, Zenon
  <2>2. Joins(last[n], t, last[n] \o t)
    BY <1>5, <1>8, JoinFacts, Zenon
  <2> QED BY <1>5, <1>10, <2>1, <2>2, Zenon DEF Assoc, Joins
<1>13. CellIs(rest, missing, n, last[n] \o t)
  BY <1>2, <1>7, <1>12, CellRead, Zenon
<1>14. CASE rest = <<>> /\ Invalid
  BY <1>1, <1>13, <1>14, InvalidStep, Zenon DEF CellIs
<1>15. CASE /\ rest # <<>> /\ left' = Head(rest) /\ Skip(1) /\ UNCHANGED key
            /\ IF Head(rest) = 0 THEN Store("headers", out.headers)
               ELSE UNCHANGED <<out, field, status>>
  <2>1. Head(rest) = n /\ rest' \in Seq(Nat) /\ rest' \o missing = last[n] \o t
    BY <1>13, <1>15, Zenon DEF CellIs, Skip
  <2>2. CASE n = 0
    <3>1. 1 .. n = {}
      BY <2>2
    <3>2. rec.headers = NoHeaders
      <4>1. {order[i] : i \in 1 .. n} = {}
        BY <3>1, Zenon
      <4>2. [k \in {} |-> rec.headers[k]] = rec.headers
        BY <1>2, <1>6, <4>1, AllRead, Zenon DEF n
      <4>3. [k \in {} |-> rec.headers[k]] = [k \in {} |-> <<>>]
        BY Zenon
      <4> QED BY <4>2, <4>3, Zenon DEF NoHeaders
    <3>3. Stored["headers"] = out.headers
      <4>1. "headers" \in Fields /\ "headers" # "eta"
        BY Zenon DEF Fields
      <4>2. Stored["headers"] = rec["headers"]
        BY <1>6, <4>1, StoredFacts, Zenon
      <4> QED BY <1>5, <3>2, <4>2, Zenon
    <3>4. Store(Layout[field], Stored[Layout[field]]) /\ left' = 0 /\ key' = <<>>
      BY <1>1, <1>2, <1>15, <2>1, <2>2, <3>3, Zenon
    <3>5. rest' \o missing = ahead[field + 1]
      <4>1. <<>> \o t = t
        BY <1>5
      <4> QED BY <1>3, <1>4, <1>8, <2>1, <2>2, <4>1, Zenon DEF t
    <3> QED BY <1>1, <2>1, <3>4, <3>5, FieldStored, Zenon
  <2>3. CASE n # 0
    <3>1. n \in 1 .. Len(order) /\ n + 1 .. Len(order) = {}
      BY <1>7, <2>3 DEF n
    <3>2. /\ left' = n /\ key' = <<>> /\ out' = out /\ field' = field /\ status' = status
      BY <1>2, <1>15, <2>1, <2>3, Zenon
    <3>3. HeadersRead(order)'
      <4>1. {order[i] : i \in n + 1 .. Len(order)} = {}
        BY <3>1, Zenon
      <4>2. [k \in {} |-> rec.headers[k]] = [k \in {} |-> <<>>]
        BY Zenon
      <4> QED BY <1>1, <1>5, <3>2, <4>1, <4>2, Zenon DEF HeadersRead, NoHeaders
    <3>4. HeaderNext(order, ahead, rest \o missing)'
      BY <1>1, <2>1, <3>2, Zenon DEF HeaderNext, t
    <3>5. left' \in 1 .. Len(order)
      BY <3>1, <3>2, Zenon
    <3>6. out' = [f \in Fields |-> out'[f]] /\ \A f \in Fields : out'[f] = out[f]
      BY <1>6, <3>2, Zenon
    <3> QED BY <1>1, <1>3, <2>1, <3>2, <3>3, <3>4, <3>5, <3>6, HeadersStep, Zenon
  <2> QED BY <2>2, <2>3, Zenon
<1> QED BY <1>14, <1>15, Zenon DEF ReadCount

\* Some headers are left.
LEMMA InHeaders ==
  ASSUME NEW order, NEW missing, NEW ahead, AtField(order, missing, ahead),
         Layout[field] = "headers", left # 0
  PROVE  /\ field = 9 /\ order \in Orders(rec.headers)
         /\ missing \in Seq(Nat) /\ rest \in Seq(Nat) /\ ahead[10] \in Seq(Nat)
         /\ left \in 1 .. Len(order) /\ HeadersRead(order)
         /\ out = [f \in Fields |-> out[f]]
         /\ HeaderNext(order, ahead, rest \o missing)
<1>1. Progress(order, ahead, rest \o missing) /\ AheadOf(ahead, order)
  BY Zenon DEF AtField, Underway
<1>2. 10 \in 1 .. 12
  OBVIOUS
<1> QED BY <1>1, <1>2, Zenon DEF AtField, Underway, Progress, AheadOf

LEMMA ReadKeyStep ==
  ASSUME NEW order, NEW missing, NEW ahead, AtField(order, missing, ahead), ReadKey
  PROVE  Goes(order, missing, ahead)'
<1> DEFINE k == order[left]
           t == ahead[10]
           last == LastHeaders(rec.headers, order)
           u == PutString(rec.headers[k]) \o (last[left - 1] \o t)
<1>1. Layout[field] = "headers" /\ left > 0 /\ key = <<>> /\ rec' = rec /\ cut' = cut
  BY Zenon DEF ReadKey, Reading
<1>2. left # 0 /\ \A x : <<>> # <<x>>
  BY <1>1
<1>3. /\ field = 9 /\ order \in Orders(rec.headers)
      /\ missing \in Seq(Nat) /\ rest \in Seq(Nat) /\ t \in Seq(Nat)
      /\ left \in 1 .. Len(order) /\ HeadersRead(order)
      /\ out = [f \in Fields |-> out[f]]
      /\ rest \o missing = last[left] \o t
  <2>1. HeaderNext(order, ahead, rest \o missing)
    BY <1>1, <1>2, InHeaders, Zenon
  <2>2. rest \o missing = last[left] \o t
    BY <1>1, <1>2, <2>1, Zenon DEF HeaderNext
  <2> QED BY <1>1, <1>2, <2>2, InHeaders, Zenon
<1>4. rec \in Records /\ Fits
  BY Zenon DEF AtField
<1>5. last[left] \o t = PutString(k) \o u /\ u \in Seq(Nat)
  BY <1>3, <1>4, HeaderAhead, Zenon
<1>6. PutString(k) = <<Len(k)>> \o k /\ k \in Seq(Nat)
  BY <1>3, <1>4, FitsFacts, OrderFacts, Zenon
<1> HIDE DEF u, k
<1>7. /\ HasString /\ Skip(Head(rest) + 1) =>
           NextString = k /\ rest' \in Seq(Nat) /\ rest' \o missing = u
      /\ ~HasString => missing # <<>>
  <2>1. rest \o missing = (<<Len(k)>> \o k) \o u
    BY <1>3, <1>5, <1>6, Zenon
  <2> QED BY <1>3, <1>5, <1>6, <2>1, StringAhead, Zenon
<1>8. CASE ~HasString /\ Invalid
  BY <1>1, <1>7, <1>8, InvalidStep, Zenon
<1>9. CASE /\ HasString /\ key' = <<NextString>> /\ Skip(Head(rest) + 1)
           /\ UNCHANGED <<field, left, out, status>>
  <2>1. rest' \in Seq(Nat) /\ rest' \o missing = u /\ key' = <<k>>
    BY <1>7, <1>9, Zenon
  <2>2. /\ left' = left /\ out' = out /\ field' = field /\ status' = status
    BY <1>9, Zenon
  <2>3. HeadersRead(order)'
    BY <1>1, <1>3, <2>2, Zenon DEF HeadersRead
  <2>4. HeaderNext(order, ahead, rest \o missing)'
    BY <1>1, <2>1, <2>2, Zenon DEF HeaderNext, k, u
  <2>5. out' = [f \in Fields |-> out'[f]] /\ \A f \in Fields : out'[f] = out[f]
    BY <1>3, <2>2, Zenon
  <2>6. left' \in 1 .. Len(order)
    BY <1>3, <2>2, Zenon
  <2> QED BY <1>1, <1>3, <2>1, <2>2, <2>3, <2>4, <2>5, <2>6, HeadersStep, Zenon
<1> QED BY <1>8, <1>9, Zenon DEF ReadKey

\* One header more.
LEMMA MoreHeaders ==
  ASSUME rec \in Records, NEW order \in Orders(rec.headers), left \in 1 .. Len(order),
         HeadersRead(order), NEW h,
         h = [x \in DOMAIN out.headers \cup {order[left]} |->
                IF x = order[left] THEN rec.headers[order[left]] ELSE out.headers[x]]
  PROVE  h = [x \in {order[i] : i \in left .. Len(order)} |-> rec.headers[x]]
<1> DEFINE A == {order[i] : i \in left + 1 .. Len(order)}
           B == {order[i] : i \in left .. Len(order)}
<1>1. DOMAIN out.headers = A /\ \A x \in A : out.headers[x] = rec.headers[x]
  BY Zenon DEF HeadersRead
<1>2. Len(order) \in Nat
  BY OrderFacts, Zenon
<1>3. /\ \A i \in left .. Len(order) : i = left \/ i \in left + 1 .. Len(order)
      /\ left \in left .. Len(order)
      /\ \A i \in left + 1 .. Len(order) : i \in left .. Len(order)
  BY <1>2
<1>4. A \cup {order[left]} = B
  BY <1>3, Zenon
<1> HIDE DEF A, B
<1>5. h = [x \in B |-> IF x = order[left] THEN rec.headers[order[left]] ELSE out.headers[x]]
  BY <1>1, <1>4, Zenon
<1>6. \A x \in B : (IF x = order[left] THEN rec.headers[order[left]] ELSE out.headers[x])
                     = rec.headers[x]
  BY <1>1, <1>4, Zenon
<1> QED BY <1>5, <1>6, Zenon DEF B

LEMMA ReadValueStep ==
  ASSUME NEW order, NEW missing, NEW ahead, AtField(order, missing, ahead), ReadValue
  PROVE  Goes(order, missing, ahead)'
<1> DEFINE k == order[left]
           v == rec.headers[k]
           t == ahead[10]
           last == LastHeaders(rec.headers, order)
           u == last[left - 1] \o t
           h == [x \in DOMAIN out.headers \cup {key[1]} |->
                   IF x = key[1] THEN NextString ELSE out.headers[x]]
<1>1. Layout[field] = "headers" /\ key # <<>> /\ rec' = rec /\ cut' = cut
  BY Zenon DEF ReadValue, Reading
<1>2. left # 0
  <2>1. left = 0 => key = <<>>
    BY FieldAhead, Zenon
  <2> QED BY <1>1, <2>1, Zenon
<1>3. /\ field = 9 /\ order \in Orders(rec.headers)
      /\ missing \in Seq(Nat) /\ rest \in Seq(Nat) /\ t \in Seq(Nat)
      /\ left \in 1 .. Len(order) /\ HeadersRead(order)
      /\ out = [f \in Fields |-> out[f]]
      /\ key = <<k>> /\ rest \o missing = PutString(v) \o u
  <2>1. HeaderNext(order, ahead, rest \o missing)
    BY <1>1, <1>2, InHeaders, Zenon
  <2>2. key = <<k>> /\ rest \o missing = PutString(v) \o u
    BY <1>1, <2>1, Zenon DEF HeaderNext
  <2> QED BY <1>1, <1>2, <2>2, InHeaders, Zenon
<1>4. rec \in Records /\ Fits /\ key[1] = k
  <2>1. \A x : <<x>>[1] = x
    OBVIOUS
  <2> QED BY <1>3, <2>1, Zenon DEF AtField
<1>5. u \in Seq(Nat)
  BY <1>3, <1>4, HeaderAhead, Zenon
<1>6. PutString(v) = <<Len(v)>> \o v /\ v \in Seq(Nat)
  BY <1>3, <1>4, FitsFacts, OrderFacts, Zenon
<1>7. Len(order) \in Nat /\ last[0] = <<>>
  BY <1>3, <1>4, OrderFacts, LastHeadersFacts, Zenon
<1> HIDE DEF u, k, v
<1>8. /\ HasString /\ Skip(Head(rest) + 1) =>
           NextString = v /\ rest' \in Seq(Nat) /\ rest' \o missing = u
      /\ ~HasString => missing # <<>>
  <2>1. rest \o missing = (<<Len(v)>> \o v) \o u
    BY <1>3, <1>6, Zenon
  <2> QED BY <1>3, <1>5, <1>6, <2>1, StringAhead, Zenon
<1>9. CASE ~HasString /\ Invalid
  BY <1>1, <1>8, <1>9, InvalidStep, Zenon
<1>10. CASE /\ HasString /\ left' = left - 1 /\ key' = <<>> /\ Skip(Head(rest) + 1)
            /\ IF left = 1 THEN Store("headers", h)
               ELSE out' = [out EXCEPT !.headers = h] /\ UNCHANGED <<field, status>>
  <2>1. rest' \in Seq(Nat) /\ rest' \o missing = u /\ NextString = v
    BY <1>8, <1>10, Zenon
  <2>2. h = [x \in {order[i] : i \in left .. Len(order)} |-> rec.headers[x]]
    <3>1. h = [x \in DOMAIN out.headers \cup {order[left]} |->
                 IF x = order[left] THEN rec.headers[order[left]] ELSE out.headers[x]]
      BY <1>4, <2>1, Zenon DEF k, v
    <3> HIDE DEF h
    <3> QED BY <1>3, <1>4, <3>1, MoreHeaders, Zenon
  <2> HIDE DEF h
  <2>3. "headers" \in Fields /\ "headers" # "eta"
    BY Zenon DEF Fields
  <2>4. CASE left = 1
    <3>1. Stored["headers"] = h
      <4>1. Stored["headers"] = rec["headers"]
        BY <1>4, <2>3, StoredFacts, Zenon
      <4> QED BY <1>3, <1>4, <2>2, <2>4, <4>1, AllRead, Zenon
    <3>2. left' = 0 /\ left - 1 = 0 /\ <<>> \o t = t /\ 9 + 1 = 10
      BY <1>3, <1>10, <2>4
    <3>3. rest' \o missing = ahead[field + 1]
      BY <1>3, <1>7, <2>1, <3>2, Zenon DEF u
    <3>4. Store(Layout[field], Stored[Layout[field]]) /\ key' = <<>>
      BY <1>1, <1>10, <2>4, <3>1, Zenon
    <3>5. /\ rec \in Records /\ status = "reading" /\ AheadOf(ahead, order)
          /\ (cut <=> missing # <<>>) /\ field \in 1 .. 11
          /\ \A j \in 1 .. field - 1 : out[Layout[j]] = Stored[Layout[j]]
      BY Zenon DEF AtField, Underway, Progress
    <3>6. ~(field < 9)
      BY <1>3
    <3>7. /\ status' \in {"reading", "done"}
          /\ status' = "reading" => Underway(order, missing, ahead)'
          /\ status' = "done" => out' = Stored' /\ rest' = <<>> /\ ~cut'
      BY <1>1, <1>3, <2>1, <3>2, <3>3, <3>4, <3>5, <3>6, StoreStep, Zenon
    <3> QED BY <3>7, Zenon DEF Goes
  <2>5. CASE left # 1
    <3>1. left' \in 1 .. Len(order) /\ left' + 1 = left
      <4>1. left' = left - 1
        BY <1>10, Zenon
      <4> QED BY <1>3, <1>7, <2>5, <4>1
    <3>2. /\ out' = [out EXCEPT !["headers"] = h] /\ field' = field /\ status' = status
      BY <1>10, <2>5, Zenon
    <3>3. /\ out' = [f \in Fields |-> out'[f]] /\ out'["headers"] = h
          /\ \A f \in Fields : f # "headers" => out'[f] = out[f]
      BY <1>3, <2>3, <3>2, Zenon
    <3>4. HeadersRead(order)'
      BY <1>1, <2>2, <3>1, <3>3, Zenon DEF HeadersRead
    <3>5. HeaderNext(order, ahead, rest \o missing)'
      BY <1>1, <1>10, <2>1, Zenon DEF HeaderNext, u
    <3> QED BY <1>1, <1>3, <2>1, <3>1, <3>2, <3>3, <3>4, <3>5, HeadersStep, Zenon
  <2> QED BY <2>4, <2>5, Zenon
<1> QED BY <1>9, <1>10, Zenon DEF ReadValue

\* A part of the data is read, and the rest is missing.
LEMMA SplitFacts ==
  ASSUME NEW d \in Seq(Nat), NEW n \in 0 .. Len(d)
  PROVE  LET r == SubSeq(d, 1, n)
             missing == SubSeq(d, n + 1, Len(d))
         IN  /\ r \in Seq(Nat) /\ missing \in Seq(Nat) /\ r \o missing = d
             /\ n < Len(d) <=> missing # <<>>
<1> DEFINE r == SubSeq(d, 1, n)
           m == SubSeq(d, n + 1, Len(d))
           e == r \o m
<1>1. /\ Len(d) \in Nat /\ n \in Nat /\ n <= Len(d) /\ 0 \in 0 .. Len(d) /\ Len(d) \in n .. Len(d)
      /\ 0 + 1 = 1 /\ n - 0 = n /\ \A i \in 1 .. n : 0 + i = i
  OBVIOUS
<1>2. r \in Seq(Nat) /\ Len(r) = n /\ \A i \in 1 .. n : r[i] = d[i]
  <2>1. /\ SubSeq(d, 0 + 1, n) \in Seq(Nat) /\ Len(SubSeq(d, 0 + 1, n)) = n - 0
        /\ \A i \in 1 .. n - 0 : SubSeq(d, 0 + 1, n)[i] = d[0 + i]
    BY <1>1, PartFacts, Zenon
  <2> QED BY <1>1, <2>1, Zenon
<1>3. m \in Seq(Nat) /\ Len(m) = Len(d) - n /\ \A i \in 1 .. Len(d) - n : m[i] = d[n + i]
  BY <1>1, PartFacts, Zenon
<1> HIDE DEF r, m
<1>4. Joins(r, m, e)
  BY <1>2, <1>3, JoinFacts, Zenon
<1> HIDE DEF e
<1>5. e \in Seq(Nat) /\ Len(e) = Len(d)
  <2>1. e \in Seq(Nat) /\ Len(e) = n + (Len(d) - n)
    BY <1>2, <1>3, <1>4, Zenon DEF Joins
  <2> QED BY <1>1, <2>1
<1>6. ASSUME NEW i \in 1 .. Len(d) PROVE e[i] = d[i]
  <2>1. CASE i <= n
    <3>1. i \in 1 .. n
      BY <1>1, <2>1
    <3> QED BY <1>2, <1>4, <3>1, Zenon DEF Joins
  <2>2. CASE ~(i <= n)
    <3> DEFINE j == i - n
    <3>1. j \in 1 .. Len(d) - n /\ n + j = i
      BY <1>1, <2>2
    <3> HIDE DEF j
    <3> QED BY <1>2, <1>3, <1>4, <3>1, Zenon DEF Joins
  <2> QED BY <2>1, <2>2, Zenon
<1>7. e = d
  BY <1>5, <1>6, SameSeq, Zenon
<1>8. n < Len(d) <=> m # <<>>
  <2>1. m = <<>> <=> Len(m) = 0
    BY <1>3
  <2>2. n < Len(d) <=> Len(d) - n # 0
    BY <1>1
  <2> QED BY <1>3, <2>1, <2>2, Zenon
<1> QED BY <1>2, <1>3, <1>7, <1>8, Zenon DEF r, m, e

\* Unmarshal begins with what Marshal wrote, or the first part of it.
LEMMA WriteStep ==
  ASSUME CodecInv, Write
  PROVE  CodecInv'
<1>1. /\ rec \in Records /\ rec' = rec /\ status' = "reading"
      /\ field' = 1 /\ left' = 0 /\ key' = <<>> /\ out' = EmptyRecord
  BY Zenon DEF CodecInv, Write
<1>2. PICK order \in Orders(rec.headers) : \E n \in 0 .. Len(Marshal(rec, order)) :
        /\ rest' = SubSeq(Marshal(rec, order), 1, n) /\ cut' = (n < Len(Marshal(rec, order)))
  BY Zenon DEF Write
<1> DEFINE d == Marshal(rec, order)
<1>3. PICK n \in 0 .. Len(d) : rest' = SubSeq(d, 1, n) /\ cut' = (n < Len(d))
  BY <1>2, Zenon
<1>4. PICK ahead : AheadOf(ahead, order) /\ ahead[1] = d
  BY <1>1, MarshalAhead, Zenon
<1>5. 1 \in 1 .. 12 /\ 1 \in 1 .. 11 /\ 1 .. 1 - 1 = {}
  OBVIOUS
<1>6. d \in Seq(Nat)
  BY <1>4, <1>5, Zenon DEF AheadOf
<1> HIDE DEF d
<1>7. PICK missing : /\ rest' \in Seq(Nat) /\ missing \in Seq(Nat) /\ rest' \o missing = d
                     /\ cut' <=> missing # <<>>
  <2>1. /\ SubSeq(d, 1, n) \in Seq(Nat) /\ SubSeq(d, n + 1, Len(d)) \in Seq(Nat)
        /\ SubSeq(d, 1, n) \o SubSeq(d, n + 1, Len(d)) = d
        /\ n < Len(d) <=> SubSeq(d, n + 1, Len(d)) # <<>>
    BY <1>6, SplitFacts, Zenon
  <2> QED BY <1>3, <2>1, Zenon
<1>8. EmptyRecord = [f \in Fields |-> EmptyRecord[f]] /\ EmptyRecord.headers = NoHeaders
  BY Zenon DEF EmptyRecord, Fields, NoHeaders
<1>9. Progress(order, ahead, rest \o missing)'
  BY <1>1, <1>4, <1>5, <1>7, <1>8, Zenon DEF Progress
<1>10. Underway(order, missing, ahead)'
  BY <1>1, <1>2, <1>4, <1>7, <1>9, SameRecord, Zenon DEF Underway
<1> QED BY <1>1, <1>10, Zenon DEF CodecInv

\* A step of Unmarshal.
LEMMA UnmarshalStep ==
  ASSUME CodecInv, Unmarshal
  PROVE  CodecInv'
<1>1. rec \in Records /\ rec' = rec /\ status = "reading" /\ (Fits' <=> Fits)
  <2>1. \E fields : Reading(fields)
    BY Zenon DEF Unmarshal, ReadScalar, ReadString, ReadCount, ReadKey, ReadValue
  <2>2. rec \in Records /\ rec' = rec /\ status = "reading"
    BY <2>1, Zenon DEF CodecInv, Reading
  <2> QED BY <2>2, SameRecord, Zenon
<1>2. status' \in {"reading", "done", "invalid"}
  BY <1>1, Zenon DEF Unmarshal, ReadScalar, ReadString, ReadCount, ReadKey, ReadValue,
                     Store, Invalid
<1>3. ASSUME Fits
      PROVE  /\ status' = "reading" =>
                  \E order, missing, ahead : Underway(order, missing, ahead)'
             /\ status' = "done" => out' = Stored' /\ rest' = <<>> /\ ~cut'
             /\ status' = "invalid" => cut'
  <2>1. PICK order, missing, ahead : Underway(order, missing, ahead)
    BY <1>1, <1>3, Zenon DEF CodecInv
  <2>2. AtField(order, missing, ahead)
    BY <1>1, <1>3, <2>1, Zenon DEF AtField
  <2>3. Goes(order, missing, ahead)'
    BY <2>2, ReadScalarStep, ReadStringStep, ReadCountStep, ReadKeyStep, ReadValueStep, Zenon
       DEF Unmarshal
  <2> QED BY <2>3, Zenon DEF Goes
<1> QED BY <1>1, <1>2, <1>3, Zenon DEF CodecInv

\* A step that changes nothing.
LEMMA StutterStep ==
  ASSUME CodecInv, UNCHANGED vars
  PROVE  CodecInv'
<1>1. /\ rec' = rec /\ status' = status /\ cut' = cut /\ rest' = rest /\ field' = field
      /\ left' = left /\ key' = key /\ out' = out
  BY Zenon DEF vars
<1>2. /\ Stored' = Stored /\ (Fits' <=> Fits)
      /\ \A order, ahead : AheadOf(ahead, order)' <=> AheadOf(ahead, order)
  BY <1>1, SameRecord, Zenon
<1>3. ASSUME NEW order, NEW missing, NEW ahead, Underway(order, missing, ahead)
      PROVE  Underway(order, missing, ahead)'
  <2>1. Progress(order, ahead, rest \o missing)
    BY <1>3, Zenon DEF Underway
  <2>2. Progress(order, ahead, rest \o missing)'
    BY <1>1, <1>2, <2>1, Zenon DEF Progress, HeadersRead, HeaderNext
  <2> QED BY <1>1, <1>2, <1>3, <2>2, Zenon DEF Underway
<1> QED BY <1>1, <1>2, <1>3, Zenon DEF CodecInv

\* For every record none of whose lengths is cut, whatever part of what Marshal
\* wrote is read: Unmarshal returns the record that was written, and all of the
\* data was there, or it returns an error, and the end of the data is missing.
THEOREM RoundTripHolds == Spec => []RoundTrip
<1>1. Init => CodecInv
  BY Zenon DEF Init, CodecInv
<1>2. CodecInv /\ [Next]_vars => CodecInv'
  <2> SUFFICES ASSUME CodecInv, [Next]_vars PROVE CodecInv'
    BY Zenon
  <2>1. CASE UNCHANGED vars
    BY <2>1, StutterStep, Zenon
  <2> QED BY <2>1, WriteStep, UnmarshalStep, Zenon DEF Next
<1>3. CodecInv => RoundTrip
  BY Zenon DEF CodecInv, RoundTrip
<1> QED BY <1>1, <1>2, <1>3, PTL DEF Spec
=============================================================================
