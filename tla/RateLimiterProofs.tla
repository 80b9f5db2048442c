------------------------- MODULE RateLimiterProofs -------------------------
(***************************************************************************)
(* Proofs about the token buckets, for any rates, callers and queues.      *)
(***************************************************************************)
EXTENDS RateLimiter, TLAPS

\* refill() keeps a bucket a bucket.
LEMMA RefillType ==
  ASSUME NEW b \in TokenBucket, clock \in Nat
  PROVE  /\ Refill(b) \in TokenBucket
         /\ Refill(b).capacity = b.capacity
         /\ Refill(b).refillRate = b.refillRate
         /\ Refill(b).enabled = b.enabled
         /\ Refill(b).lastRefill = clock
         /\ Refill(b).tokens = AtMost(b.tokens + (clock - b.lastRefill) * b.refillRate, b.capacity)
<1> DEFINE e == (clock - b.lastRefill) * b.refillRate
<1>1. b.tokens + e \in Int
  BY DEF TokenBucket
<1>2. AtMost(b.tokens + e, b.capacity) \in Int
  BY <1>1, Zenon DEF AtMost, TokenBucket
<1> QED
  BY <1>2, Zenon DEF Refill, TokenBucket

\* The types of the limiter's state are kept by every step.
THEOREM RateLimiterTyped == Spec => []TypeOK
<1>1. Init => TypeOK
  BY RateLimiterAssumption DEF Init, TypeOK, TokenBucket, NoBucket, NewWindow
<1>2. TypeOK /\ [Next]_vars => TypeOK'
  <2> SUFFICES ASSUME TypeOK, [Next]_vars PROVE TypeOK'
    BY Zenon
  <2>0. clock \in Nat
    BY RateLimiterAssumption DEF TypeOK
  <2>1. ASSUME NEW q \in Queues, NEW rate \in Rates, SetRate(q, rate) PROVE TypeOK'
    <3>1. rate[1] \in Int /\ rate[2] \in Int
      BY RateLimiterAssumption, Zenon
    <3>2. buckets[q] \in TokenBucket
      BY Zenon DEF TypeOK
    <3>3. AtMost(Refill(buckets[q]).tokens, rate[1]) \in Int
      BY <3>1, <3>2, <2>0, RefillType, Zenon DEF AtMost, TokenBucket
    <3>4. WithRate(buckets[q], rate) \in TokenBucket
      BY <3>1, <3>3, <2>0, Zenon DEF WithRate, TokenBucket
    <3>5. NewTokenBucket(rate) \in TokenBucket
      BY <3>1, <2>0, Zenon DEF NewTokenBucket, TokenBucket
    <3> QED
      BY <2>1, <3>4, <3>5, Zenon DEF TypeOK, SetRate, NewWindow
  <2>2. ASSUME NEW c \in Callers, NEW q \in Queues, AllowCheck(c, q) PROVE TypeOK'
    BY <2>2, Zenon DEF TypeOK, AllowCheck
  <2>3. ASSUME NEW c \in Callers, AllowTake(c) PROVE TypeOK'
    <3> DEFINE q == waiting[c]
    <3>1. q \in Queues
      BY <2>3, Zenon DEF AllowTake, TypeOK
    <3>2. buckets[q] \in TokenBucket
      BY <3>1, Zenon DEF TypeOK
    <3> DEFINE b == Refill(buckets[q])
    <3>3. b \in TokenBucket
      BY <3>2, <2>0, RefillType, Zenon
    <3>4. [b EXCEPT !.tokens = @ - Unit] \in TokenBucket
      <4> HIDE DEF b
      <4> QED BY <3>3, RateLimiterAssumption DEF TokenBucket
    <3>5. buckets' \in [Queues -> TokenBucket]
      BY <2>3, <3>1, <3>3, <3>4, Zenon DEF AllowTake, TypeOK
    <3>6. window' \in [Queues -> [start: 0..MaxClock, spent: Nat]]
      BY <2>3, <3>1, RateLimiterAssumption DEF AllowTake, TypeOK
    <3> QED
      BY <2>3, <3>5, <3>6, Zenon DEF AllowTake, TypeOK
  <2>4. ASSUME NEW q \in Queues, Tokens(q) PROVE TypeOK'
    <3>1. Refill(buckets[q]) \in TokenBucket
      BY <2>0, RefillType, Zenon DEF TypeOK
    <3> QED
      BY <2>4, <3>1, Zenon DEF TypeOK, Tokens
  <2>5. ASSUME NEW q \in Queues, OpenWindow(q) PROVE TypeOK'
    BY <2>5, Zenon DEF TypeOK, OpenWindow, NewWindow
  <2>6. CASE Tick
    BY <2>6, RateLimiterAssumption DEF TypeOK, Tick
  <2>7. CASE UNCHANGED vars
    BY <2>7, Zenon DEF TypeOK, vars
  <2> QED
    BY <2>1, <2>2, <2>3, <2>4, <2>5, <2>6, <2>7, Zenon DEF Next
<1> QED
  BY <1>1, <1>2, PTL DEF Spec

\* One bucket and its window: what TokensCovered says of a queue, with the
\* clock, which the induction needs, at or past the last refill and the start.
Covered(b, w) ==
  /\ b.lastRefill <= clock /\ w.start <= clock
  /\ b.enabled => b.refillRate > 0 /\ b.capacity > 0
  /\ b.tokens <= b.capacity
  /\ b.enabled /\ w.spent > 0 =>
       /\ b.tokens >= 0
       /\ w.start <= b.lastRefill
       /\ w.spent + b.tokens <= b.capacity + b.refillRate * (b.lastRefill - w.start)

CoveredInv == \A q \in Queues : Covered(buckets[q], window[q])

\* Refilling adds no more than the rate allows.
LEMMA RefillCovered ==
  ASSUME NEW b \in TokenBucket, clock \in Nat,
         NEW w \in [start: Nat, spent: Nat], Covered(b, w)
  PROVE  /\ Covered(Refill(b), w)
         /\ b.enabled => w.spent + Refill(b).tokens
                           <= b.capacity + b.refillRate * (clock - w.start)
<1> DEFINE r == b.refillRate
           l == b.lastRefill
           s == w.start
<1>1. r \in Int /\ l \in Nat /\ s \in Nat /\ b.tokens \in Int /\ b.capacity \in Int
      /\ w.spent \in Nat /\ l <= clock /\ s <= clock
  BY Zenon DEF TokenBucket, Covered
<1>2. (clock - l) * r \in Int /\ r * (l - s) \in Int /\ r * (clock - s) \in Int
  BY <1>1
<1>3. r * (clock - s) = (clock - l) * r + r * (l - s)
  BY <1>1
<1>4. r > 0 => (clock - l) * r >= 0 /\ r * (clock - s) >= 0
  BY <1>1
<1>5. Refill(b).tokens = AtMost(b.tokens + (clock - l) * r, b.capacity)
      /\ Refill(b).lastRefill = clock /\ Refill(b).capacity = b.capacity
      /\ Refill(b).refillRate = r /\ Refill(b).enabled = b.enabled
  BY RefillType, Zenon
<1>6. Covered(b, w)
  BY Zenon
<1> DEFINE e == (clock - l) * r
           f == r * (l - s)
           g == r * (clock - s)
<1>7. e \in Int /\ f \in Int /\ g \in Int /\ g = e + f /\ (r > 0 => e >= 0 /\ g >= 0)
  BY <1>2, <1>3, <1>4, Zenon
<1>8. Refill(b).tokens <= b.capacity /\ Refill(b).tokens <= b.tokens + e
      /\ (b.tokens >= 0 /\ r > 0 => Refill(b).tokens >= 0 \/ Refill(b).tokens = b.capacity)
      /\ Refill(b).tokens \in Int
  <2> HIDE DEF e
  <2> QED BY <1>1, <1>5, <1>7 DEF AtMost, e
<1>9. b.enabled /\ w.spent > 0 =>
        /\ b.tokens >= 0 /\ s <= l /\ r > 0
        /\ w.spent + b.tokens <= b.capacity + f
  BY <1>6, Zenon DEF Covered
<1>10. b.enabled => w.spent + Refill(b).tokens <= b.capacity + g
  <2> HIDE DEF e, f, g
  <2>1. CASE w.spent = 0
    BY <2>1, <1>1, <1>6, <1>7, <1>8 DEF Covered
  <2>2. CASE w.spent > 0
    BY <2>2, <1>1, <1>7, <1>8, <1>9
  <2> QED BY <2>1, <2>2, <1>1
<1>11. b.enabled /\ w.spent > 0 => Refill(b).tokens >= 0
  <2> HIDE DEF e, f, g
  <2> QED BY <1>1, <1>6, <1>7, <1>8, <1>9 DEF Covered
<1>12. Covered(Refill(b), w)
  BY <1>1, <1>5, <1>6, <1>8, <1>10, <1>11 DEF Covered
<1> QED
  BY <1>10, <1>12, Zenon
\* No queue has a bucket at the start.
LEMMA CoveredInit == Init => CoveredInv
<1> SUFFICES ASSUME Init, NEW q \in Queues PROVE Covered(buckets[q], window[q])
  BY Zenon DEF CoveredInv
<1>1. buckets[q] = NoBucket /\ window[q] = NewWindow /\ clock = 0
  BY Zenon DEF Init
<1>2. NoBucket.lastRefill = 0 /\ ~NoBucket.enabled /\ NoBucket.tokens = 0
      /\ NoBucket.capacity = 0
  BY Zenon DEF NoBucket
<1>3. NewWindow.start = clock
  BY Zenon DEF NewWindow
<1> QED
  BY <1>1, <1>2, <1>3 DEF Covered

\* Every step keeps every bucket covered.
LEMMA CoveredStep ==
  ASSUME TypeOK, CoveredInv, [Next]_vars
  PROVE  CoveredInv'
<1>0. clock \in Nat /\ \A q \in Queues : /\ buckets[q] \in TokenBucket
                                         /\ window[q] \in [start: Nat, spent: Nat]
                                         /\ Covered(buckets[q], window[q])
  BY RateLimiterAssumption DEF TypeOK, CoveredInv
<1>1. ASSUME NEW q \in Queues, NEW rate \in Rates, SetRate(q, rate) PROVE CoveredInv'
  <2>1. rate[1] \in Int /\ rate[2] \in Int
    BY RateLimiterAssumption, Zenon
  <2>2. Refill(buckets[q]).tokens \in Int
    BY <1>0, RefillType, Zenon DEF TokenBucket
  <2>3. Covered(WithRate(buckets[q], rate), NewWindow)
    <3> DEFINE b == WithRate(buckets[q], rate)
    <3>1. b.enabled => rate[1] > 0 /\ rate[2] > 0
      BY Zenon DEF WithRate
    <3>2. /\ b.refillRate = rate[2] /\ b.capacity = rate[1] /\ b.lastRefill = clock
          /\ b.tokens = AtMost(Refill(buckets[q]).tokens, rate[1])
      BY Zenon DEF WithRate
    <3>3. b.tokens <= b.capacity
      BY <2>1, <2>2, <3>2 DEF AtMost
    <3> HIDE DEF b
    <3>4. NewWindow.start = clock /\ NewWindow.spent = 0
      BY Zenon DEF NewWindow
    <3>5. Covered(b, NewWindow)
      BY <1>0, <3>1, <3>2, <3>3, <3>4 DEF Covered
    <3> QED
      BY <3>5, Zenon DEF b
  <2>4. Covered(NewTokenBucket(rate), NewWindow)
    <3> DEFINE b == NewTokenBucket(rate)
    <3>1. b.enabled => rate[1] > 0 /\ rate[2] > 0
      BY Zenon DEF NewTokenBucket
    <3>2. /\ b.refillRate = rate[2] /\ b.capacity = rate[1] /\ b.lastRefill = clock
          /\ b.tokens = rate[1]
      BY Zenon DEF NewTokenBucket
    <3> HIDE DEF b
    <3>3. NewWindow.start = clock /\ NewWindow.spent = 0
      BY Zenon DEF NewWindow
    <3>4. Covered(b, NewWindow)
      BY <1>0, <2>1, <3>1, <3>2, <3>3 DEF Covered
    <3> QED
      BY <3>4, Zenon DEF b
  <2>7. /\ clock' = clock /\ window'[q] = NewWindow
        /\ buckets'[q] \in {WithRate(buckets[q], rate), NewTokenBucket(rate)}
    BY <1>1, Zenon DEF SetRate, TypeOK
  <2>5. clock' = clock /\ Covered(buckets'[q], window'[q])
    BY <2>7, <2>3, <2>4, Zenon
  <2>6. \A p \in Queues : p # q => buckets'[p] = buckets[p] /\ window'[p] = window[p]
    BY <1>1, Zenon DEF SetRate, TypeOK
  <2> QED
    BY <1>0, <2>5, <2>6, Zenon DEF CoveredInv, Covered
<1>2. ASSUME NEW c \in Callers, NEW q \in Queues, AllowCheck(c, q) PROVE CoveredInv'
  BY <1>0, <1>2, Zenon DEF AllowCheck, CoveredInv, Covered
<1>3. ASSUME NEW c \in Callers, AllowTake(c) PROVE CoveredInv'
  <2> DEFINE q == waiting[c]
             b == Refill(buckets[q])
             w == window[q]
  <2>1. q \in Queues
    BY <1>3, Zenon DEF AllowTake, TypeOK
  <2>2. b \in TokenBucket /\ w \in [start: Nat, spent: Nat] /\ Covered(b, w)
        /\ b.lastRefill = clock
        /\ (b.enabled => w.spent + b.tokens <= b.capacity + b.refillRate * (clock - w.start))
    BY <1>0, <2>1, RefillType, RefillCovered, Zenon
  <2>3. clock' = clock /\ \A p \in Queues : p # q => buckets'[p] = buckets[p] /\ window'[p] = window[p]
    BY <1>3, <2>1, Zenon DEF AllowTake, TypeOK
  <2>4. CASE b.tokens >= Unit
    <3>1. buckets'[q] = [b EXCEPT !.tokens = @ - Unit]
          /\ window'[q] = [w EXCEPT !.spent = @ + Unit]
      BY <1>3, <2>1, <2>4, Zenon DEF AllowTake, TypeOK
    <3> HIDE DEF b, w
    <3> DEFINE g == b.refillRate * (clock - w.start)
    <3>2. g \in Int
      BY <1>0, <2>2 DEF TokenBucket
    <3>3. b.lastRefill = clock
      BY <2>2, Zenon
    <3> HIDE DEF g
    <3>4. Covered([b EXCEPT !.tokens = @ - Unit], [w EXCEPT !.spent = @ + Unit])
      BY <1>0, <2>2, <2>4, <3>2, <3>3, RateLimiterAssumption DEF Covered, TokenBucket, g
    <3>5. \A p \in Queues : Covered(buckets'[p], window'[p])
      BY <1>0, <2>3, <3>1, <3>4
    <3> QED
      BY <2>3, <3>5, Zenon DEF CoveredInv, Covered
  <2>5. CASE ~(b.tokens >= Unit)
    <3>1. buckets'[q] = b /\ window'[q] = w
      BY <1>3, <2>1, <2>5, Zenon DEF AllowTake, TypeOK
    <3>2. \A p \in Queues : Covered(buckets'[p], window'[p])
      BY <1>0, <2>2, <2>3, <3>1, Zenon
    <3> QED
      BY <2>3, <3>2, Zenon DEF CoveredInv, Covered
  <2> QED
    BY <2>4, <2>5, Zenon
<1>4. ASSUME NEW q \in Queues, Tokens(q) PROVE CoveredInv'
  <2>1. Covered(Refill(buckets[q]), window[q])
    BY <1>0, RefillCovered, Zenon
  <2> QED
    BY <1>0, <1>4, <2>1, Zenon DEF Tokens, CoveredInv, Covered, TypeOK
<1>5. ASSUME NEW q \in Queues, OpenWindow(q) PROVE CoveredInv'
  <2>1. Covered(buckets[q], NewWindow)
    BY <1>0 DEF Covered, NewWindow
  <2> QED
    BY <1>0, <1>5, <2>1, Zenon DEF OpenWindow, CoveredInv, Covered, TypeOK
<1>6. CASE Tick
  BY <1>0, <1>6 DEF Tick, CoveredInv, Covered, TokenBucket
<1>7. CASE UNCHANGED vars
  BY <1>7, <1>0, Zenon DEF vars, CoveredInv, Covered
<1> QED
  BY <1>1, <1>2, <1>3, <1>4, <1>5, <1>6, <1>7, Zenon DEF Next

\* refill, charge and the unlocked test of enabled create no tokens: what a
\* bucket holds plus what it spent since the window opened is covered by its
\* capacity and the refill, for any rates, number of callers and queues.
THEOREM TokensCoveredHolds == Spec => []TokensCovered
<1>1. Init => CoveredInv
  BY CoveredInit, Zenon
<1>2. TypeOK /\ CoveredInv /\ [Next]_vars => CoveredInv'
  BY CoveredStep, Zenon
<1>3. CoveredInv => TokensCovered
  BY Zenon DEF CoveredInv, Covered, TokensCovered
<1> QED
  BY <1>1, <1>2, <1>3, RateLimiterTyped, PTL DEF Spec

\* No window lets more through than capacity + refillRate * t.
THEOREM WindowBoundedHolds == Spec => []WindowBounded
<1>1. Init => CoveredInv
  BY CoveredInit, Zenon
<1>2. TypeOK /\ CoveredInv /\ [Next]_vars => CoveredInv'
  BY CoveredStep, Zenon
<1>3. TypeOK /\ CoveredInv => WindowBounded
  <2> SUFFICES ASSUME TypeOK, CoveredInv, NEW q \in Queues, buckets[q].enabled
               PROVE  window[q].spent <= buckets[q].capacity
                        + buckets[q].refillRate * (clock - window[q].start)
    BY Zenon DEF WindowBounded
  <2> DEFINE b == buckets[q]
             w == window[q]
             g == b.refillRate * (clock - w.start)
  <2>1. /\ clock \in Nat /\ b \in TokenBucket /\ w \in [start: Nat, spent: Nat]
        /\ Covered(b, w)
    BY RateLimiterAssumption DEF TypeOK, CoveredInv
  <2>2. Covered(Refill(b), w) /\ w.spent + Refill(b).tokens <= b.capacity + g
    BY <2>1, RefillCovered, Zenon
  <2>3. Refill(b).tokens \in Int /\ Refill(b).enabled = b.enabled
    BY <2>1, RefillType, Zenon DEF TokenBucket
  <2>4. g \in Int /\ b.refillRate > 0 /\ g >= 0
    BY <2>1 DEF TokenBucket, Covered
  <2>5. CASE w.spent > 0
    <3>1. Refill(b).tokens >= 0
      BY <2>2, <2>3, <2>5, Zenon DEF Covered
    <3> HIDE DEF b, w, g
    <3>2. w.spent \in Nat /\ b.capacity \in Int
      BY <2>1, Zenon DEF TokenBucket
    <3>3. w.spent <= b.capacity + g
      BY <2>2, <2>3, <2>4, <3>1, <3>2
    <3> QED BY <3>3, Zenon DEF b, w, g
  <2>6. CASE w.spent = 0
    <3>1. b.capacity \in Int /\ b.capacity > 0
      BY <2>1, Zenon DEF TokenBucket, Covered
    <3> HIDE DEF g
    <3> QED BY <2>4, <2>6, <3>1 DEF g
  <2> QED BY <2>1, <2>5, <2>6
<1> QED
  BY <1>1, <1>2, <1>3, RateLimiterTyped, PTL DEF Spec
=============================================================================
