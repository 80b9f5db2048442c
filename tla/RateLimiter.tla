---------------------------- MODULE RateLimiter ----------------------------
(***************************************************************************)
(* The token buckets of internal/ratelimit: one bucket for every queue     *)
(* that was given a rate, consulted by Enqueue before it creates a job.    *)
(* Tokens are counted in units, Unit of them to a token, and the clock in  *)
(* ticks; a rate is in units per tick.  AllowN tests tb.enabled before it  *)
(* takes tb.mu, so a call is two steps with anything in between.           *)
(***************************************************************************)
EXTENDS Integers

CONSTANTS Queues, NoQueue, Callers,
          Unit,       \* units in one token
          Rates,      \* <<capacity, refillRate>> pairs passed to SetRate
          MaxClock    \* bound on the clock

ASSUME RateLimiterAssumption ==
  /\ NoQueue \notin Queues
  /\ Unit \in Nat \ {0}
  /\ Rates \subseteq Int \X Int
  /\ MaxClock \in Nat

VARIABLES clock,
          buckets,    \* Limiter.buckets
          waiting,    \* the queue whose bucket a caller is about to lock
          window      \* observer: per queue, a window of time and what it let through

vars == <<clock, buckets, waiting, window>>

\* TokenBucket, and what the map returns for a queue without one.
TokenBucket == [exists: BOOLEAN, capacity: Int, refillRate: Int, tokens: Int,
                lastRefill: Nat, enabled: BOOLEAN]

NoBucket == [exists |-> FALSE, capacity |-> 0, refillRate |-> 0, tokens |-> 0,
             lastRefill |-> 0, enabled |-> FALSE]

AtMost(x, bound) == IF x > bound THEN bound ELSE x

NewTokenBucket(rate) ==
  [exists |-> TRUE, capacity |-> rate[1], refillRate |-> rate[2],
   tokens |-> rate[1], lastRefill |-> clock,
   enabled |-> rate[1] > 0 /\ rate[2] > 0]

\* Mutant of Refill: lastRefill is not set.
RefillForgets(b) ==
  [b EXCEPT !.tokens = AtMost(@ + (clock - b.lastRefill) * b.refillRate, b.capacity)]

\* Mutant of Refill: lastRefill moves by the tokens added, not by the time.
RefillAdvancesByTokens(b) ==
  [b EXCEPT !.tokens = AtMost(@ + (clock - b.lastRefill) * b.refillRate, b.capacity),
            !.lastRefill = @ + (clock - @) * b.refillRate]

\* refill() of the code: tokens for the time since lastRefill, capped.
Refill(b) ==
  [b EXCEPT !.tokens = AtMost(@ + (clock - b.lastRefill) * b.refillRate, b.capacity),
            !.lastRefill = clock]

\* Mutant of WithRate: the tokens are not cut to the new capacity.
WithRateUncut(b, rate) ==
  [exists |-> TRUE, capacity |-> rate[1], refillRate |-> rate[2],
   tokens |-> Refill(b).tokens, lastRefill |-> clock,
   enabled |-> rate[1] > 0 /\ rate[2] > 0]

\* TokenBucket.SetRate: the old rate pays for the time that has passed, then
\* the new one takes over and the tokens are cut to the new capacity.
WithRate(b, rate) ==
  [exists |-> TRUE, capacity |-> rate[1], refillRate |-> rate[2],
   tokens |-> AtMost(Refill(b).tokens, rate[1]), lastRefill |-> clock,
   enabled |-> rate[1] > 0 /\ rate[2] > 0]

-----------------------------------------------------------------------------
NewWindow == [start |-> clock, spent |-> 0]

Init ==
  /\ clock = 0
  /\ buckets = [q \in Queues |-> NoBucket]
  /\ waiting = [c \in Callers |-> NoQueue]
  /\ window = [q \in Queues |-> NewWindow]

\* Limiter.SetRate.
SetRate(q, rate) ==
  /\ buckets' = [buckets EXCEPT ![q] = IF @.exists THEN WithRate(@, rate)
                                                   ELSE NewTokenBucket(rate)]
  /\ window' = [window EXCEPT ![q] = NewWindow]
  /\ UNCHANGED <<clock, waiting>>

\* Limiter.Allow up to the lock: a queue with no bucket, or with a disabled
\* one, lets the call through and nothing changes.
AllowCheck(c, q) ==
  /\ waiting[c] = NoQueue
  /\ buckets[q].exists
  /\ buckets[q].enabled
  /\ waiting' = [waiting EXCEPT ![c] = q]
  /\ UNCHANGED <<clock, buckets, window>>

\* AllowN(1) under tb.mu: refill, then pay with a token if there is one.
AllowTake(c) ==
  LET q == waiting[c]
      b == Refill(buckets[q])
      pays == b.tokens >= Unit IN
  /\ q # NoQueue
  /\ buckets' = [buckets EXCEPT ![q] = IF pays THEN [b EXCEPT !.tokens = @ - Unit] ELSE b]
  /\ window' = [window EXCEPT ![q].spent = IF pays THEN @ + Unit ELSE @]
  /\ waiting' = [waiting EXCEPT ![c] = NoQueue]
  /\ UNCHANGED clock

\* Tokens() refills as well.
Tokens(q) ==
  /\ buckets[q].exists
  /\ buckets' = [buckets EXCEPT ![q] = Refill(@)]
  /\ UNCHANGED <<clock, waiting, window>>

\* The observer may start a new window at any time.
OpenWindow(q) ==
  /\ window' = [window EXCEPT ![q] = NewWindow]
  /\ UNCHANGED <<clock, buckets, waiting>>

Tick ==
  /\ clock < MaxClock
  /\ clock' = clock + 1
  /\ UNCHANGED <<buckets, waiting, window>>

Next ==
  \/ \E q \in Queues, rate \in Rates : SetRate(q, rate)
  \/ \E c \in Callers, q \in Queues : AllowCheck(c, q)
  \/ \E c \in Callers : AllowTake(c)
  \/ \E q \in Queues : Tokens(q) \/ OpenWindow(q)
  \/ Tick

Spec == Init /\ [][Next]_vars

-----------------------------------------------------------------------------
(* Properties.                                                             *)

\* Types of the limiter's state.
TypeOK ==
  /\ clock \in 0..MaxClock
  /\ buckets \in [Queues -> TokenBucket]
  /\ waiting \in [Callers -> Queues \cup {NoQueue}]
  /\ window \in [Queues -> [start: 0..MaxClock, spent: Nat]]

\* A limited queue lets at most capacity + refillRate * t tokens' worth of
\* calls through AllowN in any window of length t with no SetRate in it,
\* whatever the interleaving of callers (TokenBucket, ratelimit.go:9).
WindowBounded ==
  \A q \in Queues :
    LET b == buckets[q] IN
    b.enabled => window[q].spent <= b.capacity + b.refillRate * (clock - window[q].start)

\* Between two SetRate calls the tokens on hand plus those spent never grow by
\* more than the refill since, and a bucket that is charged is never overdrawn:
\* refill, charge and the unlocked test of enabled cannot create tokens.
TokensCovered ==
  \A q \in Queues :
    LET b == buckets[q] IN
    /\ b.tokens <= b.capacity
    /\ b.enabled /\ window[q].spent > 0 =>
         /\ b.tokens >= 0
         /\ window[q].start <= b.lastRefill
         /\ window[q].spent + b.tokens
              <= b.capacity + b.refillRate * (b.lastRefill - window[q].start)
=============================================================================
