------------------------------ MODULE Backoff ------------------------------
(***************************************************************************)
(* Exponential backoff with jitter (internal/backoff/backoff.go).  The     *)
(* random jitter makes the delay a set: every whole number of time units   *)
(* Calculate can return for an attempt.                                    *)
(***************************************************************************)
EXTENDS Integers

CONSTANTS
    BaseDelay, MaxDelay,   \* in time units
    Multiplier,
    JitterDivisor          \* the jitter factor is 1 / JitterDivisor

ASSUME BackoffAssumption ==
    /\ BaseDelay \in Nat /\ MaxDelay \in Nat /\ Multiplier \in Nat
    /\ JitterDivisor \in Nat \ {0}

\* The delay before jitter: exponential in the attempt, capped.
Capped(attempt) ==
    LET delay == BaseDelay * Multiplier ^ (attempt - 1)
    IN  IF delay > MaxDelay THEN MaxDelay ELSE delay

Calculate(attempt) ==
    IF attempt = 0 THEN {0}
    ELSE LET range == Capped(attempt) \div JitterDivisor
         IN  ((Capped(attempt) - range) .. (Capped(attempt) + range)) \cap Nat
=============================================================================
