-------------------------------- MODULE Log --------------------------------
(***************************************************************************)
(* What the write-ahead log promises: a sequence that grows at its end,    *)
(* from which a record that was acknowledged to a writer is never lost,    *)
(* and which Replay delivers whole and in order, as long as the disk keeps *)
(* what it was given.  The manager's model takes its log to be this one.   *)
(***************************************************************************)
EXTENDS Naturals, Sequences

CONSTANT Records

VARIABLES log,
          safe,      \* the records whose Write returned no error
          delivered, \* what the last Replay passed to its callback
          intact     \* the disk kept what it said it had

vars == <<log, safe, delivered, intact>>

Init == log = <<>> /\ safe = {} /\ delivered = <<>> /\ intact = TRUE

WriteSucceeds(rec) ==
    /\ log' = Append(log, rec)
    /\ safe' = safe \cup {rec}
    /\ UNCHANGED delivered

\* Write returned an error, or never returned: the record may be there.
WriteFails(rec) ==
    /\ log' = Append(log, rec)
    /\ UNCHANGED <<safe, delivered>>

\* Records may go, the others keep their order.
Thinned ==
    \E n \in 0 .. Len(log) : \E keep \in [1 .. n -> DOMAIN log] :
      /\ \A j, k \in 1 .. n : j < k => keep[j] < keep[k]
      /\ log' = [k \in 1 .. n |-> log[keep[k]]]

\* None of them is a record whose writer was told that it is safe.
Lose ==
    /\ Thinned
    /\ \A i \in DOMAIN log : log[i] \in safe => \E k \in DOMAIN log' : log'[k] = log[i]
    /\ UNCHANGED <<safe, delivered>>

Replay == delivered' = log /\ UNCHANGED <<log, safe>>

\* Nothing is promised once the disk lost or changed what it had.
Damage == intact' = FALSE

Works ==
    /\ intact /\ intact'
    /\ Lose \/ Replay \/ \E rec \in Records : WriteSucceeds(rec) \/ WriteFails(rec)

Next == Works \/ Damage

Spec == Init /\ [][Next]_vars
=============================================================================
