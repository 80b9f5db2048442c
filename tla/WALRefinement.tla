--------------------------- MODULE WALRefinement ----------------------------
(***************************************************************************)
(* The segment files of WAL implement the log of module Log, which is what *)
(* the queue manager relies on.                                            *)
(***************************************************************************)
EXTENDS WAL

\* The records in the whole frames of the files.
Stored(fs) ==
    UNION {{fs[id].frames[i].rec : i \in {k \in DOMAIN fs[id].frames :
                                            fs[id].frames[k].state = "whole"}} :
           id \in DOMAIN fs}

\* Records with numbers up to m, in the order of their numbers.
InSequence(recs, m) ==
    LET One(n) == IF \E rec \in recs : rec.n = n
                  THEN <<CHOOSE rec \in recs : rec.n = n>>
                  ELSE <<>>
        seq[n \in 0 .. m] == IF n = 0 THEN <<>> ELSE seq[n - 1] \o One(n)
    IN  seq[m]

\* The records of the log, in the order they were written in.
Contents == InSequence(Stored(files), writes)

Abstract == INSTANCE Log WITH Records <- [n : 1 .. MaxWrites, payload : Payloads],
                              log <- Contents, safe <- acked, intact <- Intact

\* The segment files are the log the manager relies on: successful writes
\* append, failed ones append or not, a crash or an outage takes only records
\* nobody was told are safe, and Replay delivers the rest in order, until the
\* disk loses or changes what it had.
ImplementsLog == Abstract!Spec
=============================================================================
