---------------------------- MODULE RecordCodec ----------------------------
(***************************************************************************)
(* Marshal and Unmarshal of a log record (internal/wal/record.go).  Data   *)
(* is a sequence of cells: a character, a scalar field or a length takes   *)
(* one.  A length is written modulo LenMod, 2^16 in the code; the length   *)
(* of the payload has 32 bits there and is not cut.  Unmarshal is a step   *)
(* for every field it reads.  Whoever reads the data may get less of it    *)
(* than was written, as a reader of a damaged file does.                   *)
(***************************************************************************)
EXTENDS Naturals, Sequences, FiniteSets

CONSTANTS
    Records,     \* the records to write
    LenMod,      \* number of values of a length field
    TicksPerMs   \* ETAs keep milliseconds

\* Characters are numbers; headers is a function on the keys.
ASSUME RecordCodecAssumption ==
    /\ LenMod \in Nat \ {0} /\ TicksPerMs \in Nat \ {0}
    /\ \A r \in Records :
         /\ r \in [type : Nat, queue : Seq(Nat), job : Seq(Nat), priority : Nat, tries : Nat,
                  maxRetries : Nat, eta : Nat, payload : Seq(Nat),
                  headers : [DOMAIN r.headers -> Seq(Nat)], lease : Seq(Nat), reason : Seq(Nat)]
         /\ DOMAIN r.headers \subseteq Seq(Nat) /\ Cardinality(DOMAIN r.headers) \in Nat

VARIABLES
    rec,      \* what Marshal was given
    status,   \* "new", "reading", "done" or "invalid": ErrInvalidRecord
    cut,      \* the end of the data is missing
    rest,     \* the data behind Unmarshal's offset
    field,    \* position in Layout of the field that is read next
    left,     \* headers still to be read
    key,      \* a header key whose value is read next, in a sequence
    out       \* the record read so far

vars == <<rec, status, cut, rest, field, left, key, out>>

Layout == <<"type", "queue", "job", "priority", "tries", "maxRetries", "eta",
            "payload", "headers", "lease", "reason">>

Scalars == {"type", "priority", "tries", "maxRetries", "eta"}
Strings == {"queue", "job", "lease", "reason"}

-----------------------------------------------------------------------------
(* Marshal *)

PutString(s) == <<Len(s) % LenMod>> \o s

\* Go iterates over the headers in any order: the key order[n] is written when
\* n headers are left.
Orders(headers) ==
    {o \in [1 .. Cardinality(DOMAIN headers) -> DOMAIN headers] :
        \A k \in DOMAIN headers : \E n \in DOMAIN o : o[n] = k}

\* The last n headers, for each n.
LastHeaders(headers, order) ==
    LET put[n \in 0 .. Len(order)] ==
          IF n = 0 THEN <<>>
          ELSE PutString(order[n]) \o PutString(headers[order[n]]) \o put[n - 1]
    IN  put

PutHeaders(headers, order) ==
    <<Len(order) % LenMod>> \o LastHeaders(headers, order)[Len(order)]

Marshal(r, order) ==
    <<r.type>> \o PutString(r.queue) \o PutString(r.job)
      \o <<r.priority>> \o <<r.tries>> \o <<r.maxRetries>> \o <<r.eta \div TicksPerMs>>
      \o (<<Len(r.payload)>> \o r.payload)
      \o PutHeaders(r.headers, order) \o PutString(r.lease) \o PutString(r.reason)

\* A record is written, and all of the data or a part of it is read.
Write ==
    /\ status = "new"
    /\ \E order \in Orders(rec.headers) :
         LET data == Marshal(rec, order)
         IN  \E n \in 0 .. Len(data) : rest' = SubSeq(data, 1, n) /\ cut' = (n < Len(data))
    /\ status' = "reading"
    /\ UNCHANGED <<rec, field, left, key, out>>

-----------------------------------------------------------------------------
(* Unmarshal *)

\* A length and as many cells are there.
HasString == rest # <<>> /\ Len(Tail(rest)) >= Head(rest)

NextString == SubSeq(rest, 2, Head(rest) + 1)

Skip(n) == rest' = SubSeq(rest, n + 1, Len(rest))

\* The value of the current field is stored, and the next field follows.
Store(f, value) ==
    /\ out' = [out EXCEPT ![f] = value]
    /\ field' = field + 1
    /\ status' = IF field = Len(Layout) THEN "done" ELSE status

Reading(fields) ==
    /\ status = "reading"
    /\ Layout[field] \in fields
    /\ UNCHANGED <<rec, cut>>

Invalid ==
    /\ status' = "invalid"
    /\ UNCHANGED <<rest, field, left, key, out>>

ReadScalar ==
    LET f == Layout[field]
    IN  /\ Reading(Scalars)
        /\ \/ /\ rest # <<>>
              /\ Store(f, IF f = "eta" THEN Head(rest) * TicksPerMs ELSE Head(rest))
              /\ Skip(1)
              /\ UNCHANGED <<left, key>>
           \/ rest = <<>> /\ Invalid

\* Mutant of ReadString: a string that is not there reads as the empty one.
ReadStringLenient ==
    /\ Reading(Strings \cup {"payload"})
    /\ Store(Layout[field], IF HasString THEN NextString ELSE <<>>)
    /\ rest' = IF HasString THEN SubSeq(rest, Head(rest) + 2, Len(rest)) ELSE <<>>
    /\ UNCHANGED <<left, key>>

ReadString ==
    /\ Reading(Strings \cup {"payload"})
    /\ \/ /\ HasString
          /\ Store(Layout[field], NextString)
          /\ Skip(Head(rest) + 1)
          /\ UNCHANGED <<left, key>>
       \/ ~HasString /\ Invalid

\* headersCount; the loop runs while some are left.
ReadCount ==
    /\ Reading({"headers"})
    /\ left = 0
    /\ \/ /\ rest # <<>>
          /\ left' = Head(rest)
          /\ IF Head(rest) = 0 THEN Store("headers", out.headers)
             ELSE UNCHANGED <<out, field, status>>
          /\ Skip(1)
          /\ UNCHANGED key
       \/ rest = <<>> /\ Invalid

ReadKey ==
    /\ Reading({"headers"})
    /\ left > 0
    /\ key = <<>>
    /\ \/ /\ HasString
          /\ key' = <<NextString>>
          /\ Skip(Head(rest) + 1)
          /\ UNCHANGED <<field, left, out, status>>
       \/ ~HasString /\ Invalid

\* A key that was read before gets the later value.
ReadValue ==
    LET k == key[1]
        headers == [x \in DOMAIN out.headers \cup {k} |->
                      IF x = k THEN NextString ELSE out.headers[x]]
    IN  /\ Reading({"headers"})
        /\ key # <<>>
        /\ \/ /\ HasString
              /\ IF left = 1 THEN Store("headers", headers)
                 ELSE out' = [out EXCEPT !.headers = headers] /\ UNCHANGED <<field, status>>
              /\ left' = left - 1
              /\ key' = <<>>
              /\ Skip(Head(rest) + 1)
           \/ ~HasString /\ Invalid

Unmarshal == ReadScalar \/ ReadString \/ ReadCount \/ ReadKey \/ ReadValue

-----------------------------------------------------------------------------

EmptyRecord ==
    [type |-> 0, queue |-> <<>>, job |-> <<>>, priority |-> 0, tries |-> 0,
     maxRetries |-> 0, eta |-> 0, payload |-> <<>>, headers |-> [k \in {} |-> <<>>],
     lease |-> <<>>, reason |-> <<>>]

Init ==
    /\ rec \in Records
    /\ status = "new" /\ cut = FALSE /\ rest = <<>>
    /\ field = 1 /\ left = 0 /\ key = <<>>
    /\ out = EmptyRecord

Next == Write \/ Unmarshal

Spec == Init /\ [][Next]_vars

-----------------------------------------------------------------------------
(* Properties *)

\* No length of the record is cut.
Fits ==
    /\ \A f \in Strings : Len(rec[f]) < LenMod
    /\ Cardinality(DOMAIN rec.headers) < LenMod
    /\ \A k \in DOMAIN rec.headers : Len(k) < LenMod /\ Len(rec.headers[k]) < LenMod

\* What Marshal keeps of a record: ETAs are cut to milliseconds.
Stored == [rec EXCEPT !.eta = (@ \div TicksPerMs) * TicksPerMs]

\* Unmarshal gives back the record Marshal was given, with nothing left over,
\* whatever order the headers were written in; a record with the end of its
\* data missing is refused and never taken for another one.
RoundTrip ==
    Fits => /\ status = "done" => out = Stored /\ rest = <<>> /\ ~cut
            /\ status = "invalid" => cut

-----------------------------------------------------------------------------
(* What the repository says of records and the code does not do.           *)

\* Marshal, which never returns an error, "serializes a record to bytes" that
\* Unmarshal "deserializes": all of the data is there, so it is not refused.
MarshalledReadable == status = "invalid" => cut
=============================================================================
