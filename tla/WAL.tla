-------------------------------- MODULE WAL --------------------------------
(***************************************************************************)
(* The write-ahead log of internal/wal: segment files, of which the last   *)
(* is written, its rotation when it is full, errors of a write, the loss   *)
(* of a process or of the machine at any point, and New and Replay at the  *)
(* next start.                                                             *)
(*                                                                         *)
(* A file is a sequence of frames, [length][crc][data] in the code.  A     *)
(* frame is "whole", "torn" (only a part of its bytes is in the file) or   *)
(* "bad" (its bytes changed on the disk and the checksum does not fit).    *)
(* Sizes are counted in frames.  What is below file.Sync in a file         *)
(* outlives the machine, the rest of it outlives only the process.         *)
(***************************************************************************)
EXTENDS Naturals, Sequences

CONSTANTS
    Payloads,      \* what there is to tell records apart besides their number
    Fsync,         \* Config.Fsync
    SegmentSize,   \* Config.SegmentSize
    MaxWrites, MaxFaults, MaxCrashes, MaxRots   \* bounds

ASSUME WALAssumption ==
    /\ Fsync \in BOOLEAN
    /\ SegmentSize \in Nat \ {0}
    /\ {MaxWrites, MaxFaults, MaxCrashes, MaxRots} \subseteq Nat

VARIABLES
    mode,          \* "down", "up", or "failed": Replay returned an error
    files,         \* segment ID -> the file with that ID, on the disk
    segments,      \* WAL.segments; the last one is activeSegment
    nextSegmentID,
    delivered,     \* what the last successful Replay passed to its callback
    acked,         \* history: records whose Write returned no error
    writes, faults, crashes, rots, outages   \* counted

memory == <<segments, nextSegmentID>>
counters == <<writes, faults, crashes, rots, outages>>
vars == <<mode, files, memory, delivered, acked, counters>>

Record == [n : Nat, payload : Payloads]
Frame == [rec : Record, state : {"whole", "torn", "bad"}]
File == [frames : Seq(Frame), synced : Nat]
Segment == [id : Nat, size : Nat, stuck : BOOLEAN]

-----------------------------------------------------------------------------
(* Files *)

EmptyFile == [frames |-> <<>>, synced |-> 0]

\* os.OpenFile with O_CREATE|O_APPEND.
OpenedFile(id) ==
    [i \in DOMAIN files \cup {id} |-> IF i \in DOMAIN files THEN files[i] ELSE EmptyFile]

\* NewSegment: the size is the file's, the bufio.Writer has no error yet.
NewSegment(id) ==
    [id |-> id, size |-> Len(OpenedFile(id)[id].frames), stuck |-> FALSE]

Appended(file, rec, state) ==
    [frames |-> Append(file.frames, [rec |-> rec, state |-> state]), synced |-> file.synced]

Synced(file) == [frames |-> file.frames, synced |-> Len(file.frames)]

\* SegmentReader.Read delivers the frames before the first that is not whole.
Readable(frames, i) ==
    i \in DOMAIN frames /\ \A k \in 1 .. i : frames[k].state = "whole"

\* The first frame that is not whole is torn: at the end of the file Read
\* returns an error that is neither io.EOF nor ErrCorruptedData.  With more
\* bytes behind it, they are taken for its data and the checksum may tell.
EndsTorn(frames) ==
    /\ frames # <<>>
    /\ frames[Len(frames)].state = "torn"
    /\ \A k \in 1 .. Len(frames) - 1 : frames[k].state = "whole"

TornInside(frames) ==
    \E i \in 1 .. Len(frames) - 1 :
        frames[i].state = "torn" /\ \A k \in 1 .. i - 1 : frames[k].state = "whole"

-----------------------------------------------------------------------------
(* Write *)

Active(segs) == segs[Len(segs)]

NewRecord(payload) == [n |-> writes + 1, payload |-> payload]

\* createSegment, when activeSegment.IsFull().
Rotated ==
    IF Active(segments).size >= SegmentSize
    THEN [files |-> OpenedFile(nextSegmentID),
          segments |-> Append(segments, NewSegment(nextSegmentID)),
          next |-> nextSegmentID + 1]
    ELSE [files |-> files, segments |-> segments, next |-> nextSegmentID]

\* A call of Write that gets as far as the bufio.Writer of a segment: from
\* now on its outcomes differ.
Writing ==
    /\ mode = "up"
    /\ writes < MaxWrites
    /\ writes' = writes + 1
    /\ ~Active(Rotated.segments).stuck
    /\ nextSegmentID' = Rotated.next

\* The frame reaches the active file in this state.
Put(rec, state, sync) ==
    LET id == Active(Rotated.segments).id
        file == Appended(Rotated.files[id], rec, state)
    IN  files' = [Rotated.files EXCEPT ![id] = IF sync THEN Synced(file) ELSE file]

Fault == faults < MaxFaults /\ faults' = faults + 1

\* Mutant of Write: no Sync before it returns.
WriteUnsynced(payload) ==
    /\ Writing
    /\ Put(NewRecord(payload), "whole", FALSE)
    /\ segments' = [Rotated.segments EXCEPT ![Len(Rotated.segments)].size = @ + 1]
    /\ acked' = acked \cup {NewRecord(payload)}
    /\ UNCHANGED <<mode, delivered, faults, crashes, rots, outages>>

Write(payload) ==
    /\ Writing
    /\ Put(NewRecord(payload), "whole", Fsync)
    /\ segments' = [Rotated.segments EXCEPT ![Len(Rotated.segments)].size = @ + 1]
    /\ acked' = acked \cup {NewRecord(payload)}
    /\ UNCHANGED <<mode, delivered, faults, crashes, rots, outages>>

\* Mutant of WriteFlushFails: a fresh bufio.Writer for every Write.
WriteFlushForgotten(payload) ==
    /\ Writing
    /\ Fault
    /\ Put(NewRecord(payload), "torn", FALSE) \/ files' = Rotated.files
    /\ segments' = Rotated.segments
    /\ UNCHANGED <<mode, delivered, acked, crashes, rots, outages>>

\* Flush fails with a part of the frame written, or none.  The bufio.Writer
\* keeps the error and returns it from every later call.
WriteFlushFails(payload) ==
    /\ Writing
    /\ Fault
    /\ Put(NewRecord(payload), "torn", FALSE) \/ files' = Rotated.files
    /\ segments' = [Rotated.segments EXCEPT ![Len(Rotated.segments)].stuck = TRUE]
    /\ UNCHANGED <<mode, delivered, acked, crashes, rots, outages>>

\* The frame is in the file; Sync fails and the size is not updated.
WriteSyncFails(payload) ==
    /\ Fsync
    /\ Writing
    /\ Fault
    /\ Put(NewRecord(payload), "whole", FALSE)
    /\ segments' = Rotated.segments
    /\ UNCHANGED <<mode, delivered, acked, crashes, rots, outages>>

\* Mutant of WriteRefused: the segment is in the list although it could not
\* be created.
WriteRefusedListed ==
    /\ mode = "up"
    /\ writes < MaxWrites
    /\ writes' = writes + 1
    /\ Active(segments).size >= SegmentSize
    /\ Fault
    /\ segments' = Append(segments, NewSegment(nextSegmentID))
    /\ nextSegmentID' = nextSegmentID + 1
    /\ UNCHANGED <<mode, files, delivered, acked, crashes, rots, outages>>

\* An error kept by the writer, or the new segment cannot be created.
WriteRefused ==
    /\ mode = "up"
    /\ writes < MaxWrites
    /\ writes' = writes + 1
    /\ \/ Active(Rotated.segments).stuck /\ UNCHANGED faults
       \/ Active(segments).size >= SegmentSize /\ Fault
    /\ UNCHANGED <<mode, files, memory, delivered, acked, crashes, rots, outages>>

-----------------------------------------------------------------------------
(* The end of a process, and what happens to the files *)

Gone == mode' = "down" /\ segments' = <<>> /\ nextSegmentID' = 0

\* Close, or a process that ends between two writes: nothing is buffered.
Close ==
    /\ mode = "up"
    /\ Gone
    /\ UNCHANGED <<files, delivered, acked, counters>>

\* The process ends inside Write.
CrashWriting(payload) ==
    /\ crashes < MaxCrashes
    /\ crashes' = crashes + 1
    /\ mode = "up"
    /\ writes < MaxWrites
    /\ writes' = writes + 1
    /\ ~Active(Rotated.segments).stuck
    /\ \/ \E state \in {"torn", "whole"} : Put(NewRecord(payload), state, FALSE)
       \/ files' = Rotated.files
    /\ Gone
    /\ UNCHANGED <<delivered, acked, faults, rots, outages>>

\* The machine goes down with the process: a file keeps what was synced and
\* any part of the rest, the last frame possibly torn.
Remains(file) ==
    {[frames |-> SubSeq(file.frames, 1, n), synced |-> file.synced] :
        n \in file.synced .. Len(file.frames)}
    \cup {[frames |-> [SubSeq(file.frames, 1, n) EXCEPT ![n].state = "torn"],
           synced |-> file.synced] : n \in file.synced + 1 .. Len(file.frames)}

Outage ==
    /\ mode = "down"
    /\ outages < MaxCrashes
    /\ outages' = outages + 1
    /\ \E left \in [DOMAIN files -> UNION {Remains(files[id]) : id \in DOMAIN files}] :
         /\ \A id \in DOMAIN files : left[id] \in Remains(files[id])
         /\ files' = left
    /\ UNCHANGED <<mode, memory, delivered, acked, writes, faults, crashes, rots>>

\* Bytes of a frame change on the disk: its data or checksum, or its length,
\* after which it reads like a frame cut short.
Rot(id, i) ==
    /\ mode = "down"
    /\ rots < MaxRots
    /\ rots' = rots + 1
    /\ id \in DOMAIN files
    /\ i \in DOMAIN files[id].frames
    /\ \E state \in {"bad", "torn"} :
         files' = [files EXCEPT ![id].frames[i].state = state]
    /\ UNCHANGED <<mode, memory, delivered, acked, writes, faults, crashes, outages>>

-----------------------------------------------------------------------------
(* New and Replay *)

\* One segment is created if there is no file.
Loaded == IF DOMAIN files = {} THEN OpenedFile(0) ELSE files

\* Mutant of InOrder: the IDs are sorted the other way round.
InOrderReversed(order) ==
    /\ {order[k] : k \in DOMAIN order} = DOMAIN Loaded
    /\ \A j, k \in DOMAIN order : j < k => order[j] > order[k]

\* loadSegments: the IDs of all files, in increasing order.
InOrder(order) ==
    /\ {order[k] : k \in DOMAIN order} = DOMAIN Loaded
    /\ \A j, k \in DOMAIN order : j < k => order[j] < order[k]

\* How many frames Read delivers before it returns an error.
ReadCount(frames) ==
    CHOOSE n \in 0 .. Len(frames) :
      (\A i \in 1 .. n : Readable(frames, i)) /\ ~Readable(frames, n + 1)

ReadSegment(frames) == [i \in 1 .. ReadCount(frames) |-> frames[i].rec]

ReadAll(order) ==
    LET read[k \in 0 .. Len(order)] ==
          IF k = 0 THEN <<>> ELSE read[k - 1] \o ReadSegment(Loaded[order[k]].frames)
    IN  read[Len(order)]

\* Replay passes over the rest of a file after a frame that fails its checksum.
\* There are at most id + 1 files if id is the highest ID.
Open ==
    /\ mode \in {"down", "failed"}
    /\ \A id \in DOMAIN files : ~EndsTorn(files[id].frames)
    /\ mode' = "up"
    /\ files' = Loaded
    /\ \E id \in DOMAIN Loaded : \E n \in 1 .. id + 1 : \E order \in [1 .. n -> DOMAIN Loaded] :
         /\ InOrder(order)
         /\ segments' = [k \in DOMAIN order |-> NewSegment(order[k])]
         /\ nextSegmentID' = order[n] + 1
         /\ delivered' = ReadAll(order)
    /\ UNCHANGED <<acked, counters>>

\* Replay stops with an error, and so does Start.
OpenFails ==
    /\ mode \in {"down", "failed"}
    /\ \E id \in DOMAIN files :
         EndsTorn(files[id].frames) \/ TornInside(files[id].frames)
    /\ mode' = "failed"
    /\ UNCHANGED <<files, memory, delivered, acked, counters>>

-----------------------------------------------------------------------------

Init ==
    /\ mode = "down"
    /\ files = [id \in {} |-> EmptyFile]
    /\ segments = <<>> /\ nextSegmentID = 0
    /\ delivered = <<>> /\ acked = {}
    /\ writes = 0 /\ faults = 0 /\ crashes = 0 /\ rots = 0 /\ outages = 0

Next ==
    \/ \E payload \in Payloads :
         \/ Write(payload) \/ WriteFlushFails(payload) \/ WriteSyncFails(payload)
         \/ CrashWriting(payload)
    \/ WriteRefused \/ Close \/ Outage \/ Open \/ OpenFails
    \/ \E id \in DOMAIN files : \E i \in DOMAIN files[id].frames : Rot(id, i)

Spec == Init /\ [][Next]_vars

-----------------------------------------------------------------------------
(* Properties *)

\* Types; the active segment of an open log has its file.
TypeOK ==
    /\ mode \in {"down", "up", "failed"}
    /\ DOMAIN files \subseteq Nat
    /\ \A id \in DOMAIN files : files[id] \in File
    /\ segments \in Seq(Segment) /\ nextSegmentID \in Nat
    /\ acked \subseteq Record
    /\ {writes, faults, crashes, rots, outages} \subseteq Nat
    /\ mode = "up" => segments # <<>> /\ Active(segments).id \in DOMAIN files

\* The disk did not change what was written, and no unsynced data was lost.
Intact == rots = 0 /\ (Fsync \/ outages = 0)

\* A record whose Write succeeded stays where Replay reads it: through
\* rotations, failed writes, crashes in the middle of a frame and restarts,
\* and with fsync the loss of the machine, it is whole and nothing in front
\* of it in its file is torn.
AckedReadable ==
    Intact => \A rec \in acked : \E id \in DOMAIN files :
                \E i \in DOMAIN files[id].frames :
                  Readable(files[id].frames, i) /\ files[id].frames[i].rec = rec

\* Replay never delivers a record twice or after a later one, even from files
\* that lost their ends or rotted: files are read in the order they were
\* written in, whatever number of restarts numbered them.
DeliveredInOrder ==
    \A i, k \in DOMAIN delivered : i < k => delivered[i].n < delivered[k].n

-----------------------------------------------------------------------------
(* What the repository says of the log and the code does not do.           *)

\* The log "survives crashes, power loss": as long as the disk keeps what it
\* was given, the next start succeeds.
RestartSucceeds == rots = 0 => mode # "failed"

\* Replay "skip[s] corrupted records, continue[s] replay": a start delivers
\* every record that is whole.
OnlyCorruptedSkipped ==
    [][Open => \A id \in DOMAIN files : \A i \in DOMAIN files[id].frames :
                 files[id].frames[i].state = "whole" =>
                   \E k \in DOMAIN delivered' : delivered'[k] = files[id].frames[i].rec]_vars
=============================================================================
