----------------------------- MODULE Compaction -----------------------------
(***************************************************************************)
(* WAL.Compact on top of the log: the Enqueue records of active jobs are   *)
(* copied from all segments but the active one to a new segment, then the  *)
(* old files are removed one by one.  Compact holds w.mu throughout, so    *)
(* only a crash sees what is in between.  Nothing in the repository calls  *)
(* it; the caller here passes any set that keeps no job it gave up before. *)
(***************************************************************************)
EXTENDS WAL

CONSTANTS Jobs,
          MaxCompactions

ASSUME CompactionAssumption ==
    /\ Payloads \subseteq [type : {"enqueue", "other"}, job : Jobs]
    /\ MaxCompactions \in Nat

VARIABLES
    removing,      \* the IDs of the old segments still to be removed
    retired,       \* history: jobs that were not in the activeJobIDs of a Compact
    leftover,      \* history: a Compact that failed left its new file behind
    compactions    \* counted

cvars == <<vars, removing, retired, leftover, compactions>>

-----------------------------------------------------------------------------

\* All segments but the active one.
Old == SubSeq(segments, 1, Len(segments) - 1)

\* The inner loop of Compact: of the records read from a segment, the Enqueue
\* records of active jobs are written.
KeptOf(read, active) ==
    LET Wanted(rec) == rec.payload.type = "enqueue" /\ rec.payload.job \in active
        kept[i \in 0 .. Len(read)] ==
          IF i = 0 THEN <<>>
          ELSE kept[i - 1] \o (IF Wanted(read[i]) THEN <<read[i]>> ELSE <<>>)
    IN  kept[Len(read)]

\* The records Compact copies from the old segments, in order.
Kept(active) ==
    LET kept[k \in 0 .. Len(Old)] ==
          IF k = 0 THEN <<>>
          ELSE kept[k - 1] \o KeptOf(ReadSegment(files[Old[k].id].frames), active)
    IN  kept[Len(Old)]

\* Mutant of CopiedFile: the copied records are not synced.
CopiedFileUnsynced(active, n, torn) ==
    LET file == OpenedFile(nextSegmentID)[nextSegmentID]
        frames == [i \in 1 .. n |-> [rec |-> Kept(active)[i], state |-> "whole"]]
        rest == IF torn THEN <<[rec |-> Kept(active)[n + 1], state |-> "torn"]>> ELSE <<>>
    IN  [frames |-> file.frames \o frames \o rest, synced |-> file.synced]

\* The file of the new segment after n of the records, and a part of the next.
CopiedFile(active, n, torn) ==
    LET file == OpenedFile(nextSegmentID)[nextSegmentID]
        frames == [i \in 1 .. n |-> [rec |-> Kept(active)[i], state |-> "whole"]]
        rest == IF torn THEN <<[rec |-> Kept(active)[n + 1], state |-> "torn"]>> ELSE <<>>
    IN  [frames |-> file.frames \o frames \o rest,
         synced |-> IF Fsync /\ n > 0 THEN Len(file.frames) + n ELSE file.synced]

Copied(active, n, torn) ==
    files' = [OpenedFile(nextSegmentID) EXCEPT ![nextSegmentID] = CopiedFile(active, n, torn)]

\* Copying stopped early: any number of records, possibly a part of one more.
CopiedSome(active) ==
    \E n \in 0 .. Len(Kept(active)), torn \in BOOLEAN :
      (torn => n < Len(Kept(active))) /\ Copied(active, n, torn)

\* Compact is called with more than one segment.
Compacting(active) ==
    /\ mode = "up"
    /\ Len(segments) > 1
    /\ compactions < MaxCompactions
    /\ compactions' = compactions + 1
    /\ active \cap retired = {}
    /\ retired' = Jobs \ active

CompactCopy(active) ==
    /\ Compacting(active)
    /\ \A k \in DOMAIN Old : ~EndsTorn(files[Old[k].id].frames)
    /\ Copied(active, Len(Kept(active)), FALSE)
    /\ mode' = "compact"
    /\ removing' = [k \in DOMAIN Old |-> Old[k].id]
    /\ UNCHANGED <<memory, delivered, acked, counters, leftover>>

\* A record cannot be written to the new segment, or an old one not be read:
\* Compact returns with the new file in place and nextSegmentID unchanged.
CompactCopyFails(active) ==
    /\ Compacting(active)
    /\ \/ Fault
       \/ /\ \E k \in DOMAIN Old : LET frames == files[Old[k].id].frames
                                  IN  EndsTorn(frames) \/ TornInside(frames)
          /\ UNCHANGED faults
    /\ CopiedSome(active)
    /\ leftover' = TRUE
    /\ UNCHANGED <<mode, memory, delivered, acked, writes, crashes, rots, outages, removing>>

\* The process ends while it copies.
CompactCrash(active) ==
    /\ Compacting(active)
    /\ crashes < MaxCrashes
    /\ crashes' = crashes + 1
    /\ CopiedSome(active)
    /\ Gone
    /\ UNCHANGED <<delivered, acked, writes, faults, rots, outages, removing, leftover>>

\* os.Remove of the next old file; its error is ignored.
CompactRemove ==
    /\ mode = "compact"
    /\ removing # <<>>
    /\ removing' = Tail(removing)
    /\ \/ /\ files' = [id \in DOMAIN files \ {Head(removing)} |-> files[id]]
          /\ UNCHANGED faults
       \/ Fault /\ UNCHANGED files
    /\ UNCHANGED <<mode, memory, delivered, acked, writes, crashes, rots, outages,
                   retired, leftover, compactions>>

\* Mutant of CompactDone: nextSegmentID is not incremented.
CompactDoneSameID ==
    LET empty == files[nextSegmentID].frames = <<>>
    IN  /\ mode = "compact"
        /\ removing = <<>>
        /\ mode' = "up"
        /\ segments' = IF empty THEN <<Active(segments)>>
                       ELSE <<NewSegment(nextSegmentID), Active(segments)>>
        /\ files' = [id \in IF empty THEN DOMAIN files \ {nextSegmentID} ELSE DOMAIN files
                       |-> files[id]]
        /\ UNCHANGED <<nextSegmentID, delivered, acked, counters, removing, retired, leftover,
                       compactions>>

\* The new segment goes before the active one in memory, or is removed if it
\* is empty.
CompactDone ==
    LET empty == files[nextSegmentID].frames = <<>>
    IN  /\ mode = "compact"
        /\ removing = <<>>
        /\ mode' = "up"
        /\ segments' = IF empty THEN <<Active(segments)>>
                       ELSE <<NewSegment(nextSegmentID), Active(segments)>>
        /\ files' = [id \in IF empty THEN DOMAIN files \ {nextSegmentID} ELSE DOMAIN files
                       |-> files[id]]
        /\ nextSegmentID' = IF empty THEN nextSegmentID ELSE nextSegmentID + 1
        /\ UNCHANGED <<delivered, acked, counters, removing, retired, leftover, compactions>>

\* The new segment cannot be opened again: Compact returns without it.
CompactDoneFails ==
    /\ mode = "compact"
    /\ removing = <<>>
    /\ files[nextSegmentID].frames # <<>>
    /\ Fault
    /\ mode' = "up"
    /\ segments' = <<Active(segments)>>
    /\ UNCHANGED <<files, nextSegmentID, delivered, acked, writes, crashes, rots, outages,
                   removing, retired, leftover, compactions>>

\* The process ends while old files are removed.
CrashRemoving ==
    /\ mode = "compact"
    /\ crashes < MaxCrashes
    /\ crashes' = crashes + 1
    /\ Gone
    /\ removing' = <<>>
    /\ UNCHANGED <<files, delivered, acked, writes, faults, rots, outages,
                   retired, leftover, compactions>>

CompactionInit ==
    Init /\ removing = <<>> /\ retired = {} /\ leftover = FALSE /\ compactions = 0

CompactionNext ==
    \/ Next /\ UNCHANGED <<removing, retired, leftover, compactions>>
    \/ \E active \in SUBSET Jobs :
         CompactCopy(active) \/ CompactCopyFails(active) \/ CompactCrash(active)
    \/ CompactRemove \/ CompactDone \/ CompactDoneFails \/ CrashRemoving

CompactionSpec == CompactionInit /\ [][CompactionNext]_cvars

-----------------------------------------------------------------------------
(* Properties *)

\* The Enqueue records of the jobs no Compact was told to drop can be read.
ActiveKept ==
    Intact => \A rec \in acked :
      (rec.payload.type = "enqueue" /\ rec.payload.job \notin retired) =>
        \E id \in DOMAIN files : \E i \in DOMAIN files[id].frames :
          Readable(files[id].frames, i) /\ files[id].frames[i].rec = rec

\* A compaction that does not fail takes no active job's Enqueue record away:
\* wherever between two of its steps the process or the machine stops, the
\* record is in the old file or in the new one, where Replay reads it.
CompactionKeeps == ~leftover => ActiveKept

\* A segment ID is never given to two open segments, so no two writers append
\* to one file, whichever of Compact's error paths was taken before.
OneWriterPerFile ==
    \A j, k \in DOMAIN segments : segments[j].id = segments[k].id => j = k

-----------------------------------------------------------------------------
(* What the repository says of compaction and the code does not do.        *)

\* Compaction, failed or not, loses no job ("No data loss (with fsync)").
FailedCompactionKeeps == ActiveKept
=============================================================================
