----------------------------- MODULE WALProofs -----------------------------
(***************************************************************************)
(* An acknowledged record stays readable, Replay delivers records in the   *)
(* order they were written in, and the segment files implement the log of  *)
(* module Log, for any segment size, number of writes, errors, crashes and *)
(* outages.  Compact loses no Enqueue record of an active job wherever it  *)
(* is interrupted, and gives no segment ID out twice.                      *)
(***************************************************************************)
EXTENDS WALRefinement, Compaction, WellFoundedInduction, TLAPS

\* The disk: numbered files of frames, of which a prefix is synced.
DiskType(fs) ==
    /\ DOMAIN fs \subseteq Nat
    /\ \A id \in DOMAIN fs : fs[id] \in File /\ fs[id].synced <= Len(fs[id].frames)

\* Only the last frame of a file is not whole, and then it is torn.
TornAtEnd(frames) ==
    \A i \in DOMAIN frames :
      frames[i].state # "whole" => i = Len(frames) /\ frames[i].state = "torn"

AllWhole(frames) == \A i \in DOMAIN frames : frames[i].state = "whole"

\* An acknowledged record is in a whole frame, and synced if it has to be.
Held(fs, rec) ==
    \E id \in DOMAIN fs : \E i \in DOMAIN fs[id].frames :
      /\ fs[id].frames[i].rec = rec
      /\ fs[id].frames[i].state = "whole"
      /\ Fsync => i <= fs[id].synced

\* A process has the log open.
Running == mode \notin {"down", "failed"}

Typed ==
    /\ DiskType(files)
    /\ segments \in Seq(Segment) /\ nextSegmentID \in Nat
    /\ acked \subseteq Record
    /\ {writes, faults, crashes, rots, outages} \subseteq Nat
    /\ Running => segments # <<>> /\ Active(segments).id \in DOMAIN files

\* What every step of the log keeps as long as ok holds, for the records that
\* must be there.  The next segment starts without a torn frame, should its
\* file exist; nothing is behind a torn frame; and a segment whose file ends
\* torn is stuck.
DiskInv(ok, must) ==
    /\ Typed
    /\ Running => /\ Active(segments).id < nextSegmentID
                  /\ \A id \in DOMAIN files : id <= nextSegmentID
    /\ ok =>
         /\ \A id \in DOMAIN files : TornAtEnd(files[id].frames)
         /\ Running => /\ \/ Active(segments).stuck
                          \/ AllWhole(files[Active(segments).id].frames)
                       /\ nextSegmentID \in DOMAIN files => AllWhole(files[nextSegmentID].frames)
         /\ \A rec \in must : Held(files, rec)

\* In the log by itself all files are numbered below nextSegmentID.
Below == mode = "up" => \A id \in DOMAIN files : id < nextSegmentID

WalInv == TypeOK /\ Below /\ DiskInv(Intact, acked)

-----------------------------------------------------------------------------

\* Opening a file with O_CREATE changes no other.
LEMMA OpenedFileFacts ==
  ASSUME NEW id \in Nat, DiskType(files)
  PROVE  /\ DiskType(OpenedFile(id))
         /\ DOMAIN OpenedFile(id) = DOMAIN files \cup {id}
         /\ \A i \in DOMAIN files : OpenedFile(id)[i] = files[i]
         /\ id \notin DOMAIN files => OpenedFile(id)[id] = EmptyFile
<1>1. DOMAIN OpenedFile(id) = DOMAIN files \cup {id}
  BY Zenon DEF OpenedFile
<1>2. EmptyFile \in File /\ EmptyFile.synced <= Len(EmptyFile.frames)
  BY DEF EmptyFile, File
<1> QED
  BY <1>1, <1>2, Zenon DEF DiskType, OpenedFile

\* A new segment has the size of its file.
LEMMA NewSegmentType ==
  ASSUME NEW id \in Nat, DiskType(files)
  PROVE  /\ NewSegment(id) \in Segment
         /\ NewSegment(id).id = id /\ ~NewSegment(id).stuck
<1>1. OpenedFile(id)[id] \in File
  BY OpenedFileFacts, Zenon DEF DiskType
<1>2. Len(OpenedFile(id)[id].frames) \in Nat
  BY <1>1 DEF File
<1> QED
  BY <1>2, Zenon DEF NewSegment, Segment

\* Rotation keeps the files that are there, and a segment that accepts a
\* write has a file without a torn frame.
LEMMA RotatedDisk ==
  ASSUME NEW ok, NEW must, DiskInv(ok, must), mode = "up"
  PROVE  LET R == Rotated IN
         /\ DiskType(R.files)
         /\ R.segments \in Seq(Segment) /\ R.segments # <<>>
         /\ Active(R.segments).id \in DOMAIN R.files
         /\ R.next \in Nat /\ Active(R.segments).id < R.next
         /\ \A id \in DOMAIN R.files : id <= R.next
         /\ \A id \in DOMAIN files : id \in DOMAIN R.files /\ R.files[id] = files[id]
         /\ \A id \in DOMAIN R.files \ DOMAIN files : R.files[id] = EmptyFile
         /\ ok => /\ Active(R.segments).stuck \/ AllWhole(R.files[Active(R.segments).id].frames)
                  /\ R.next \in DOMAIN R.files => AllWhole(R.files[R.next].frames)
<1> DEFINE R == Rotated
           n == nextSegmentID
<1>0. /\ DiskType(files) /\ n \in Nat
      /\ segments \in Seq(Segment) /\ segments # <<>>
      /\ Active(segments).id \in DOMAIN files /\ Active(segments).id < n
      /\ \A id \in DOMAIN files : id <= n
      /\ DOMAIN files \subseteq Nat
      /\ ok => /\ Active(segments).stuck \/ AllWhole(files[Active(segments).id].frames)
               /\ n \in DOMAIN files => AllWhole(files[n].frames)
  <2>1. Running
    BY DEF Running
  <2> QED BY <2>1, Zenon DEF DiskInv, Typed, DiskType
<1>1. CASE Active(segments).size >= SegmentSize
  <2>1. R = [files |-> OpenedFile(n), segments |-> Append(segments, NewSegment(n)), next |-> n + 1]
    BY <1>1, Zenon DEF Rotated
  <2>2. NewSegment(n) \in Segment /\ NewSegment(n).id = n
    BY <1>0, NewSegmentType, Zenon
  <2>3. R.segments \in Seq(Segment) /\ R.segments # <<>> /\ Active(R.segments) = NewSegment(n)
    BY <1>0, <2>1, <2>2 DEF Active
  <2>4. /\ DiskType(OpenedFile(n))
        /\ DOMAIN OpenedFile(n) = DOMAIN files \cup {n}
        /\ \A i \in DOMAIN files : OpenedFile(n)[i] = files[i]
        /\ n \notin DOMAIN files => OpenedFile(n)[n] = EmptyFile
    BY <1>0, OpenedFileFacts, Zenon
  <2>5. n + 1 \in Nat /\ n < n + 1 /\ n + 1 \notin DOMAIN files \cup {n}
        /\ \A id \in DOMAIN files \cup {n} : id <= n + 1
    BY <1>0
  <2>6. AllWhole(EmptyFile.frames)
    BY DEF AllWhole, EmptyFile
  <2> HIDE DEF R
  <2>7. R.files = OpenedFile(n) /\ R.next = n + 1 /\ Active(R.segments).id = n
    BY <2>1, <2>2, <2>3, Zenon
  <2>8. ok => AllWhole(OpenedFile(n)[n].frames)
    BY <1>0, <2>4, <2>6, Zenon
  <2>9. QED
    BY <1>0, <2>3, <2>4, <2>5, <2>7, <2>8, Zenon DEF R
<1>2. CASE ~(Active(segments).size >= SegmentSize)
  <2>1. Rotated = [files |-> files, segments |-> segments, next |-> n]
    BY <1>2, Zenon DEF Rotated
  <2> QED
    BY <1>0, <2>1, Zenon
<1> QED
  BY <1>1, <1>2, Zenon

\* So it keeps what the files hold.
LEMMA RotatedHeld ==
  ASSUME NEW ok, NEW must, DiskInv(ok, must), mode = "up", ok
  PROVE  /\ \A id \in DOMAIN Rotated.files : TornAtEnd(Rotated.files[id].frames)
         /\ \A rec \in must : Held(Rotated.files, rec)
<1> DEFINE R == Rotated
<1>1. /\ \A id \in DOMAIN files : id \in DOMAIN R.files /\ R.files[id] = files[id]
      /\ \A id \in DOMAIN R.files \ DOMAIN files : R.files[id] = EmptyFile
  BY RotatedDisk, Zenon
<1>2. TornAtEnd(EmptyFile.frames)
  BY DEF TornAtEnd, EmptyFile
<1>3. /\ \A id \in DOMAIN files : TornAtEnd(files[id].frames)
      /\ \A rec \in must : Held(files, rec)
  BY Zenon DEF DiskInv
<1> HIDE DEF R
<1>4. \A id \in DOMAIN R.files : TornAtEnd(R.files[id].frames)
  BY <1>1, <1>2, <1>3, Zenon
<1>5. \A rec \in must : Held(R.files, rec)
  BY <1>1, <1>3 DEF Held
<1> QED BY <1>4, <1>5, Zenon DEF R

\* In the log by itself the file of a new segment is empty and the last.
LEMMA RotatedFacts ==
  ASSUME WalInv, mode = "up"
  PROVE  LET R == Rotated IN
         /\ DiskType(R.files)
         /\ R.segments \in Seq(Segment) /\ R.segments # <<>>
         /\ Active(R.segments).id \in DOMAIN R.files
         /\ \A id \in DOMAIN R.files : id < R.next
         /\ \A id \in DOMAIN files : id \in DOMAIN R.files /\ R.files[id] = files[id]
         /\ \A id \in DOMAIN R.files \ DOMAIN files : R.files[id] = EmptyFile
<1> DEFINE R == Rotated
           n == nextSegmentID
<1>0. /\ DiskInv(Intact, acked) /\ DiskType(files) /\ n \in Nat
      /\ \A id \in DOMAIN files : id \in Nat /\ id < n
  BY Zenon DEF WalInv, DiskInv, Typed, DiskType, Below
<1>1. /\ DiskType(R.files)
      /\ R.segments \in Seq(Segment) /\ R.segments # <<>>
      /\ Active(R.segments).id \in DOMAIN R.files
      /\ \A id \in DOMAIN files : id \in DOMAIN R.files /\ R.files[id] = files[id]
      /\ \A id \in DOMAIN R.files \ DOMAIN files : R.files[id] = EmptyFile
  BY <1>0, RotatedDisk
<1>2. \A id \in DOMAIN R.files : id < R.next
  <2>1. CASE Active(segments).size >= SegmentSize
    <3>1. R.files = OpenedFile(n) /\ R.next = n + 1
      BY <2>1, Zenon DEF Rotated
    <3>2. DOMAIN OpenedFile(n) = DOMAIN files \cup {n}
      BY <1>0, OpenedFileFacts, Zenon
    <3>3. \A id \in DOMAIN files \cup {n} : id < n + 1
      BY <1>0
    <3> QED BY <3>1, <3>2, <3>3, Zenon
  <2>2. CASE ~(Active(segments).size >= SegmentSize)
    <3>1. R.files = files /\ R.next = n
      BY <2>2, Zenon DEF Rotated
    <3> QED BY <1>0, <3>1, Zenon
  <2> QED BY <2>1, <2>2, Zenon
<1> QED BY <1>1, <1>2, Zenon

\* The record a Write makes.
LEMMA NewRecordType ==
  ASSUME writes \in Nat, NEW payload \in Payloads
  PROVE  NewRecord(payload) \in Record
BY DEF NewRecord, Record

\* A frame at the end of a file, synced or not.
Grown(file, rec, state, sync) ==
    IF sync THEN Synced(Appended(file, rec, state)) ELSE Appended(file, rec, state)

\* A frame appended to a file.
LEMMA AppendedFacts ==
  ASSUME NEW file \in File, file.synced <= Len(file.frames), NEW rec \in Record,
         NEW state \in {"whole", "torn"}, NEW sync \in BOOLEAN
  PROVE  LET f == Grown(file, rec, state, sync)
         IN  /\ f \in File /\ f.synced <= Len(f.frames)
             /\ Len(f.frames) = Len(file.frames) + 1
             /\ f.frames[Len(f.frames)] = [rec |-> rec, state |-> state]
             /\ \A i \in DOMAIN file.frames : f.frames[i] = file.frames[i]
             /\ f.synced >= file.synced
             /\ sync => f.synced = Len(f.frames)
<1> DEFINE fr == [rec |-> rec, state |-> state]
           a == Appended(file, rec, state)
<1>1. fr \in Frame
  BY Zenon DEF Frame
<1>2. file.frames \in Seq(Frame) /\ file.synced \in Nat
  BY Zenon DEF File
<1> HIDE DEF fr
<1>3. /\ Append(file.frames, fr) \in Seq(Frame)
      /\ Len(Append(file.frames, fr)) = Len(file.frames) + 1
      /\ Append(file.frames, fr)[Len(file.frames) + 1] = fr
      /\ \A i \in DOMAIN file.frames : Append(file.frames, fr)[i] = file.frames[i]
  BY <1>1, <1>2
<1>4. a = [frames |-> Append(file.frames, fr), synced |-> file.synced]
  BY Zenon DEF Appended, fr
<1>5. Synced(a) = [frames |-> Append(file.frames, fr), synced |-> Len(Append(file.frames, fr))]
  BY <1>4 DEF Synced
<1> HIDE DEF a
<1> DEFINE f == IF sync THEN Synced(a) ELSE a
           app == Append(file.frames, fr)
           m == IF sync THEN Len(app) ELSE file.synced
<1>6. f = [frames |-> app, synced |-> m]
  BY <1>4, <1>5, Zenon
<1> HIDE DEF f
<1>7. f.frames = app /\ f.synced = m
  BY <1>6, Zenon
<1>8. m \in Nat /\ m <= Len(app) /\ m >= file.synced /\ (sync => m = Len(app))
  BY <1>2, <1>3
<1> HIDE DEF app, m
<1>9. f \in File
  BY <1>3, <1>6, <1>8, Zenon DEF File, app
<1>10. /\ f \in File /\ f.synced <= Len(f.frames)
       /\ Len(f.frames) = Len(file.frames) + 1
       /\ f.frames[Len(f.frames)] = fr
       /\ \A i \in DOMAIN file.frames : f.frames[i] = file.frames[i]
       /\ f.synced >= file.synced
       /\ sync => f.synced = Len(f.frames)
  BY <1>3, <1>7, <1>8, <1>9, Zenon DEF app
<1> QED
  BY <1>10, Zenon DEF Grown, f, a, fr

\* What Put leaves in the files: one more frame at the end of the active file.
LEMMA PutFacts ==
  ASSUME NEW ok, NEW must, DiskInv(ok, must), mode = "up", NEW payload \in Payloads,
         NEW state \in {"whole", "torn"}, NEW sync \in BOOLEAN,
         ~Active(Rotated.segments).stuck,
         Put(NewRecord(payload), state, sync)
  PROVE  LET id == Active(Rotated.segments).id IN
         /\ DiskType(files')
         /\ DOMAIN files' = DOMAIN Rotated.files
         /\ ok => /\ \A k \in DOMAIN files' : TornAtEnd(files'[k].frames)
                  /\ state = "whole" => AllWhole(files'[id].frames)
                  /\ Rotated.next \in DOMAIN files' => AllWhole(files'[Rotated.next].frames)
                  /\ \A rec \in must : Held(files', rec)
                  /\ state = "whole" /\ (Fsync => sync) => Held(files', NewRecord(payload))
<1> DEFINE R == Rotated
           id == Active(R.segments).id
           rec == NewRecord(payload)
           old == R.files[id]
           file == Grown(old, rec, state, sync)
<1>1. /\ DiskType(R.files) /\ id \in DOMAIN R.files
      /\ \A k \in DOMAIN files : k \in DOMAIN R.files /\ R.files[k] = files[k]
      /\ \A k \in DOMAIN R.files \ DOMAIN files : R.files[k] = EmptyFile
      /\ R.next \in Nat /\ id < R.next
      /\ ok => /\ AllWhole(old.frames)
               /\ R.next \in DOMAIN R.files => AllWhole(R.files[R.next].frames)
  BY RotatedDisk, Zenon
<1>2. rec \in Record
  <2>1. writes \in Nat
    BY Zenon DEF DiskInv, Typed
  <2> QED BY <2>1, NewRecordType, Zenon
<1>3. files' = [R.files EXCEPT ![id] = file]
  BY Zenon DEF Put, Grown
<1> HIDE DEF R, id, rec
<1>4. old \in File /\ old.synced <= Len(old.frames)
  BY <1>1, Zenon DEF DiskType
<1>5. /\ file \in File /\ file.synced <= Len(file.frames)
      /\ Len(file.frames) = Len(old.frames) + 1
      /\ file.frames[Len(file.frames)] = [rec |-> rec, state |-> state]
      /\ \A i \in DOMAIN old.frames : file.frames[i] = old.frames[i]
      /\ file.synced >= old.synced
      /\ sync => file.synced = Len(file.frames)
  BY <1>2, <1>4, AppendedFacts, Zenon
<1> HIDE DEF file
<1>6. /\ DOMAIN files' = DOMAIN R.files /\ files'[id] = file
      /\ \A k \in DOMAIN R.files : k # id => files'[k] = R.files[k]
  BY <1>1, <1>3, Zenon
<1>7. DiskType(files')
  BY <1>1, <1>5, <1>6, Zenon DEF DiskType
<1>8. /\ old.frames \in Seq(Frame) /\ file.frames \in Seq(Frame)
      /\ old.synced \in Nat /\ file.synced \in Nat
  BY <1>4, <1>5, Zenon DEF File
<1>9. ASSUME ok
      PROVE  /\ \A k \in DOMAIN files' : TornAtEnd(files'[k].frames)
             /\ state = "whole" => AllWhole(files'[id].frames)
             /\ R.next \in DOMAIN files' => AllWhole(files'[R.next].frames)
             /\ \A r \in must : Held(files', r)
             /\ state = "whole" /\ (Fsync => sync) => Held(files', rec)
  <2>1. /\ \A k \in DOMAIN files : TornAtEnd(files[k].frames)
        /\ \A r \in must : Held(files, r)
        /\ AllWhole(old.frames)
    BY <1>1, <1>9, Zenon DEF DiskInv
  <2>2. \A i \in DOMAIN file.frames : i \in DOMAIN old.frames \/ i = Len(file.frames)
    BY <1>5, <1>8
  <2>3. file.frames[Len(file.frames)].state = state /\ file.frames[Len(file.frames)].rec = rec
        /\ Len(file.frames) \in DOMAIN file.frames
        /\ \A i \in DOMAIN old.frames : i \in DOMAIN file.frames
    BY <1>5, <1>8
  <2>4. TornAtEnd(file.frames) /\ (state = "whole" => AllWhole(file.frames))
    BY <1>5, <2>1, <2>2, <2>3, Zenon DEF TornAtEnd, AllWhole
  <2>5. TornAtEnd(EmptyFile.frames)
    BY DEF TornAtEnd, EmptyFile
  <2>6. \A k \in DOMAIN files' : TornAtEnd(files'[k].frames)
    BY <1>1, <1>6, <2>1, <2>4, <2>5, Zenon
  <2>9. R.next \in DOMAIN files' => AllWhole(files'[R.next].frames)
    <3>1. R.next # id
      <4>1. id \in Nat
        BY <1>1, Zenon DEF DiskType
      <4> QED BY <1>1, <4>1
    <3> QED BY <1>1, <1>6, <1>9, <3>1, Zenon
  <2>7. ASSUME NEW r \in must PROVE Held(files', r)
    <3>0. PICK k \in DOMAIN files : \E i \in DOMAIN files[k].frames :
            /\ files[k].frames[i].rec = r /\ files[k].frames[i].state = "whole"
            /\ Fsync => i <= files[k].synced
      BY <2>1, Zenon DEF Held
    <3>1. PICK i \in DOMAIN files[k].frames :
            /\ files[k].frames[i].rec = r /\ files[k].frames[i].state = "whole"
            /\ Fsync => i <= files[k].synced
      BY <3>0, Zenon
    <3>2. k \in DOMAIN files' /\ R.files[k] = files[k]
      BY <1>1, <1>6, Zenon
    <3>3. CASE k # id
      BY <3>1, <3>2, <3>3, <1>1, <1>6, Zenon DEF Held
    <3>4. CASE k = id
      <4>1. i \in DOMAIN file.frames /\ file.frames[i] = files[k].frames[i] /\ old = files[k]
        BY <3>2, <3>4, <1>5, <2>3, Zenon
      <4>2. Fsync => i <= file.synced
        BY <3>1, <4>1, <1>5, <1>8
      <4> QED BY <3>1, <3>2, <3>4, <4>1, <4>2, <1>6, Zenon DEF Held
    <3> QED BY <3>3, <3>4, Zenon
  <2>8. ASSUME state = "whole", Fsync => sync PROVE Held(files', rec)
    <3>1. Fsync => Len(file.frames) <= file.synced
      BY <2>8, <1>5, <1>8, Zenon
    <3> QED BY <2>3, <2>8, <3>1, <1>1, <1>6, Zenon DEF Held
  <2> QED
    BY <1>6, <2>4, <2>6, <2>7, <2>8, <2>9, Zenon
<1> QED
  BY <1>1, <1>6, <1>7, <1>9, Zenon DEF R, id, rec

\* One segment of a list changes its size or gets stuck.
LEMMA SegmentUpdate ==
  ASSUME NEW segs \in Seq(Segment), segs # <<>>, NEW s \in Segment,
         s.id = Active(segs).id
  PROVE  LET new == [segs EXCEPT ![Len(segs)] = s] IN
         /\ new \in Seq(Segment) /\ new # <<>>
         /\ Active(new) = s
<1> DEFINE new == [segs EXCEPT ![Len(segs)] = s]
<1>1. Len(segs) \in DOMAIN segs /\ Len(segs) \in Nat /\ DOMAIN segs = 1 .. Len(segs)
  OBVIOUS
<1>2. new \in Seq(Segment) /\ Len(new) = Len(segs)
  BY <1>1
<1>3. new[Len(segs)] = s
  BY <1>1, Zenon
<1> QED
  BY <1>1, <1>2, <1>3 DEF Active

\* Write and its errors keep the invariant, and what Write acknowledged is
\* in the files.
LEMMA WriteStep ==
  ASSUME NEW ok, NEW must, NEW need, DiskInv(ok, must), need \subseteq must \cup (acked' \ acked),
         NEW payload \in Payloads,
         Write(payload) \/ WriteFlushFails(payload) \/ WriteSyncFails(payload)
  PROVE  DiskInv(ok, need)'
<1> DEFINE R == Rotated
           rec == NewRecord(payload)
           last == Active(R.segments)
<1>0. mode = "up" /\ mode' = "up" /\ ~last.stuck /\ nextSegmentID' = R.next
      /\ rots' = rots /\ outages' = outages /\ writes' = writes + 1 /\ crashes' = crashes
      /\ (faults' = faults \/ faults' = faults + 1)
  BY Zenon DEF Write, WriteFlushFails, WriteSyncFails, Writing, Fault
<1>1. /\ DiskType(R.files) /\ R.segments \in Seq(Segment) /\ R.segments # <<>>
      /\ last.id \in DOMAIN R.files /\ R.next \in Nat /\ last.id < R.next
      /\ \A id \in DOMAIN R.files : id <= R.next
      /\ ok /\ R.next \in DOMAIN R.files => AllWhole(R.files[R.next].frames)
  BY <1>0, RotatedDisk, Zenon
<1>2. Typed /\ writes \in Nat /\ acked \subseteq Record
  BY Zenon DEF DiskInv, Typed
<1>3. last \in Segment /\ rec \in Record /\ Fsync \in BOOLEAN
  <2>1. last \in Segment
    BY <1>1 DEF Active
  <2> QED BY <1>2, <2>1, NewRecordType, WALAssumption, Zenon
<1>4. {writes', faults', crashes', rots', outages'} \subseteq Nat
  BY <1>0, <1>2 DEF Typed
<1>5. ASSUME NEW s \in Segment, s.id = last.id,
             segments' = [R.segments EXCEPT ![Len(R.segments)] = s],
             DiskType(files'), DOMAIN files' = DOMAIN R.files, acked' \subseteq Record,
             ok => /\ \A k \in DOMAIN files' : TornAtEnd(files'[k].frames)
                   /\ s.stuck \/ AllWhole(files'[last.id].frames)
                   /\ R.next \in DOMAIN files' => AllWhole(files'[R.next].frames)
                   /\ \A r \in need : Held(files', r)
      PROVE  DiskInv(ok, need)'
  <2> HIDE DEF R
  <2>1. segments' \in Seq(Segment) /\ segments' # <<>> /\ Active(segments') = s
    BY <1>1, <1>5, SegmentUpdate, Zenon
  <2>2. Typed'
    BY <1>0, <1>1, <1>4, <1>5, <2>1, Zenon DEF Typed
  <2> QED
    BY <1>0, <1>1, <1>5, <2>1, <2>2, Zenon DEF DiskInv
<1>6. CASE Write(payload)
  <2>1. Put(rec, "whole", Fsync) /\ acked' = acked \cup {rec}
        /\ segments' = [R.segments EXCEPT ![Len(R.segments)].size = @ + 1]
    BY <1>6, Zenon DEF Write
  <2>2. /\ DiskType(files') /\ DOMAIN files' = DOMAIN R.files
        /\ ok => /\ \A k \in DOMAIN files' : TornAtEnd(files'[k].frames)
                 /\ AllWhole(files'[last.id].frames)
                 /\ R.next \in DOMAIN files' => AllWhole(files'[R.next].frames)
                 /\ \A r \in must : Held(files', r)
                 /\ Held(files', rec)
    BY <1>0, <1>3, <2>1, PutFacts, Zenon
  <2>3. need \subseteq must \cup {rec} /\ acked' \subseteq Record
    BY <1>2, <1>3, <2>1, Zenon
  <2> DEFINE s == [last EXCEPT !.size = @ + 1]
  <2>4. segments' = [R.segments EXCEPT ![Len(R.segments)] = s]
    BY <2>1, Zenon DEF Active
  <2> HIDE DEF R, rec
  <2>5. s \in Segment /\ s.id = last.id
    BY <1>3 DEF Segment
  <2> HIDE DEF s
  <2> QED
    BY <1>5, <2>2, <2>3, <2>4, <2>5, Zenon
<1>7. CASE WriteFlushFails(payload)
  <2>1. /\ Put(rec, "torn", FALSE) \/ files' = R.files
        /\ segments' = [R.segments EXCEPT ![Len(R.segments)].stuck = TRUE]
        /\ acked' = acked
    BY <1>7, Zenon DEF WriteFlushFails
  <2>2. /\ DiskType(files') /\ DOMAIN files' = DOMAIN R.files
        /\ ok => /\ \A k \in DOMAIN files' : TornAtEnd(files'[k].frames)
                 /\ R.next \in DOMAIN files' => AllWhole(files'[R.next].frames)
                 /\ \A r \in must : Held(files', r)
    <3>1. CASE Put(rec, "torn", FALSE)
      BY <1>0, <3>1, PutFacts, Zenon
    <3>2. CASE files' = R.files
      BY <1>0, <1>1, <3>2, RotatedHeld, Zenon
    <3> QED BY <2>1, <3>1, <3>2, Zenon
  <2> DEFINE s == [last EXCEPT !.stuck = TRUE]
  <2>4. segments' = [R.segments EXCEPT ![Len(R.segments)] = s]
    BY <2>1, Zenon DEF Active
  <2> HIDE DEF R, rec
  <2>5. s \in Segment /\ s.id = last.id /\ s.stuck
    BY <1>3, Zenon DEF Segment
  <2>6. need \subseteq must /\ acked' \subseteq Record
    BY <1>2, <2>1, Zenon
  <2> HIDE DEF s
  <2> QED
    BY <1>5, <2>2, <2>4, <2>5, <2>6, Zenon
<1>8. CASE WriteSyncFails(payload)
  <2>1. Put(rec, "whole", FALSE) /\ segments' = R.segments /\ acked' = acked
    BY <1>8, Zenon DEF WriteSyncFails
  <2>2. /\ DiskType(files') /\ DOMAIN files' = DOMAIN R.files
        /\ ok => /\ \A k \in DOMAIN files' : TornAtEnd(files'[k].frames)
                 /\ AllWhole(files'[last.id].frames)
                 /\ R.next \in DOMAIN files' => AllWhole(files'[R.next].frames)
                 /\ \A r \in must : Held(files', r)
    BY <1>0, <2>1, PutFacts, Zenon
  <2>3. need \subseteq must /\ acked' \subseteq Record
    BY <1>2, <2>1, Zenon
  <2>4. segments' = [R.segments EXCEPT ![Len(R.segments)] = last]
    <3>1. segments' = [R.segments EXCEPT ![Len(R.segments)] = R.segments[Len(R.segments)]]
      BY <1>1, <2>1
    <3> QED BY <3>1, Zenon DEF Active
  <2> HIDE DEF R, rec
  <2> QED
    BY <1>3, <1>5, <2>2, <2>3, <2>4, Zenon
<1> QED
  BY <1>6, <1>7, <1>8, Zenon

\* The log is closed: only the files count.
LEMMA GoneStep ==
  ASSUME NEW ok, NEW need, Gone, DiskType(files'), acked' \subseteq Record,
         {writes', faults', crashes', rots', outages'} \subseteq Nat,
         ok => /\ \A k \in DOMAIN files' : TornAtEnd(files'[k].frames)
               /\ \A r \in need : Held(files', r)
  PROVE  DiskInv(ok, need)'
<1>1. mode' = "down" /\ segments' = <<>> /\ nextSegmentID' = 0
  BY Zenon DEF Gone
<1>2. segments' \in Seq(Segment) /\ nextSegmentID' \in Nat
  BY <1>1
<1>3. ~Running'
  BY <1>1 DEF Running
<1> QED
  BY <1>2, <1>3, Zenon DEF DiskInv, Typed

\* The end of a process keeps what the files hold.
LEMMA StopStep ==
  ASSUME NEW ok, NEW must, NEW need, DiskInv(ok, must), need \subseteq must,
         WriteRefused \/ Close \/ OpenFails \/ \E payload \in Payloads : CrashWriting(payload)
  PROVE  DiskInv(ok, need)'
<1>0. /\ DiskType(files) /\ acked \subseteq Record
      /\ {writes, faults, crashes, rots, outages} \subseteq Nat
  BY Zenon DEF DiskInv, Typed
<1>1. CASE WriteRefused
  <2>1. /\ UNCHANGED <<mode, files, segments, nextSegmentID, acked, crashes, rots, outages>>
        /\ writes' = writes + 1 /\ (faults' = faults \/ faults' = faults + 1)
    BY <1>1, Zenon DEF WriteRefused, memory, Fault
  <2>2. {writes', faults', crashes', rots', outages'} \subseteq Nat
    BY <1>0, <2>1
  <2>3. Running' = Running
    BY <2>1, Zenon DEF Running
  <2> QED BY <2>1, <2>2, <2>3, Zenon DEF DiskInv, Typed
<1>2. CASE Close
  <2>1. Gone /\ UNCHANGED <<files, acked, writes, faults, crashes, rots, outages>>
    BY <1>2, Zenon DEF Close, counters
  <2>2. ok => /\ \A k \in DOMAIN files : TornAtEnd(files[k].frames)
              /\ \A r \in need : Held(files, r)
    BY Zenon DEF DiskInv
  <2> QED BY <1>0, <2>1, <2>2, GoneStep, Zenon
<1>3. CASE OpenFails
  <2>1. /\ mode \in {"down", "failed"} /\ mode' = "failed"
        /\ UNCHANGED <<files, segments, nextSegmentID, acked>>
        /\ UNCHANGED <<writes, faults, crashes, rots, outages>>
    BY <1>3, Zenon DEF OpenFails, memory, counters
  <2>2. ~Running' /\ ~Running
    BY <2>1 DEF Running
  <2> QED BY <2>1, <2>2, Zenon DEF DiskInv, Typed
<1>4. ASSUME NEW payload \in Payloads, CrashWriting(payload) PROVE DiskInv(ok, need)'
  <2> DEFINE R == Rotated
             rec == NewRecord(payload)
  <2>0. /\ mode = "up" /\ ~Active(R.segments).stuck /\ Gone
        /\ writes' = writes + 1 /\ crashes' = crashes + 1
        /\ UNCHANGED <<acked, faults, rots, outages>>
        /\ Put(rec, "torn", FALSE) \/ Put(rec, "whole", FALSE) \/ files' = R.files
    BY <1>4, Zenon DEF CrashWriting
  <2>1. /\ DiskType(files')
        /\ ok => /\ \A k \in DOMAIN files' : TornAtEnd(files'[k].frames)
                 /\ \A r \in must : Held(files', r)
    <3>1. CASE Put(rec, "torn", FALSE)
      BY <2>0, <3>1, PutFacts, Zenon
    <3>2. CASE Put(rec, "whole", FALSE)
      BY <2>0, <3>2, PutFacts, Zenon
    <3>3. CASE files' = R.files
      BY <2>0, <3>3, RotatedDisk, RotatedHeld, Zenon
    <3> QED BY <2>0, <3>1, <3>2, <3>3, Zenon
  <2>3. {writes', faults', crashes', rots', outages'} \subseteq Nat
    BY <1>0, <2>0
  <2> QED BY <1>0, <2>0, <2>1, <2>3, GoneStep, Zenon
<1> QED
  BY <1>1, <1>2, <1>3, <1>4, Zenon

\* What remains of a file after an outage.
LEMMA RemainsFacts ==
  ASSUME NEW file \in File, file.synced <= Len(file.frames), NEW left \in Remains(file)
  PROVE  /\ left \in File /\ left.synced = file.synced /\ left.synced <= Len(left.frames)
         /\ Len(left.frames) <= Len(file.frames)
         /\ \A i \in 1 .. file.synced : left.frames[i] = file.frames[i]
         /\ TornAtEnd(file.frames) => TornAtEnd(left.frames)
<1>1. file.frames \in Seq(Frame) /\ file.synced \in Nat /\ Len(file.frames) \in Nat
  BY DEF File
<1>2. ASSUME NEW n \in file.synced .. Len(file.frames),
             left = [frames |-> SubSeq(file.frames, 1, n), synced |-> file.synced]
      PROVE  /\ left \in File /\ left.synced = file.synced /\ left.synced <= Len(left.frames)
             /\ Len(left.frames) <= Len(file.frames)
             /\ \A i \in 1 .. file.synced : left.frames[i] = file.frames[i]
             /\ TornAtEnd(file.frames) => TornAtEnd(left.frames)
  <2> DEFINE sub == SubSeq(file.frames, 1, n)
  <2>1. /\ sub \in Seq(Frame) /\ Len(sub) = n /\ n \in Nat
        /\ \A i \in 1 .. n : sub[i] = file.frames[i]
    BY <1>1
  <2> HIDE DEF sub
  <2>2. left.frames = sub /\ left.synced = file.synced /\ left \in File
    BY <1>1, <1>2, <2>1, Zenon DEF File, sub
  <2>3. TornAtEnd(file.frames) => TornAtEnd(sub)
    BY <1>1, <2>1 DEF TornAtEnd
  <2> QED BY <1>1, <2>1, <2>2, <2>3
<1>3. ASSUME NEW n \in file.synced + 1 .. Len(file.frames),
             left = [frames |-> [SubSeq(file.frames, 1, n) EXCEPT ![n].state = "torn"],
                     synced |-> file.synced]
      PROVE  /\ left \in File /\ left.synced = file.synced /\ left.synced <= Len(left.frames)
             /\ Len(left.frames) <= Len(file.frames)
             /\ \A i \in 1 .. file.synced : left.frames[i] = file.frames[i]
             /\ TornAtEnd(file.frames) => TornAtEnd(left.frames)
  <2> DEFINE sub == SubSeq(file.frames, 1, n)
             cut == [sub EXCEPT ![n].state = "torn"]
             fr == [sub[n] EXCEPT !.state = "torn"]
  <2>1. /\ sub \in Seq(Frame) /\ Len(sub) = n /\ n \in Nat \ {0} /\ n > file.synced
        /\ \A i \in 1 .. n : sub[i] = file.frames[i]
    BY <1>1
  <2>9. left = [frames |-> cut, synced |-> file.synced]
    BY <1>3, Zenon
  <2> HIDE DEF sub
  <2>7. sub[n] \in Frame
    BY <2>1
  <2>2. fr \in Frame /\ fr.state = "torn"
    BY <2>7, Zenon DEF Frame
  <2>3. cut = [sub EXCEPT ![n] = fr]
    BY Zenon
  <2> HIDE DEF fr, cut
  <2>4. cut \in Seq(Frame) /\ Len(cut) = n /\ cut[n] = fr
        /\ \A i \in 1 .. n : i # n => cut[i] = file.frames[i]
    BY <2>1, <2>2, <2>3
  <2>5. left.frames = cut /\ left.synced = file.synced /\ left \in File
    BY <1>1, <2>9, <2>4, Zenon DEF File
  <2>6. ASSUME TornAtEnd(file.frames) PROVE TornAtEnd(cut)
    <3> SUFFICES ASSUME NEW i \in DOMAIN cut, cut[i].state # "whole"
                 PROVE  i = Len(cut) /\ cut[i].state = "torn"
      BY Zenon DEF TornAtEnd
    <3>1. i \in 1 .. n
      BY <2>4
    <3>2. ASSUME i # n PROVE FALSE
      <4>1. file.frames[i].state # "whole" /\ i \in DOMAIN file.frames /\ i # Len(file.frames)
        BY <1>1, <2>1, <2>4, <3>1, <3>2
      <4> QED BY <4>1, <2>6, Zenon DEF TornAtEnd
    <3> QED BY <2>2, <2>4, <3>2, Zenon
  <2> QED BY <1>1, <2>1, <2>4, <2>5, <2>6
<1> QED
  BY <1>2, <1>3, Zenon DEF Remains

\* The loss of the machine: with fsync the files hold what they have to.
LEMMA OutageStep ==
  ASSUME NEW ok, NEW must, NEW need, DiskInv(ok, must), need \subseteq must, Outage
  PROVE  DiskInv(ok /\ Fsync, need)'
<1>1. /\ mode = "down" /\ outages' = outages + 1
      /\ UNCHANGED <<mode, segments, nextSegmentID, acked, writes, faults, crashes, rots>>
  BY Zenon DEF Outage, memory
<1>2. DOMAIN files' = DOMAIN files /\ \A id \in DOMAIN files : files'[id] \in Remains(files[id])
  BY Zenon DEF Outage
<1>3. \A id \in DOMAIN files :
        /\ files[id] \in File /\ files[id].synced <= Len(files[id].frames)
        /\ files'[id] \in File /\ files'[id].synced = files[id].synced
        /\ files'[id].synced <= Len(files'[id].frames)
        /\ \A i \in 1 .. files[id].synced : files'[id].frames[i] = files[id].frames[i]
        /\ TornAtEnd(files[id].frames) => TornAtEnd(files'[id].frames)
  BY <1>2, RemainsFacts, Zenon DEF DiskInv, Typed, DiskType
<1>4. DiskType(files')
  BY <1>2, <1>3, Zenon DEF DiskInv, Typed, DiskType
<1>5. {writes', faults', crashes', rots', outages'} \subseteq Nat
  BY <1>1 DEF DiskInv, Typed
<1>6. ASSUME ok, Fsync, NEW rec \in need PROVE Held(files', rec)
  <2>1. Held(files, rec)
    BY <1>6, Zenon DEF DiskInv
  <2>2. PICK id \in DOMAIN files : \E i \in DOMAIN files[id].frames :
          /\ files[id].frames[i].rec = rec /\ files[id].frames[i].state = "whole"
          /\ Fsync => i <= files[id].synced
    BY <2>1, Zenon DEF Held
  <2>3. PICK i \in DOMAIN files[id].frames :
          /\ files[id].frames[i].rec = rec /\ files[id].frames[i].state = "whole"
          /\ Fsync => i <= files[id].synced
    BY <2>2, Zenon
  <2>4. /\ files[id].frames \in Seq(Frame) /\ files[id].synced \in Nat
        /\ files'[id].frames \in Seq(Frame)
    BY <1>3, Zenon DEF File
  <2>5. i \in 1 .. files[id].synced /\ i \in DOMAIN files'[id].frames
    BY <1>3, <1>6, <2>3, <2>4
  <2>6. files'[id].frames[i] = files[id].frames[i] /\ files'[id].synced = files[id].synced
    BY <1>3, <2>5, Zenon
  <2> QED BY <1>2, <2>3, <2>5, <2>6, Zenon DEF Held
<1>7. ok => \A id \in DOMAIN files' : TornAtEnd(files'[id].frames)
  BY <1>2, <1>3, Zenon DEF DiskInv
<1>8. ~Running'
  BY <1>1 DEF Running
<1>9. Typed'
  BY <1>1, <1>4, <1>5, <1>8, Zenon DEF DiskInv, Typed
<1> QED
  BY <1>6, <1>7, <1>8, <1>9, Zenon DEF DiskInv

\* Bytes change on the disk: nothing is promised but types.
LEMMA RotStep ==
  ASSUME NEW ok, NEW must, NEW need, DiskInv(ok, must),
         NEW id \in DOMAIN files, NEW i \in DOMAIN files[id].frames, Rot(id, i)
  PROVE  DiskInv(FALSE, need)'
<1>1. /\ mode = "down" /\ rots' = rots + 1
      /\ UNCHANGED <<mode, segments, nextSegmentID, acked, writes, faults, crashes, outages>>
  BY Zenon DEF Rot, memory
<1>2. PICK state \in {"bad", "torn"} : files' = [files EXCEPT ![id].frames[i].state = state]
  BY Zenon DEF Rot
<1>0. DiskType(files)
  BY Zenon DEF DiskInv, Typed
<1>3. files[id] \in File /\ files[id].frames \in Seq(Frame)
      /\ files[id].synced <= Len(files[id].frames)
  BY <1>0, Zenon DEF DiskType, File
<1> DEFINE fr == [files[id].frames[i] EXCEPT !.state = state]
           frs == [files[id].frames EXCEPT ![i] = fr]
           file == [files[id] EXCEPT !.frames = frs]
<1>4. files' = [files EXCEPT ![id] = file]
  BY <1>2, Zenon
<1>5. files[id].frames[i] \in Frame
  BY <1>3
<1>6. fr \in Frame
  BY <1>5, Zenon DEF Frame
<1> HIDE DEF fr
<1>7. frs \in Seq(Frame) /\ Len(frs) = Len(files[id].frames)
  BY <1>3, <1>6
<1> HIDE DEF frs
<1>8. file \in File /\ file.synced <= Len(file.frames)
  BY <1>3, <1>7, Zenon DEF File
<1> HIDE DEF file
<1>9. DiskType(files')
  BY <1>0, <1>4, <1>8, Zenon DEF DiskType
<1>10. {writes', faults', crashes', rots', outages'} \subseteq Nat
  BY <1>1 DEF DiskInv, Typed
<1>11. ~Running'
  BY <1>1 DEF Running
<1> QED
  BY <1>1, <1>9, <1>10, <1>11, Zenon DEF DiskInv, Typed

\* A start that succeeds has found no torn end, and numbers on from the
\* highest ID.
LEMMA OpenStep ==
  ASSUME NEW ok, NEW must, NEW need, DiskInv(ok, must), need \subseteq must, Open
  PROVE  DiskInv(ok, need)' /\ Below'
<1>1. /\ mode' = "up" /\ files' = Loaded
      /\ UNCHANGED <<acked, counters>>
      /\ \A id \in DOMAIN files : ~EndsTorn(files[id].frames)
  BY Zenon DEF Open
<1>2. PICK top \in DOMAIN Loaded : \E n \in 1 .. top + 1 :
        \E order \in [1 .. n -> DOMAIN Loaded] :
          /\ InOrder(order)
          /\ segments' = [k \in DOMAIN order |-> NewSegment(order[k])]
          /\ nextSegmentID' = order[n] + 1
  BY Zenon DEF Open
<1>3. /\ DiskType(Loaded) /\ DOMAIN Loaded # {}
      /\ \A id \in DOMAIN files : id \in DOMAIN Loaded /\ Loaded[id] = files[id]
      /\ \A id \in DOMAIN Loaded \ DOMAIN files : Loaded[id] = EmptyFile
  <2>1. CASE DOMAIN files = {}
    <3>1. Loaded = OpenedFile(0)
      BY <2>1, Zenon DEF Loaded
    <3>2. /\ DiskType(OpenedFile(0)) /\ DOMAIN OpenedFile(0) = DOMAIN files \cup {0}
          /\ 0 \notin DOMAIN files => OpenedFile(0)[0] = EmptyFile
      <4>1. 0 \in Nat /\ DiskType(files)
        BY Zenon DEF DiskInv, Typed
      <4> QED BY <4>1, OpenedFileFacts, Zenon
    <3> QED BY <2>1, <3>1, <3>2, Zenon
  <2>2. CASE DOMAIN files # {}
    BY <2>2, Zenon DEF Loaded, DiskInv, Typed
  <2> QED BY <2>1, <2>2, Zenon
<1> DEFINE Opens(n, order) ==
      /\ InOrder(order)
      /\ segments' = [k \in DOMAIN order |-> NewSegment(order[k])]
      /\ nextSegmentID' = order[n] + 1
<1>17. PICK n \in Nat : \E order \in [1 .. n -> DOMAIN Loaded] : Opens(n, order)
  <2>1. top + 1 \in Nat
    BY <1>3 DEF DiskType
  <2> QED BY <1>2, <2>1
<1>4. PICK order \in [1 .. n -> DOMAIN Loaded] : Opens(n, order)
  BY <1>17, Zenon
<1>5. DOMAIN order = 1 .. n /\ DOMAIN Loaded \subseteq Nat
  BY <1>3, Zenon DEF DiskType
<1>6. n # 0 /\ Len(order) = n
  <2>1. {order[k] : k \in DOMAIN order} = DOMAIN Loaded
    BY <1>4, Zenon DEF InOrder
  <2>2. n # 0
    BY <1>3, <1>4, <1>5, <2>1
  <2>3. order \in Seq(Nat)
    BY <1>4, <1>5
  <2> QED BY <1>4, <1>5, <2>2, <2>3
<1>7. \A k \in 1 .. n : NewSegment(order[k]) \in Segment /\ NewSegment(order[k]).id = order[k]
  BY <1>5, NewSegmentType, Zenon DEF DiskInv, Typed
<1>8. segments' \in Seq(Segment) /\ Len(segments') = n /\ segments'[n] = NewSegment(order[n])
  BY <1>4, <1>5, <1>6, <1>7
<1>16. n \in 1 .. n
  BY <1>4, <1>6
<1>9. segments' # <<>> /\ Active(segments').id = order[n] /\ order[n] \in DOMAIN Loaded
  <2>1. Active(segments') = NewSegment(order[n])
    BY <1>8, Zenon DEF Active
  <2>2. NewSegment(order[n]).id = order[n]
    BY <1>7, <1>16, Zenon
  <2>3. order[n] \in DOMAIN Loaded
    BY <1>5, <1>16, Zenon
  <2>4. segments' # <<>>
    BY <1>6, <1>8, Zenon
  <2> QED BY <2>1, <2>2, <2>3, <2>4, Zenon
<1>10. \A id \in DOMAIN Loaded : id < order[n] + 1
  <2> SUFFICES ASSUME NEW id \in DOMAIN Loaded PROVE id < order[n] + 1
    BY Zenon
  <2>1. PICK k \in 1 .. n : order[k] = id
    BY <1>4, <1>5, Zenon DEF InOrder
  <2>3. \A j, m \in 1 .. n : j < m => order[j] < order[m]
    BY <1>4, <1>5, Zenon DEF InOrder
  <2>2. k = n \/ order[k] < order[n]
    BY <1>4, <1>16, <2>3
  <2> QED BY <1>4, <1>5, <1>6, <1>9, <2>1, <2>2
<1>11. ASSUME ok
       PROVE  /\ \A id \in DOMAIN Loaded : AllWhole(Loaded[id].frames)
              /\ \A rec \in need : Held(Loaded, rec)
  <2>1. AllWhole(EmptyFile.frames)
    BY DEF AllWhole, EmptyFile
  <2>2. ASSUME NEW id \in DOMAIN files PROVE AllWhole(files[id].frames)
    <3> DEFINE frames == files[id].frames
    <3>1. frames \in Seq(Frame) /\ TornAtEnd(frames) /\ ~EndsTorn(frames)
      BY <1>1, <1>11, Zenon DEF DiskInv, Typed, DiskType, File
    <3> HIDE DEF frames
    <3>2. AllWhole(frames)
      BY <3>1 DEF TornAtEnd, EndsTorn, AllWhole
    <3> QED BY <3>2, Zenon DEF frames
  <2>3. \A rec \in need : Held(files, rec)
    BY <1>11, Zenon DEF DiskInv
  <2>4. \A rec \in need : Held(Loaded, rec)
    BY <1>3, <2>3 DEF Held
  <2> QED BY <1>3, <2>1, <2>2, <2>4, Zenon
<1>13. \A frames : AllWhole(frames) => TornAtEnd(frames)
  BY Zenon DEF AllWhole, TornAtEnd
<1>14. order[n] + 1 \in Nat /\ order[n] < order[n] + 1 /\ order[n] + 1 \notin DOMAIN Loaded
       /\ \A id \in DOMAIN Loaded : id <= order[n] + 1
  BY <1>5, <1>9, <1>10
<1>15. {writes, faults, crashes, rots, outages}' \subseteq Nat /\ acked' \subseteq Record
  BY <1>1, Zenon DEF counters, DiskInv, Typed
<1>12. nextSegmentID' = order[n] + 1
  BY <1>4, Zenon
<1>18. Typed'
  BY <1>1, <1>3, <1>8, <1>9, <1>12, <1>14, <1>15, Zenon DEF Typed
<1>19. Below'
  BY <1>1, <1>10, <1>12, Zenon DEF Below
<1>20. DiskInv(ok, need)'
  BY <1>1, <1>9, <1>11, <1>12, <1>13, <1>14, <1>18, Zenon DEF DiskInv
<1> QED
  BY <1>19, <1>20, Zenon

\* The log starts with no files.
LEMMA DiskInit ==
  ASSUME NEW ok, Init PROVE DiskInv(ok, {})
<1>1. DOMAIN files = {} /\ segments = <<>> /\ nextSegmentID = 0 /\ acked = {}
      /\ writes = 0 /\ faults = 0 /\ crashes = 0 /\ rots = 0 /\ outages = 0
  BY Zenon DEF Init
<1>2. ~Running
  BY DEF Init, Running
<1>3. Typed
  BY <1>1, <1>2 DEF Typed, DiskType
<1> QED
  BY <1>1, <1>2, <1>3, Zenon DEF DiskInv

\* The invariant holds on an empty disk.
LEMMA WalInit == Init => WalInv
<1> SUFFICES ASSUME Init PROVE WalInv
  BY Zenon
<1>1. acked = {} /\ mode = "down" /\ DOMAIN files = {}
  BY Zenon DEF Init
<1>2. DiskInv(Intact, acked)
  BY <1>1, DiskInit, Zenon
<1>3. Below
  BY <1>1 DEF Below
<1>4. TypeOK
  BY <1>1, <1>2 DEF DiskInv, Typed, TypeOK
<1> QED BY <1>2, <1>3, <1>4, Zenon DEF WalInv

\* With the whole disk sound before and after: what the log acknowledged.
LEMMA WalStep == WalInv /\ [Next]_vars => WalInv'
<1> SUFFICES ASSUME WalInv, [Next]_vars PROVE WalInv'
  BY Zenon
<1>0. TypeOK /\ Below /\ DiskInv(Intact, acked)
  BY Zenon DEF WalInv
<1>1. ASSUME NEW ok, NEW need, Intact' => ok, acked' = need, DiskInv(ok, need)'
      PROVE  DiskInv(Intact, acked)'
  BY <1>1, Zenon DEF DiskInv
<1>2. ASSUME DiskInv(Intact, acked)', mode' \in {"down", "up", "failed"} PROVE TypeOK'
  <2>1. Typed' /\ (mode' = "up" => Running')
    BY <1>2 DEF DiskInv, Running
  <2> QED BY <1>2, <2>1, Zenon DEF Typed, DiskType, TypeOK
<1>3. ASSUME UNCHANGED <<rots, outages>> PROVE Intact' => Intact
  BY <1>3, Zenon DEF Intact
<1>4. ASSUME NEW payload \in Payloads,
             Write(payload) \/ WriteFlushFails(payload) \/ WriteSyncFails(payload)
      PROVE  WalInv'
  <2>1. /\ mode = "up" /\ mode' = "up" /\ nextSegmentID' = Rotated.next
        /\ ~Active(Rotated.segments).stuck /\ UNCHANGED <<rots, outages>>
        /\ \/ \E state \in {"whole", "torn"}, sync \in BOOLEAN :
                Put(NewRecord(payload), state, sync)
           \/ files' = Rotated.files
    BY <1>4, WALAssumption, Zenon DEF Write, WriteFlushFails, WriteSyncFails, Writing
  <2>2. DOMAIN files' = DOMAIN Rotated.files
    BY <1>0, <2>1, PutFacts, Zenon
  <2>3. Below'
    BY <2>1, <2>2, RotatedFacts, Zenon DEF Below
  <2>4. DiskInv(Intact, acked)'
    <3>1. PICK need : need = acked'
      BY Zenon
    <3>3. PICK ok : ok = Intact
      BY Zenon
    <3>4. need \subseteq acked \cup (acked' \ acked) /\ DiskInv(ok, acked)
      BY <1>0, <3>1, <3>3, Zenon
    <3>5. DiskInv(ok, need)'
      BY <1>4, <3>4, WriteStep, Zenon
    <3>6. Intact' => ok
      BY <1>3, <2>1, <3>3, Zenon
    <3> QED BY <1>1, <3>1, <3>5, <3>6, Zenon
  <2> QED BY <1>2, <2>1, <2>3, <2>4, Zenon DEF WalInv
<1>5. ASSUME WriteRefused \/ Close \/ OpenFails \/ \E payload \in Payloads : CrashWriting(payload)
      PROVE  WalInv'
  <2>1. /\ acked' = acked /\ UNCHANGED <<rots, outages>>
        /\ mode' \in {"down", "failed"} \/ UNCHANGED <<mode, files, nextSegmentID>>
    BY <1>5, Zenon DEF WriteRefused, Close, OpenFails, CrashWriting, Gone, counters, memory
  <2>2. DiskInv(Intact, acked)'
    <3>1. PICK ok, need : ok = Intact /\ need = acked
      BY Zenon
    <3>2. DiskInv(ok, need)'
      BY <1>0, <1>5, <3>1, StopStep, Zenon
    <3> QED BY <1>1, <1>3, <2>1, <3>1, <3>2, Zenon
  <2>3. Below' /\ mode' \in {"down", "up", "failed"}
    BY <1>0, <2>1 DEF Below, TypeOK
  <2> QED BY <1>2, <2>2, <2>3, Zenon DEF WalInv
<1>6. CASE Outage
  <2>1. mode' = "down" /\ acked' = acked /\ rots' = rots /\ outages' = outages + 1
    BY <1>6, Zenon DEF Outage
  <2>2. Intact' => Intact /\ Fsync
    <3>1. outages \in Nat
      BY <1>0, Zenon DEF TypeOK
    <3>2. outages + 1 # 0
      BY <3>1
    <3> QED BY <2>1, <3>2, Zenon DEF Intact
  <2>3. DiskInv(Intact, acked)'
    <3>1. PICK ok, need : ok = Intact /\ need = acked
      BY Zenon
    <3>2. DiskInv(ok /\ Fsync, need)'
      BY <1>0, <1>6, <3>1, OutageStep, Zenon
    <3> QED BY <2>1, <2>2, <3>1, <3>2, Zenon DEF DiskInv
  <2>4. Below' /\ mode' \in {"down", "up", "failed"}
    BY <2>1 DEF Below
  <2> QED BY <1>2, <2>3, <2>4, Zenon DEF WalInv
<1>7. ASSUME NEW id \in DOMAIN files, NEW i \in DOMAIN files[id].frames, Rot(id, i)
      PROVE  WalInv'
  <2>1. mode' = "down" /\ rots' = rots + 1
    BY <1>7, Zenon DEF Rot
  <2>2. ~Intact'
    <3>1. rots \in Nat
      BY <1>0, Zenon DEF TypeOK
    <3>2. rots + 1 # 0
      BY <3>1
    <3> QED BY <2>1, <3>2, Zenon DEF Intact
  <2>3. DiskInv(Intact, acked)'
    <3>1. DiskInv(FALSE, {})'
      BY <1>0, <1>7, RotStep, Zenon
    <3> QED BY <2>2, <3>1, Zenon DEF DiskInv
  <2>4. Below' /\ mode' \in {"down", "up", "failed"}
    BY <2>1 DEF Below
  <2> QED BY <1>2, <2>3, <2>4, Zenon DEF WalInv
<1>8. CASE Open
  <2>1. mode' = "up" /\ acked' = acked /\ UNCHANGED <<rots, outages>>
    BY <1>8, Zenon DEF Open, counters
  <2>2. PICK ok, need : ok = Intact /\ need = acked
    BY Zenon
  <2>3. DiskInv(ok, need)' /\ Below'
    BY <1>0, <1>8, <2>2, OpenStep, Zenon
  <2>4. DiskInv(Intact, acked)'
    BY <1>1, <1>3, <2>1, <2>2, <2>3, Zenon
  <2> QED BY <1>2, <2>1, <2>3, <2>4, Zenon DEF WalInv
<1>9. CASE UNCHANGED vars
  <2>1. UNCHANGED <<mode, files, segments, nextSegmentID, acked,
                    writes, faults, crashes, rots, outages>>
    BY <1>9, Zenon DEF vars, memory, counters
  <2>2. TypeOK' /\ Below'
    BY <1>0, <2>1, Zenon DEF TypeOK, Below
  <2>3. DiskInv(Intact, acked)'
    BY <1>0, <2>1, Zenon DEF DiskInv, Typed, Running, Intact
  <2> QED BY <2>2, <2>3, Zenon DEF WalInv
<1> QED
  BY <1>4, <1>5, <1>6, <1>7, <1>8, <1>9, Zenon DEF Next

\* The types of the log's state are kept by every step.
THEOREM WalTyped == Spec => []TypeOK
<1>1. WalInv => TypeOK
  BY Zenon DEF WalInv
<1> QED
  BY <1>1, WalInit, WalStep, PTL DEF Spec

\* Whatever the segment size, the errors, crashes and outages: a record whose
\* Write succeeded is where Replay reads it, as long as the disk is sound and
\* either fsync is on or the machine stays up.
THEOREM AckedReadableHolds == Spec => []AckedReadable
<1>1. WalInv => AckedReadable
  <2> SUFFICES ASSUME WalInv, Intact, NEW rec \in acked
               PROVE  \E id \in DOMAIN files : \E i \in DOMAIN files[id].frames :
                        Readable(files[id].frames, i) /\ files[id].frames[i].rec = rec
    BY Zenon DEF AckedReadable
  <2>1. PICK id \in DOMAIN files : \E i \in DOMAIN files[id].frames :
          files[id].frames[i].rec = rec /\ files[id].frames[i].state = "whole"
    BY Zenon DEF WalInv, DiskInv, Held
  <2>2. PICK i \in DOMAIN files[id].frames :
          files[id].frames[i].rec = rec /\ files[id].frames[i].state = "whole"
    BY <2>1, Zenon
  <2>3. files[id].frames \in Seq(Frame) /\ TornAtEnd(files[id].frames)
    BY Zenon DEF WalInv, DiskInv, Typed, DiskType, File
  <2>4. Readable(files[id].frames, i)
    BY <2>2, <2>3 DEF TornAtEnd, Readable
  <2> QED BY <2>2, <2>4, Zenon
<1> QED
  BY <1>1, WalInit, WalStep, PTL DEF Spec

-----------------------------------------------------------------------------
(* The order of replay *)

No(fs, id, i) == fs[id].frames[i].rec.n

\* Records are numbered upwards in a file, and from one file to the next.
Ordered(fs) ==
    \A a, b \in DOMAIN fs : \A i \in DOMAIN fs[a].frames, k \in DOMAIN fs[b].frames :
      (a < b \/ (a = b /\ i < k)) => No(fs, a, i) < No(fs, b, k)

Counted(fs, m) ==
    \A id \in DOMAIN fs : \A i \in DOMAIN fs[id].frames : 1 <= No(fs, id, i) /\ No(fs, id, i) <= m

\* The induction needs: what is written goes to the file with the highest ID,
\* and every record before it has a smaller number.
OrderInv ==
    /\ WalInv
    /\ Ordered(files) /\ Counted(files, writes)
    /\ mode = "up" => \A id \in DOMAIN files : id <= Active(segments).id
    /\ DeliveredInOrder

\* Every frame of gs was at the same place in fs, with the same record.
FromOld(fs, gs) ==
    \A id \in DOMAIN gs : \A i \in DOMAIN gs[id].frames :
      id \in DOMAIN fs /\ i \in DOMAIN fs[id].frames /\ No(gs, id, i) = No(fs, id, i)

\* gs has one frame more than fs, number m, at the end of its last file.
OneMore(fs, gs, m) ==
    \E last \in DOMAIN gs : \E end \in DOMAIN gs[last].frames :
      /\ \A id \in DOMAIN gs : id <= last
      /\ \A i \in DOMAIN gs[last].frames : i <= end
      /\ No(gs, last, end) = m
      /\ \A id \in DOMAIN gs : \A i \in DOMAIN gs[id].frames :
           \/ id = last /\ i = end
           \/ id \in DOMAIN fs /\ i \in DOMAIN fs[id].frames /\ No(gs, id, i) = No(fs, id, i)

\* The number of the record in a frame.
LEMMA NumberType ==
  ASSUME NEW fs, DiskType(fs), NEW id \in DOMAIN fs, NEW i \in DOMAIN fs[id].frames
  PROVE  id \in Nat /\ i \in Nat /\ No(fs, id, i) \in Nat
<1>1. fs[id].frames \in Seq(Frame) /\ id \in Nat
  BY Zenon DEF DiskType, File
<1>2. fs[id].frames[i] \in Frame /\ i \in Nat
  BY <1>1
<1> QED BY <1>1, <1>2, Zenon DEF Frame, Record, No

\* Frames that were there before keep their order.
LEMMA FromOldKeeps ==
  ASSUME NEW fs, NEW gs, NEW m, FromOld(fs, gs)
  PROVE  /\ Ordered(fs) => Ordered(gs)
         /\ Counted(fs, m) => Counted(gs, m)
  BY Zenon DEF FromOld, Ordered, Counted

\* A higher counter is still above every number.
LEMMA CountedMore ==
  ASSUME NEW fs, DiskType(fs), NEW m \in Nat, Counted(fs, m)
  PROVE  Counted(fs, m + 1)
<1> SUFFICES ASSUME NEW id \in DOMAIN fs, NEW i \in DOMAIN fs[id].frames
             PROVE  1 <= No(fs, id, i) /\ No(fs, id, i) <= m + 1
  BY Zenon DEF Counted
<1>1. No(fs, id, i) \in Nat /\ 1 <= No(fs, id, i) /\ No(fs, id, i) <= m
  BY NumberType, Zenon DEF Counted
<1> QED BY <1>1

\* A frame with a new number at the end keeps the order.
LEMMA OneMoreKeeps ==
  ASSUME NEW fs, NEW gs, NEW m \in Nat, DiskType(fs), DiskType(gs), OneMore(fs, gs, m + 1),
         Ordered(fs), Counted(fs, m)
  PROVE  Ordered(gs) /\ Counted(gs, m + 1)
<1>1. PICK last \in DOMAIN gs : \E end \in DOMAIN gs[last].frames :
        /\ \A id \in DOMAIN gs : id <= last
        /\ \A i \in DOMAIN gs[last].frames : i <= end
        /\ No(gs, last, end) = m + 1
        /\ \A id \in DOMAIN gs : \A i \in DOMAIN gs[id].frames :
             \/ id = last /\ i = end
             \/ id \in DOMAIN fs /\ i \in DOMAIN fs[id].frames /\ No(gs, id, i) = No(fs, id, i)
  BY Zenon DEF OneMore
<1>2. PICK end \in DOMAIN gs[last].frames :
        /\ \A i \in DOMAIN gs[last].frames : i <= end
        /\ No(gs, last, end) = m + 1
        /\ \A id \in DOMAIN gs : \A i \in DOMAIN gs[id].frames :
             \/ id = last /\ i = end
             \/ id \in DOMAIN fs /\ i \in DOMAIN fs[id].frames /\ No(gs, id, i) = No(fs, id, i)
  BY <1>1, Zenon
<1>3. ASSUME NEW id \in DOMAIN gs, NEW i \in DOMAIN gs[id].frames
      PROVE  /\ id = last /\ i = end => No(gs, id, i) = m + 1
             /\ ~(id = last /\ i = end) => 1 <= No(gs, id, i) /\ No(gs, id, i) < m + 1
             /\ No(gs, id, i) \in Nat
  <2>1. No(gs, id, i) \in Nat
    BY NumberType, Zenon
  <2>2. ASSUME ~(id = last /\ i = end) PROVE 1 <= No(gs, id, i) /\ No(gs, id, i) <= m
    BY <1>2, <2>2, Zenon DEF Counted
  <2>3. ASSUME ~(id = last /\ i = end) PROVE 1 <= No(gs, id, i) /\ No(gs, id, i) < m + 1
    BY <2>1, <2>2, <2>3
  <2> QED BY <1>2, <2>1, <2>3, Zenon
<1>4. Counted(gs, m + 1)
  <2> SUFFICES ASSUME NEW id \in DOMAIN gs, NEW i \in DOMAIN gs[id].frames
               PROVE  1 <= No(gs, id, i) /\ No(gs, id, i) <= m + 1
    BY Zenon DEF Counted
  <2>1. /\ No(gs, id, i) \in Nat
        /\ No(gs, id, i) = m + 1 \/ (1 <= No(gs, id, i) /\ No(gs, id, i) < m + 1)
    BY <1>3, Zenon
  <2> QED BY <2>1
<1>5. Ordered(gs)
  <2> SUFFICES ASSUME NEW a \in DOMAIN gs, NEW b \in DOMAIN gs, NEW i \in DOMAIN gs[a].frames,
                      NEW k \in DOMAIN gs[b].frames, a < b \/ (a = b /\ i < k)
               PROVE  No(gs, a, i) < No(gs, b, k)
    BY Zenon DEF Ordered
  <2>1. a \in Nat /\ b \in Nat /\ i \in Nat /\ k \in Nat /\ last \in Nat /\ end \in Nat
    BY NumberType, Zenon
  <2>2. ~(a = last /\ i = end)
    <3> SUFFICES ASSUME a = last, i = end PROVE FALSE
      BY Zenon
    <3>1. b <= last /\ (b = last => k <= end)
      BY <1>1, <1>2, Zenon
    <3> QED BY <2>1, <3>1
  <2>3. CASE b = last /\ k = end
    BY <1>3, <2>2, <2>3, Zenon
  <2>4. CASE ~(b = last /\ k = end)
    BY <1>2, <2>2, <2>4, Zenon DEF Ordered
  <2> QED BY <2>3, <2>4, Zenon
<1> QED BY <1>4, <1>5, Zenon

\* Rotation creates the file with the highest ID, or leaves the active one.
LEMMA RotatedLast ==
  ASSUME OrderInv, mode = "up"
  PROVE  LET R == Rotated IN
         /\ \A id \in DOMAIN R.files : id <= Active(R.segments).id
         /\ DiskType(R.files) /\ FromOld(files, R.files)
<1> DEFINE R == Rotated
           n == nextSegmentID
<1>0. /\ WalInv /\ DiskType(files) /\ n \in Nat /\ segments \in Seq(Segment) /\ segments # <<>>
      /\ \A id \in DOMAIN files : id < n
      /\ DOMAIN files \subseteq Nat
  <2>1. WalInv /\ TypeOK /\ DiskInv(Intact, acked) /\ \A id \in DOMAIN files : id < n
    BY Zenon DEF OrderInv, WalInv, Below
  <2>2. segments # <<>>
    BY <2>1, Zenon DEF TypeOK
  <2> QED BY <2>1, <2>2, Zenon DEF DiskInv, Typed, DiskType
<1>1. /\ DiskType(R.files)
      /\ \A id \in DOMAIN files : id \in DOMAIN R.files /\ R.files[id] = files[id]
      /\ \A id \in DOMAIN R.files \ DOMAIN files : R.files[id] = EmptyFile
  BY <1>0, RotatedFacts, Zenon
<1>2. FromOld(files, R.files)
  <2>1. DOMAIN EmptyFile.frames = {}
    BY DEF EmptyFile
  <2> HIDE DEF R
  <2> QED BY <1>1, <2>1, Zenon DEF FromOld, No
<1>3. CASE Active(segments).size >= SegmentSize
  <2>1. R = [files |-> OpenedFile(n), segments |-> Append(segments, NewSegment(n)), next |-> n + 1]
    BY <1>3, Zenon DEF Rotated
  <2>2. NewSegment(n) \in Segment /\ NewSegment(n).id = n
    BY <1>0, NewSegmentType, Zenon
  <2>3. Active(R.segments) = NewSegment(n)
    BY <1>0, <2>1, <2>2 DEF Active
  <2>4. R.files = OpenedFile(n) /\ DOMAIN OpenedFile(n) = DOMAIN files \cup {n}
    BY <1>0, <2>1, OpenedFileFacts, Zenon
  <2>5. \A id \in DOMAIN files \cup {n} : id <= n
    BY <1>0
  <2> QED BY <1>1, <1>2, <2>2, <2>3, <2>4, <2>5, Zenon
<1>4. CASE ~(Active(segments).size >= SegmentSize)
  <2>1. Rotated = [files |-> files, segments |-> segments, next |-> n]
    BY <1>4, Zenon DEF Rotated
  <2>2. \A id \in DOMAIN files : id <= Active(segments).id
    BY Zenon DEF OrderInv
  <2> QED BY <1>1, <1>2, <2>1, <2>2, Zenon
<1> QED BY <1>3, <1>4, Zenon

\* Put adds the new record behind all others.
LEMMA PutOrder ==
  ASSUME OrderInv, mode = "up", NEW payload \in Payloads,
         NEW state \in {"whole", "torn"}, NEW sync \in BOOLEAN,
         Put(NewRecord(payload), state, sync)
  PROVE  DOMAIN files' = DOMAIN Rotated.files /\ OneMore(files, files', writes + 1)
<1> DEFINE R == Rotated
           id == Active(R.segments).id
           rec == NewRecord(payload)
           old == R.files[id]
           file == Grown(old, rec, state, sync)
<1>0. WalInv /\ writes \in Nat
  BY Zenon DEF OrderInv, WalInv, DiskInv, Typed
<1>1. DiskType(R.files) /\ id \in DOMAIN R.files
  BY <1>0, RotatedFacts, Zenon
<1>2. rec \in Record /\ rec.n = writes + 1
  BY <1>0, NewRecordType, Zenon DEF NewRecord
<1>3. files' = [R.files EXCEPT ![id] = file]
  BY Zenon DEF Put, Grown
<1>4. (\A k \in DOMAIN R.files : k <= id) /\ FromOld(files, R.files)
  BY RotatedLast, Zenon
<1> HIDE DEF R, id, rec
<1>5. old \in File /\ old.synced <= Len(old.frames)
  BY <1>1, Zenon DEF DiskType
<1>13. rec \in Record
  BY <1>2, Zenon
<1>6. /\ file \in File /\ file.synced <= Len(file.frames)
      /\ Len(file.frames) = Len(old.frames) + 1
      /\ file.frames[Len(file.frames)] = [rec |-> rec, state |-> state]
      /\ \A i \in DOMAIN old.frames : file.frames[i] = old.frames[i]
      /\ file.synced >= old.synced
      /\ sync => file.synced = Len(file.frames)
  BY <1>5, <1>13, AppendedFacts, Zenon
<1> HIDE DEF file
<1>7. /\ DOMAIN files' = DOMAIN R.files /\ files'[id] = file
      /\ \A k \in DOMAIN R.files : k # id => files'[k] = R.files[k]
  BY <1>1, <1>3, Zenon
<1> DEFINE end == Len(file.frames)
<1>8. /\ end \in DOMAIN file.frames /\ \A i \in DOMAIN file.frames : i <= end
      /\ \A i \in DOMAIN file.frames : i = end \/ i \in DOMAIN old.frames
  <2>1. old.frames \in Seq(Frame) /\ file.frames \in Seq(Frame)
    BY <1>5, <1>6, Zenon DEF File
  <2> QED BY <1>6, <2>1
<1>9. file.frames[end].rec.n = writes + 1
  BY <1>2, <1>6
<1> HIDE DEF end
<1>10. ASSUME NEW k \in DOMAIN files', NEW i \in DOMAIN files'[k].frames, ~(k = id /\ i = end)
       PROVE  /\ k \in DOMAIN files /\ i \in DOMAIN files[k].frames
              /\ No(files', k, i) = No(files, k, i)
  <2>1. /\ k \in DOMAIN R.files /\ i \in DOMAIN R.files[k].frames
        /\ No(files', k, i) = No(R.files, k, i)
    <3>1. CASE k = id
      <4>1. i \in DOMAIN file.frames /\ i # end
        BY <1>7, <1>10, <3>1, Zenon
      <4>2. i \in DOMAIN old.frames /\ file.frames[i] = old.frames[i]
        BY <1>6, <1>8, <4>1, Zenon
      <4> QED BY <1>1, <1>7, <3>1, <4>2, Zenon DEF No
    <3>2. CASE k # id
      BY <1>7, <3>2, Zenon DEF No
    <3> QED BY <3>1, <3>2, Zenon
  <2> QED BY <1>4, <2>1, Zenon DEF FromOld
<1>11. id \in DOMAIN files' /\ No(files', id, end) = writes + 1
  BY <1>1, <1>7, <1>9, Zenon DEF No
<1>12. OneMore(files, files', writes + 1)
  <2>1. (\A k \in DOMAIN files' : k <= id) /\ end \in DOMAIN files'[id].frames
        /\ \A i \in DOMAIN files'[id].frames : i <= end
    BY <1>4, <1>7, <1>8, Zenon
  <2> QED BY <1>10, <1>11, <2>1, Zenon DEF OneMore
<1> QED BY <1>7, <1>12, Zenon DEF R

\* Writes, with every outcome.
LEMMA WriteOrder ==
  ASSUME OrderInv, WalInv', NEW payload \in Payloads,
         Write(payload) \/ WriteFlushFails(payload) \/ WriteSyncFails(payload)
         \/ CrashWriting(payload)
  PROVE  OrderInv'
<1> DEFINE R == Rotated
           last == Active(R.segments)
<1>0. WalInv /\ writes \in Nat /\ DiskType(files) /\ DiskType(files') /\ Fsync \in BOOLEAN
      /\ Ordered(files) /\ Counted(files, writes) /\ DeliveredInOrder
  BY WALAssumption, Zenon DEF OrderInv, WalInv, DiskInv, Typed
<1>1. /\ mode = "up" /\ writes' = writes + 1 /\ delivered' = delivered
      /\ \/ \E state \in {"whole", "torn"}, sync \in BOOLEAN : Put(NewRecord(payload), state, sync)
         \/ files' = R.files
  BY <1>0, Zenon DEF Write, WriteFlushFails, WriteSyncFails, CrashWriting, Writing
<1>2. /\ \A id \in DOMAIN R.files : id <= last.id
      /\ DiskType(R.files) /\ FromOld(files, R.files)
      /\ R.segments \in Seq(Segment) /\ R.segments # <<>>
  BY <1>0, <1>1, RotatedLast, RotatedFacts, Zenon
<1>3. DOMAIN files' = DOMAIN R.files /\ Ordered(files') /\ Counted(files', writes')
  <2>1. CASE files' = R.files
    <3>1. Ordered(files') /\ Counted(files', writes)
      BY <1>0, <1>2, <2>1, FromOldKeeps, Zenon
    <3>2. Counted(files', writes + 1)
      BY <1>0, <3>1, CountedMore, Zenon
    <3> QED BY <1>1, <2>1, <3>1, <3>2, Zenon
  <2>2. ASSUME NEW state \in {"whole", "torn"}, NEW sync \in BOOLEAN,
               Put(NewRecord(payload), state, sync)
        PROVE  DOMAIN files' = DOMAIN R.files /\ OneMore(files, files', writes + 1)
    BY <1>1, <2>2, PutOrder, Zenon
  <2>3. OneMore(files, files', writes + 1) => Ordered(files') /\ Counted(files', writes + 1)
    BY <1>0, OneMoreKeeps, Zenon
  <2> QED BY <1>1, <2>1, <2>2, <2>3, Zenon
<1>4. mode' = "up" => Active(segments').id = last.id
  <2> HIDE DEF R
  <2>0. last \in Segment
    BY <1>2 DEF Active
  <2>1. CASE Write(payload)
    <3> DEFINE s == [last EXCEPT !.size = @ + 1]
    <3>1. s \in Segment /\ s.id = last.id
      BY <2>0 DEF Segment
    <3>2. segments' = [R.segments EXCEPT ![Len(R.segments)] = s]
      BY <2>1, Zenon DEF Write, Active, R
    <3> HIDE DEF s
    <3> QED BY <1>2, <3>1, <3>2, SegmentUpdate, Zenon
  <2>2. CASE WriteFlushFails(payload)
    <3> DEFINE s == [last EXCEPT !.stuck = TRUE]
    <3>1. s \in Segment /\ s.id = last.id
      BY <2>0, Zenon DEF Segment
    <3>2. segments' = [R.segments EXCEPT ![Len(R.segments)] = s]
      BY <2>2, Zenon DEF WriteFlushFails, Active, R
    <3> HIDE DEF s
    <3> QED BY <1>2, <3>1, <3>2, SegmentUpdate, Zenon
  <2>3. CASE WriteSyncFails(payload)
    BY <2>3, Zenon DEF WriteSyncFails, R
  <2>4. CASE CrashWriting(payload)
    BY <2>4, Zenon DEF CrashWriting, Gone
  <2> QED BY <2>1, <2>2, <2>3, <2>4, Zenon
<1>5. mode' = "up" => \A id \in DOMAIN files' : id <= Active(segments').id
  BY <1>2, <1>3, <1>4, Zenon
<1>6. DeliveredInOrder'
  BY <1>0, <1>1, Zenon DEF DeliveredInOrder
<1> QED BY <1>3, <1>5, <1>6, Zenon DEF OrderInv

\* The records of what remains of a file after an outage.
LEMMA RemainsRecords ==
  ASSUME NEW file \in File, NEW left \in Remains(file)
  PROVE  \A i \in DOMAIN left.frames :
           /\ i \in DOMAIN file.frames /\ left.frames[i].rec = file.frames[i].rec
           /\ left.frames[i].state = "whole" => file.frames[i].state = "whole"
<1>1. file.frames \in Seq(Frame) /\ file.synced \in Nat /\ Len(file.frames) \in Nat
  BY DEF File
<1>2. ASSUME NEW n \in file.synced .. Len(file.frames),
             left = [frames |-> SubSeq(file.frames, 1, n), synced |-> file.synced]
      PROVE  \A i \in DOMAIN left.frames :
               /\ i \in DOMAIN file.frames /\ left.frames[i].rec = file.frames[i].rec
               /\ left.frames[i].state = "whole" => file.frames[i].state = "whole"
  <2> DEFINE sub == SubSeq(file.frames, 1, n)
  <2>1. DOMAIN sub = 1 .. n /\ \A i \in 1 .. n : i \in DOMAIN file.frames /\ sub[i] = file.frames[i]
    BY <1>1
  <2> HIDE DEF sub
  <2>2. left.frames = sub
    BY <1>2, Zenon DEF sub
  <2> QED BY <2>1, <2>2, Zenon
<1>3. ASSUME NEW n \in file.synced + 1 .. Len(file.frames),
             left = [frames |-> [SubSeq(file.frames, 1, n) EXCEPT ![n].state = "torn"],
                     synced |-> file.synced]
      PROVE  \A i \in DOMAIN left.frames :
               /\ i \in DOMAIN file.frames /\ left.frames[i].rec = file.frames[i].rec
               /\ left.frames[i].state = "whole" => file.frames[i].state = "whole"
  <2> DEFINE sub == SubSeq(file.frames, 1, n)
             fr == [sub[n] EXCEPT !.state = "torn"]
             cut == [sub EXCEPT ![n] = fr]
  <2>1. /\ DOMAIN sub = 1 .. n /\ n \in 1 .. n
        /\ \A i \in 1 .. n : i \in DOMAIN file.frames /\ sub[i] = file.frames[i]
    BY <1>1
  <2>2. left.frames = cut
    BY <1>3, Zenon
  <2> HIDE DEF sub
  <2>3. \A i \in DOMAIN file.frames : file.frames[i] \in Frame
    BY <1>1
  <2>4. fr.rec = sub[n].rec /\ fr.state = "torn"
    BY <2>1, <2>3, Zenon DEF Frame
  <2> HIDE DEF fr
  <2>5. DOMAIN cut = 1 .. n /\ cut[n] = fr /\ \A i \in 1 .. n : i # n => cut[i] = sub[i]
    BY <2>1, Zenon
  <2> HIDE DEF cut
  <2>6. \A i \in 1 .. n : /\ cut[i].rec = sub[i].rec
                          /\ cut[i].state = "whole" => sub[i].state = "whole"
    <3>1. "torn" # "whole"
      OBVIOUS
    <3> QED BY <2>4, <2>5, <3>1, Zenon
  <2> QED BY <2>1, <2>2, <2>5, <2>6, Zenon
<1> QED BY <1>2, <1>3, Zenon DEF Remains

\* Outages and rot take records away, and never move one.
LEMMA DiskOrder ==
  ASSUME OrderInv, WalInv',
         Outage \/ \E id \in DOMAIN files : \E i \in DOMAIN files[id].frames : Rot(id, i)
  PROVE  OrderInv'
<1>1. mode' = "down" /\ writes' = writes /\ delivered' = delivered
  BY Zenon DEF Outage, Rot
<1>2. ASSUME Outage PROVE FromOld(files, files')
  <2>1. DOMAIN files' = DOMAIN files /\ \A id \in DOMAIN files : files'[id] \in Remains(files[id])
    BY <1>2, Zenon DEF Outage
  <2>2. \A id \in DOMAIN files : files[id] \in File
    BY Zenon DEF OrderInv, WalInv, DiskInv, Typed, DiskType
  <2> QED BY <2>1, <2>2, RemainsRecords DEF FromOld, No
<1>3. ASSUME NEW id \in DOMAIN files, NEW i \in DOMAIN files[id].frames, Rot(id, i)
      PROVE  FromOld(files, files')
  <2>1. PICK state \in {"bad", "torn"} : files' = [files EXCEPT ![id].frames[i].state = state]
    BY <1>3, Zenon DEF Rot
  <2>2. files[id] \in File /\ files[id].frames \in Seq(Frame)
    BY Zenon DEF OrderInv, WalInv, DiskInv, Typed, DiskType, File
  <2> DEFINE fr == [files[id].frames[i] EXCEPT !.state = state]
             frs == [files[id].frames EXCEPT ![i] = fr]
             file == [files[id] EXCEPT !.frames = frs]
  <2>3. files' = [files EXCEPT ![id] = file]
    BY <2>1, Zenon
  <2>4. files[id].frames[i] \in Frame
    BY <2>2
  <2>5. fr.rec = files[id].frames[i].rec
    BY <2>4, Zenon DEF Frame
  <2> HIDE DEF fr
  <2>6. /\ DOMAIN frs = DOMAIN files[id].frames
        /\ \A k \in DOMAIN frs : frs[k].rec = files[id].frames[k].rec
    BY <2>5, Zenon
  <2> HIDE DEF frs
  <2>7. file.frames = frs
    BY <2>2, Zenon DEF File
  <2> HIDE DEF file
  <2>8. DOMAIN files' = DOMAIN files /\ files'[id] = file
        /\ \A k \in DOMAIN files : k # id => files'[k] = files[k]
    BY <2>3, Zenon
  <2> QED BY <2>6, <2>7, <2>8, Zenon DEF FromOld, No
<1>4. Ordered(files') /\ Counted(files', writes)
  BY <1>2, <1>3, FromOldKeeps DEF OrderInv
<1> QED BY <1>1, <1>4, Zenon DEF OrderInv, DeliveredInOrder

-----------------------------------------------------------------------------
(* What Replay reads *)

\* Every non-empty set of numbers has a least element.
LEMMA LeastNumber ==
  ASSUME NEW S, S \subseteq Nat, S # {}
  PROVE  \E x \in S : \A y \in S : x <= y
<1> DEFINE Less == {p \in Nat \X Nat : p[1] < p[2]}
<1>1. IsWellFoundedOn(Less, Nat)
  BY NatLessThanWellFounded, Zenon DEF OpToRel
<1>2. PICK x \in S : \A y \in S : ~(<<y, x>> \in Less)
  <2> HIDE DEF Less
  <2> QED BY <1>1, WFMin, Zenon
<1>3. \A y \in S : ~(y < x)
  BY <1>2, Zenon
<1> QED BY <1>3

\* A set of numbers that holds 0 and every successor up to n is all of them.
LEMMA Upwards ==
  ASSUME NEW n \in Nat, NEW S, 0 \in S, \A k \in 1 .. n : k - 1 \in S => k \in S
  PROVE  \A k \in 0 .. n : k \in S
<1> DEFINE T == {k \in 0 .. n : k \notin S}
<1> SUFFICES ASSUME T # {} PROVE FALSE
  BY Zenon
<1>1. PICK x \in T : \A y \in T : x <= y
  <2>1. T \subseteq Nat
    OBVIOUS
  <2> HIDE DEF T
  <2> QED BY <2>1, LeastNumber, Zenon
<1>2. x \in 1 .. n /\ x - 1 \in 0 .. n /\ ~(x <= x - 1)
  <2>1. x \in 0 .. n /\ x # 0
    BY Zenon
  <2> QED BY <2>1
<1>3. x - 1 \in S
  BY <1>1, <1>2, Zenon
<1> QED BY <1>2, <1>3, Zenon

\* Read stops at the first frame that is not readable.
LEMMA ReadCountFacts ==
  ASSUME NEW frames \in Seq(Frame)
  PROVE  /\ ReadCount(frames) \in 0 .. Len(frames)
         /\ \A i \in 1 .. ReadCount(frames) : Readable(frames, i)
         /\ ~Readable(frames, ReadCount(frames) + 1)
<1> DEFINE Stops(n) == (\A i \in 1 .. n : Readable(frames, i)) /\ ~Readable(frames, n + 1)
           S == {n \in 0 .. Len(frames) : ~Readable(frames, n + 1)}
<1>1. DOMAIN frames = 1 .. Len(frames) /\ Len(frames) \in Nat
  OBVIOUS
<1>2. PICK n \in S : \A k \in S : n <= k
  <2>1. Len(frames) \in 0 .. Len(frames) /\ Len(frames) + 1 \notin DOMAIN frames
    BY <1>1
  <2>2. Len(frames) \in S
    BY <2>1, Zenon DEF Readable
  <2>3. S \subseteq Nat
    BY <1>1
  <2> HIDE DEF S
  <2> QED BY <2>2, <2>3, LeastNumber, Zenon
<1>3. ASSUME NEW i \in 1 .. n PROVE Readable(frames, i)
  <2>1. n \in 0 .. Len(frames)
    BY Zenon
  <2>2. i - 1 \in 0 .. Len(frames) /\ ~(n <= i - 1) /\ i - 1 + 1 = i
    BY <1>1, <2>1
  <2>3. i - 1 \notin S
    <3> HIDE DEF S
    <3> QED BY <1>2, <2>2, Zenon
  <2> QED BY <2>2, <2>3, Zenon
<1>4. \E k \in 0 .. Len(frames) : Stops(k)
  BY <1>2, <1>3, Zenon
<1> QED BY <1>4, Zenon DEF ReadCount

\* What is read from one file.
LEMMA ReadSegmentFacts ==
  ASSUME NEW frames \in Seq(Frame)
  PROVE  /\ ReadSegment(frames) \in Seq(Record)
         /\ \A i \in DOMAIN ReadSegment(frames) :
              i \in DOMAIN frames /\ ReadSegment(frames)[i] = frames[i].rec
<1> DEFINE n == ReadCount(frames)
<1>1. n \in 0 .. Len(frames)
  BY ReadCountFacts, Zenon
<1>2. ReadSegment(frames) = [i \in 1 .. n |-> frames[i].rec]
  BY Zenon DEF ReadSegment
<1> HIDE DEF n
<1>3. n \in Nat /\ \A i \in 1 .. n : i \in DOMAIN frames
  BY <1>1
<1>4. \A i \in 1 .. n : frames[i].rec \in Record
  <2>1. \A i \in DOMAIN frames : frames[i] \in Frame
    OBVIOUS
  <2> QED BY <1>3, <2>1, Zenon DEF Frame
<1> QED BY <1>2, <1>3, <1>4

\* The elements of two sequences one after the other.
LEMMA ConcatFacts ==
  ASSUME NEW s \in Seq(Record), NEW t \in Seq(Record)
  PROVE  /\ s \o t \in Seq(Record)
         /\ \A i \in DOMAIN (s \o t) :
              \/ i \in DOMAIN s /\ (s \o t)[i] = s[i]
              \/ /\ i \in Nat /\ i > Len(s) /\ i - Len(s) \in DOMAIN t
                 /\ (s \o t)[i] = t[i - Len(s)]
  OBVIOUS

\* There is a function that ReadAll can define by recursion.
LEMMA ReadExists ==
  ASSUME NEW n \in Nat, NEW R
  PROVE  \E f : f = [k \in 0 .. n |-> IF k = 0 THEN <<>> ELSE f[k - 1] \o R[k]]
<1> DEFINE Reads(m, f) == f = [k \in 0 .. m |-> IF k = 0 THEN <<>> ELSE f[k - 1] \o R[k]]
           S == {m \in 0 .. n : \E f : Reads(m, f)}
<1>1. 0 \in S
  <2> DEFINE f == [k \in 0 .. 0 |-> <<>>]
  <2>1. f = [k \in 0 .. 0 |-> IF k = 0 THEN <<>> ELSE f[k - 1] \o R[k]]
    OBVIOUS
  <2>2. Reads(0, f) /\ 0 \in 0 .. n
    BY <2>1
  <2> QED BY <2>2, Zenon
<1>2. ASSUME NEW m \in 1 .. n, m - 1 \in S PROVE m \in S
  <2>1. PICK f : Reads(m - 1, f)
    BY <1>2, Zenon
  <2> DEFINE g == [k \in 0 .. m |-> IF k = m THEN f[m - 1] \o R[m] ELSE f[k]]
  <2>2. \A k \in 0 .. m - 1 : g[k] = f[k] /\ k # m
    OBVIOUS
  <2>3. \A k \in 0 .. m - 1 : f[k] = IF k = 0 THEN <<>> ELSE f[k - 1] \o R[k]
    BY <2>1, Zenon
  <2>4. ASSUME NEW k \in 0 .. m PROVE g[k] = IF k = 0 THEN <<>> ELSE g[k - 1] \o R[k]
    <3>1. CASE k = m
      <4>0. m - 1 \in 0 .. m - 1 /\ m # 0 /\ m \in 0 .. m
        OBVIOUS
      <4>1. m - 1 \in 0 .. m - 1 /\ m # 0 /\ g[k] = f[m - 1] \o R[m]
        BY <3>1, <4>0, Zenon
      <4> HIDE DEF g
      <4>2. g[m - 1] = f[m - 1]
        BY <2>2, <4>1, Zenon
      <4> QED BY <3>1, <4>1, <4>2, Zenon
    <3>2. CASE k # m
      <4>1. k \in 0 .. m - 1 /\ (k # 0 => k - 1 \in 0 .. m - 1)
        BY <3>2
      <4> HIDE DEF g
      <4> QED BY <2>2, <2>3, <4>1, Zenon
    <3> QED BY <3>1, <3>2, Zenon
  <2>5. DOMAIN g = 0 .. m /\ g = [k \in 0 .. m |-> g[k]]
    BY Zenon
  <2> HIDE DEF g
  <2>6. Reads(m, g)
    BY <2>4, <2>5, Zenon
  <2>7. m \in 0 .. n
    OBVIOUS
  <2> QED BY <2>6, <2>7, Zenon
<1>3. n \in 0 .. n
  OBVIOUS
<1>4. n \in S
  <2> HIDE DEF S
  <2> QED BY <1>1, <1>2, <1>3, Upwards, Zenon
<1> QED BY <1>4, Zenon

\* e is an element of s.
Occurs(e, s) == \E x \in DOMAIN s : s[x] = e

\* Every element of the first m sequences is in s.
HasAll(s, seqs, m) == \A k \in 1 .. m : \A i \in DOMAIN seqs[k] : Occurs(seqs[k][i], s)

\* A loop that appends R[1], R[2], ... leaves nothing out.
LEMMA LoopFacts ==
  ASSUME NEW T, NEW n \in Nat, NEW R, \A k \in 1 .. n : R[k] \in Seq(T), NEW f,
         f = [k \in 0 .. n |-> IF k = 0 THEN <<>> ELSE f[k - 1] \o R[k]]
  PROVE  f[n] \in Seq(T) /\ HasAll(f[n], R, n)
<1> DEFINE S == {m \in 0 .. n : f[m] \in Seq(T) /\ HasAll(f[m], R, m)}
<1>1. f[0] = <<>> /\ \A k \in 1 .. n : f[k] = f[k - 1] \o R[k]
  <2>1. 0 \in 0 .. n /\ \A k \in 1 .. n : k \in 0 .. n /\ k # 0
    OBVIOUS
  <2> QED BY <2>1, Zenon
<1>2. 0 \in S
  <2>1. 0 \in 0 .. n /\ <<>> \in Seq(T) /\ 1 .. 0 = {}
    OBVIOUS
  <2> QED BY <1>1, <2>1, Zenon DEF HasAll
<1>3. ASSUME NEW m \in 1 .. n, m - 1 \in S PROVE m \in S
  <2> DEFINE s == f[m - 1]
             t == R[m]
  <2>1. s \in Seq(T) /\ HasAll(s, R, m - 1) /\ f[m] = s \o t /\ t \in Seq(T)
    BY <1>1, <1>3, Zenon
  <2> HIDE DEF s, t
  <2>2. s \o t \in Seq(T)
    BY <2>1
  <2>3. \A x \in DOMAIN s : x \in DOMAIN (s \o t) /\ (s \o t)[x] = s[x]
    BY <2>1
  <2>4. \A i \in DOMAIN t : Len(s) + i \in DOMAIN (s \o t) /\ (s \o t)[Len(s) + i] = t[i]
    BY <2>1
  <2>5. m \in 0 .. n /\ \A k \in 1 .. m : k \in 1 .. m - 1 \/ k = m
    OBVIOUS
  <2>6. ASSUME NEW k \in 1 .. m, NEW i \in DOMAIN R[k] PROVE Occurs(R[k][i], s \o t)
    <3>1. CASE k = m
      BY <2>4, <2>6, <3>1, Zenon DEF t, Occurs
    <3>2. CASE k \in 1 .. m - 1
      <4>1. Occurs(R[k][i], s)
        BY <2>1, <2>6, <3>2, Zenon DEF HasAll
      <4> QED BY <2>3, <4>1, Zenon DEF Occurs
    <3> QED BY <2>5, <3>1, <3>2, Zenon
  <2> QED BY <2>1, <2>2, <2>5, <2>6, Zenon DEF HasAll
<1>4. n \in S
  <2>1. n \in 0 .. n
    OBVIOUS
  <2> HIDE DEF S
  <2> QED BY <1>2, <1>3, <2>1, Upwards, Zenon
<1> QED BY <1>4, Zenon

\* A file that ends torn at most delivers every whole frame.
LEMMA ReadSegmentHas ==
  ASSUME NEW frames \in Seq(Frame), TornAtEnd(frames), NEW i \in DOMAIN frames,
         frames[i].state = "whole"
  PROVE  i \in DOMAIN ReadSegment(frames) /\ ReadSegment(frames)[i] = frames[i].rec
<1> DEFINE n == ReadCount(frames)
<1>1. /\ DOMAIN frames = 1 .. Len(frames) /\ Len(frames) \in Nat
      /\ i \in Nat /\ i >= 1 /\ i <= Len(frames)
  OBVIOUS
<1>2. n \in 0 .. Len(frames) /\ ~Readable(frames, n + 1)
  BY ReadCountFacts, Zenon
<1>3. ReadSegment(frames) = [k \in 1 .. n |-> frames[k].rec]
  BY Zenon DEF ReadSegment
<1> HIDE DEF n
<1>4. ASSUME n < i PROVE FALSE
  <2>1. n + 1 \in DOMAIN frames
    BY <1>1, <1>2, <1>4
  <2>2. PICK k \in 1 .. n + 1 : frames[k].state # "whole"
    BY <1>2, <2>1, Zenon DEF Readable
  <2>3. k \in DOMAIN frames /\ k <= i
    BY <1>1, <1>2, <1>4
  <2>4. k = Len(frames)
    BY <2>2, <2>3, Zenon DEF TornAtEnd
  <2>5. k = i
    BY <1>1, <2>3, <2>4
  <2> QED BY <2>2, <2>5, Zenon
<1>5. i \in 1 .. n
  BY <1>1, <1>2, <1>4
<1> QED BY <1>3, <1>5, Zenon

\* ReadAll appends what is read from one file after the other.
LEMMA ReadLoop ==
  ASSUME NEW n \in Nat, NEW order, Len(order) = n
  PROVE  LET R == [j \in 1 .. n |-> ReadSegment(Loaded[order[j]].frames)]
         IN  \E f : /\ f = [k \in 0 .. n |-> IF k = 0 THEN <<>> ELSE f[k - 1] \o R[k]]
                    /\ ReadAll(order) = f[n]
<1> DEFINE seg(j) == ReadSegment(Loaded[order[j]].frames)
           R == [j \in 1 .. n |-> seg(j)]
           read == CHOOSE f : f = [k \in 0 .. Len(order) |->
                     IF k = 0 THEN <<>> ELSE f[k - 1] \o ReadSegment(Loaded[order[k]].frames)]
<1>1. ReadAll(order) = read[n]
  BY Zenon DEF ReadAll
<1>2. \A k \in 0 .. n : k # 0 => R[k] = seg(k)
  OBVIOUS
<1> HIDE DEF R
<1>3. PICK f : f = [k \in 0 .. n |-> IF k = 0 THEN <<>> ELSE f[k - 1] \o R[k]]
  BY ReadExists, Zenon
<1>4. f = [k \in 0 .. n |-> IF k = 0 THEN <<>> ELSE f[k - 1] \o seg(k)]
  BY <1>2, <1>3, Zenon
<1>5. read = [k \in 0 .. n |-> IF k = 0 THEN <<>> ELSE read[k - 1] \o seg(k)]
  BY <1>4, Zenon
<1> HIDE DEF read
<1>6. read = [k \in 0 .. n |-> IF k = 0 THEN <<>> ELSE read[k - 1] \o R[k]]
  BY <1>2, <1>5, Zenon
<1> QED BY <1>1, <1>6, Zenon DEF R

\* Files that are in order, read in the order of their IDs, give records that
\* are in order.
LEMMA ReadInOrder ==
  ASSUME DiskType(Loaded), Ordered(Loaded), NEW n \in Nat, NEW order \in [1 .. n -> DOMAIN Loaded],
         InOrder(order), Len(order) = n
  PROVE  /\ ReadAll(order) \in Seq(Record)
         /\ \A i \in DOMAIN ReadAll(order) :
              \E id \in DOMAIN Loaded : \E x \in DOMAIN Loaded[id].frames :
                ReadAll(order)[i] = Loaded[id].frames[x].rec
         /\ \A i, k \in DOMAIN ReadAll(order) :
              i < k => ReadAll(order)[i].n < ReadAll(order)[k].n
<1> DEFINE frs(j) == Loaded[order[j]].frames
           R == [j \in 1 .. n |-> ReadSegment(frs(j))]
           From(s, m) ==
             /\ s \in Seq(Record)
             /\ \A i \in DOMAIN s : \E j \in 1 .. m : \E x \in DOMAIN frs(j) : s[i] = frs(j)[x].rec
             /\ \A i, k \in DOMAIN s : i < k => s[i].n < s[k].n
<1>1. PICK read : /\ read = [k \in 0 .. n |-> IF k = 0 THEN <<>> ELSE read[k - 1] \o R[k]]
                  /\ ReadAll(order) = read[n]
  BY ReadLoop, Zenon
<1>2. \A k \in 1 .. n : R[k] = ReadSegment(frs(k))
  OBVIOUS
<1> HIDE DEF R
<1>3. read[0] = <<>> /\ \A k \in 1 .. n : read[k] = read[k - 1] \o ReadSegment(frs(k))
  <2>1. 0 \in 0 .. n /\ \A k \in 1 .. n : k \in 0 .. n /\ k # 0
    OBVIOUS
  <2> QED BY <1>1, <1>2, <2>1, Zenon
<1>4. \A j \in 1 .. n : /\ order[j] \in DOMAIN Loaded /\ frs(j) \in Seq(Frame)
                        /\ ReadSegment(frs(j)) \in Seq(Record)
                        /\ \A i \in DOMAIN ReadSegment(frs(j)) :
                             i \in DOMAIN frs(j) /\ ReadSegment(frs(j))[i] = frs(j)[i].rec
  <2>1. \A j \in 1 .. n : order[j] \in DOMAIN Loaded /\ frs(j) \in Seq(Frame)
    BY Zenon DEF DiskType, File
  <2> QED BY <2>1, ReadSegmentFacts, Zenon
<1>5. \A j, k \in 1 .. n : \A x \in DOMAIN frs(j), y \in DOMAIN frs(k) :
        j < k \/ (j = k /\ x < y) => frs(j)[x].rec.n < frs(k)[y].rec.n
  <2>1. \A j, k \in 1 .. n : j < k => order[j] < order[k]
    BY Zenon DEF InOrder
  <2> QED BY <1>4, <2>1, Zenon DEF Ordered, No
<1> DEFINE S == {m \in 0 .. n : From(read[m], m)}
<1>6. 0 \in S
  <2>1. <<>> \in Seq(Record) /\ DOMAIN <<>> = {} /\ 0 \in 0 .. n
    OBVIOUS
  <2> HIDE DEF frs
  <2>2. From(<<>>, 0)
    BY <2>1, Zenon
  <2> HIDE DEF From
  <2> QED BY <1>3, <2>1, <2>2, Zenon
<1>7. ASSUME NEW m \in 1 .. n, m - 1 \in S PROVE m \in S
  <2> DEFINE s == read[m - 1]
             t == ReadSegment(frs(m))
             u == s \o t
  <2>10. m \in 0 .. n
    OBVIOUS
  <2>0. read[m] = u
    BY <1>3, Zenon
  <2>1. From(s, m - 1)
    <3> HIDE DEF From
    <3> QED BY <1>7, Zenon
  <2>2. /\ t \in Seq(Record)
        /\ \A i \in DOMAIN t : i \in DOMAIN frs(m) /\ t[i] = frs(m)[i].rec
    BY <1>4, Zenon
  <2>3. \A j \in 1 .. m - 1 : j \in 1 .. m /\ j \in 1 .. n /\ j < m
    OBVIOUS
  <2> HIDE DEF frs, s, t
  <2>4. s \in Seq(Record)
    BY <2>1, Zenon
  <2>5. u \in Seq(Record) /\ \A i \in DOMAIN u :
          \/ i \in DOMAIN s /\ u[i] = s[i]
          \/ i \in Nat /\ i > Len(s) /\ i - Len(s) \in DOMAIN t /\ u[i] = t[i - Len(s)]
    BY <2>2, <2>4, ConcatFacts, Zenon
  <2> HIDE DEF u
  <2>6. ASSUME NEW i \in DOMAIN s
        PROVE  \E j \in 1 .. m - 1 : \E x \in DOMAIN frs(j) : s[i] = frs(j)[x].rec
    BY <2>1, Zenon
  <2>7. ASSUME NEW i \in DOMAIN u
        PROVE  \E j \in 1 .. m : \E x \in DOMAIN frs(j) : u[i] = frs(j)[x].rec
    <3>1. m \in 1 .. m
      OBVIOUS
    <3>2. CASE i \in DOMAIN s /\ u[i] = s[i]
      BY <2>3, <2>6, <3>2, Zenon
    <3>3. CASE i - Len(s) \in DOMAIN t /\ u[i] = t[i - Len(s)]
      BY <2>2, <3>1, <3>3, Zenon
    <3> QED BY <2>5, <3>2, <3>3, Zenon
  <2>8. ASSUME NEW i \in DOMAIN u, NEW k \in DOMAIN u, i < k PROVE u[i].n < u[k].n
    <3>0. DOMAIN s = 1 .. Len(s) /\ Len(s) \in Nat /\ DOMAIN t \subseteq Nat
          /\ i \in Nat /\ k \in Nat
      <4>1. s \in Seq(Record) /\ t \in Seq(Record) /\ u \in Seq(Record)
        BY <2>2, <2>4, <2>5, Zenon
      <4> QED BY <4>1
    <3>1. CASE i \in DOMAIN s /\ u[i] = s[i] /\ k \in DOMAIN s /\ u[k] = s[k]
      BY <2>1, <2>8, <3>1, Zenon
    <3>2. CASE i \in DOMAIN s /\ u[i] = s[i] /\ k - Len(s) \in DOMAIN t /\ u[k] = t[k - Len(s)]
      <4>1. PICK j \in 1 .. m - 1 : \E x \in DOMAIN frs(j) : s[i] = frs(j)[x].rec
        BY <2>6, <3>2, Zenon
      <4>2. PICK x \in DOMAIN frs(j) : s[i] = frs(j)[x].rec
        BY <4>1, Zenon
      <4>3. k - Len(s) \in DOMAIN frs(m) /\ u[k] = frs(m)[k - Len(s)].rec
        BY <2>2, <3>2, Zenon
      <4> QED BY <1>5, <2>3, <3>2, <4>2, <4>3, Zenon
    <3>3. CASE /\ i - Len(s) \in DOMAIN t /\ u[i] = t[i - Len(s)]
               /\ k - Len(s) \in DOMAIN t /\ u[k] = t[k - Len(s)]
      <4>1. i - Len(s) < k - Len(s)
        BY <2>8, <3>0
      <4>2. /\ i - Len(s) \in DOMAIN frs(m) /\ u[i] = frs(m)[i - Len(s)].rec
            /\ k - Len(s) \in DOMAIN frs(m) /\ u[k] = frs(m)[k - Len(s)].rec
        BY <2>2, <3>3, Zenon
      <4> QED BY <1>5, <4>1, <4>2, Zenon
    <3>4. ~(i > Len(s) /\ k \in DOMAIN s)
      BY <2>8, <3>0
    <3> QED BY <2>5, <3>1, <3>2, <3>3, <3>4, Zenon
  <2>9. From(u, m)
    BY <2>5, <2>7, <2>8, Zenon
  <2> HIDE DEF From
  <2> QED BY <2>0, <2>9, <2>10, Zenon
<1>8. n \in 0 .. n /\ n \in S
  <2>1. n \in 0 .. n
    OBVIOUS
  <2> HIDE DEF S
  <2> QED BY <1>6, <1>7, <2>1, Upwards, Zenon
<1>9. From(read[n], n)
  <2> HIDE DEF From
  <2> QED BY <1>8, Zenon
<1> DEFINE s == read[n]
<1>10. /\ s \in Seq(Record)
       /\ \A i \in DOMAIN s : \E j \in 1 .. n : \E x \in DOMAIN frs(j) : s[i] = frs(j)[x].rec
       /\ \A i, k \in DOMAIN s : i < k => s[i].n < s[k].n
  BY <1>9, Zenon
<1>11. ReadAll(order) = s /\ \A j \in 1 .. n : order[j] \in DOMAIN Loaded
  BY <1>1, <1>4, Zenon
<1> HIDE DEF s, From
<1>12. ASSUME NEW i \in DOMAIN s
       PROVE  \E id \in DOMAIN Loaded : \E x \in DOMAIN Loaded[id].frames :
                s[i] = Loaded[id].frames[x].rec
  <2>1. PICK j \in 1 .. n : \E x \in DOMAIN frs(j) : s[i] = frs(j)[x].rec
    BY <1>10, Zenon
  <2>2. order[j] \in DOMAIN Loaded
    BY <1>11, Zenon
  <2> QED BY <2>1, <2>2, Zenon
<1> HIDE DEF frs
<1> QED BY <1>10, <1>11, <1>12, Zenon

\* Before a start the files are loaded as they are.
LEMMA LoadedFromOld ==
  ASSUME DiskType(files)
  PROVE  FromOld(files, Loaded)
<1>1. CASE DOMAIN files = {}
  <2>1. Loaded = OpenedFile(0) /\ 0 \in Nat
    BY <1>1, Zenon DEF Loaded
  <2>2. DOMAIN Loaded = {0} /\ Loaded[0] = EmptyFile
    BY <1>1, <2>1, OpenedFileFacts, Zenon
  <2>3. DOMAIN EmptyFile.frames = {}
    BY DEF EmptyFile
  <2> QED BY <2>2, <2>3, Zenon DEF FromOld
<1>2. CASE DOMAIN files # {}
  BY <1>2, Zenon DEF Loaded, FromOld
<1> QED BY <1>1, <1>2, Zenon

\* A start reads what is there, and writes to the file with the highest ID.
LEMMA OpenOrder ==
  ASSUME OrderInv, WalInv', Open
  PROVE  OrderInv'
<1>1. /\ mode' = "up" /\ files' = Loaded /\ writes' = writes
      /\ DiskType(files) /\ DiskType(Loaded)
  BY Zenon DEF Open, counters, OrderInv, WalInv, DiskInv, Typed
<1>2. PICK top \in DOMAIN Loaded : \E n \in 1 .. top + 1 :
        \E order \in [1 .. n -> DOMAIN Loaded] :
          /\ InOrder(order)
          /\ segments' = [k \in DOMAIN order |-> NewSegment(order[k])]
          /\ nextSegmentID' = order[n] + 1
          /\ delivered' = ReadAll(order)
  BY Zenon DEF Open
<1> DEFINE Opens(n, order) ==
      /\ InOrder(order)
      /\ segments' = [k \in DOMAIN order |-> NewSegment(order[k])]
      /\ nextSegmentID' = order[n] + 1
      /\ delivered' = ReadAll(order)
<1>3. PICK n \in Nat \ {0} : \E order \in [1 .. n -> DOMAIN Loaded] : Opens(n, order)
  <2>1. top + 1 \in Nat
    BY <1>1 DEF DiskType
  <2>2. \A n \in 1 .. top + 1 : n \in Nat \ {0}
    BY <2>1
  <2> QED BY <1>2, <2>2, Zenon
<1>4. PICK order \in [1 .. n -> DOMAIN Loaded] : Opens(n, order)
  BY <1>3, Zenon
<1>5. DOMAIN order = 1 .. n /\ Len(order) = n /\ n \in 1 .. n
  <2>1. order \in Seq(DOMAIN Loaded) /\ n \in 1 .. n
    OBVIOUS
  <2> QED BY <2>1
<1>6. FromOld(files, Loaded)
  BY <1>1, LoadedFromOld, Zenon
<1>7. Ordered(Loaded) /\ Counted(Loaded, writes)
  BY <1>6, FromOldKeeps, Zenon DEF OrderInv
<1>8. \A i, k \in DOMAIN delivered' : i < k => delivered'[i].n < delivered'[k].n
  <2>1. delivered' = ReadAll(order) /\ InOrder(order)
    BY <1>4, Zenon
  <2> QED BY <1>1, <1>5, <1>7, <2>1, ReadInOrder, Zenon
<1>9. Active(segments').id = order[n] /\ order[n] \in Nat
  <2>1. \A k \in 1 .. n : order[k] \in Nat
    BY <1>1, Zenon DEF DiskType
  <2>2. \A k \in 1 .. n : NewSegment(order[k]) \in Segment /\ NewSegment(order[k]).id = order[k]
    BY <1>1, <2>1, NewSegmentType, Zenon
  <2>3. segments' = [k \in 1 .. n |-> NewSegment(order[k])]
    BY <1>4, <1>5, Zenon
  <2>4. Len(segments') = n /\ segments'[n] = NewSegment(order[n])
    BY <1>5, <2>2, <2>3
  <2> QED BY <1>5, <2>1, <2>2, <2>4, Zenon DEF Active
<1>10. \A id \in DOMAIN Loaded : id <= order[n]
  <2>1. nextSegmentID' = order[n] + 1 /\ DOMAIN Loaded \subseteq Nat
    BY <1>1, <1>4, Zenon DEF DiskType
  <2>2. \A id \in DOMAIN Loaded : id < order[n] + 1
    BY <1>1, <2>1, Zenon DEF WalInv, Below
  <2> QED BY <1>9, <2>1, <2>2
<1>11. DeliveredInOrder'
  BY <1>8, Zenon DEF DeliveredInOrder
<1> QED BY <1>1, <1>7, <1>9, <1>10, <1>11, Zenon DEF OrderInv

\* On an empty disk there is nothing out of order.
LEMMA OrderInit == Init => OrderInv
<1> SUFFICES ASSUME Init PROVE OrderInv
  BY Zenon
<1>1. DOMAIN files = {} /\ delivered = <<>> /\ mode = "down" /\ WalInv
  BY WalInit, Zenon DEF Init
<1>2. DeliveredInOrder
  BY <1>1 DEF DeliveredInOrder
<1> QED BY <1>1, <1>2, Zenon DEF OrderInv, Ordered, Counted

\* Every step keeps the order.
LEMMA OrderStep == OrderInv /\ [Next]_vars => OrderInv'
<1> SUFFICES ASSUME OrderInv, [Next]_vars PROVE OrderInv'
  BY Zenon
<1>0. WalInv /\ WalInv'
  BY WalStep, Zenon DEF OrderInv
<1>1. CASE UNCHANGED vars
  BY <1>0, <1>1 DEF vars, memory, counters, OrderInv, Ordered, Counted, No, DeliveredInOrder
<1>2. CASE WriteRefused
  <2>1. /\ UNCHANGED <<mode, files, segments, delivered>> /\ writes' = writes + 1
        /\ writes \in Nat /\ DiskType(files)
    BY <1>0, <1>2, Zenon DEF WriteRefused, memory, WalInv, DiskInv, Typed
  <2>2. Counted(files, writes + 1)
    BY <2>1, CountedMore, Zenon DEF OrderInv
  <2> QED BY <1>0, <2>1, <2>2, Zenon DEF OrderInv, DeliveredInOrder
<1>3. CASE Close \/ OpenFails
  <2>1. mode' # "up" /\ UNCHANGED <<files, writes, delivered>>
    BY <1>3, Zenon DEF Close, OpenFails, Gone, counters
  <2> QED BY <1>0, <2>1, Zenon DEF OrderInv, DeliveredInOrder
<1> QED BY <1>0, <1>1, <1>2, <1>3, WriteOrder, DiskOrder, OpenOrder, Zenon DEF Next

\* Replay passes records to its callback in the order they were written in,
\* and none twice, whatever rotations, crashes, outages and rot came before.
THEOREM DeliveredInOrderHolds == Spec => []DeliveredInOrder
<1>1. OrderInv => DeliveredInOrder
  BY Zenon DEF OrderInv
<1> QED BY <1>1, OrderInit, OrderStep, PTL DEF Spec

-----------------------------------------------------------------------------
(* The files are the log the manager relies on *)

\* s holds the records of S, each once, in the order of their numbers.
Sorts(s, S) ==
    /\ s \in Seq(Record)
    /\ \A i \in DOMAIN s : s[i] \in S
    /\ \A rec \in S : Occurs(rec, s)
    /\ \A i, k \in DOMAIN s : i < k => s[i].n < s[k].n

\* Records that can be told apart by numbers up to m.
Numbered(S, m) ==
    /\ S \subseteq Record
    /\ \A rec \in S : 1 <= rec.n /\ rec.n <= m
    /\ \A a, b \in S : a.n = b.n => a = b

\* What Sorts says of two places in s.
LEMMA SortsPlaces ==
  ASSUME NEW s, NEW S, Sorts(s, S), NEW i \in DOMAIN s, NEW k \in DOMAIN s
  PROVE  /\ i \in Nat /\ k \in Nat /\ s[i].n \in Nat /\ s[k].n \in Nat
         /\ s[i].n < s[k].n => i < k
         /\ s[i].n = s[k].n => i = k
<1>1. s \in Seq(Record) /\ (i < k => s[i].n < s[k].n) /\ (k < i => s[k].n < s[i].n)
  BY Zenon DEF Sorts
<1>2. i \in Nat /\ k \in Nat /\ s[i] \in Record /\ s[k] \in Record
  BY <1>1
<1>3. s[i].n \in Nat /\ s[k].n \in Nat
  BY <1>2, Zenon DEF Record
<1> QED BY <1>1, <1>2, <1>3

\* There is only one such sequence.
LEMMA SortsOnce ==
  ASSUME NEW s, NEW t, NEW S, Sorts(s, S), Sorts(t, S)
  PROVE  s = t
<1>0. /\ s \in Seq(Record) /\ t \in Seq(Record)
      /\ DOMAIN s \subseteq Nat /\ DOMAIN t \subseteq Nat
      /\ DOMAIN s = 1 .. Len(s) /\ DOMAIN t = 1 .. Len(t) /\ Len(s) \in Nat /\ Len(t) \in Nat
  <2>1. s \in Seq(Record) /\ t \in Seq(Record)
    BY Zenon DEF Sorts
  <2> QED BY <2>1
<1> DEFINE Same(k) == (k \in DOMAIN s <=> k \in DOMAIN t) /\ (k \in DOMAIN s => s[k] = t[k])
           D == {k \in DOMAIN s \cup DOMAIN t : ~Same(k)}
<1>1. ASSUME D # {} PROVE FALSE
  <2>1. D \subseteq Nat
    BY <1>0
  <2>2. PICK k \in D : \A j \in D : k <= j
    <3> HIDE DEF D
    <3> QED BY <1>1, <2>1, LeastNumber, Zenon
  <2>3. \A j \in DOMAIN s \cup DOMAIN t : j < k => Same(j)
    <3> SUFFICES ASSUME NEW j \in DOMAIN s \cup DOMAIN t, j < k, ~Same(j) PROVE FALSE
      BY Zenon
    <3>1. k <= j
      BY <2>2, Zenon
    <3>2. k \in Nat /\ j \in Nat
      BY <1>0, <2>1, Zenon
    <3> QED BY <3>1, <3>2
  <2> HIDE DEF D
  <2>4. ~Same(k) /\ k \in Nat
    BY <2>1, <2>2 DEF D
  \* Where t has the record that s has at place i: not before k.
  <2>5. ASSUME NEW i \in DOMAIN s, i >= k PROVE \E j \in DOMAIN t : t[j] = s[i] /\ j >= k
    <3>1. PICK j \in DOMAIN t : t[j] = s[i]
      BY Zenon DEF Sorts, Occurs
    <3>2. ASSUME j < k PROVE FALSE
      <4>1. j \in DOMAIN s /\ s[j] = t[j]
        BY <2>3, <3>2, Zenon
      <4>2. j = i
        BY <3>1, <4>1, SortsPlaces, Zenon
      <4> QED BY <2>4, <2>5, <3>2, <4>2, <1>0
    <3>3. j \in Nat
      BY <1>0, Zenon
    <3>4. j >= k
      BY <2>4, <3>2, <3>3
    <3> QED BY <3>1, <3>4, Zenon
  <2>6. ASSUME NEW i \in DOMAIN t, i >= k PROVE \E j \in DOMAIN s : s[j] = t[i] /\ j >= k
    <3>1. PICK j \in DOMAIN s : s[j] = t[i]
      BY Zenon DEF Sorts, Occurs
    <3>2. ASSUME j < k PROVE FALSE
      <4>1. j \in DOMAIN t /\ s[j] = t[j]
        BY <2>3, <3>2, Zenon
      <4>2. j = i
        BY <3>1, <4>1, SortsPlaces, Zenon
      <4> QED BY <2>4, <2>6, <3>2, <4>2, <1>0
    <3>3. j \in Nat
      BY <1>0, Zenon
    <3>4. j >= k
      BY <2>4, <3>2, <3>3
    <3> QED BY <3>1, <3>4, Zenon
  <2>7. k \in DOMAIN s /\ k \in DOMAIN t
    <3>0. k >= k /\ (k \in DOMAIN s \/ k \in DOMAIN t)
      <4>1. k >= k
        BY <2>4
      <4> QED BY <2>2, <4>1, Zenon DEF D
    <3>1. k \in DOMAIN s => \E j \in DOMAIN t : j >= k
      BY <2>5, <3>0, Zenon
    <3>2. k \in DOMAIN t => \E j \in DOMAIN s : j >= k
      BY <2>6, <3>0, Zenon
    <3>3. \A j \in DOMAIN t : j >= k => k \in DOMAIN t \/ k = 0
      BY <1>0, <2>4
    <3>4. \A j \in DOMAIN s : j >= k => k \in DOMAIN s \/ k = 0
      BY <1>0, <2>4
    <3>5. k # 0
      BY <1>0, <3>0
    <3> QED BY <3>0, <3>1, <3>2, <3>3, <3>4, <3>5, Zenon
  <2>8. k >= k
    BY <2>4
  <2>9. PICK a \in DOMAIN t : t[a] = s[k] /\ a >= k
    BY <2>5, <2>7, <2>8, Zenon
  <2>10. PICK b \in DOMAIN s : s[b] = t[k] /\ b >= k
    BY <2>6, <2>7, <2>8, Zenon
  <2>11. t[a].n >= t[k].n /\ s[b].n >= s[k].n
    <3>1. /\ a \in Nat /\ t[a].n \in Nat /\ t[k].n \in Nat /\ (t[a].n < t[k].n => a < k)
          /\ b \in Nat /\ s[b].n \in Nat /\ s[k].n \in Nat /\ (s[b].n < s[k].n => b < k)
      BY <2>7, SortsPlaces, Zenon
    <3> QED BY <2>4, <2>9, <2>10, <3>1
  <2>12. s[k].n = s[b].n
    <3>1. s[b].n \in Nat /\ s[k].n \in Nat
      BY <2>7, SortsPlaces, Zenon
    <3>2. s[k].n >= s[b].n /\ s[b].n >= s[k].n
      BY <2>9, <2>10, <2>11, Zenon
    <3> QED BY <3>1, <3>2
  <2>13. k = b
    BY <2>7, <2>12, SortsPlaces, Zenon
  <2> QED BY <2>4, <2>7, <2>10, <2>13, Zenon
<1>2. DOMAIN s = DOMAIN t /\ \A k \in DOMAIN s : s[k] = t[k]
  BY <1>1, Zenon
<1>3. s = [k \in DOMAIN s |-> s[k]] /\ t = [k \in DOMAIN t |-> t[k]]
  BY <1>0
<1> HIDE DEF D
<1> QED BY <1>2, <1>3, Zenon

\* A record with a higher number goes to the end.
LEMMA SortsMore ==
  ASSUME NEW s, NEW S, Sorts(s, S), NEW rec \in Record, \A r \in S : r.n < rec.n
  PROVE  Sorts(Append(s, rec), S \cup {rec})
<1> DEFINE t == Append(s, rec)
<1>1. s \in Seq(Record) /\ (\A i \in DOMAIN s : s[i] \in S) /\ (\A r \in S : Occurs(r, s))
      /\ \A i, k \in DOMAIN s : i < k => s[i].n < s[k].n
  BY Zenon DEF Sorts
<1>2. /\ t \in Seq(Record) /\ Len(s) \in Nat /\ DOMAIN s = 1 .. Len(s)
      /\ \A i \in DOMAIN s : i \in DOMAIN t /\ t[i] = s[i]
      /\ Len(s) + 1 \in DOMAIN t /\ t[Len(s) + 1] = rec
      /\ \A i \in DOMAIN t : i \in DOMAIN s \/ i = Len(s) + 1
  BY <1>1
<1> HIDE DEF t
<1> DEFINE e == Len(s) + 1
<1>3. \A i \in DOMAIN s : ~(e < i)
  BY <1>2
<1>6. ~(e < e)
  BY <1>2
<1> HIDE DEF e
<1>4. \A i \in DOMAIN t : t[i] \in S \cup {rec}
  BY <1>1, <1>2, Zenon DEF e
<1>5. \A r \in S \cup {rec} : Occurs(r, t)
  BY <1>1, <1>2, Zenon DEF e, Occurs
<1>7. ASSUME NEW i \in DOMAIN t, NEW k \in DOMAIN t, i < k PROVE t[i].n < t[k].n
  <2>1. (i \in DOMAIN s \/ i = e) /\ (k \in DOMAIN s \/ k = e) /\ t[e] = rec
    BY <1>2, Zenon DEF e
  <2>2. CASE i \in DOMAIN s /\ k \in DOMAIN s
    BY <1>1, <1>2, <1>7, <2>2, Zenon
  <2>3. CASE i \in DOMAIN s /\ k = e
    BY <1>1, <1>2, <2>1, <2>3, Zenon
  <2> QED BY <1>3, <1>6, <1>7, <2>1, <2>2, <2>3, Zenon
<1> QED BY <1>2, <1>4, <1>5, <1>7, Zenon DEF Sorts, t

\* Putting records in the order of their numbers.
LEMMA InSequenceSorts ==
  ASSUME NEW m \in Nat, NEW S, Numbered(S, m)
  PROVE  Sorts(InSequence(S, m), S)
<1> DEFINE One(n) == IF \E rec \in S : rec.n = n
                     THEN <<CHOOSE rec \in S : rec.n = n>>
                     ELSE <<>>
           R == [n \in 1 .. m |-> One(n)]
           seq == CHOOSE f : f = [n \in 0 .. m |-> IF n = 0 THEN <<>> ELSE f[n - 1] \o One(n)]
           Upto(k) == {rec \in S : rec.n <= k}
           T == {k \in 0 .. m : Sorts(seq[k], Upto(k))}
<1>1. InSequence(S, m) = seq[m]
  BY Zenon DEF InSequence
<1>2. S \subseteq Record /\ \A rec \in S : rec.n \in Nat /\ 1 <= rec.n /\ rec.n <= m
  BY Zenon DEF Numbered, Record
<1>3. seq = [n \in 0 .. m |-> IF n = 0 THEN <<>> ELSE seq[n - 1] \o One(n)]
  <2>1. \A k \in 0 .. m : k # 0 => R[k] = One(k)
    <3>1. \A k \in 0 .. m : k # 0 => k \in 1 .. m
      OBVIOUS
    <3> QED BY <3>1, Zenon
  <2> HIDE DEF R, One
  <2>2. PICK f : f = [k \in 0 .. m |-> IF k = 0 THEN <<>> ELSE f[k - 1] \o R[k]]
    BY ReadExists, Zenon
  <2>3. f = [k \in 0 .. m |-> IF k = 0 THEN <<>> ELSE f[k - 1] \o One(k)]
    BY <2>1, <2>2, Zenon
  <2> QED BY <2>3, Zenon
<1> HIDE DEF seq
<1>4. seq[0] = <<>> /\ \A k \in 1 .. m : seq[k] = seq[k - 1] \o One(k)
  <2>1. 0 \in 0 .. m /\ \A k \in 1 .. m : k \in 0 .. m /\ k # 0
    OBVIOUS
  <2> HIDE DEF One
  <2> QED BY <1>3, <2>1, Zenon
<1>5. 0 \in T
  <2>1. <<>> \in Seq(Record) /\ DOMAIN <<>> = {} /\ 0 \in 0 .. m
    OBVIOUS
  <2>2. \A rec \in S : ~(rec.n <= 0)
    BY <1>2
  <2>3. Sorts(<<>>, Upto(0))
    BY <2>1, <2>2, Zenon DEF Sorts
  <2> QED BY <1>4, <2>1, <2>3, Zenon
<1>6. ASSUME NEW k \in 1 .. m, k - 1 \in T PROVE k \in T
  <2> DEFINE s == seq[k - 1]
  <2>1. Sorts(s, Upto(k - 1)) /\ seq[k] = s \o One(k)
    BY <1>4, <1>6, Zenon
  <2>2. s \in Seq(Record) /\ k \in 0 .. m
    <3>1. k \in 0 .. m
      OBVIOUS
    <3> QED BY <2>1, <3>1, Zenon DEF Sorts
  <2> HIDE DEF s
  <2>3. \A rec \in S : /\ rec.n <= k <=> rec.n <= k - 1 \/ rec.n = k
                       /\ rec.n <= k - 1 => rec.n < k
    BY <1>2
  <2>4. CASE \E rec \in S : rec.n = k
    <3>1. PICK rec \in S : rec.n = k /\ One(k) = <<rec>>
      BY <2>4, Zenon
    <3>2. rec \in Record /\ \A r \in Upto(k - 1) : r.n < rec.n
      BY <1>2, <2>3, <3>1, Zenon
    <3>3. \A r \in S : r.n = k => r = rec
      BY <3>1, Zenon DEF Numbered
    <3>4. Upto(k) = Upto(k - 1) \cup {rec}
      BY <2>3, <3>1, <3>3, Zenon
    <3>5. s \o <<rec>> = Append(s, rec)
      BY <2>2, <3>2
    <3> HIDE DEF Upto, One
    <3>6. Sorts(Append(s, rec), Upto(k - 1) \cup {rec})
      BY <2>1, <3>2, SortsMore, Zenon
    <3>7. Sorts(seq[k], Upto(k))
      BY <2>1, <3>1, <3>4, <3>5, <3>6, Zenon
    <3> QED BY <2>2, <3>7, Zenon
  <2>5. CASE ~ \E rec \in S : rec.n = k
    <3>1. One(k) = <<>> /\ Upto(k) = Upto(k - 1)
      BY <2>3, <2>5, Zenon
    <3>2. s \o <<>> = s
      BY <2>2
    <3> HIDE DEF Upto, One
    <3> QED BY <2>1, <2>2, <3>1, <3>2, Zenon
  <2> QED BY <2>4, <2>5, Zenon
<1>7. m \in T
  <2>1. m \in 0 .. m
    OBVIOUS
  <2> HIDE DEF T
  <2> QED BY <1>5, <1>6, <2>1, Upwards, Zenon
<1>8. Upto(m) = S
  BY <1>2, Zenon
<1> HIDE DEF Upto
<1> QED BY <1>1, <1>7, <1>8, Zenon

\* t is s without some of its elements.
PartOf(t, s) ==
    \E n \in 0 .. Len(s) : \E keep \in [1 .. n -> DOMAIN s] :
      /\ \A j, k \in 1 .. n : j < k => keep[j] < keep[k]
      /\ t = [k \in 1 .. n |-> s[keep[k]]]

\* What is left of a log without some of its records is a part of it in the
\* same order.
LEMMA PartOfLog ==
  ASSUME NEW s, NEW t, NEW S, NEW T, Sorts(s, S), Sorts(t, T), T \subseteq S
  PROVE  PartOf(t, s)
<1> DEFINE n == Len(t)
           keep == [k \in 1 .. n |-> CHOOSE i \in DOMAIN s : s[i] = t[k]]
<1>1. /\ n \in Nat /\ DOMAIN t = 1 .. n /\ t = [k \in 1 .. n |-> t[k]]
      /\ Len(s) \in Nat /\ DOMAIN s = 1 .. Len(s)
  <2>1. s \in Seq(Record) /\ t \in Seq(Record)
    BY Zenon DEF Sorts
  <2> QED BY <2>1
<1> HIDE DEF n
<1>2. \A k \in 1 .. n : keep[k] \in DOMAIN s /\ s[keep[k]] = t[k]
  <2> SUFFICES ASSUME NEW k \in 1 .. n PROVE \E i \in DOMAIN s : s[i] = t[k]
    BY Zenon
  <2>1. t[k] \in S
    BY <1>1, Zenon DEF Sorts
  <2> QED BY <2>1, Zenon DEF Sorts, Occurs
<1>3. keep \in [1 .. n -> DOMAIN s]
  BY <1>2, Zenon
<1> HIDE DEF keep
<1>4. ASSUME NEW j \in 1 .. n, NEW k \in 1 .. n, j < k PROVE keep[j] < keep[k]
  <2>1. s[keep[j]].n < s[keep[k]].n
    BY <1>1, <1>2, <1>4, Zenon DEF Sorts
  <2> QED BY <1>2, <2>1, SortsPlaces, Zenon
<1> DEFINE G == {k \in 0 .. n : k = 0 \/ k <= keep[k]}
<1>5. 0 \in G
  BY <1>1
<1>6. ASSUME NEW k \in 1 .. n, k - 1 \in G PROVE k \in G
  <2>1. k \in 0 .. n /\ k \in Nat /\ (k # 1 => k - 1 \in 1 .. n /\ k - 1 < k)
    BY <1>1
  <2>2. keep[k] \in Nat /\ keep[k] >= 1
    BY <1>1, <1>2
  <2>3. CASE k = 1
    BY <2>1, <2>2, <2>3
  <2>4. CASE k # 1
    <3>1. keep[k - 1] < keep[k] /\ k - 1 <= keep[k - 1] /\ keep[k - 1] \in DOMAIN s
      <4>1. k - 1 # 0
        BY <2>4
      <4> QED BY <1>2, <1>4, <1>6, <2>1, <2>4, <4>1, Zenon
    <3>2. keep[k - 1] \in Nat
      BY <1>1, <3>1
    <3>3. k <= keep[k]
      BY <2>1, <2>2, <3>1, <3>2
    <3> QED BY <2>1, <3>3, Zenon
  <2> QED BY <2>3, <2>4, Zenon
<1>7. n \in G
  <2>1. n \in 0 .. n
    BY <1>1
  <2> HIDE DEF G
  <2> QED BY <1>1, <1>5, <1>6, <2>1, Upwards, Zenon
<1>8. n \in 0 .. Len(s)
  <2>1. n = 0 \/ (n \in 1 .. n /\ n <= keep[n])
    BY <1>1, <1>7
  <2>2. n # 0 => keep[n] \in DOMAIN s
    BY <1>2, <2>1, Zenon
  <2> QED BY <1>1, <2>1, <2>2
<1>9. t = [k \in 1 .. n |-> s[keep[k]]]
  BY <1>1, <1>2, Zenon
<1> QED BY <1>3, <1>4, <1>8, <1>9, Zenon DEF PartOf

\* rec is in a whole frame.
WholeIn(fs, rec) ==
    \E id \in DOMAIN fs : \E i \in DOMAIN fs[id].frames :
      fs[id].frames[i].state = "whole" /\ fs[id].frames[i].rec = rec

\* The records of the log are those in whole frames.
LEMMA StoredIs ==
  ASSUME NEW fs, NEW rec
  PROVE  rec \in Stored(fs) <=> WholeIn(fs, rec)
<1>1. ASSUME rec \in Stored(fs) PROVE WholeIn(fs, rec)
  <2>1. PICK id \in DOMAIN fs :
          rec \in {fs[id].frames[i].rec : i \in {k \in DOMAIN fs[id].frames :
                                                   fs[id].frames[k].state = "whole"}}
    BY <1>1, Zenon DEF Stored
  <2>2. PICK i \in {k \in DOMAIN fs[id].frames : fs[id].frames[k].state = "whole"} :
          rec = fs[id].frames[i].rec
    BY <2>1, Zenon
  <2> QED BY <2>2, Zenon DEF WholeIn
<1>2. ASSUME WholeIn(fs, rec) PROVE rec \in Stored(fs)
  <2>1. PICK id \in DOMAIN fs : \E i \in DOMAIN fs[id].frames :
          fs[id].frames[i].state = "whole" /\ fs[id].frames[i].rec = rec
    BY <1>2, Zenon DEF WholeIn
  <2>2. rec \in {fs[id].frames[i].rec : i \in {k \in DOMAIN fs[id].frames :
                                                 fs[id].frames[k].state = "whole"}}
    BY <2>1, Zenon
  <2> QED BY <2>2, Zenon DEF Stored
<1> QED BY <1>1, <1>2, Zenon

\* In files that are in order they can be told apart by their numbers.
LEMMA StoredNumbered ==
  ASSUME NEW fs, NEW m \in Nat, DiskType(fs), Ordered(fs), Counted(fs, m)
  PROVE  Numbered(Stored(fs), m)
<1>1. ASSUME NEW rec \in Stored(fs)
      PROVE  \E id \in DOMAIN fs : \E i \in DOMAIN fs[id].frames : fs[id].frames[i].rec = rec
  <2>1. WholeIn(fs, rec)
    BY StoredIs, Zenon
  <2> QED BY <2>1, Zenon DEF WholeIn
<1>2. ASSUME NEW rec \in Stored(fs) PROVE rec \in Record /\ 1 <= rec.n /\ rec.n <= m
  <2>1. PICK id \in DOMAIN fs : \E i \in DOMAIN fs[id].frames : fs[id].frames[i].rec = rec
    BY <1>1, Zenon
  <2>2. PICK i \in DOMAIN fs[id].frames : fs[id].frames[i].rec = rec
    BY <2>1, Zenon
  <2>3. fs[id].frames \in Seq(Frame)
    BY Zenon DEF DiskType, File
  <2>4. fs[id].frames[i] \in Frame
    BY <2>3
  <2>5. fs[id].frames[i].rec \in Record
    BY <2>4, Zenon DEF Frame
  <2> QED BY <2>2, <2>5, Zenon DEF Counted, No
<1>3. ASSUME NEW a \in Stored(fs), NEW b \in Stored(fs), a.n = b.n PROVE a = b
  <2>1. PICK id \in DOMAIN fs : \E i \in DOMAIN fs[id].frames : fs[id].frames[i].rec = a
    BY <1>1, Zenon
  <2>2. PICK i \in DOMAIN fs[id].frames : fs[id].frames[i].rec = a
    BY <2>1, Zenon
  <2>3. PICK jd \in DOMAIN fs : \E k \in DOMAIN fs[jd].frames : fs[jd].frames[k].rec = b
    BY <1>1, Zenon
  <2>4. PICK k \in DOMAIN fs[jd].frames : fs[jd].frames[k].rec = b
    BY <2>3, Zenon
  <2>5. /\ id \in Nat /\ i \in Nat /\ jd \in Nat /\ k \in Nat
        /\ No(fs, id, i) \in Nat /\ No(fs, id, i) = No(fs, jd, k)
    BY <1>3, <2>2, <2>4, NumberType, Zenon DEF No
  <2>6. /\ id < jd \/ (id = jd /\ i < k) => No(fs, id, i) < No(fs, jd, k)
        /\ jd < id \/ (jd = id /\ k < i) => No(fs, jd, k) < No(fs, id, i)
    BY Zenon DEF Ordered
  <2>7. id = jd /\ i = k
    BY <2>5, <2>6
  <2> QED BY <2>2, <2>4, <2>7, Zenon
<1> QED BY <1>2, <1>3, Zenon DEF Numbered

\* So Contents holds them in order.
LEMMA ContentsSorts ==
  ASSUME OrderInv
  PROVE  /\ Sorts(Contents, Stored(files)) /\ Numbered(Stored(files), writes)
         /\ writes \in Nat /\ DiskType(files)
<1>1. writes \in Nat /\ DiskType(files) /\ Ordered(files) /\ Counted(files, writes)
  BY Zenon DEF OrderInv, WalInv, DiskInv, Typed
<1>2. Numbered(Stored(files), writes)
  BY <1>1, StoredNumbered, Zenon
<1> QED BY <1>1, <1>2, InSequenceSorts, Zenon DEF Contents

\* Two disks with the same records in whole frames.
LEMMA SameStored ==
  ASSUME NEW fs, NEW gs, \A rec : WholeIn(gs, rec) <=> WholeIn(fs, rec)
  PROVE  Stored(gs) = Stored(fs)
<1>1. \A rec : rec \in Stored(gs) <=> rec \in Stored(fs)
  BY StoredIs, Zenon
<1> QED BY <1>1, Zenon

\* A new empty file adds no record.
LEMMA EmptyStored ==
  ASSUME NEW fs, NEW gs,
         \A id \in DOMAIN fs : id \in DOMAIN gs /\ gs[id] = fs[id],
         \A id \in DOMAIN gs \ DOMAIN fs : gs[id] = EmptyFile
  PROVE  Stored(gs) = Stored(fs)
<1>1. DOMAIN EmptyFile.frames = {}
  BY DEF EmptyFile
<1>2. ASSUME NEW rec, WholeIn(fs, rec) PROVE WholeIn(gs, rec)
  BY <1>2, Zenon DEF WholeIn
<1>3. ASSUME NEW rec, WholeIn(gs, rec) PROVE WholeIn(fs, rec)
  <2>1. PICK id \in DOMAIN gs : \E i \in DOMAIN gs[id].frames :
          gs[id].frames[i].state = "whole" /\ gs[id].frames[i].rec = rec
    BY <1>3, Zenon DEF WholeIn
  <2>2. id \in DOMAIN fs /\ gs[id] = fs[id]
    BY <1>1, <2>1, Zenon
  <2> QED BY <2>1, <2>2, Zenon DEF WholeIn
<1> QED BY <1>2, <1>3, SameStored, Zenon

\* Put adds the record if its frame is whole.
LEMMA PutStored ==
  ASSUME WalInv, mode = "up", NEW payload \in Payloads,
         NEW state \in {"whole", "torn"}, NEW sync \in BOOLEAN,
         Put(NewRecord(payload), state, sync)
  PROVE  /\ state = "whole" => Stored(files') = Stored(files) \cup {NewRecord(payload)}
         /\ state = "torn" => Stored(files') = Stored(files)
<1> DEFINE R == Rotated
           id == Active(R.segments).id
           rec == NewRecord(payload)
           old == R.files[id]
           file == Grown(old, rec, state, sync)
<1>1. DiskType(R.files) /\ id \in DOMAIN R.files
  BY RotatedFacts, Zenon
<1>2. rec \in Record
  <2>1. writes \in Nat
    BY Zenon DEF WalInv, DiskInv, Typed
  <2> QED BY <2>1, NewRecordType, Zenon
<1>3. files' = [R.files EXCEPT ![id] = file]
  BY Zenon DEF Put, Grown
<1>4. Stored(R.files) = Stored(files)
  <2>1. /\ \A k \in DOMAIN files : k \in DOMAIN R.files /\ R.files[k] = files[k]
        /\ \A k \in DOMAIN R.files \ DOMAIN files : R.files[k] = EmptyFile
    BY RotatedFacts, Zenon
  <2> HIDE DEF R
  <2> QED BY <2>1, EmptyStored, Zenon
<1> HIDE DEF R, id, rec
<1>5. old \in File /\ old.synced <= Len(old.frames)
  BY <1>1, Zenon DEF DiskType
<1>6. /\ file \in File /\ file.synced <= Len(file.frames)
      /\ Len(file.frames) = Len(old.frames) + 1
      /\ file.frames[Len(file.frames)] = [rec |-> rec, state |-> state]
      /\ \A i \in DOMAIN old.frames : file.frames[i] = old.frames[i]
      /\ file.synced >= old.synced
      /\ sync => file.synced = Len(file.frames)
  BY <1>2, <1>5, AppendedFacts, Zenon
<1> HIDE DEF file
<1>7. /\ DOMAIN files' = DOMAIN R.files /\ files'[id] = file
      /\ \A k \in DOMAIN R.files : k # id => files'[k] = R.files[k]
  BY <1>1, <1>3, Zenon
<1> DEFINE end == Len(file.frames)
<1>8. /\ end \in DOMAIN file.frames
      /\ \A i \in DOMAIN old.frames : i \in DOMAIN file.frames
      /\ \A i \in DOMAIN file.frames : i = end \/ i \in DOMAIN old.frames
  <2>1. old.frames \in Seq(Frame) /\ file.frames \in Seq(Frame)
    BY <1>5, <1>6, Zenon DEF File
  <2>2. Len(file.frames) = Len(old.frames) + 1
    BY <1>6, Zenon
  <2> HIDE DEF old
  <2> QED BY <2>1, <2>2
<1>9. file.frames[end].rec = rec /\ file.frames[end].state = state
  BY <1>6
<1> HIDE DEF end, old
<1>10. ASSUME NEW r, WholeIn(files', r) PROVE WholeIn(R.files, r) \/ (state = "whole" /\ r = rec)
  <2>1. PICK k \in DOMAIN files' : \E i \in DOMAIN files'[k].frames :
          files'[k].frames[i].state = "whole" /\ files'[k].frames[i].rec = r
    BY <1>10, Zenon DEF WholeIn
  <2>2. CASE k # id
    BY <1>7, <2>1, <2>2, Zenon DEF WholeIn
  <2>3. CASE k = id
    <3>1. PICK i \in DOMAIN file.frames : file.frames[i].state = "whole" /\ file.frames[i].rec = r
      BY <1>7, <2>1, <2>3, Zenon
    <3>2. CASE i = end
      BY <1>9, <3>1, <3>2, Zenon
    <3>3. CASE i \in DOMAIN old.frames
      <4>1. old.frames[i].state = "whole" /\ old.frames[i].rec = r
        BY <1>6, <3>1, <3>3, Zenon
      <4> QED BY <1>1, <3>3, <4>1, Zenon DEF WholeIn, old
    <3> QED BY <1>8, <3>2, <3>3, Zenon
  <2> QED BY <2>2, <2>3, Zenon
<1>11. ASSUME NEW r, WholeIn(R.files, r) PROVE WholeIn(files', r)
  <2>1. PICK k \in DOMAIN R.files : \E i \in DOMAIN R.files[k].frames :
          R.files[k].frames[i].state = "whole" /\ R.files[k].frames[i].rec = r
    BY <1>11, Zenon DEF WholeIn
  <2>2. CASE k # id
    BY <1>7, <2>1, <2>2, Zenon DEF WholeIn
  <2>3. CASE k = id
    <3>1. PICK i \in DOMAIN old.frames : old.frames[i].state = "whole" /\ old.frames[i].rec = r
      BY <2>1, <2>3, Zenon DEF old
    <3>2. i \in DOMAIN file.frames /\ file.frames[i] = old.frames[i]
      BY <1>6, <1>8, Zenon
    <3> QED BY <1>1, <1>7, <3>1, <3>2, Zenon DEF WholeIn
  <2> QED BY <2>2, <2>3, Zenon
<1>12. ASSUME state = "whole" PROVE WholeIn(files', rec)
  BY <1>1, <1>7, <1>8, <1>9, <1>12, Zenon DEF WholeIn
<1>13. ASSUME state = "whole" PROVE Stored(files') = Stored(R.files) \cup {rec}
  <2>1. ASSUME NEW r PROVE r \in Stored(files') <=> r \in Stored(R.files) \/ r = rec
    <3>1. WholeIn(files', r) <=> WholeIn(R.files, r) \/ r = rec
      BY <1>10, <1>11, <1>12, <1>13, Zenon
    <3> QED BY <3>1, StoredIs, Zenon
  <2> QED BY <2>1, Zenon
<1>14. ASSUME state = "torn" PROVE Stored(files') = Stored(R.files)
  <2>1. state # "whole"
    BY <1>14
  <2>2. \A r : WholeIn(files', r) <=> WholeIn(R.files, r)
    BY <1>10, <1>11, <2>1, Zenon
  <2> QED BY <2>2, SameStored, Zenon
<1> QED BY <1>4, <1>13, <1>14, Zenon DEF rec

\* An outage adds no record.
LEMMA OutageStored ==
  ASSUME WalInv, Outage
  PROVE  Stored(files') \subseteq Stored(files)
<1>1. DOMAIN files' = DOMAIN files /\ \A id \in DOMAIN files : files'[id] \in Remains(files[id])
  BY Zenon DEF Outage
<1>2. \A id \in DOMAIN files : files[id] \in File
  BY Zenon DEF WalInv, DiskInv, Typed, DiskType
<1>3. ASSUME NEW rec, WholeIn(files', rec) PROVE WholeIn(files, rec)
  <2>1. PICK id \in DOMAIN files' : \E i \in DOMAIN files'[id].frames :
          files'[id].frames[i].state = "whole" /\ files'[id].frames[i].rec = rec
    BY <1>3, Zenon DEF WholeIn
  <2>2. PICK i \in DOMAIN files'[id].frames :
          files'[id].frames[i].state = "whole" /\ files'[id].frames[i].rec = rec
    BY <2>1, Zenon
  <2>3. id \in DOMAIN files /\ files[id] \in File /\ files'[id] \in Remains(files[id])
    BY <1>1, <1>2, Zenon
  <2>4. /\ i \in DOMAIN files[id].frames /\ files'[id].frames[i].rec = files[id].frames[i].rec
        /\ files'[id].frames[i].state = "whole" => files[id].frames[i].state = "whole"
    BY <2>3, RemainsRecords, Zenon
  <2> QED BY <2>2, <2>3, <2>4, Zenon DEF WholeIn
<1>4. \A rec \in Stored(files') : rec \in Stored(files)
  BY <1>3, StoredIs, Zenon
<1> QED BY <1>4, Zenon

\* ReadAll leaves out no whole frame of files that end torn at most.
LEMMA ReadAllHas ==
  ASSUME DiskType(Loaded), \A id \in DOMAIN Loaded : TornAtEnd(Loaded[id].frames),
         NEW n \in Nat, NEW order \in [1 .. n -> DOMAIN Loaded], InOrder(order), Len(order) = n
  PROVE  \A rec : WholeIn(Loaded, rec) => Occurs(rec, ReadAll(order))
<1> DEFINE frs(j) == Loaded[order[j]].frames
           R == [j \in 1 .. n |-> ReadSegment(frs(j))]
<1>1. PICK f : f = [k \in 0 .. n |-> IF k = 0 THEN <<>> ELSE f[k - 1] \o R[k]]
               /\ ReadAll(order) = f[n]
  BY ReadLoop, Zenon
<1>2. \A k \in 1 .. n : R[k] = ReadSegment(frs(k))
  OBVIOUS
<1> HIDE DEF R
<1>3. \A id \in DOMAIN Loaded : Loaded[id].frames \in Seq(Frame)
  BY Zenon DEF DiskType, File
<1>4. \A k \in 1 .. n : R[k] \in Seq(Record)
  <2>1. \A k \in 1 .. n : frs(k) \in Seq(Frame)
    BY <1>3, Zenon
  <2> HIDE DEF frs
  <2> QED BY <1>2, <2>1, ReadSegmentFacts, Zenon
<1>5. HasAll(ReadAll(order), R, n)
  <2>1. f[n] \in Seq(Record) /\ HasAll(f[n], R, n)
    BY <1>1, <1>4, LoopFacts, Zenon
  <2> QED BY <1>1, <2>1, Zenon
<1> SUFFICES ASSUME NEW rec, WholeIn(Loaded, rec) PROVE Occurs(rec, ReadAll(order))
  BY Zenon
<1>6. PICK id \in DOMAIN Loaded : \E i \in DOMAIN Loaded[id].frames :
        Loaded[id].frames[i].state = "whole" /\ Loaded[id].frames[i].rec = rec
  BY Zenon DEF WholeIn
<1>7. PICK i \in DOMAIN Loaded[id].frames :
        Loaded[id].frames[i].state = "whole" /\ Loaded[id].frames[i].rec = rec
  BY <1>6, Zenon
<1>8. PICK k \in 1 .. n : order[k] = id
  <2>1. DOMAIN order = 1 .. n /\ {order[k] : k \in DOMAIN order} = DOMAIN Loaded
    BY Zenon DEF InOrder
  <2> QED BY <2>1, Zenon
<1>9. i \in DOMAIN R[k] /\ R[k][i] = rec
  <2>1. /\ i \in DOMAIN ReadSegment(Loaded[id].frames)
        /\ ReadSegment(Loaded[id].frames)[i] = Loaded[id].frames[i].rec
    BY <1>3, <1>7, ReadSegmentHas, Zenon
  <2> QED BY <1>2, <1>7, <1>8, <2>1, Zenon
<1> QED BY <1>5, <1>9, Zenon DEF HasAll

\* Before a start: files are loaded as they are.
LEMMA LoadedFacts ==
  ASSUME DiskType(files)
  PROVE  /\ DiskType(Loaded) /\ Stored(Loaded) = Stored(files)
         /\ \A id \in DOMAIN Loaded : \/ id \in DOMAIN files /\ Loaded[id] = files[id]
                                      \/ Loaded[id] = EmptyFile
<1>1. CASE DOMAIN files = {}
  <2>1. Loaded = OpenedFile(0) /\ 0 \in Nat
    BY <1>1, Zenon DEF Loaded
  <2>2. DOMAIN Loaded = {0} /\ Loaded[0] = EmptyFile /\ DiskType(Loaded)
    BY <1>1, <2>1, OpenedFileFacts, Zenon
  <2>3. Stored(Loaded) = Stored(files)
    BY <1>1, <2>2, EmptyStored, Zenon
  <2> QED BY <2>2, <2>3, Zenon
<1>2. CASE DOMAIN files # {}
  <2>1. Loaded = files
    BY <1>2, Zenon DEF Loaded
  <2> QED BY <2>1, Zenon
<1> QED BY <1>1, <1>2, Zenon

\* Replay delivers the whole log.
LEMMA OpenDelivers ==
  ASSUME OrderInv, Intact, Open
  PROVE  Sorts(delivered', Stored(files)) /\ Stored(files') = Stored(files)
<1>1. /\ DiskType(files) /\ Ordered(files) /\ Counted(files, writes) /\ writes \in Nat
      /\ \A id \in DOMAIN files : TornAtEnd(files[id].frames)
  BY Zenon DEF OrderInv, WalInv, DiskInv, Typed
<1>2. /\ DiskType(Loaded) /\ Stored(Loaded) = Stored(files)
      /\ \A id \in DOMAIN Loaded : \/ id \in DOMAIN files /\ Loaded[id] = files[id]
                                   \/ Loaded[id] = EmptyFile
  BY <1>1, LoadedFacts, Zenon
<1>3. Ordered(Loaded)
  BY <1>1, LoadedFromOld, FromOldKeeps, Zenon
<1>4. \A id \in DOMAIN files : ~EndsTorn(files[id].frames)
  BY Zenon DEF Open
<1>5. \A id \in DOMAIN Loaded : TornAtEnd(Loaded[id].frames) /\ AllWhole(Loaded[id].frames)
  <2>1. TornAtEnd(EmptyFile.frames) /\ AllWhole(EmptyFile.frames)
    BY DEF TornAtEnd, AllWhole, EmptyFile
  <2>2. ASSUME NEW id \in DOMAIN files PROVE AllWhole(files[id].frames)
    <3> SUFFICES ASSUME NEW i \in DOMAIN files[id].frames, files[id].frames[i].state # "whole"
                 PROVE  FALSE
      BY Zenon DEF AllWhole
    <3> DEFINE fr == files[id].frames
    <3>1. fr \in Seq(Frame) /\ TornAtEnd(fr) /\ ~EndsTorn(fr)
      BY <1>1, <1>4, Zenon DEF DiskType, File
    <3>2. i \in DOMAIN fr /\ fr[i].state # "whole"
      OBVIOUS
    <3> HIDE DEF fr
    <3>3. i = Len(fr) /\ fr[i].state = "torn"
      BY <3>1, <3>2, Zenon DEF TornAtEnd
    <3>4. fr # <<>> /\ \A k \in 1 .. Len(fr) - 1 : k \in DOMAIN fr /\ k # Len(fr)
      BY <3>1, <3>2
    <3>5. \A k \in 1 .. Len(fr) - 1 : fr[k].state = "whole"
      BY <3>1, <3>4, Zenon DEF TornAtEnd
    <3> QED BY <3>1, <3>3, <3>4, <3>5, Zenon DEF EndsTorn
  <2> QED BY <1>1, <1>2, <2>1, <2>2, Zenon
<1>6. PICK top \in DOMAIN Loaded : \E n \in 1 .. top + 1 :
        \E order \in [1 .. n -> DOMAIN Loaded] : InOrder(order) /\ delivered' = ReadAll(order)
  BY Zenon DEF Open
<1>7. PICK n \in Nat : \E order \in [1 .. n -> DOMAIN Loaded] :
        InOrder(order) /\ delivered' = ReadAll(order)
  <2>1. top + 1 \in Nat
    BY <1>2 DEF DiskType
  <2>2. \A n \in 1 .. top + 1 : n \in Nat
    BY <2>1
  <2> QED BY <1>6, <2>2, Zenon
<1>8. PICK order \in [1 .. n -> DOMAIN Loaded] : InOrder(order) /\ delivered' = ReadAll(order)
  BY <1>7, Zenon
<1>9. Len(order) = n
  <2>1. order \in Seq(DOMAIN Loaded)
    OBVIOUS
  <2> QED BY <2>1
<1> DEFINE s == ReadAll(order)
<1>10. /\ s \in Seq(Record)
       /\ \A i \in DOMAIN s : \E id \in DOMAIN Loaded : \E x \in DOMAIN Loaded[id].frames :
            s[i] = Loaded[id].frames[x].rec
       /\ \A i, k \in DOMAIN s : i < k => s[i].n < s[k].n
  BY <1>2, <1>3, <1>8, <1>9, ReadInOrder, Zenon
<1>11. \A rec : WholeIn(Loaded, rec) => Occurs(rec, s)
  BY <1>2, <1>5, <1>8, <1>9, ReadAllHas, Zenon
<1> HIDE DEF s
<1>12. ASSUME NEW i \in DOMAIN s PROVE s[i] \in Stored(Loaded)
  <2>1. WholeIn(Loaded, s[i])
    BY <1>5, <1>10, Zenon DEF WholeIn, AllWhole
  <2> QED BY <2>1, StoredIs, Zenon
<1>13. ASSUME NEW rec \in Stored(Loaded) PROVE Occurs(rec, s)
  <2>1. WholeIn(Loaded, rec)
    BY StoredIs, Zenon
  <2> QED BY <1>11, <2>1, Zenon
<1>14. Sorts(s, Stored(Loaded))
  BY <1>10, <1>12, <1>13, Zenon DEF Sorts
<1>15. delivered' = s /\ files' = Loaded
  BY <1>8, Zenon DEF Open, s
<1> QED BY <1>2, <1>14, <1>15, Zenon

\* The log stays the same, or grows at its end.
LEMMA ContentsFollow ==
  ASSUME OrderInv, OrderInv'
  PROVE  /\ Stored(files') = Stored(files) => Contents' = Contents
         /\ \A rec \in Record : rec.n = writes + 1 /\ Stored(files') = Stored(files) \cup {rec} =>
              Contents' = Append(Contents, rec)
<1>1. Sorts(Contents, Stored(files)) /\ Numbered(Stored(files), writes) /\ writes \in Nat
  BY ContentsSorts, Zenon
<1>2. Sorts(Contents', Stored(files'))
  <2>1. OrderInv' => Sorts(Contents, Stored(files))'
    BY ContentsSorts, PTL
  <2> QED BY <2>1, Zenon
<1>3. ASSUME Stored(files') = Stored(files) PROVE Contents' = Contents
  BY <1>1, <1>2, <1>3, SortsOnce, Zenon
<1>4. ASSUME NEW rec \in Record, rec.n = writes + 1, Stored(files') = Stored(files) \cup {rec}
      PROVE  Contents' = Append(Contents, rec)
  <2>1. \A r \in Stored(files) : r.n \in Nat /\ r.n <= writes
    BY <1>1, Zenon DEF Numbered, Record
  <2>2. \A r \in Stored(files) : r.n < rec.n
    BY <1>1, <1>4, <2>1
  <2>3. Sorts(Append(Contents, rec), Stored(files) \cup {rec})
    BY <1>1, <2>2, SortsMore, Zenon
  <2> QED BY <1>2, <1>4, <2>3, SortsOnce, Zenon
<1> QED BY <1>3, <1>4, Zenon

\* Every write appends its record or leaves the log as it is.
LEMMA WriteRefines ==
  ASSUME OrderInv, OrderInv', Intact, Intact', NEW payload \in Payloads,
         Write(payload) \/ WriteFlushFails(payload) \/ WriteSyncFails(payload)
         \/ CrashWriting(payload)
  PROVE  Abstract!Works \/ UNCHANGED Abstract!vars
<1> DEFINE rec == NewRecord(payload)
           Records == [n : 1 .. MaxWrites, payload : Payloads]
<1>0. WalInv /\ writes \in Nat /\ Fsync \in BOOLEAN /\ MaxWrites \in Nat
  BY WALAssumption, Zenon DEF OrderInv, WalInv, DiskInv, Typed
<1>1. mode = "up" /\ writes < MaxWrites /\ delivered' = delivered
  BY Zenon DEF Write, WriteFlushFails, WriteSyncFails, CrashWriting, Writing
<1>2. rec \in Record /\ rec.n = writes + 1 /\ rec \in Records
  <2>1. writes + 1 \in 1 .. MaxWrites
    BY <1>0, <1>1
  <2> QED BY <1>0, <2>1, NewRecordType, Zenon DEF NewRecord
<1>3. Stored(Rotated.files) = Stored(files)
  <2>1. /\ \A k \in DOMAIN files : k \in DOMAIN Rotated.files /\ Rotated.files[k] = files[k]
        /\ \A k \in DOMAIN Rotated.files \ DOMAIN files : Rotated.files[k] = EmptyFile
    BY <1>0, <1>1, RotatedFacts, Zenon
  <2> QED BY <2>1, EmptyStored, Zenon
<1>4. Stored(files') = Stored(files) => Contents' = Contents
  BY ContentsFollow, Zenon
<1>5. Stored(files') = Stored(files) \cup {rec} => Contents' = Append(Contents, rec)
  BY <1>2, ContentsFollow, Zenon
<1>6. ASSUME NEW sync \in BOOLEAN, Put(rec, "whole", sync) PROVE Contents' = Append(Contents, rec)
  <2>1. "whole" \in {"whole", "torn"}
    OBVIOUS
  <2>2. Stored(files') = Stored(files) \cup {rec}
    BY <1>0, <1>1, <1>6, <2>1, PutStored, Zenon
  <2> QED BY <1>5, <2>2, Zenon
<1>7. ASSUME NEW sync \in BOOLEAN, Put(rec, "torn", sync) PROVE Contents' = Contents
  <2>1. "torn" \in {"whole", "torn"}
    OBVIOUS
  <2>2. Stored(files') = Stored(files)
    BY <1>0, <1>1, <1>7, <2>1, PutStored, Zenon
  <2> QED BY <1>4, <2>2, Zenon
<1>8. ASSUME files' = Rotated.files PROVE Contents' = Contents
  BY <1>3, <1>4, <1>8, Zenon
<1> HIDE DEF rec
<1>9. CASE Write(payload)
  <2>1. Put(rec, "whole", Fsync) /\ acked' = acked \cup {rec}
    BY <1>9, Zenon DEF Write, rec
  <2>2. Contents' = Append(Contents, rec)
    BY <1>0, <1>6, <2>1, Zenon
  <2>3. Abstract!WriteSucceeds(rec)
    BY <1>1, <2>1, <2>2, Zenon DEF Abstract!WriteSucceeds
  <2> QED BY <1>2, <2>3, Zenon DEF Abstract!Works
<1>10. ASSUME ~Write(payload)
       PROVE  acked' = acked /\ (Contents' = Contents \/ Contents' = Append(Contents, rec))
  <2>1. acked' = acked
    BY <1>10, Zenon DEF WriteFlushFails, WriteSyncFails, CrashWriting
  <2>2. FALSE \in BOOLEAN
    BY Zenon
  <2>3. \/ Put(rec, "whole", FALSE) \/ Put(rec, "torn", FALSE) \/ files' = Rotated.files
    BY <1>10, Zenon DEF WriteFlushFails, WriteSyncFails, CrashWriting, rec
  <2> QED BY <1>6, <1>7, <1>8, <2>1, <2>2, <2>3, Zenon
<1>11. CASE ~Write(payload) /\ Contents' = Append(Contents, rec)
  <2>1. Abstract!WriteFails(rec)
    BY <1>1, <1>10, <1>11, Zenon DEF Abstract!WriteFails
  <2> QED BY <1>2, <2>1, Zenon DEF Abstract!Works
<1>12. CASE ~Write(payload) /\ Contents' = Contents
  <2>1. acked' = acked
    BY <1>10, <1>12, Zenon
  <2>2. Intact' = Intact
    BY Zenon DEF Intact
  <2> QED BY <1>1, <1>12, <2>1, <2>2, Zenon DEF Abstract!vars
<1> QED BY <1>9, <1>10, <1>11, <1>12, Zenon

\* An outage takes only records nobody was told are safe.
LEMMA OutageRefines ==
  ASSUME OrderInv, OrderInv', Intact, Intact', Outage
  PROVE  Abstract!Works
<1>1. Sorts(Contents, Stored(files))
  BY ContentsSorts, Zenon
<1>2. Sorts(Contents', Stored(files'))
  <2>1. OrderInv' => Sorts(Contents, Stored(files))'
    BY ContentsSorts, PTL
  <2> QED BY <2>1, Zenon
<1>3. UNCHANGED <<acked, delivered>>
  BY Zenon DEF Outage
<1>4. Stored(files') \subseteq Stored(files)
  BY OutageStored, Zenon DEF OrderInv
<1>5. Abstract!Thinned
  <2>1. PartOf(Contents', Contents)
    BY <1>1, <1>2, <1>4, PartOfLog, Zenon
  <2> QED BY <2>1, Zenon DEF Abstract!Thinned, PartOf
<1>6. ASSUME NEW i \in DOMAIN Contents, Contents[i] \in acked
      PROVE  \E k \in DOMAIN Contents' : Contents'[k] = Contents[i]
  <2>1. \A rec \in acked : Held(files', rec)
    BY <1>3, Zenon DEF OrderInv, WalInv, DiskInv
  <2>2. WholeIn(files', Contents[i])
    BY <1>6, <2>1, Zenon DEF Held, WholeIn
  <2>3. Contents[i] \in Stored(files')
    BY <2>2, StoredIs, Zenon
  <2>4. Occurs(Contents[i], Contents')
    BY <1>2, <2>3, Zenon DEF Sorts
  <2> QED BY <2>4, Zenon DEF Occurs
<1>7. Abstract!Lose
  BY <1>3, <1>5, <1>6, Zenon DEF Abstract!Lose
<1> QED BY <1>7, Zenon DEF Abstract!Works

\* Replay passes on the log.
LEMMA OpenRefines ==
  ASSUME OrderInv, OrderInv', Intact, Intact', Open
  PROVE  Abstract!Works
<1>1. Sorts(delivered', Stored(files)) /\ Stored(files') = Stored(files)
  BY OpenDelivers, Zenon
<1>2. Sorts(Contents, Stored(files))
  BY ContentsSorts, Zenon
<1>3. delivered' = Contents
  BY <1>1, <1>2, SortsOnce, Zenon
<1>4. Contents' = Contents
  BY <1>1, ContentsFollow, Zenon
<1>5. acked' = acked
  BY Zenon DEF Open
<1>6. Abstract!Replay
  BY <1>3, <1>4, <1>5, Zenon DEF Abstract!Replay
<1> QED BY <1>6, Zenon DEF Abstract!Works

\* Every step of the files is a step of the log, or none.
LEMMA RefineStep == OrderInv /\ OrderInv' /\ [Next]_vars => [Abstract!Next]_(Abstract!vars)
<1> SUFFICES ASSUME OrderInv, OrderInv', [Next]_vars
             PROVE  Abstract!Next \/ UNCHANGED Abstract!vars
  BY Zenon
<1>0. {rots, outages} \subseteq Nat /\ Fsync \in BOOLEAN
  BY WALAssumption, Zenon DEF OrderInv, WalInv, DiskInv, Typed
<1>1. CASE ~Intact'
  <2>1. Abstract!Damage
    BY <1>1, Zenon DEF Abstract!Damage, Intact
  <2> QED BY <2>1, Zenon DEF Abstract!Next
<1>2. ASSUME Intact' PROVE Intact
  <2>1. CASE Outage
    <3>1. rots' = rots /\ outages' = outages + 1
      BY <2>1, Zenon DEF Outage
    <3> QED BY <1>0, <1>2, <3>1 DEF Intact
  <2>2. CASE \E id \in DOMAIN files : \E i \in DOMAIN files[id].frames : Rot(id, i)
    <3>1. rots' = rots + 1
      BY <2>2, Zenon DEF Rot
    <3> QED BY <1>0, <1>2, <3>1 DEF Intact
  <2>3. CASE UNCHANGED <<rots, outages>>
    BY <1>2, <2>3, Zenon DEF Intact
  <2>4. CASE WriteRefused \/ Close \/ Open \/ OpenFails \/ UNCHANGED vars
    <3>1. UNCHANGED <<rots, outages>>
      BY <2>4, Zenon DEF WriteRefused, Close, Open, OpenFails, vars, counters
    <3> QED BY <2>3, <3>1, Zenon
  <2>5. ASSUME NEW payload \in Payloads,
               Write(payload) \/ WriteFlushFails(payload) \/ WriteSyncFails(payload)
               \/ CrashWriting(payload)
        PROVE  UNCHANGED <<rots, outages>>
    BY <2>5, Zenon DEF Write, WriteFlushFails, WriteSyncFails, CrashWriting
  <2> QED BY <2>1, <2>2, <2>3, <2>4, <2>5, Zenon DEF Next
<1>3. ASSUME Intact', files' = files, UNCHANGED <<acked, delivered>>
      PROVE  UNCHANGED Abstract!vars
  <2>1. Contents' = Contents
    <3>1. Stored(files') = Stored(files)
      BY <1>3, Zenon
    <3> QED BY <3>1, ContentsFollow, Zenon
  <2>2. Intact' = Intact
    BY <1>2, <1>3, Zenon DEF Intact
  <2> QED BY <1>3, <2>1, <2>2, Zenon DEF Abstract!vars
<1>4. CASE Intact' /\ (WriteRefused \/ Close \/ OpenFails \/ UNCHANGED vars)
  <2>1. files' = files /\ UNCHANGED <<acked, delivered>>
    BY <1>4, Zenon DEF WriteRefused, Close, OpenFails, vars
  <2> QED BY <1>3, <1>4, <2>1, Zenon
<1>5. CASE Intact' /\ \E id \in DOMAIN files : \E i \in DOMAIN files[id].frames : Rot(id, i)
  <2>1. rots' = rots + 1
    BY <1>5, Zenon DEF Rot
  <2> QED BY <1>0, <1>5, <2>1 DEF Intact
<1>6. ASSUME Intact', Outage \/ Open
             \/ \E payload \in Payloads : Write(payload) \/ WriteFlushFails(payload)
                                          \/ WriteSyncFails(payload) \/ CrashWriting(payload)
      PROVE  Abstract!Works \/ UNCHANGED Abstract!vars
  BY <1>2, <1>6, OutageRefines, OpenRefines, WriteRefines, Zenon
<1> QED BY <1>1, <1>4, <1>5, <1>6, Zenon DEF Next, Abstract!Next

\* The files start as the empty log.
LEMMA RefineInit == Init => Abstract!Init
<1> SUFFICES ASSUME Init PROVE Abstract!Init
  BY Zenon
<1>1. /\ files = [id \in {} |-> EmptyFile] /\ delivered = <<>> /\ acked = {}
      /\ writes = 0 /\ rots = 0 /\ outages = 0
  BY Zenon DEF Init
<1>2. OrderInv
  BY OrderInit, Zenon
<1>3. Stored(files) = {}
  BY <1>1, Zenon DEF Stored
<1>4. Sorts(Contents, {})
  BY <1>2, <1>3, ContentsSorts, Zenon
<1>5. Sorts(<<>>, {})
  <2>1. <<>> \in Seq(Record) /\ DOMAIN <<>> = {}
    OBVIOUS
  <2> QED BY <2>1, Zenon DEF Sorts
<1>6. Contents = <<>>
  BY <1>4, <1>5, SortsOnce, Zenon
<1>7. Intact
  BY <1>1 DEF Intact
<1>8. Intact = TRUE
  BY <1>7, Zenon DEF Intact
<1> QED BY <1>1, <1>6, <1>8, Zenon DEF Abstract!Init

\* The segment files implement the log the manager relies on: whatever the
\* segment size and however many writes, errors, crashes, outages and restarts
\* there are, until the disk loses or changes what it had.
THEOREM ImplementsLogHolds == Spec => ImplementsLog
  BY OrderInit, OrderStep, RefineInit, RefineStep, PTL DEF Spec, ImplementsLog, Abstract!Spec

-----------------------------------------------------------------------------
(* Compaction *)

\* The records Compact and the log have to keep between them.
Needed == {rec \in acked : rec.payload.type = "enqueue" /\ rec.payload.job \notin retired}

\* The disk is sound and no failed Compact left its file behind.
Sound == Intact /\ ~leftover

\* Segments have IDs of their own, below the next one.
OwnIDs(segs, next) ==
    \A j \in DOMAIN segs :
      /\ segs[j].id < next
      /\ \A k \in DOMAIN segs : segs[j].id = segs[k].id => j = k

RemovingIDs == {removing[k] : k \in DOMAIN removing}

\* While old files are removed, every needed record is also in a file that
\* stays: the active segment's, the new one, or one no segment knows of.
CompInv ==
    /\ mode \in {"down", "up", "failed", "compact"}
    /\ DiskInv(Sound, Needed)
    /\ OwnIDs(segments, nextSegmentID)
    /\ mode = "up" => \A k \in DOMAIN segments : segments[k].id \in DOMAIN files
    /\ mode = "compact" =>
         /\ nextSegmentID \in DOMAIN files
         /\ removing \in Seq(Nat)
         /\ Active(segments).id \notin RemovingIDs /\ nextSegmentID \notin RemovingIDs
         /\ Sound => \A rec \in Needed :
              Held([id \in DOMAIN files \ RemovingIDs |-> files[id]], rec)

-----------------------------------------------------------------------------

(* What Compact copies. *)

\* Compact wants the Enqueue records of active jobs.
Wants(rec, active) == rec.payload.type = "enqueue" /\ rec.payload.job \in active

\* The inner loop writes every one of them.
LEMMA KeptOfFacts ==
  ASSUME NEW active, NEW read \in Seq(Record)
  PROVE  /\ KeptOf(read, active) \in Seq(Record)
         /\ \A i \in DOMAIN read : Wants(read[i], active) => Occurs(read[i], KeptOf(read, active))
<1> DEFINE n == Len(read)
           R == [i \in 1 .. n |-> IF Wants(read[i], active) THEN <<read[i]>> ELSE <<>>]
           kept == CHOOSE f : f = [i \in 0 .. n |-> IF i = 0 THEN <<>>
                     ELSE f[i - 1] \o (IF Wants(read[i], active) THEN <<read[i]>> ELSE <<>>)]
<1>1. KeptOf(read, active) = kept[n]
  BY Zenon DEF KeptOf, Wants
<1>2. n \in Nat /\ DOMAIN read = 1 .. n /\ \A i \in 1 .. n : read[i] \in Record
  OBVIOUS
<1> HIDE DEF n
<1>3. \A x \in Record : <<x>> \in Seq(Record) /\ 1 \in DOMAIN <<x>> /\ <<x>>[1] = x
  OBVIOUS
<1>4. <<>> \in Seq(Record)
  OBVIOUS
<1>5. /\ \A i \in 1 .. n : R[i] \in Seq(Record)
      /\ \A i \in 1 .. n : Wants(read[i], active) => 1 \in DOMAIN R[i] /\ R[i][1] = read[i]
  BY <1>2, <1>3, <1>4, Zenon
<1>6. kept = [k \in 0 .. n |-> IF k = 0 THEN <<>> ELSE kept[k - 1] \o R[k]]
  <2>1. \A k \in 0 .. n : k # 0 => k \in 1 .. n
    BY <1>2
  <2>2. \A k \in 0 .. n : k # 0 =>
          R[k] = (IF Wants(read[k], active) THEN <<read[k]>> ELSE <<>>)
    BY <2>1, Zenon
  <2> HIDE DEF R
  <2>3. PICK f : f = [k \in 0 .. n |-> IF k = 0 THEN <<>> ELSE f[k - 1] \o R[k]]
    BY <1>2, ReadExists, Zenon
  <2>4. f = [i \in 0 .. n |-> IF i = 0 THEN <<>>
               ELSE f[i - 1] \o (IF Wants(read[i], active) THEN <<read[i]>> ELSE <<>>)]
    BY <2>2, <2>3, Zenon
  <2>5. kept = [i \in 0 .. n |-> IF i = 0 THEN <<>>
                  ELSE kept[i - 1] \o (IF Wants(read[i], active) THEN <<read[i]>> ELSE <<>>)]
    BY <2>4, Zenon
  <2> HIDE DEF kept
  <2> QED BY <2>2, <2>5, Zenon
<1> HIDE DEF R, kept
<1>7. kept[n] \in Seq(Record) /\ HasAll(kept[n], R, n)
  BY <1>2, <1>5, <1>6, LoopFacts, Zenon
<1>8. ASSUME NEW i \in 1 .. n, Wants(read[i], active) PROVE Occurs(read[i], kept[n])
  <2>1. 1 \in DOMAIN R[i] /\ R[i][1] = read[i]
    BY <1>5, <1>8, Zenon
  <2> QED BY <1>7, <2>1, Zenon DEF HasAll
<1> QED BY <1>1, <1>2, <1>7, <1>8, Zenon

\* Compact finds every one that is whole in an old segment.
LEMMA KeptFacts ==
  ASSUME NEW active, DiskType(files), segments \in Seq(Segment), segments # <<>>,
         \A k \in DOMAIN segments : segments[k].id \in DOMAIN files
  PROVE  /\ Kept(active) \in Seq(Record)
         /\ \A k \in DOMAIN Old : \A i \in DOMAIN files[Old[k].id].frames :
              LET frames == files[Old[k].id].frames
              IN  TornAtEnd(frames) /\ frames[i].state = "whole" /\ Wants(frames[i].rec, active) =>
                    Occurs(frames[i].rec, Kept(active))
<1> DEFINE n == Len(Old)
           frs(k) == files[Old[k].id].frames
           R == [k \in 1 .. n |-> KeptOf(ReadSegment(frs(k)), active)]
           kept == CHOOSE f : f = [k \in 0 .. n |-> IF k = 0 THEN <<>>
                     ELSE f[k - 1] \o KeptOf(ReadSegment(frs(k)), active)]
<1>1. /\ Old \in Seq(Segment) /\ DOMAIN Old = 1 .. n /\ n \in Nat
      /\ \A k \in DOMAIN Old : k \in DOMAIN segments /\ Old[k] = segments[k]
  BY DEF Old
<1>2. \A k \in 1 .. n : frs(k) \in Seq(Frame)
  BY <1>1, Zenon DEF DiskType, File
<1>3. Kept(active) = kept[n]
  BY Zenon DEF Kept
<1> HIDE DEF frs, n
<1>4. \A k \in 1 .. n : KeptOf(ReadSegment(frs(k)), active) \in Seq(Record)
  BY <1>2, ReadSegmentFacts, KeptOfFacts, Zenon
<1>5. kept = [k \in 0 .. n |-> IF k = 0 THEN <<>> ELSE kept[k - 1] \o R[k]]
  <2>1. \A k \in 0 .. n : k # 0 => k \in 1 .. n
    BY <1>1
  <2>2. \A k \in 0 .. n : k # 0 => R[k] = KeptOf(ReadSegment(frs(k)), active)
    BY <2>1, Zenon
  <2> HIDE DEF R
  <2>3. PICK f : f = [k \in 0 .. n |-> IF k = 0 THEN <<>> ELSE f[k - 1] \o R[k]]
    BY <1>1, ReadExists, Zenon
  <2>4. f = [k \in 0 .. n |-> IF k = 0 THEN <<>>
               ELSE f[k - 1] \o KeptOf(ReadSegment(frs(k)), active)]
    BY <2>2, <2>3, Zenon
  <2>5. kept = [k \in 0 .. n |-> IF k = 0 THEN <<>>
                  ELSE kept[k - 1] \o KeptOf(ReadSegment(frs(k)), active)]
    BY <2>4, Zenon
  <2> HIDE DEF kept
  <2> QED BY <2>2, <2>5, Zenon
<1>6. \A k \in 1 .. n : R[k] = KeptOf(ReadSegment(frs(k)), active)
  BY Zenon
<1> HIDE DEF R, kept
<1>7. kept[n] \in Seq(Record) /\ HasAll(kept[n], R, n)
  BY <1>1, <1>4, <1>5, <1>6, LoopFacts, Zenon
<1>8. ASSUME NEW k \in 1 .. n, NEW i \in DOMAIN frs(k),
             TornAtEnd(frs(k)), frs(k)[i].state = "whole", Wants(frs(k)[i].rec, active)
      PROVE  Occurs(frs(k)[i].rec, Kept(active))
  <2> DEFINE f == frs(k)
             r == ReadSegment(f)
  <2>1. f \in Seq(Frame) /\ TornAtEnd(f) /\ i \in DOMAIN f /\ f[i].state = "whole"
    BY <1>2, <1>8, Zenon
  <2>2. R[k] = KeptOf(r, active) /\ Wants(f[i].rec, active)
    BY <1>6, <1>8, Zenon
  <2> HIDE DEF f
  <2>3. i \in DOMAIN r /\ r[i] = f[i].rec
    BY <2>1, ReadSegmentHas, Zenon
  <2>4. r \in Seq(Record)
    BY <2>1, ReadSegmentFacts, Zenon
  <2> HIDE DEF r
  <2>5. Occurs(f[i].rec, R[k])
    BY <2>2, <2>3, <2>4, KeptOfFacts, Zenon
  <2>6. PICK x \in DOMAIN R[k] : R[k][x] = f[i].rec
    BY <2>5, Zenon DEF Occurs
  <2>7. Occurs(R[k][x], kept[n])
    BY <1>7, <1>8, <2>6, Zenon DEF HasAll
  <2> QED BY <1>3, <2>6, <2>7, Zenon DEF f
<1> QED BY <1>1, <1>3, <1>7, <1>8, Zenon DEF frs

-----------------------------------------------------------------------------
(* The file Compact writes. *)

\* The file holds the record where it has to.
HeldIn(file, rec) ==
    \E i \in DOMAIN file.frames :
      /\ file.frames[i].rec = rec
      /\ file.frames[i].state = "whole"
      /\ Fsync => i <= file.synced

\* Behind the frames of a file are n whole ones, and a part of one more.
Behind(all, old, K, n, torn) ==
    /\ Len(all) = Len(old) + n + (IF torn THEN 1 ELSE 0)
    /\ \A i \in DOMAIN old : i \in DOMAIN all /\ all[i] = old[i]
    /\ \A x \in 1 .. n : /\ Len(old) + x \in DOMAIN all
                         /\ all[Len(old) + x].rec = K[x] /\ all[Len(old) + x].state = "whole"
    /\ torn => all[Len(all)].state = "torn"

\* One sequence behind the other.
Joins(u, s, t) ==
    /\ Len(u) = Len(s) + Len(t)
    /\ \A i \in DOMAIN s : i \in DOMAIN u /\ u[i] = s[i]
    /\ \A i \in DOMAIN t : Len(s) + i \in DOMAIN u /\ u[Len(s) + i] = t[i]

\* The elements of a sequence behind another one.
LEMMA JoinFacts ==
  ASSUME NEW T, NEW s \in Seq(T), NEW t \in Seq(T)
  PROVE  s \o t \in Seq(T) /\ Joins(s \o t, s, t)
BY DEF Joins

\* Frames for n of the records, and for a part of one more.
FramesFor(new, rest, K, n, torn) ==
    /\ new \in Seq(Frame) /\ DOMAIN new = 1 .. n /\ Len(new) = n
    /\ \A x \in 1 .. n : new[x].rec = K[x] /\ new[x].state = "whole"
    /\ rest \in Seq(Frame) /\ Len(rest) = (IF torn THEN 1 ELSE 0)
    /\ torn => 1 \in DOMAIN rest /\ rest[1].state = "torn"

\* What the frames behind those of a file make of it.
LEMMA FramesBehind ==
  ASSUME NEW old \in Seq(Frame), NEW K, NEW n \in Nat, NEW torn \in BOOLEAN,
         NEW new, NEW rest, FramesFor(new, rest, K, n, torn)
  PROVE  old \o new \o rest \in Seq(Frame) /\ Behind(old \o new \o rest, old, K, n, torn)
<1> DEFINE front == old \o new
           all == front \o rest
<1>0. /\ new \in Seq(Frame) /\ DOMAIN new = 1 .. n /\ Len(new) = n
      /\ \A x \in 1 .. n : new[x].rec = K[x] /\ new[x].state = "whole"
      /\ rest \in Seq(Frame) /\ Len(rest) = (IF torn THEN 1 ELSE 0)
      /\ torn => 1 \in DOMAIN rest /\ rest[1].state = "torn"
  BY Zenon DEF FramesFor
<1>1. front \in Seq(Frame) /\ Joins(front, old, new)
  BY <1>0, JoinFacts, Zenon
<1> HIDE DEF front
<1>2. all \in Seq(Frame) /\ Joins(all, front, rest)
  BY <1>0, <1>1, JoinFacts, Zenon
<1>3. /\ Len(front) = Len(old) + n
      /\ \A i \in DOMAIN old : i \in DOMAIN front /\ front[i] = old[i]
      /\ \A x \in 1 .. n : Len(old) + x \in DOMAIN front /\ front[Len(old) + x] = new[x]
  BY <1>0, <1>1, Zenon DEF Joins
<1> HIDE DEF all
<1>4. all \in Seq(Frame) /\ Len(all) = Len(front) + Len(rest)
  BY <1>2, Zenon DEF Joins
<1>5. \A i \in DOMAIN front : i \in DOMAIN all /\ all[i] = front[i]
  BY <1>2, Zenon DEF Joins
<1>6. ASSUME torn PROVE all[Len(all)] = rest[1]
  <2>1. Len(rest) = 1 /\ 1 \in DOMAIN rest
    BY <1>0, <1>6, Zenon
  <2> QED BY <1>2, <2>1, Zenon DEF Joins
<1>7. Len(all) = Len(old) + n + (IF torn THEN 1 ELSE 0)
  BY <1>0, <1>3, <1>4, Zenon
<1>8. \A x \in 1 .. n : /\ Len(old) + x \in DOMAIN all
                        /\ all[Len(old) + x].rec = K[x] /\ all[Len(old) + x].state = "whole"
  <2> SUFFICES ASSUME NEW x \in 1 .. n
               PROVE  /\ Len(old) + x \in DOMAIN all
                      /\ all[Len(old) + x].rec = K[x] /\ all[Len(old) + x].state = "whole"
    BY Zenon
  <2>1. Len(old) + x \in DOMAIN front /\ front[Len(old) + x] = new[x]
    BY <1>3, Zenon
  <2>2. Len(old) + x \in DOMAIN all /\ all[Len(old) + x] = new[x]
    BY <1>5, <2>1, Zenon
  <2> QED BY <1>0, <2>2, Zenon
<1>9. \A i \in DOMAIN old : i \in DOMAIN all /\ all[i] = old[i]
  BY <1>3, <1>5, Zenon
<1>10. torn => all[Len(all)].state = "torn"
  BY <1>0, <1>6, Zenon
<1>11. all \in Seq(Frame) /\ Behind(all, old, K, n, torn)
  BY <1>4, <1>7, <1>8, <1>9, <1>10, Zenon DEF Behind
<1> QED BY <1>11, Zenon DEF all, front

\* The frames Compact writes.
CopiedFrames(K, n) == [i \in 1 .. n |-> [rec |-> K[i], state |-> "whole"]]

CopiedPart(K, n, torn) == IF torn THEN <<[rec |-> K[n + 1], state |-> "torn"]>> ELSE <<>>

\* The frames that Compact writes for the records it keeps.
LEMMA NewFrames ==
  ASSUME NEW K \in Seq(Record), NEW n \in Nat, NEW torn \in BOOLEAN,
         n <= Len(K), torn => n < Len(K)
  PROVE  FramesFor(CopiedFrames(K, n), CopiedPart(K, n, torn), K, n, torn)
<1> DEFINE new == [i \in 1 .. n |-> [rec |-> K[i], state |-> "whole"]]
           rest == IF torn THEN <<[rec |-> K[n + 1], state |-> "torn"]>> ELSE <<>>
<1>1. \A i \in 1 .. Len(K) : K[i] \in Record
  OBVIOUS
<1>2. \A r \in Record : \A st \in {"whole", "torn"} : [rec |-> r, state |-> st] \in Frame
  BY Zenon DEF Frame
<1>3. \A i \in 1 .. n : new[i] \in Frame /\ new[i].rec = K[i] /\ new[i].state = "whole"
  <2>1. \A i \in 1 .. n : i \in 1 .. Len(K)
    OBVIOUS
  <2> QED BY <1>1, <1>2, <2>1, Zenon
<1>4. new \in Seq(Frame) /\ Len(new) = n /\ DOMAIN new = 1 .. n
  <2>1. new = [i \in 1 .. n |-> new[i]]
    BY Zenon
  <2> HIDE DEF new
  <2> QED BY <1>3, <2>1
<1>5. /\ rest \in Seq(Frame) /\ Len(rest) = (IF torn THEN 1 ELSE 0)
      /\ torn => 1 \in DOMAIN rest /\ rest[1].state = "torn"
  <2>1. CASE torn
    <3> DEFINE fr == [rec |-> K[n + 1], state |-> "torn"]
    <3>1. n + 1 \in 1 .. Len(K)
      BY <2>1
    <3>2. fr \in Frame /\ fr.state = "torn"
      BY <1>1, <1>2, <3>1, Zenon
    <3>3. rest = <<fr>>
      BY <2>1, Zenon
    <3> HIDE DEF fr, rest
    <3> QED BY <2>1, <3>2, <3>3
  <2>2. CASE ~torn
    BY <2>2
  <2> QED BY <2>1, <2>2, Zenon
<1> QED BY <1>3, <1>4, <1>5, Zenon DEF CopiedFrames, CopiedPart, FramesFor

\* The new segment's file keeps what was in it, and has n records behind.
LEMMA CopiedFileFacts ==
  ASSUME NEW active, NEW n \in Nat, NEW torn \in BOOLEAN,
         Kept(active) \in Seq(Record), n <= Len(Kept(active)), torn => n < Len(Kept(active)),
         NEW old, old = OpenedFile(nextSegmentID)[nextSegmentID],
         old \in File, old.synced <= Len(old.frames),
         NEW file, file = CopiedFile(active, n, torn)
  PROVE  /\ file \in File /\ file.synced <= Len(file.frames)
         /\ \A rec : HeldIn(old, rec) => HeldIn(file, rec)
         /\ AllWhole(old.frames) =>
              TornAtEnd(file.frames) /\ (~torn => AllWhole(file.frames))
         /\ \A x \in 1 .. n : HeldIn(file, Kept(active)[x])
<1> DEFINE K == Kept(active)
           new == CopiedFrames(K, n)
           rest == CopiedPart(K, n, torn)
           a == old.frames
           all == a \o new \o rest
           sync == IF Fsync /\ n > 0 THEN Len(old.frames) + n ELSE old.synced
<1>1. file = [frames |-> all, synced |-> sync]
  BY Zenon DEF CopiedFile, CopiedFrames, CopiedPart
<1>2. old.frames \in Seq(Frame) /\ old.synced \in Nat /\ K \in Seq(Record)
  BY Zenon DEF File
<1> HIDE DEF K
<1>9. all \in Seq(Frame) /\ Behind(all, a, K, n, torn)
  <2>1. n <= Len(K) /\ (torn => n < Len(K))
    BY Zenon DEF K
  <2>2. FramesFor(new, rest, K, n, torn)
    BY <1>2, <2>1, NewFrames, Zenon
  <2> HIDE DEF new, rest
  <2>3. a \in Seq(Frame)
    BY <1>2, Zenon
  <2> HIDE DEF a
  <2> QED BY <2>2, <2>3, FramesBehind, Zenon
<1> HIDE DEF all, new, rest
<1>10. a \in Seq(Frame) /\ Len(a) \in Nat
  BY <1>2
<1> HIDE DEF a
<1>3. /\ Len(all) = Len(a) + n + (IF torn THEN 1 ELSE 0)
      /\ \A i \in DOMAIN a : i \in DOMAIN all /\ all[i] = a[i]
      /\ \A x \in 1 .. n : /\ Len(a) + x \in DOMAIN all
                           /\ all[Len(a) + x].rec = K[x] /\ all[Len(a) + x].state = "whole"
      /\ torn => all[Len(all)].state = "torn"
  BY <1>9, Zenon DEF Behind
<1>4. /\ sync \in Nat /\ sync <= Len(all) /\ old.synced <= sync
      /\ Fsync => \A x \in 1 .. n : Len(a) + x <= sync
  <2>1. sync = IF Fsync /\ n > 0 THEN Len(a) + n ELSE old.synced
    BY Zenon DEF a
  <2>2. old.synced <= Len(a)
    BY Zenon DEF a
  <2> HIDE DEF sync
  <2>3. sync \in Nat /\ old.synced <= sync
    BY <1>2, <1>10, <2>1, <2>2
  <2>4. sync <= Len(all)
    <3>1. Len(all) >= Len(a) + n
      BY <1>3, <1>10
    <3> QED BY <1>2, <1>9, <1>10, <2>1, <2>2, <3>1
  <2>5. ASSUME Fsync, NEW x \in 1 .. n PROVE Len(a) + x <= sync
    BY <1>10, <2>1, <2>5
  <2> QED BY <2>3, <2>4, <2>5, Zenon
<1> HIDE DEF sync
<1>11. sync \in Nat /\ all \in Seq(Frame)
  BY <1>4, <1>9, Zenon
<1>5. file.frames = all /\ file.synced = sync /\ file \in File
  <2>1. [frames |-> all, synced |-> sync] \in File
    BY <1>11, Zenon DEF File
  <2>2. [frames |-> all, synced |-> sync].frames = all
        /\ [frames |-> all, synced |-> sync].synced = sync
    BY Zenon
  <2> QED BY <1>1, <2>1, <2>2, Zenon
<1>6. ASSUME NEW rec, HeldIn(old, rec) PROVE HeldIn(file, rec)
  <2>1. PICK i \in DOMAIN a : /\ a[i].rec = rec
                              /\ a[i].state = "whole"
                              /\ Fsync => i <= old.synced
    BY <1>6, Zenon DEF HeldIn, a
  <2>2. Fsync => i <= sync
    <3>1. old.synced <= sync /\ sync \in Nat /\ i \in Nat
      BY <1>4, <1>10
    <3> QED BY <1>2, <2>1, <3>1
  <2> QED BY <1>3, <1>5, <2>1, <2>2, Zenon DEF HeldIn
<1>7. ASSUME NEW x \in 1 .. n PROVE HeldIn(file, K[x])
  <2>1. all[Len(a) + x].rec = K[x] /\ all[Len(a) + x].state = "whole"
    BY <1>3, <1>7, Zenon
  <2> QED BY <1>3, <1>4, <1>5, <1>7, <2>1, Zenon DEF HeldIn
<1>8. ASSUME AllWhole(old.frames)
      PROVE  TornAtEnd(all) /\ (~torn => AllWhole(all))
  <2>1. \A i \in DOMAIN all :
          \/ i \in DOMAIN a
          \/ \E x \in 1 .. n : i = Len(a) + x
          \/ torn /\ i = Len(all)
    <3> SUFFICES ASSUME NEW i \in DOMAIN all, i \notin DOMAIN a, ~(torn /\ i = Len(all))
                 PROVE  \E x \in 1 .. n : i = Len(a) + x
      BY Zenon
    <3>1. i \in Nat /\ i > Len(a) /\ i <= Len(a) + n
      BY <1>3, <1>9, <1>10
    <3> DEFINE x == i - Len(a)
    <3>2. x \in 1 .. n
      BY <1>10, <3>1
    <3>3. i = Len(a) + x
      BY <1>10, <3>1
    <3> HIDE DEF x
    <3> QED BY <3>2, <3>3, Zenon
  <2>2. \A i \in DOMAIN all : all[i].state = "whole" \/ (torn /\ i = Len(all))
    <3>1. \A i \in DOMAIN a : all[i].state = "whole"
      BY <1>3, <1>8, Zenon DEF AllWhole, a
    <3>2. \A x \in 1 .. n : all[Len(a) + x].state = "whole"
      BY <1>3, Zenon
    <3> QED BY <2>1, <3>1, <3>2, Zenon
  <2> QED BY <1>3, <2>2, Zenon DEF TornAtEnd, AllWhole
<1> QED BY <1>4, <1>5, <1>6, <1>7, <1>8, Zenon DEF K

\* The disk when Compact has copied n records: only the new segment's file
\* differs, and it holds what it held before and the copies.
LEMMA CopiedDisk ==
  ASSUME NEW active, NEW n \in Nat, NEW torn \in BOOLEAN, CompInv, mode = "up",
         n <= Len(Kept(active)), torn => n < Len(Kept(active)), Copied(active, n, torn)
  PROVE  /\ DiskType(files') /\ DOMAIN files' = DOMAIN files \cup {nextSegmentID}
         /\ \A id \in DOMAIN files : id # nextSegmentID => files'[id] = files[id]
         /\ \A id \in DOMAIN files : \A rec : HeldIn(files[id], rec) => HeldIn(files'[id], rec)
         /\ Sound => /\ \A id \in DOMAIN files' : TornAtEnd(files'[id].frames)
                     /\ ~torn => AllWhole(files'[nextSegmentID].frames)
         /\ \A x \in 1 .. n : HeldIn(files'[nextSegmentID], Kept(active)[x])
<1> DEFINE next == nextSegmentID
           opened == OpenedFile(next)
           old == opened[next]
           file == CopiedFile(active, n, torn)
<1>1. Running
  BY DEF Running
<1>2. /\ DiskType(files) /\ segments \in Seq(Segment) /\ segments # <<>> /\ next \in Nat
      /\ \A k \in DOMAIN segments : segments[k].id \in DOMAIN files
      /\ Sound => /\ \A id \in DOMAIN files : TornAtEnd(files[id].frames)
                  /\ next \in DOMAIN files => AllWhole(files[next].frames)
  BY <1>1, Zenon DEF CompInv, DiskInv, Typed
<1>3. Kept(active) \in Seq(Record)
  BY <1>2, KeptFacts, Zenon
<1>4. /\ DiskType(opened)
      /\ DOMAIN opened = DOMAIN files \cup {next}
      /\ \A i \in DOMAIN files : opened[i] = files[i]
      /\ next \notin DOMAIN files => old = EmptyFile
  BY <1>2, OpenedFileFacts, Zenon
<1>5. files' = [opened EXCEPT ![next] = file]
  BY Zenon DEF Copied
<1>6. old \in File /\ old.synced <= Len(old.frames)
  BY <1>4, Zenon DEF DiskType
<1>7. AllWhole(EmptyFile.frames)
  BY DEF AllWhole, EmptyFile
<1>8. /\ file \in File /\ file.synced <= Len(file.frames)
      /\ \A rec : HeldIn(old, rec) => HeldIn(file, rec)
      /\ AllWhole(old.frames) =>
           TornAtEnd(file.frames) /\ (~torn => AllWhole(file.frames))
      /\ \A x \in 1 .. n : HeldIn(file, Kept(active)[x])
  BY <1>3, <1>6, CopiedFileFacts, Zenon
<1> HIDE DEF opened, file, next
<1>9. /\ DOMAIN files' = DOMAIN files \cup {next} /\ files'[next] = file
      /\ \A id \in DOMAIN files : id # next => files'[id] = files[id]
  BY <1>4, <1>5, Zenon
<1>10. DiskType(files')
  BY <1>2, <1>4, <1>8, <1>9, Zenon DEF DiskType
<1>11. ASSUME NEW id \in DOMAIN files, NEW rec, HeldIn(files[id], rec)
       PROVE  HeldIn(files'[id], rec)
  <2>1. CASE id = next
    BY <1>4, <1>8, <1>9, <1>11, <2>1, Zenon
  <2>2. CASE id # next
    BY <1>9, <1>11, <2>2, Zenon
  <2> QED BY <2>1, <2>2, Zenon
<1>12. ASSUME Sound
       PROVE  /\ \A id \in DOMAIN files' : TornAtEnd(files'[id].frames)
              /\ ~torn => AllWhole(files'[next].frames)
  <2>1. AllWhole(old.frames)
    BY <1>2, <1>4, <1>7, <1>12, Zenon
  <2> QED BY <1>2, <1>8, <1>9, <1>12, <2>1, Zenon
<1> QED BY <1>8, <1>9, <1>10, <1>11, <1>12, Zenon DEF next

-----------------------------------------------------------------------------
(* The invariant *)

\* A call of Compact needs no records but those of the jobs it is told are
\* active, all of which were needed before.
LEMMA NeededShrinks ==
  ASSUME NEW active \in SUBSET Jobs, CompInv, Compacting(active), acked' = acked
  PROVE  Needed' \subseteq Needed /\ \A rec \in Needed' : Wants(rec, active)
<1> SUFFICES ASSUME NEW rec \in Needed' PROVE rec \in Needed /\ Wants(rec, active)
  BY Zenon
<1>1. rec \in acked /\ rec.payload.type = "enqueue" /\ rec.payload.job \notin Jobs \ active
  BY Zenon DEF Needed, Compacting
<1>2. rec \in Record
  BY <1>1, Zenon DEF CompInv, DiskInv, Typed
<1>3. rec.payload \in [type : {"enqueue", "other"}, job : Jobs]
  BY <1>2, CompactionAssumption, Zenon DEF Record
<1>4. rec.payload.job \in active
  BY <1>1, <1>3, Zenon
<1>5. active \cap retired = {}
  BY Zenon DEF Compacting
<1>6. rec.payload.job \notin retired
  BY <1>4, <1>5, Zenon
<1> QED BY <1>1, <1>4, <1>6, Zenon DEF Needed, Wants

\* A process that ended has no segments.
LEMMA NoSegments == \A next : OwnIDs(<<>>, next)
BY DEF OwnIDs

\* The invariant holds on an empty disk.
LEMMA CompInit == CompactionInit => CompInv
<1> SUFFICES ASSUME CompactionInit PROVE CompInv
  BY Zenon
<1>1. Init /\ acked = {} /\ mode = "down"
  BY Zenon DEF CompactionInit, Init
<1>2. Needed = {}
  BY <1>1, Zenon DEF Needed
<1>3. DiskInv(Sound, Needed)
  BY <1>1, <1>2, DiskInit, Zenon
<1>4. mode # "up" /\ mode # "compact"
  BY <1>1
<1>5. segments = <<>>
  BY <1>1, Zenon DEF Init
<1>6. OwnIDs(segments, nextSegmentID)
  BY <1>5, NoSegments, Zenon
<1> QED BY <1>1, <1>3, <1>4, <1>6, Zenon DEF CompInv

\* Compact returns with an error while it copies.
LEMMA CopyFailsStep ==
  ASSUME NEW active \in SUBSET Jobs, CompInv, CompactCopyFails(active)
  PROVE  CompInv'
<1>1. /\ mode = "up" /\ leftover' = TRUE
      /\ UNCHANGED <<mode, segments, nextSegmentID, acked, removing>>
      /\ UNCHANGED <<writes, crashes, rots, outages>>
      /\ faults' = faults \/ faults' = faults + 1
  BY Zenon DEF CompactCopyFails, Compacting, Fault, memory
<1>2. PICK n \in 0 .. Len(Kept(active)), torn \in BOOLEAN :
        (torn => n < Len(Kept(active))) /\ Copied(active, n, torn)
  BY Zenon DEF CompactCopyFails, CopiedSome
<1> DEFINE next == nextSegmentID
<1>3. Running
  BY <1>1 DEF Running
<1>4. /\ Typed /\ Active(segments).id < next
      /\ \A id \in DOMAIN files : id <= next
      /\ OwnIDs(segments, next)
      /\ \A k \in DOMAIN segments : segments[k].id \in DOMAIN files
  BY <1>1, <1>3, Zenon DEF CompInv, DiskInv
<1>5. /\ DiskType(files) /\ segments \in Seq(Segment) /\ segments # <<>> /\ next \in Nat
      /\ Active(segments).id \in DOMAIN files
      /\ acked \subseteq Record /\ {writes, faults, crashes, rots, outages} \subseteq Nat
  BY <1>3, <1>4, Zenon DEF Typed
<1>6. Kept(active) \in Seq(Record)
  BY <1>4, <1>5, KeptFacts, Zenon
<1>7. n \in Nat /\ n <= Len(Kept(active))
  BY <1>6
<1>8. DiskType(files') /\ DOMAIN files' = DOMAIN files \cup {next}
  BY <1>1, <1>2, <1>7, CopiedDisk, Zenon
<1>9. {writes', faults', crashes', rots', outages'} \subseteq Nat /\ next <= next
  BY <1>1, <1>5
<1>10. ~Sound'
  BY <1>1, Zenon DEF Sound
<1>11. Typed'
  BY <1>1, <1>5, <1>8, <1>9, Zenon DEF Typed
<1>12. DiskInv(Sound, Needed)'
  BY <1>1, <1>4, <1>8, <1>9, <1>10, <1>11, Zenon DEF DiskInv
<1>13. mode' # "compact"
  BY <1>1
<1> QED BY <1>1, <1>4, <1>8, <1>12, <1>13, Zenon DEF CompInv

\* The process ends while Compact copies.
LEMMA CompactCrashStep ==
  ASSUME NEW active \in SUBSET Jobs, CompInv, CompactCrash(active)
  PROVE  CompInv'
<1>1. /\ Compacting(active) /\ mode = "up" /\ Gone /\ mode' = "down"
      /\ crashes' = crashes + 1 /\ UNCHANGED <<acked, writes, faults, rots, outages, leftover>>
  BY Zenon DEF CompactCrash, Compacting, Gone
<1>2. PICK n \in 0 .. Len(Kept(active)), torn \in BOOLEAN :
        (torn => n < Len(Kept(active))) /\ Copied(active, n, torn)
  BY Zenon DEF CompactCrash, CopiedSome
<1>3. Running
  BY <1>1 DEF Running
<1>4. /\ DiskInv(Sound, Needed) /\ DiskType(files) /\ segments \in Seq(Segment) /\ segments # <<>>
      /\ \A k \in DOMAIN segments : segments[k].id \in DOMAIN files
      /\ acked \subseteq Record /\ {writes, faults, crashes, rots, outages} \subseteq Nat
  BY <1>1, <1>3, Zenon DEF CompInv, DiskInv, Typed
<1>5. Kept(active) \in Seq(Record)
  BY <1>4, KeptFacts, Zenon
<1>6. n \in Nat /\ n <= Len(Kept(active))
  BY <1>5
<1>7. /\ DiskType(files') /\ DOMAIN files' = DOMAIN files \cup {nextSegmentID}
      /\ \A id \in DOMAIN files : \A rec : HeldIn(files[id], rec) => HeldIn(files'[id], rec)
      /\ Sound => \A id \in DOMAIN files' : TornAtEnd(files'[id].frames)
  BY <1>1, <1>2, <1>6, CopiedDisk, Zenon
<1>8. {writes', faults', crashes', rots', outages'} \subseteq Nat /\ acked' \subseteq Record
  BY <1>1, <1>4
<1>9. Sound' = Sound
  BY <1>1, Zenon DEF Sound, Intact
<1>10. ASSUME Sound, NEW rec \in Needed' PROVE Held(files', rec)
  <2>1. rec \in Needed
    BY <1>1, <1>10, NeededShrinks, Zenon
  <2>2. Held(files, rec)
    BY <1>4, <1>10, <2>1, Zenon DEF DiskInv
  <2>3. PICK id \in DOMAIN files : HeldIn(files[id], rec)
    BY <2>2, Zenon DEF Held, HeldIn
  <2>4. id \in DOMAIN files' /\ HeldIn(files'[id], rec)
    BY <1>7, <2>3, Zenon
  <2> QED BY <2>4, Zenon DEF Held, HeldIn
<1>11. PICK ok, need : ok = Sound /\ need = Needed'
  BY Zenon
<1>12. DiskInv(ok, need)'
  BY <1>1, <1>7, <1>8, <1>10, <1>11, GoneStep, Zenon
<1>13. DiskInv(Sound, Needed)'
  BY <1>9, <1>11, <1>12, Zenon DEF DiskInv
<1>14. mode' # "up" /\ mode' # "compact"
  BY <1>1
<1>15. OwnIDs(segments', nextSegmentID')
  BY <1>1, NoSegments, Zenon DEF Gone
<1> QED BY <1>1, <1>13, <1>14, <1>15, Zenon DEF CompInv

\* All is copied: what the old segments alone held is in the new one too.
LEMMA CompactCopyStep ==
  ASSUME NEW active \in SUBSET Jobs, CompInv, CompactCopy(active)
  PROVE  CompInv'
<1> DEFINE next == nextSegmentID
           n == Len(Kept(active))
<1>1. /\ Compacting(active) /\ mode = "up" /\ mode' = "compact" /\ Copied(active, n, FALSE)
      /\ removing' = [k \in DOMAIN Old |-> Old[k].id]
      /\ UNCHANGED <<segments, nextSegmentID, acked, leftover>>
      /\ UNCHANGED <<writes, faults, crashes, rots, outages>>
  <2>1. Compacting(active) /\ mode' = "compact" /\ Copied(active, n, FALSE)
        /\ removing' = [k \in DOMAIN Old |-> Old[k].id]
        /\ UNCHANGED <<memory, acked, counters, leftover>>
    BY Zenon DEF CompactCopy
  <2>2. mode = "up"
    BY <2>1, Zenon DEF Compacting
  <2> QED BY <2>1, <2>2, Zenon DEF memory, counters
<1>2. Running /\ Running'
  BY <1>1 DEF Running
<1>3. /\ DiskInv(Sound, Needed) /\ Typed /\ Active(segments).id < next
      /\ \A id \in DOMAIN files : id <= next
      /\ OwnIDs(segments, next)
      /\ \A k \in DOMAIN segments : segments[k].id \in DOMAIN files
      /\ Sound => Active(segments).stuck \/ AllWhole(files[Active(segments).id].frames)
      /\ Sound => \A rec \in Needed : Held(files, rec)
      /\ Sound => \A id \in DOMAIN files : TornAtEnd(files[id].frames)
  BY <1>1, <1>2, Zenon DEF CompInv, DiskInv
<1>4. /\ DiskType(files) /\ segments \in Seq(Segment) /\ segments # <<>> /\ next \in Nat
      /\ Active(segments).id \in DOMAIN files
      /\ acked \subseteq Record /\ {writes, faults, crashes, rots, outages} \subseteq Nat
  BY <1>2, <1>3, Zenon DEF Typed
<1>5. /\ Kept(active) \in Seq(Record)
      /\ \A k \in DOMAIN Old : \A i \in DOMAIN files[Old[k].id].frames :
           LET frames == files[Old[k].id].frames
           IN  TornAtEnd(frames) /\ frames[i].state = "whole" /\ Wants(frames[i].rec, active) =>
                 Occurs(frames[i].rec, Kept(active))
  BY <1>3, <1>4, KeptFacts, Zenon
<1>6. n \in Nat /\ n <= n /\ DOMAIN Kept(active) = 1 .. n
  BY <1>5
<1>7. /\ DiskType(files') /\ DOMAIN files' = DOMAIN files \cup {next}
      /\ \A id \in DOMAIN files : id # next => files'[id] = files[id]
      /\ \A id \in DOMAIN files : \A rec : HeldIn(files[id], rec) => HeldIn(files'[id], rec)
      /\ Sound => /\ \A id \in DOMAIN files' : TornAtEnd(files'[id].frames)
                  /\ AllWhole(files'[next].frames)
      /\ \A x \in 1 .. n : HeldIn(files'[next], Kept(active)[x])
  <2>1. FALSE \in BOOLEAN /\ (FALSE => n < Len(Kept(active)))
    BY Zenon
  <2> QED BY <1>1, <1>6, <2>1, CopiedDisk, Zenon
<1> HIDE DEF n
<1>8. Old \in Seq(Segment) /\ \A k \in DOMAIN Old :
        k \in DOMAIN segments /\ k # Len(segments) /\ Old[k] = segments[k] /\ Old[k].id \in Nat
  <2>1. Old \in Seq(Segment) /\ \A k \in DOMAIN Old :
          k \in DOMAIN segments /\ k # Len(segments) /\ Old[k] = segments[k]
    BY <1>4 DEF Old
  <2>2. \A k \in DOMAIN Old : Old[k] \in Segment
    BY <2>1
  <2> QED BY <2>1, <2>2, Zenon DEF Segment
<1>9. removing' \in Seq(Nat) /\ DOMAIN removing' = DOMAIN Old
      /\ \A k \in DOMAIN Old : removing'[k] = Old[k].id
  <2>1. DOMAIN Old = 1 .. Len(Old) /\ Len(Old) \in Nat
    BY <1>8
  <2>2. DOMAIN removing' = 1 .. Len(Old) /\ \A k \in 1 .. Len(Old) : removing'[k] = Old[k].id
    BY <1>1, <2>1, Zenon
  <2>3. removing' = [k \in 1 .. Len(Old) |-> removing'[k]]
    BY <1>1, <2>1, Zenon
  <2>4. \A k \in 1 .. Len(Old) : removing'[k] \in Nat
    BY <1>8, <2>1, <2>2, Zenon
  <2>5. removing' \in Seq(Nat)
    BY <2>1, <2>3, <2>4
  <2> QED BY <2>1, <2>2, <2>5, Zenon
<1>10. \A id \in RemovingIDs' : \E k \in DOMAIN Old : id = Old[k].id
  BY <1>9, Zenon DEF RemovingIDs
<1>11. Active(segments).id \notin RemovingIDs'
  <2>1. Len(segments) \in DOMAIN segments
    BY <1>4
  <2> QED BY <1>3, <1>8, <1>10, <2>1, Zenon DEF OwnIDs, Active
<1>12. next \notin RemovingIDs'
  <2>1. \A k \in DOMAIN Old : Old[k].id < next /\ Old[k].id \in Nat
    BY <1>3, <1>8, Zenon DEF OwnIDs
  <2>2. \A x \in Nat : x < next => x # next
    BY <1>4
  <2> QED BY <1>10, <2>1, <2>2, Zenon
<1>13. Sound' = Sound
  BY <1>1, Zenon DEF Sound, Intact
<1> DEFINE rest == [id \in DOMAIN files' \ RemovingIDs' |-> files'[id]]
<1>14. ASSUME Sound, NEW rec \in Needed' PROVE Held(rest, rec)
  <2>1. rec \in Needed /\ Wants(rec, active)
    BY <1>1, <1>14, NeededShrinks, Zenon
  <2>2. PICK id \in DOMAIN files : HeldIn(files[id], rec)
    BY <1>3, <1>14, <2>1, Zenon DEF Held, HeldIn
  <2>3. ASSUME NEW j \in DOMAIN files' \ RemovingIDs', HeldIn(files'[j], rec) PROVE Held(rest, rec)
    <3>1. j \in DOMAIN rest /\ rest[j] = files'[j]
      BY <2>3, Zenon
    <3> HIDE DEF rest
    <3> QED BY <2>3, <3>1, Zenon DEF Held, HeldIn
  <2>4. CASE id \notin RemovingIDs'
    <3>1. id \in DOMAIN files' \ RemovingIDs' /\ HeldIn(files'[id], rec)
      BY <1>7, <2>2, <2>4, Zenon
    <3> QED BY <2>3, <3>1, Zenon
  <2>5. CASE id \in RemovingIDs'
    <3>1. PICK k \in DOMAIN Old : id = Old[k].id
      BY <1>10, <2>5, Zenon
    <3>2. PICK i \in DOMAIN files[id].frames :
            files[id].frames[i].rec = rec /\ files[id].frames[i].state = "whole"
      BY <2>2, Zenon DEF HeldIn
    <3>3. Occurs(rec, Kept(active))
      BY <1>3, <1>5, <1>14, <2>1, <3>1, <3>2, Zenon
    <3>4. HeldIn(files'[next], rec)
      BY <1>6, <1>7, <3>3, Zenon DEF Occurs
    <3>5. next \in DOMAIN files' \ RemovingIDs'
      BY <1>7, <1>12, Zenon
    <3> QED BY <2>3, <3>4, <3>5, Zenon
  <2> QED BY <2>4, <2>5, Zenon
<1>15. ASSUME Sound, NEW rec \in Needed' PROVE Held(files', rec)
  <2>1. Held(rest, rec)
    BY <1>14, <1>15, Zenon
  <2>2. DOMAIN rest \subseteq DOMAIN files' /\ \A id \in DOMAIN rest : rest[id] = files'[id]
    BY Zenon
  <2> HIDE DEF rest
  <2> QED BY <2>1, <2>2, Zenon DEF Held
<1>16. next # Active(segments).id /\ next <= next
  <2>1. Active(segments).id \in Nat
    BY <1>4, Zenon DEF DiskType
  <2> QED BY <1>3, <1>4, <2>1
<1>17. Typed'
  BY <1>1, <1>4, <1>7, Zenon DEF Typed
<1>18. Sound => Active(segments).stuck \/ AllWhole(files'[Active(segments).id].frames)
  BY <1>3, <1>4, <1>7, <1>16, Zenon
<1> HIDE DEF rest
<1>19. DiskInv(Sound, Needed)'
  BY <1>1, <1>3, <1>7, <1>13, <1>15, <1>16, <1>17, <1>18, Zenon DEF DiskInv
<1>20. mode' # "up" /\ mode' \in {"down", "up", "failed", "compact"}
  <2>1. mode' = "compact"
    BY <1>1, Zenon
  <2> QED BY <2>1
<1> QED
  BY <1>1, <1>3, <1>7, <1>9, <1>11, <1>12, <1>13, <1>14, <1>19, <1>20, Zenon DEF CompInv, rest

\* One old file goes, or stays because os.Remove fails.
LEMMA CompactRemoveStep ==
  ASSUME CompInv, CompactRemove
  PROVE  CompInv'
<1> DEFINE next == nextSegmentID
           rest == [id \in DOMAIN files \ RemovingIDs |-> files[id]]
<1>1. /\ mode = "compact" /\ mode' = "compact" /\ removing # <<>> /\ removing' = Tail(removing)
      /\ \/ /\ files' = [id \in DOMAIN files \ {Head(removing)} |-> files[id]]
            /\ faults' = faults
         \/ faults' = faults + 1 /\ files' = files
      /\ UNCHANGED <<segments, nextSegmentID, acked, retired, leftover>>
      /\ UNCHANGED <<writes, crashes, rots, outages>>
  BY Zenon DEF CompactRemove, memory, Fault
<1>2. Running /\ Running' /\ mode' # "up"
  BY <1>1 DEF Running
<1>3. /\ Typed /\ Active(segments).id < next
      /\ \A id \in DOMAIN files : id <= next
      /\ OwnIDs(segments, next)
      /\ Sound => /\ Active(segments).stuck \/ AllWhole(files[Active(segments).id].frames)
                  /\ next \in DOMAIN files => AllWhole(files[next].frames)
                  /\ \A id \in DOMAIN files : TornAtEnd(files[id].frames)
      /\ next \in DOMAIN files
      /\ removing \in Seq(Nat)
      /\ Active(segments).id \notin RemovingIDs /\ next \notin RemovingIDs
      /\ Sound => \A rec \in Needed : Held(rest, rec)
  BY <1>1, <1>2, Zenon DEF CompInv, DiskInv
<1>4. /\ DiskType(files) /\ segments \in Seq(Segment) /\ segments # <<>> /\ next \in Nat
      /\ Active(segments).id \in DOMAIN files
      /\ acked \subseteq Record /\ {writes, faults, crashes, rots, outages} \subseteq Nat
  BY <1>2, <1>3, Zenon DEF Typed
<1>5. /\ removing' \in Seq(Nat)
      /\ Head(removing) \in RemovingIDs /\ RemovingIDs' \subseteq RemovingIDs
  <2>1. Len(removing) \in Nat /\ 1 \in DOMAIN removing /\ Head(removing) = removing[1]
    BY <1>1, <1>3
  <2>2. Tail(removing) \in Seq(Nat)
        /\ \A k \in DOMAIN Tail(removing) :
             k + 1 \in DOMAIN removing /\ Tail(removing)[k] = removing[k + 1]
    BY <1>1, <1>3
  <2>3. Head(removing) \in RemovingIDs
    BY <2>1, Zenon DEF RemovingIDs
  <2>4. ASSUME NEW k \in DOMAIN Tail(removing) PROVE Tail(removing)[k] \in RemovingIDs
    BY <2>2, <2>4, Zenon DEF RemovingIDs
  <2>5. RemovingIDs' = {Tail(removing)[k] : k \in DOMAIN Tail(removing)}
    BY <1>1, Zenon DEF RemovingIDs
  <2> QED BY <1>1, <2>2, <2>3, <2>4, <2>5, Zenon
<1>6. /\ DOMAIN files' \subseteq DOMAIN files
      /\ \A id \in DOMAIN files' : files'[id] = files[id]
      /\ \A id \in DOMAIN files : id \notin RemovingIDs => id \in DOMAIN files'
  BY <1>1, <1>5, Zenon
<1>7. {writes', faults', crashes', rots', outages'} \subseteq Nat
  BY <1>1, <1>4
<1>8. DiskType(files')
  BY <1>4, <1>6, Zenon DEF DiskType
<1>9. Sound' = Sound /\ Needed' = Needed
  BY <1>1, Zenon DEF Sound, Intact, Needed
<1>10. Typed'
  BY <1>1, <1>3, <1>4, <1>6, <1>7, <1>8, Zenon DEF Typed
<1> DEFINE left == [id \in DOMAIN files' \ RemovingIDs' |-> files'[id]]
<1>11. DOMAIN rest \subseteq DOMAIN left /\ \A id \in DOMAIN rest : left[id] = rest[id]
  <2>1. \A id \in DOMAIN files \ RemovingIDs :
          id \in DOMAIN files' \ RemovingIDs' /\ files'[id] = files[id]
    BY <1>5, <1>6, Zenon
  <2> QED BY <2>1, Zenon
<1>12. DOMAIN left \subseteq DOMAIN files' /\ \A id \in DOMAIN left : files'[id] = left[id]
  BY Zenon
<1> HIDE DEF rest, left
<1>13. \A rec : Held(rest, rec) => Held(left, rec)
  BY <1>11, Zenon DEF Held
<1>14. \A rec : Held(left, rec) => Held(files', rec)
  BY <1>12, Zenon DEF Held
<1>15. DiskInv(Sound, Needed)'
  BY <1>1, <1>3, <1>4, <1>6, <1>9, <1>10, <1>13, <1>14, Zenon DEF DiskInv
<1> QED
  BY <1>1, <1>2, <1>3, <1>5, <1>6, <1>9, <1>13, <1>15, Zenon DEF CompInv, left

\* Compact returns: the active segment is the last one again, behind the new
\* one if that has records and can be opened.
LEMMA CompactDoneStep ==
  ASSUME CompInv, CompactDone \/ CompactDoneFails
  PROVE  CompInv'
<1> DEFINE next == nextSegmentID
           A == Active(segments)
           N == NewSegment(next)
           empty == files[next].frames = <<>>
<1>1. /\ mode = "compact" /\ mode' = "up"
      /\ UNCHANGED <<acked, writes, crashes, rots, outages, retired, leftover>>
      /\ faults' = faults \/ faults' = faults + 1
  BY Zenon DEF CompactDone, CompactDoneFails, counters, Fault
<1>2. Running /\ Running'
  BY <1>1 DEF Running
<1>3. /\ Typed /\ A.id < next
      /\ \A id \in DOMAIN files : id <= next
      /\ Sound => /\ A.stuck \/ AllWhole(files[A.id].frames)
                  /\ AllWhole(files[next].frames)
                  /\ \A id \in DOMAIN files : TornAtEnd(files[id].frames)
                  /\ \A rec \in Needed : Held(files, rec)
      /\ next \in DOMAIN files
  BY <1>1, <1>2, Zenon DEF CompInv, DiskInv
<1>4. /\ DiskType(files) /\ segments \in Seq(Segment) /\ segments # <<>> /\ next \in Nat
      /\ A.id \in DOMAIN files
      /\ acked \subseteq Record /\ {writes, faults, crashes, rots, outages} \subseteq Nat
  BY <1>2, <1>3, Zenon DEF Typed
<1>5. {writes', faults', crashes', rots', outages'} \subseteq Nat
  BY <1>1, <1>4
<1>6. /\ A \in Segment /\ A.id \in Nat /\ A.id # next
      /\ A.id < next + 1 /\ next < next + 1 /\ next + 1 \in Nat
      /\ next + 1 \notin DOMAIN files /\ \A id \in DOMAIN files : id <= next + 1
  <2>1. A \in Segment
    BY <1>4 DEF Active
  <2>2. A.id \in Nat
    BY <2>1, Zenon DEF Segment
  <2>3. DOMAIN files \subseteq Nat
    BY <1>4, Zenon DEF DiskType
  <2> HIDE DEF A
  <2>4. A.id # next /\ A.id < next + 1 /\ next < next + 1 /\ next + 1 \in Nat
    BY <1>3, <1>4, <2>2
  <2>5. next + 1 \notin DOMAIN files /\ \A id \in DOMAIN files : id <= next + 1
    BY <1>3, <1>4, <2>3
  <2> QED BY <2>1, <2>2, <2>4, <2>5, Zenon
<1>7. N \in Segment /\ N.id = next
  BY <1>4, NewSegmentType, Zenon
<1>8. Sound' = Sound /\ Needed' = Needed
  BY <1>1, Zenon DEF Sound, Intact, Needed
<1>9. /\ \/ segments' = <<A>> /\ nextSegmentID' = next
         \/ /\ segments' = <<N, A>> /\ nextSegmentID' = next + 1
            /\ DOMAIN files' = DOMAIN files
      /\ \/ DOMAIN files' = DOMAIN files
         \/ empty /\ DOMAIN files' = DOMAIN files \ {next}
      /\ \A id \in DOMAIN files' : files'[id] = files[id]
  <2>1. CASE CompactDone
    <3>1. CASE empty
      <4>1. /\ segments' = <<A>> /\ nextSegmentID' = next
            /\ files' = [id \in DOMAIN files \ {next} |-> files[id]]
        BY <2>1, <3>1, Zenon DEF CompactDone
      <4> QED BY <3>1, <4>1, Zenon
    <3>2. CASE ~empty
      <4>1. /\ segments' = <<N, A>> /\ nextSegmentID' = next + 1
            /\ files' = [id \in DOMAIN files |-> files[id]]
        BY <2>1, <3>2, Zenon DEF CompactDone
      <4> QED BY <4>1, Zenon
    <3> QED BY <3>1, <3>2, Zenon
  <2>2. CASE CompactDoneFails
    <3>1. segments' = <<A>> /\ nextSegmentID' = next /\ files' = files
      BY <2>2, Zenon DEF CompactDoneFails
    <3> QED BY <3>1, Zenon
  <2> QED BY <2>1, <2>2, Zenon
<1> HIDE DEF A, N, empty, next
<1>10. /\ segments' \in Seq(Segment) /\ segments' # <<>> /\ Active(segments') = A
       /\ nextSegmentID' \in Nat /\ A.id < nextSegmentID'
       /\ OwnIDs(segments', nextSegmentID')
       /\ \A k \in DOMAIN segments' :
            segments'[k] = A \/ (segments'[k] = N /\ DOMAIN files' = DOMAIN files)
  <2>1. CASE segments' = <<A>> /\ nextSegmentID' = next
    <3>1. segments' \in Seq(Segment) /\ segments' # <<>> /\ Active(segments') = A
          /\ \A k \in DOMAIN segments' : k = 1 /\ segments'[k] = A
      BY <1>6, <2>1 DEF Active
    <3> QED BY <1>3, <1>4, <2>1, <3>1, Zenon DEF OwnIDs, A, next
  <2>2. CASE segments' = <<N, A>> /\ nextSegmentID' = next + 1 /\ DOMAIN files' = DOMAIN files
    <3>1. /\ segments' \in Seq(Segment) /\ segments' # <<>> /\ Active(segments') = A
          /\ \A k \in DOMAIN segments' : k \in {1, 2}
          /\ segments'[1] = N /\ segments'[2] = A
      BY <1>6, <1>7, <2>2 DEF Active
    <3>2. \A j, k \in DOMAIN segments' : segments'[j].id = segments'[k].id => j = k
      BY <1>6, <1>7, <3>1, Zenon
    <3>3. \A k \in DOMAIN segments' : segments'[k].id < next + 1
      BY <1>6, <1>7, <3>1, Zenon
    <3> QED BY <1>6, <2>2, <3>1, <3>2, <3>3, Zenon DEF OwnIDs
  <2> QED BY <1>9, <2>1, <2>2, Zenon
<1>11. /\ DOMAIN files' \subseteq DOMAIN files
       /\ \A id \in DOMAIN files' : files'[id] = files[id]
       /\ \A id \in DOMAIN files : id # next => id \in DOMAIN files'
       /\ next \notin DOMAIN files' => empty
  BY <1>3, <1>9, Zenon DEF next
<1>12. DiskType(files')
  BY <1>4, <1>11, Zenon DEF DiskType
<1>13. ASSUME NEW rec, Held(files, rec) PROVE Held(files', rec)
  <2>1. PICK id \in DOMAIN files : HeldIn(files[id], rec)
    BY <1>13, Zenon DEF Held, HeldIn
  <2>2. empty => id # next
    <3>1. empty => DOMAIN files[next].frames = {}
      BY DEF empty
    <3> QED BY <2>1, <3>1, Zenon DEF HeldIn
  <2>3. id \in DOMAIN files' /\ HeldIn(files'[id], rec)
    BY <1>11, <2>1, <2>2, Zenon
  <2> QED BY <2>3, Zenon DEF Held, HeldIn
<1>14. Typed'
  BY <1>1, <1>4, <1>5, <1>6, <1>10, <1>11, <1>12, Zenon DEF Typed
<1>15. \A id \in DOMAIN files' : id <= nextSegmentID'
  BY <1>3, <1>6, <1>9, <1>11, Zenon DEF next
<1>16. Sound => (nextSegmentID' \in DOMAIN files' => AllWhole(files'[nextSegmentID'].frames))
  BY <1>3, <1>6, <1>9, <1>11, Zenon DEF next
<1>17. DiskInv(Sound, Needed)'
  BY <1>1, <1>3, <1>4, <1>6, <1>8, <1>10, <1>11, <1>13, <1>14, <1>15, <1>16, Zenon
  DEF DiskInv, A, next
<1>18. \A k \in DOMAIN segments' : segments'[k].id \in DOMAIN files'
  <2>1. A.id \in DOMAIN files'
    BY <1>4, <1>6, <1>11, Zenon DEF A
  <2>2. DOMAIN files' = DOMAIN files => N.id \in DOMAIN files'
    BY <1>3, <1>7, Zenon DEF next
  <2> TAKE k \in DOMAIN segments'
  <2>3. segments'[k] = A \/ (segments'[k] = N /\ DOMAIN files' = DOMAIN files)
    BY <1>10, Zenon
  <2> QED BY <2>1, <2>2, <2>3, Zenon
<1>19. mode' # "compact" /\ mode' \in {"down", "up", "failed", "compact"}
  <2>1. mode' = "up"
    BY <1>1, Zenon
  <2> QED BY <2>1
<1> QED BY <1>10, <1>17, <1>18, <1>19, Zenon DEF CompInv

\* The process ends while old files are removed.
LEMMA CrashRemovingStep ==
  ASSUME CompInv, CrashRemoving
  PROVE  CompInv'
<1>1. /\ Gone /\ mode' = "down" /\ crashes' = crashes + 1
      /\ UNCHANGED <<files, acked, writes, faults, rots, outages, retired, leftover>>
  BY Zenon DEF CrashRemoving, Gone
<1>2. /\ DiskType(files) /\ acked \subseteq Record
      /\ {writes, faults, crashes, rots, outages} \subseteq Nat
      /\ Sound => /\ \A id \in DOMAIN files : TornAtEnd(files[id].frames)
                  /\ \A rec \in Needed : Held(files, rec)
  BY Zenon DEF CompInv, DiskInv, Typed
<1>3. {writes', faults', crashes', rots', outages'} \subseteq Nat
  BY <1>1, <1>2
<1>4. PICK ok, need : ok = Sound /\ need = Needed
  BY Zenon
<1>5. DiskInv(ok, need)'
  BY <1>1, <1>2, <1>3, <1>4, GoneStep, Zenon
<1>6. Sound' = Sound /\ Needed' = Needed
  BY <1>1, Zenon DEF Sound, Intact, Needed
<1>7. DiskInv(Sound, Needed)'
  BY <1>4, <1>5, <1>6, Zenon DEF DiskInv
<1>8. mode' # "up" /\ mode' # "compact"
  BY <1>1
<1>9. OwnIDs(segments', nextSegmentID')
  BY <1>1, NoSegments, Zenon DEF Gone
<1> QED BY <1>1, <1>7, <1>8, <1>9, Zenon DEF CompInv

\* A rotation gives the new segment an ID of its own.
LEMMA RotatedIDs ==
  ASSUME CompInv, mode = "up"
  PROVE  /\ OwnIDs(Rotated.segments, Rotated.next)
         /\ \A k \in DOMAIN Rotated.segments : Rotated.segments[k].id \in DOMAIN Rotated.files
<1> DEFINE R == Rotated
           n == nextSegmentID
           N == NewSegment(n)
<1>1. Running
  BY DEF Running
<1>2. /\ DiskType(files) /\ segments \in Seq(Segment) /\ n \in Nat
      /\ OwnIDs(segments, n) /\ \A k \in DOMAIN segments : segments[k].id \in DOMAIN files
  BY <1>1, Zenon DEF CompInv, DiskInv, Typed
<1>3. CASE Active(segments).size >= SegmentSize
  <2> DEFINE segs == Append(segments, N)
  <2>1. R.files = OpenedFile(n) /\ R.segments = segs /\ R.next = n + 1
    BY <1>3, Zenon DEF Rotated
  <2>2. N \in Segment /\ N.id = n
    BY <1>2, NewSegmentType, Zenon
  <2>3. DOMAIN OpenedFile(n) = DOMAIN files \cup {n}
    BY <1>2, OpenedFileFacts, Zenon
  <2> HIDE DEF N
  <2>4. \A k \in DOMAIN segs : \/ k \in DOMAIN segments /\ segs[k] = segments[k]
                               \/ k = Len(segments) + 1 /\ segs[k] = N
    BY <1>2, <2>2
  <2>5. \A k \in DOMAIN segments : segments[k].id \in Nat /\ segments[k].id < n
    <3>1. \A k \in DOMAIN segments : segments[k] \in Segment
      BY <1>2
    <3> QED BY <1>2, <3>1, Zenon DEF OwnIDs, Segment
  <2>6. n < n + 1 /\ \A x \in Nat : x < n => x # n /\ x < n + 1
    BY <1>2
  <2> HIDE DEF segs
  <2>7. \A k \in DOMAIN segs : segs[k].id < n + 1 /\ segs[k].id \in DOMAIN files \cup {n}
    BY <1>2, <2>2, <2>4, <2>5, <2>6, Zenon
  <2>8. ASSUME NEW j \in DOMAIN segs, NEW k \in DOMAIN segs, segs[j].id = segs[k].id PROVE j = k
    <3>1. CASE j \in DOMAIN segments /\ k \in DOMAIN segments
               /\ segs[j] = segments[j] /\ segs[k] = segments[k]
      BY <1>2, <2>8, <3>1, Zenon DEF OwnIDs
    <3>2. CASE segs[j] = N \/ segs[k] = N
      BY <2>2, <2>4, <2>5, <2>6, <2>8, <3>2, Zenon
    <3> QED BY <2>4, <2>8, <3>1, <3>2, Zenon
  <2> QED BY <2>1, <2>3, <2>7, <2>8, Zenon DEF OwnIDs
<1>4. CASE ~(Active(segments).size >= SegmentSize)
  <2>1. R.files = files /\ R.segments = segments /\ R.next = n
    BY <1>4, Zenon DEF Rotated
  <2> QED BY <1>2, <2>1, Zenon
<1> QED BY <1>3, <1>4, Zenon

\* Write changes no segment's ID.
LEMMA WriteIDs ==
  ASSUME CompInv, NEW payload \in Payloads,
         Write(payload) \/ WriteFlushFails(payload) \/ WriteSyncFails(payload)
  PROVE  /\ OwnIDs(segments', nextSegmentID')
         /\ \A k \in DOMAIN segments' : segments'[k].id \in DOMAIN files'
<1> DEFINE R == Rotated
<1>1. /\ mode = "up" /\ nextSegmentID' = R.next /\ ~Active(R.segments).stuck
      /\ \/ \E state \in {"whole", "torn"}, sync \in BOOLEAN : Put(NewRecord(payload), state, sync)
         \/ files' = R.files
  BY WALAssumption, Zenon DEF Write, WriteFlushFails, WriteSyncFails, Writing
<1>2. DiskInv(Sound, Needed)
  BY Zenon DEF CompInv
<1>3. R.segments \in Seq(Segment)
  BY <1>1, <1>2, RotatedDisk, Zenon
<1>4. DOMAIN files' = DOMAIN R.files
  BY <1>1, <1>2, PutFacts, Zenon
<1>5. /\ OwnIDs(R.segments, R.next)
      /\ \A k \in DOMAIN R.segments : R.segments[k].id \in DOMAIN R.files
  BY <1>1, RotatedIDs, Zenon
<1>6. \/ segments' = R.segments
      \/ segments' = [R.segments EXCEPT ![Len(R.segments)].size = @ + 1]
      \/ segments' = [R.segments EXCEPT ![Len(R.segments)].stuck = TRUE]
  BY Zenon DEF Write, WriteFlushFails, WriteSyncFails
<1> HIDE DEF R
<1>7. \A k \in DOMAIN R.segments : R.segments[k] \in Segment
  BY <1>3
<1>8. DOMAIN segments' = DOMAIN R.segments
      /\ \A k \in DOMAIN R.segments : segments'[k].id = R.segments[k].id
  <2>1. \A s \in Segment :
          [s EXCEPT !.size = @ + 1].id = s.id /\ [s EXCEPT !.stuck = TRUE].id = s.id
    BY Zenon DEF Segment
  <2>2. CASE segments' = R.segments
    BY <2>2, Zenon
  <2>3. CASE segments' = [R.segments EXCEPT ![Len(R.segments)].size = @ + 1]
    BY <1>7, <2>1, <2>3, Zenon
  <2>4. CASE segments' = [R.segments EXCEPT ![Len(R.segments)].stuck = TRUE]
    BY <1>7, <2>1, <2>4, Zenon
  <2> QED BY <1>6, <2>2, <2>3, <2>4, Zenon
<1> QED BY <1>1, <1>4, <1>5, <1>8, Zenon DEF OwnIDs

\* A start finds segments with increasing IDs.
LEMMA OpenIDs ==
  ASSUME CompInv, Open, Below'
  PROVE  /\ OwnIDs(segments', nextSegmentID')
         /\ \A k \in DOMAIN segments' : segments'[k].id \in DOMAIN files'
<1>1. mode' = "up" /\ files' = Loaded
  BY Zenon DEF Open
<1>2. PICK top \in DOMAIN Loaded : \E n \in 1 .. top + 1 :
        \E order \in [1 .. n -> DOMAIN Loaded] :
          InOrder(order) /\ segments' = [k \in DOMAIN order |-> NewSegment(order[k])]
  BY Zenon DEF Open
<1>3. PICK n \in 1 .. top + 1 : \E order \in [1 .. n -> DOMAIN Loaded] :
          InOrder(order) /\ segments' = [k \in DOMAIN order |-> NewSegment(order[k])]
  BY <1>2, Zenon
<1>4. PICK order \in [1 .. n -> DOMAIN Loaded] :
          InOrder(order) /\ segments' = [k \in DOMAIN order |-> NewSegment(order[k])]
  BY <1>3, Zenon
<1>5. DiskType(files) /\ DiskType(Loaded)
  <2>1. DiskType(files) /\ 0 \in Nat
    BY Zenon DEF CompInv, DiskInv, Typed
  <2> QED BY <2>1, OpenedFileFacts, Zenon DEF Loaded
<1>6. \A k \in 1 .. n : order[k] \in DOMAIN Loaded /\ order[k] \in Nat
  BY <1>5, Zenon DEF DiskType
<1>7. DOMAIN segments' = 1 .. n /\ \A k \in 1 .. n : segments'[k].id = order[k]
  <2>1. DOMAIN order = 1 .. n
    BY Zenon
  <2> QED BY <1>4, <1>5, <1>6, <2>1, NewSegmentType, Zenon
<1>8. \A j, k \in 1 .. n : order[j] = order[k] => j = k
  <2>1. \A j, k \in 1 .. n : j < k => order[j] < order[k]
    BY <1>4, Zenon DEF InOrder
  <2>2. n \in Nat
    BY <1>5 DEF DiskType
  <2> QED BY <1>6, <2>1, <2>2
<1>9. \A id \in DOMAIN Loaded : id < nextSegmentID'
  BY <1>1, Zenon DEF Below
<1> QED BY <1>1, <1>6, <1>7, <1>8, <1>9, Zenon DEF OwnIDs

\* The log's own steps, none of which is taken while Compact runs.
LEMMA LogStep ==
  ASSUME CompInv, Next, UNCHANGED <<removing, retired, leftover>>
  PROVE  CompInv'
<1>0. DiskInv(Sound, Needed) /\ Typed /\ mode \in {"down", "up", "failed", "compact"}
  BY Zenon DEF CompInv, DiskInv
<1>1. PICK ok, must, need : ok = Sound /\ must = Needed /\ need = Needed'
  BY Zenon
<1>2. DiskInv(ok, must)
  BY <1>0, <1>1, Zenon
<1>3. ASSUME acked' = acked PROVE need \subseteq must
  BY <1>1, <1>3, Zenon DEF Needed
<1>4. ASSUME UNCHANGED <<rots, outages>> PROVE Sound' => ok
  BY <1>1, <1>4, Zenon DEF Sound, Intact
<1>5. ASSUME NEW sound, Sound' => sound, DiskInv(sound, need)' PROVE DiskInv(Sound, Needed)'
  BY <1>1, <1>5, Zenon DEF DiskInv
<1>6. ASSUME DiskInv(Sound, Needed)', mode' = "up", OwnIDs(segments', nextSegmentID'),
             \A k \in DOMAIN segments' : segments'[k].id \in DOMAIN files'
      PROVE  CompInv'
  <2>1. mode' # "compact" /\ mode' \in {"down", "up", "failed", "compact"}
    BY <1>6
  <2> QED BY <1>6, <2>1, Zenon DEF CompInv
<1>7. ASSUME DiskInv(Sound, Needed)', mode' \in {"down", "failed"},
             segments' = <<>> \/ UNCHANGED <<segments, nextSegmentID>>
      PROVE  CompInv'
  <2>1. mode' # "up" /\ mode' # "compact" /\ mode' \in {"down", "up", "failed", "compact"}
    BY <1>7
  <2>2. OwnIDs(segments', nextSegmentID')
    <3>1. OwnIDs(segments, nextSegmentID)
      BY Zenon DEF CompInv
    <3> QED BY <1>7, <3>1, NoSegments, Zenon
  <2> QED BY <1>7, <2>1, <2>2, Zenon DEF CompInv
<1>8. ASSUME NEW payload \in Payloads,
             Write(payload) \/ WriteFlushFails(payload) \/ WriteSyncFails(payload)
      PROVE  CompInv'
  <2>1. mode' = "up" /\ UNCHANGED <<rots, outages>>
    BY <1>8, Zenon DEF Write, WriteFlushFails, WriteSyncFails, Writing
  <2>2. need \subseteq must \cup (acked' \ acked)
    BY <1>1, Zenon DEF Needed
  <2>3. DiskInv(ok, need)'
    BY <1>2, <1>8, <2>2, WriteStep, Zenon
  <2>4. DiskInv(Sound, Needed)'
    BY <1>4, <1>5, <2>1, <2>3, Zenon
  <2> QED BY <1>6, <1>8, <2>1, <2>4, WriteIDs, Zenon
<1>9. ASSUME WriteRefused \/ Close \/ OpenFails \/ \E payload \in Payloads : CrashWriting(payload)
      PROVE  CompInv'
  <2>1. /\ acked' = acked /\ UNCHANGED <<rots, outages>>
        /\ \/ /\ mode' \in {"down", "failed"}
              /\ segments' = <<>> \/ UNCHANGED <<segments, nextSegmentID>>
           \/ mode' = "up" /\ UNCHANGED <<mode, files, segments, nextSegmentID>>
    BY <1>9, Zenon DEF WriteRefused, Close, OpenFails, CrashWriting, Gone, counters, memory
  <2>2. DiskInv(ok, need)'
    BY <1>2, <1>3, <1>9, <2>1, StopStep, Zenon
  <2>3. DiskInv(Sound, Needed)'
    BY <1>4, <1>5, <2>1, <2>2, Zenon
  <2>4. ASSUME mode' = "up", UNCHANGED <<mode, files, segments, nextSegmentID>> PROVE CompInv'
    <3>1. Running
      BY <2>4 DEF Running
    <3>2. /\ OwnIDs(segments, nextSegmentID)
          /\ \A k \in DOMAIN segments : segments[k].id \in DOMAIN files
      BY <2>4, <3>1, Zenon DEF CompInv
    <3>3. OwnIDs(segments', nextSegmentID')
      BY <2>4, <3>2, Zenon
    <3> QED BY <1>6, <2>3, <2>4, <3>2, <3>3, Zenon
  <2> QED BY <1>7, <2>1, <2>3, <2>4, Zenon
<1>10. CASE Outage
  <2>1. /\ mode' \in {"down", "failed"} /\ acked' = acked /\ rots' = rots /\ outages' = outages + 1
        /\ UNCHANGED <<segments, nextSegmentID>>
    BY <1>10, Zenon DEF Outage, memory
  <2>2. Sound' => ok /\ Fsync
    <3>1. outages \in Nat
      BY <1>0, Zenon DEF Typed
    <3>2. outages + 1 # 0
      BY <3>1
    <3> QED BY <1>1, <2>1, <3>2, Zenon DEF Sound, Intact
  <2>3. DiskInv(ok /\ Fsync, need)'
    BY <1>2, <1>3, <1>10, <2>1, OutageStep, Zenon
  <2>4. DiskInv(Sound, Needed)'
    BY <1>1, <2>2, <2>3, Zenon DEF DiskInv
  <2> QED BY <1>7, <2>1, <2>4, Zenon
<1>11. ASSUME NEW id \in DOMAIN files, NEW i \in DOMAIN files[id].frames, Rot(id, i)
       PROVE  CompInv'
  <2>1. mode' \in {"down", "failed"} /\ rots' = rots + 1 /\ UNCHANGED <<segments, nextSegmentID>>
    BY <1>11, Zenon DEF Rot, memory
  <2>2. ~Sound'
    <3>1. rots \in Nat
      BY <1>0, Zenon DEF Typed
    <3>2. rots + 1 # 0
      BY <3>1
    <3> QED BY <2>1, <3>2, Zenon DEF Sound, Intact
  <2>3. DiskInv(FALSE, need)'
    BY <1>2, <1>11, RotStep, Zenon
  <2>4. DiskInv(Sound, Needed)'
    BY <2>2, <2>3, Zenon DEF DiskInv
  <2> QED BY <1>7, <2>1, <2>4, Zenon
<1>12. CASE Open
  <2>1. mode' = "up" /\ acked' = acked /\ UNCHANGED <<rots, outages>>
    BY <1>12, Zenon DEF Open, counters
  <2>2. DiskInv(ok, need)' /\ Below'
    BY <1>2, <1>3, <1>12, <2>1, OpenStep, Zenon
  <2>3. DiskInv(Sound, Needed)'
    BY <1>4, <1>5, <2>1, <2>2, Zenon
  <2> QED BY <1>6, <1>12, <2>1, <2>2, <2>3, OpenIDs, Zenon
<1> QED
  BY <1>8, <1>9, <1>10, <1>11, <1>12, Zenon DEF Next

\* Every step of the log and of Compact keeps the invariant.
LEMMA CompStep == CompInv /\ [CompactionNext]_cvars => CompInv'
<1> SUFFICES ASSUME CompInv, [CompactionNext]_cvars PROVE CompInv'
  BY Zenon
<1>1. CASE Next /\ UNCHANGED <<removing, retired, leftover, compactions>>
  BY <1>1, LogStep, Zenon
<1>2. ASSUME NEW active \in SUBSET Jobs,
             CompactCopy(active) \/ CompactCopyFails(active) \/ CompactCrash(active)
      PROVE  CompInv'
  BY <1>2, CompactCopyStep, CopyFailsStep, CompactCrashStep, Zenon
<1>3. CASE CompactRemove
  BY <1>3, CompactRemoveStep, Zenon
<1>4. CASE CompactDone \/ CompactDoneFails
  BY <1>4, CompactDoneStep, Zenon
<1>5. CASE CrashRemoving
  BY <1>5, CrashRemovingStep, Zenon
<1>6. CASE UNCHANGED cvars
  <2>1. UNCHANGED <<mode, files, segments, nextSegmentID, acked, writes, faults, crashes, rots,
                    outages, removing, retired, leftover>>
    BY <1>6, Zenon DEF cvars, vars, memory, counters
  <2>2. Sound' = Sound /\ Needed' = Needed /\ RemovingIDs' = RemovingIDs /\ Running' = Running
        /\ OwnIDs(segments, nextSegmentID)' = OwnIDs(segments, nextSegmentID)
    BY <2>1, Zenon DEF Sound, Intact, Needed, RemovingIDs, Running, OwnIDs
  <2>3. DiskInv(Sound, Needed)'
    BY <2>1, <2>2, Zenon DEF CompInv, DiskInv, Typed
  <2> QED BY <2>1, <2>2, <2>3, Zenon DEF CompInv
<1> QED
  BY <1>1, <1>2, <1>3, <1>4, <1>5, <1>6, Zenon DEF CompactionNext

-----------------------------------------------------------------------------

\* Wherever a Compact that does not fail is interrupted, by the end of the
\* process or of the machine, Replay still reads the Enqueue record of every
\* job no Compact was told to drop.
THEOREM CompactionKeepsHolds == CompactionSpec => []CompactionKeeps
<1>1. CompInv => CompactionKeeps
  <2> SUFFICES ASSUME CompInv, ~leftover, Intact, NEW rec \in acked,
                      rec.payload.type = "enqueue" /\ rec.payload.job \notin retired
               PROVE  \E id \in DOMAIN files : \E i \in DOMAIN files[id].frames :
                        Readable(files[id].frames, i) /\ files[id].frames[i].rec = rec
    BY Zenon DEF CompactionKeeps, ActiveKept
  <2>1. Sound /\ rec \in Needed
    BY Zenon DEF Sound, Needed
  <2>2. PICK id \in DOMAIN files : HeldIn(files[id], rec)
    BY <2>1, Zenon DEF CompInv, DiskInv, Held, HeldIn
  <2>3. PICK i \in DOMAIN files[id].frames :
          files[id].frames[i].rec = rec /\ files[id].frames[i].state = "whole"
    BY <2>2, Zenon DEF HeldIn
  <2>4. files[id].frames \in Seq(Frame) /\ TornAtEnd(files[id].frames)
    BY <2>1, Zenon DEF CompInv, DiskInv, Typed, DiskType, File
  <2>5. Readable(files[id].frames, i)
    BY <2>3, <2>4 DEF TornAtEnd, Readable
  <2> QED BY <2>3, <2>5, Zenon
<1> QED
  BY <1>1, CompInit, CompStep, PTL DEF CompactionSpec

\* No two open segments write to one file, whatever Compact, its error paths,
\* rotations and restarts did before.
THEOREM OneWriterPerFileHolds == CompactionSpec => []OneWriterPerFile
<1>1. CompInv => OneWriterPerFile
  <2> SUFFICES ASSUME CompInv PROVE OneWriterPerFile
    BY Zenon
  <2> QED BY Zenon DEF CompInv, OwnIDs, OneWriterPerFile
<1> QED
  BY <1>1, CompInit, CompStep, PTL DEF CompactionSpec
=============================================================================
