---------------------------- MODULE FrameWriter -----------------------------
(***************************************************************************)
(* The file writer of one camera (archive.Writer): frames go to the file   *)
(* of the current fragment, and each I-frame written has its byte offset   *)
(* sent to the database writer.                                            *)
(*                                                                         *)
(* The disk is a function from archive keys to files; a file is the        *)
(* sequence of its bytes, and a byte is the frame it comes from with its   *)
(* position in that frame.  Rows are remembered with the file the I-frame  *)
(* really went to, which the code does not keep: the index names the file  *)
(* by the timestamp alone.                                                 *)
(*                                                                         *)
(* Nothing is assumed of the order of the frames.  Each process is a new   *)
(* consumer group, which may begin at the start of the frames topic, and a *)
(* topic that is subscribed to again goes on from an older offset: frames  *)
(* written long ago are delivered again, to a writer that does not know    *)
(* them.                                                                   *)
(***************************************************************************)
EXTENDS ArchiveTime, Sequences, FiniteSets

CONSTANTS
    NoFile,         \* w.file == nil
    FrameSize,      \* bytes of a frame that is not empty
    MaxLead,        \* bound: how far camera clocks run ahead (ms)
    DiskMayFail,    \* whether creating and writing files can fail
    MaxTime,        \* bound on the clock (ms)
    MaxFrames       \* bound on the number of frames

ASSUME WriterAssumption ==
    /\ NoFile \notin Nat \X Nat
    /\ FrameSize \in Nat \ {0}
    /\ MaxLead \in Nat
    /\ DiskMayFail \in BOOLEAN
    /\ MaxTime \in Nat
    /\ MaxFrames \in Nat

VARIABLES
    now,                \* wall clock (ms)
    file,               \* key of the open file, or NoFile
    fileStartTime,      \* w.fileStartTime (ms)
    iFrameByteOffset,   \* w.iFrameByteOffset
    videoFrameCount,    \* w.videoFrameCount
    disk,               \* archive key -> bytes of the file
    rows,               \* set of I-frame offsets sent to the database writer
    frames,             \* number of frames received so far
    created,            \* history: files the running writer has created
    writeFailed         \* history: some write has failed

writerVars == <<file, fileStartTime, iFrameByteOffset, videoFrameCount>>
vars == <<now, writerVars, disk, rows, frames, created, writeFailed>>

-----------------------------------------------------------------------------
\* A frame as sendFrameToArchive builds it: the key of the record says
\* whether it is video and a header whether it is a key frame, each by itself.
Frame(ts, isIFrame, isVideoFrame, size) ==
    [id |-> frames + 1, timestamp |-> ts, size |-> size,
     isIFrame |-> isIFrame, isVideoFrame |-> isVideoFrame]

\* The first n bytes of a frame, as they are on disk.
Bytes(f, n) == [i \in 1..n |-> [frame |-> f.id, key |-> f.isIFrame, pos |-> i]]

\* Mutant of IsFileRotationNeeded: one instant late.
IsFileRotationNeededLate == now - fileStartTime > FragmentMs

IsFileRotationNeeded == now - fileStartTime >= FragmentMs

\* Mutant of Rotates: a file that is due is rotated by any frame.
RotatesOnAnyFrame(f) ==
    (f.isIFrame /\ file = NoFile) \/ (file # NoFile /\ IsFileRotationNeeded)

\* Mutant of Rotates: every I-frame begins a file.
RotatesOnEveryIFrame(f) == f.isIFrame

\* Only an I-frame creates or rotates a file.
Rotates(f) == f.isIFrame /\ (file = NoFile \/ IsFileRotationNeeded)

\* Mutant of Opened: the file is opened for appending, not truncated.
OpenedToAppend(f) ==
    IF Rotates(f)
    THEN [file |-> ArchiveKey(f.timestamp),
          start |-> StartOf(ArchiveKey(f.timestamp)),
          bytes |-> IF ArchiveKey(f.timestamp) \in DOMAIN disk
                    THEN disk[ArchiveKey(f.timestamp)] ELSE <<>>,
          offset |-> 0, video |-> 0]
    ELSE [file |-> file, start |-> fileStartTime, bytes |-> disk[file],
          offset |-> iFrameByteOffset, video |-> videoFrameCount]

\* Mutant of Opened: the file starts when it is opened.
OpenedStartsNow(f) ==
    IF Rotates(f)
    THEN [file |-> ArchiveKey(f.timestamp), start |-> now,
          bytes |-> <<>>, offset |-> 0, video |-> 0]
    ELSE [file |-> file, start |-> fileStartTime, bytes |-> disk[file],
          offset |-> iFrameByteOffset, video |-> videoFrameCount]

\* The writer after rotateFile(f.timestamp), or as it was: os.Create
\* truncates a file that exists already.
Opened(f) ==
    IF Rotates(f)
    THEN [file |-> ArchiveKey(f.timestamp),
          start |-> StartOf(ArchiveKey(f.timestamp)),
          bytes |-> <<>>, offset |-> 0, video |-> 0]
    ELSE [file |-> file, start |-> fileStartTime, bytes |-> disk[file],
          offset |-> iFrameByteOffset, video |-> videoFrameCount]

Store(key, bytes) ==
    disk' = [k \in DOMAIN disk \cup {key} |->
                IF k = key THEN bytes ELSE disk[k]]

\* The count of video frames with this one.
Counted(f, o) == IF f.isVideoFrame THEN o.video + 1 ELSE o.video

\* Mutant of Row: the offset is taken after it was advanced.
RowAfterAdvance(f, o) ==
    [frame |-> f.id, timestamp |-> f.timestamp, offset |-> o.offset + f.size,
     video |-> Counted(f, o), file |-> o.file, received |-> now]

\* The offset row of an I-frame, with the time it was received (history).
Row(f, o) == [frame |-> f.id, timestamp |-> f.timestamp, offset |-> o.offset,
              video |-> Counted(f, o), file |-> o.file, received |-> now]

Receive(f) ==
    /\ frames < MaxFrames
    /\ frames' = f.id
    /\ UNCHANGED now

\* Empty frames are ignored, and so is everything before the first I-frame.
Skip(f) ==
    /\ f.size = 0 \/ (file = NoFile /\ ~f.isIFrame)
    /\ UNCHANGED <<writerVars, disk, rows, created, writeFailed>>

Accepted(f) == f.size > 0 /\ (file # NoFile \/ f.isIFrame)

\* rotateFile fails before it changes anything; the frame is lost.
RotateFails(f) ==
    /\ DiskMayFail
    /\ Accepted(f)
    /\ Rotates(f)
    /\ UNCHANGED <<writerVars, disk, rows, created, writeFailed>>

\* Mutant of WriteFails: the error does not keep the offset from being sent.
WriteFailsButEmits(f) ==
    /\ DiskMayFail
    /\ Accepted(f)
    /\ LET o == Opened(f)
       IN  /\ \E n \in 0..(f.size - 1) : Store(o.file, o.bytes \o Bytes(f, n))
           /\ file' = o.file
           /\ fileStartTime' = o.start
           /\ iFrameByteOffset' = o.offset
           /\ videoFrameCount' = o.video
           /\ created' = created \cup {o.file}
           /\ writeFailed' = TRUE
           /\ rows' = IF f.isIFrame THEN rows \cup {Row(f, o)} ELSE rows

\* Mutant of WriteFails: the offset is advanced before the write.
WriteFailsAdvanced(f) ==
    /\ DiskMayFail
    /\ Accepted(f)
    /\ LET o == Opened(f)
       IN  /\ \E n \in 0..(f.size - 1) : Store(o.file, o.bytes \o Bytes(f, n))
           /\ file' = o.file
           /\ fileStartTime' = o.start
           /\ iFrameByteOffset' = o.offset + f.size
           /\ videoFrameCount' = o.video
           /\ created' = created \cup {o.file}
           /\ writeFailed' = TRUE
           /\ UNCHANGED rows

\* The write stops after n bytes: processFrame returns before it counts the
\* frame, sends an offset or advances the offset.
WriteFails(f) ==
    /\ DiskMayFail
    /\ Accepted(f)
    /\ LET o == Opened(f)
       IN  /\ \E n \in 0..(f.size - 1) : Store(o.file, o.bytes \o Bytes(f, n))
           /\ file' = o.file
           /\ fileStartTime' = o.start
           /\ iFrameByteOffset' = o.offset
           /\ videoFrameCount' = o.video
           /\ created' = created \cup {o.file}
           /\ writeFailed' = TRUE
           /\ UNCHANGED rows

\* The offset of an I-frame goes to the database writer, unless the channel
\* is full: then it is dropped.
WriteFrame(f) ==
    /\ Accepted(f)
    /\ LET o == Opened(f)
       IN  /\ Store(o.file, o.bytes \o Bytes(f, f.size))
           /\ file' = o.file
           /\ fileStartTime' = o.start
           /\ iFrameByteOffset' = o.offset + f.size
           /\ videoFrameCount' = Counted(f, o)
           /\ created' = created \cup {o.file}
           /\ \/ f.isIFrame /\ rows' = rows \cup {Row(f, o)}
              \/ UNCHANGED rows
           /\ UNCHANGED writeFailed

ProcessFrame(f) ==
    /\ Receive(f)
    /\ Skip(f) \/ RotateFails(f) \/ WriteFails(f) \/ WriteFrame(f)

\* A frame may be of any age; none is more than MaxLead ahead of the clock.
Timestamps == 0..(now + MaxLead)

HandleFrame ==
    \E ts \in Timestamps, isIFrame, isVideoFrame \in BOOLEAN,
       size \in {0, FrameSize} :
        ProcessFrame(Frame(ts, isIFrame, isVideoFrame, size))

\* The pipeline stops (camera off, shutdown) or the process dies; the next
\* one begins with a new Writer over the same disk, and with whatever frames
\* its consumer group is given first.
Restart ==
    /\ file # NoFile
    /\ file' = NoFile
    /\ fileStartTime' = 0
    /\ iFrameByteOffset' = 0
    /\ videoFrameCount' = 0
    /\ created' = {}
    /\ UNCHANGED <<now, disk, rows, frames, writeFailed>>

Tick ==
    /\ now < MaxTime
    /\ now' = now + 1
    /\ UNCHANGED <<writerVars, disk, rows, frames, created, writeFailed>>

Init ==
    /\ now = 0
    /\ file = NoFile
    /\ fileStartTime = 0
    /\ iFrameByteOffset = 0
    /\ videoFrameCount = 0
    /\ disk = <<>>
    /\ rows = {}
    /\ frames = 0
    /\ created = {}
    /\ writeFailed = FALSE

Next == HandleFrame \/ Restart \/ Tick

Spec == Init /\ [][Next]_vars

-----------------------------------------------------------------------------
Keys == Nat \X Nat
Byte == [frame : Nat, key : BOOLEAN, pos : Nat]

\* The variables hold what the code can store; an open file is on disk, and
\* the writer's clock value is the start its name stands for.
TypeOK ==
    /\ now \in Nat
    /\ file \in Keys \cup {NoFile}
    /\ fileStartTime \in Nat
    /\ iFrameByteOffset \in Nat
    /\ videoFrameCount \in Nat
    /\ DOMAIN disk \subseteq Keys
    /\ \A k \in DOMAIN disk : disk[k] \in Seq(Byte)
    /\ file # NoFile => file \in DOMAIN disk /\ fileStartTime = StartOf(file)
    /\ rows \subseteq [frame : Nat, timestamp : Nat, offset : Nat, video : Nat,
                       file : Keys, received : Nat]
    /\ frames \in Nat
    /\ created \subseteq DOMAIN disk
    /\ writeFailed \in BOOLEAN

-----------------------------------------------------------------------------
(* The index agrees with the disk.                                         *)

\* The row points at the first byte of its I-frame.
Resolves(r) ==
    /\ r.file \in DOMAIN disk
    /\ r.offset < Len(disk[r.file])
    /\ disk[r.file][r.offset + 1] = [frame |-> r.frame, key |-> TRUE, pos |-> 1]

\* The file the row was made for was created anew by a later frame.
Overwritten(r) ==
    /\ r.file \in DOMAIN disk
    /\ disk[r.file] # <<>> => disk[r.file][1].frame > r.frame

\* As long as no write fails, an indexed I-frame is found at its offset, or
\* its whole file has been truncated since: there is no third way for the
\* index and the disk to disagree.
RowsResolveOrOverwritten ==
    ~writeFailed => \A r \in rows : Resolves(r) \/ Overwritten(r)

\* Row and file are matched by timestamp alone.  The I-frame of a row is in
\* the file its timestamp names, with three exceptions and no other: the frame
\* is older than the file that was open, the clock of the camera was ahead, or
\* the fragment length makes files overlap, and then the two files begin less
\* than a fragment apart.
IndexNamesTheFile ==
    \A r \in rows :
        LET named == ArchiveKey(r.timestamp)
        IN  \/ r.file = named
            \/ r.timestamp < StartOf(r.file)
            \/ r.timestamp > r.received
            \/ /\ ~(FragmentDividesDay /\ FragmentIsWhole)
               /\ StartOf(named) < StartOf(r.file) + FragmentMs
               /\ StartOf(r.file) < StartOf(named) + FragmentMs

\* Even when writes fail half way, no row is sent for an I-frame that is not
\* on disk in full (in its file, or in one truncated since).
IndexedFramesAreWhole ==
    \A r \in rows : \/ Overwritten(r)
                    \/ \A i \in 1..FrameSize :
                         \E j \in 1..Len(disk[r.file]) :
                            disk[r.file][j] = [frame |-> r.frame, key |-> TRUE,
                                               pos |-> i]

\* The offset the next I-frame will be given is where it will land, and when
\* writes fail half way the offset stays behind the file, never ahead:
\* it counts the bytes of the frames written in full and no others.
OffsetCountsWholeFrames ==
    file # NoFile =>
        iFrameByteOffset =
            FrameSize * Cardinality({j \in 1..Len(disk[file]) :
                                        disk[file][j].pos = FrameSize})

-----------------------------------------------------------------------------
(* Files already written.                                                  *)

\* A file is never gone on with once it was left: after rotations, restarts
\* and frames delivered again, each file holds frames that one writer received
\* one after the other, in that order, and those of another file were received
\* all before or all after them.
FilesHoldOneRun ==
    \A k1 \in DOMAIN disk :
        /\ \A i, j \in DOMAIN disk[k1] :
              i <= j => disk[k1][i].frame <= disk[k1][j].frame
        /\ \A k2 \in DOMAIN disk \ {k1} :
              \/ \A i \in DOMAIN disk[k1], j \in DOMAIN disk[k2] :
                    disk[k1][i].frame < disk[k2][j].frame
              \/ \A i \in DOMAIN disk[k1], j \in DOMAIN disk[k2] :
                    disk[k2][j].frame < disk[k1][i].frame

\* A running writer destroys what it wrote itself in one case only: an I-frame
\* arrives that belongs to a fragment which is over.  Files that were there
\* when the writer began have no such protection.
TruncationNeedsLateFrame ==
    [][\A k \in created :
          Len(disk'[k]) < Len(disk[k]) => now >= StartOf(k) + FragmentMs]_vars

\* file.go: "Only create/rotate files on I-frames to ensure first I-frame has
\* offset 0".  As long as no write fails, every file starts with an I-frame.
FilesStartWithIFrame ==
    ~writeFailed => \A k \in DOMAIN disk :
        disk[k] # <<>> => disk[k][1].key /\ disk[k][1].pos = 1

-----------------------------------------------------------------------------
(* What a comment of the code says and the code does not always do.        *)

\* frame.go: "Byte offset in the file".  As long as no write fails, every row
\* is the offset of its I-frame in the file.
OffsetsAreInTheFile == ~writeFailed => \A r \in rows : Resolves(r)
=============================================================================
