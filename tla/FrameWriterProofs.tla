-------------------------- MODULE FrameWriterProofs --------------------------
(***************************************************************************)
(* Safety of the archive files of one camera and of the index over them,   *)
(* for any frame size, any order and age of the frames, any lead of the    *)
(* camera's clock, any length of fragment and any number of frames,        *)
(* restarts and failed writes.                                             *)
(*                                                                         *)
(* The invariants rest on one inductive invariant.  What it adds: bytes    *)
(* and rows come from frames received so far, so that the next frame is    *)
(* younger than each of them (Numbered); as long as no write has failed,   *)
(* the writer counts the bytes of its file and that file is not empty      *)
(* (AtTheEnd); the bytes of the open file are younger than those of any    *)
(* other (YoungestIsOpen); the open file is the one its own start names    *)
(* (NamedByItsStart); and the files the running writer has left are of     *)
(* fragments that are over (LeftInTime).                                   *)
(***************************************************************************)
EXTENDS FrameWriter, ArchiveTimeProofs, FiniteSetTheorems

\* Bytes and rows are those of frames received; rows are of files on disk.
Numbered ==
    /\ \A k \in DOMAIN disk : \A i \in DOMAIN disk[k] :
          disk[k][i].frame <= frames
    /\ \A r \in rows : r.frame <= frames /\ r.file \in DOMAIN disk

AtTheEnd ==
    ~writeFailed /\ file # NoFile =>
        iFrameByteOffset = Len(disk[file]) /\ disk[file] # <<>>

YoungestIsOpen ==
    file # NoFile =>
        \A k \in DOMAIN disk \ {file} :
            \A i \in DOMAIN disk[k], j \in DOMAIN disk[file] :
                disk[k][i].frame < disk[file][j].frame

NamedByItsStart == file # NoFile => ArchiveKey(StartOf(file)) = file

LeftInTime ==
    /\ file # NoFile => file \in created
    /\ \A k \in created : k # file => now >= StartOf(k) + FragmentMs

IInv ==
    /\ TypeOK
    /\ Numbered
    /\ AtTheEnd
    /\ YoungestIsOpen
    /\ FilesHoldOneRun
    /\ NamedByItsStart
    /\ LeftInTime
    /\ IndexNamesTheFile
    /\ RowsResolveOrOverwritten
    /\ FilesStartWithIFrame
    /\ IndexedFramesAreWhole
    /\ OffsetCountsWholeFrames

-----------------------------------------------------------------------------
(* What a step does with a frame, whatever the frame.                      *)

Received == [id : {frames + 1}, timestamp : Timestamps, size : {0, FrameSize},
             isIFrame : BOOLEAN, isVideoFrame : BOOLEAN]

RowType == [frame : Nat, timestamp : Nat, offset : Nat, video : Nat,
            file : Keys, received : Nat]

\* Nothing but the number of frames changes.
Ignored == UNCHANGED <<writerVars, disk, rows, created, writeFailed>>

\* o is the writer ready for the frame, in a new file or as it was.
Ready(f, o) ==
    /\ o.file \in Keys /\ o.bytes \in Seq(Byte)
    /\ o.offset \in Nat /\ o.video \in Nat
    /\ o.start \in Nat /\ o.start = StartOf(o.file)
    /\ \/ /\ f.isIFrame
          /\ file # NoFile => IsFileRotationNeeded
          /\ o.file = ArchiveKey(f.timestamp) /\ o.bytes = <<>> /\ o.offset = 0
       \/ /\ file # NoFile /\ ~(f.isIFrame /\ IsFileRotationNeeded)
          /\ o.file = file /\ o.bytes = disk[file]
          /\ o.offset = iFrameByteOffset /\ o.start = fileStartTime

\* The file of o has n more bytes, and they are the first n of the frame.
Extends(f, o, n) ==
    /\ DOMAIN disk' = DOMAIN disk \cup {o.file}
    /\ disk'[o.file] \in Seq(Byte)
    /\ Len(disk'[o.file]) = Len(o.bytes) + n
    /\ \A i \in 1..Len(o.bytes) : disk'[o.file][i] = o.bytes[i]
    /\ \A i \in 1..n : disk'[o.file][Len(o.bytes) + i]
                         = [frame |-> frames + 1, key |-> f.isIFrame, pos |-> i]
    /\ \A k \in DOMAIN disk : k # o.file => disk'[k] = disk[k]

\* Less than the frame is written, or all of it.
Part(f, o, n) ==
    /\ n \in 0..(f.size - 1)
    /\ iFrameByteOffset' = o.offset
    /\ videoFrameCount' = o.video
    /\ writeFailed' = TRUE
    /\ rows' = rows

Whole(f, o, n) ==
    /\ n = f.size
    /\ iFrameByteOffset' = o.offset + f.size
    /\ videoFrameCount' = Counted(f, o)
    /\ writeFailed' = writeFailed
    /\ \/ f.isIFrame /\ rows' = rows \cup {Row(f, o)}
       \/ rows' = rows

Writes(f, o, n) ==
    /\ f.size = FrameSize
    /\ n \in 0..f.size
    /\ Ready(f, o)
    /\ Extends(f, o, n)
    /\ file' = o.file
    /\ fileStartTime' = o.start
    /\ created' = created \cup {o.file}
    /\ Part(f, o, n) \/ Whole(f, o, n)

LEMMA Concatenation ==
    ASSUME NEW S, NEW s \in Seq(S), NEW t \in Seq(S)
    PROVE  /\ s \o t \in Seq(S) /\ Len(s \o t) = Len(s) + Len(t)
           /\ \A i \in 1..Len(s) : (s \o t)[i] = s[i]
           /\ \A i \in 1..Len(t) : (s \o t)[Len(s) + i] = t[i]
<1>1. s \o t \in Seq(S) /\ Len(s \o t) = Len(s) + Len(t)
  OBVIOUS
<1>2. ASSUME NEW i \in 1..Len(s) PROVE (s \o t)[i] = s[i]
  OBVIOUS
<1>3. ASSUME NEW i \in 1..Len(t) PROVE (s \o t)[Len(s) + i] = t[i]
  <2>1. Len(s) + i \in 1..(Len(s) + Len(t)) /\ ~(Len(s) + i <= Len(s))
        /\ (Len(s) + i) - Len(s) = i
    OBVIOUS
  <2> QED
    BY <2>1
<1> QED
  BY <1>1, <1>2, <1>3

LEMMA FrameFields ==
    ASSUME TypeOK
    PROVE  /\ \A f \in Received :
                /\ f.id = frames + 1
                /\ f.timestamp \in Nat
                /\ f.size \in {0, FrameSize}
                /\ f.isIFrame \in BOOLEAN /\ f.isVideoFrame \in BOOLEAN
           /\ frames \in Nat /\ now \in Nat /\ FrameSize \in Nat \ {0}
<1>1. /\ frames \in Nat /\ now \in Nat
      /\ FrameSize \in Nat \ {0} /\ MaxLead \in Nat
  BY WriterAssumption DEF TypeOK
<1>2. \A ts \in Timestamps : ts \in Nat
  BY <1>1 DEF Timestamps
<1> QED
  BY <1>1, <1>2 DEF Received

LEMMA ReadyIsOpened ==
    ASSUME TypeOK, NEW f \in Received, Accepted(f)
    PROVE  Ready(f, Opened(f))
<1> USE FrameFields
<1>1. CASE Rotates(f)
  <2> DEFINE key == ArchiveKey(f.timestamp)
             o == [file |-> key, start |-> StartOf(key), bytes |-> <<>>,
                   offset |-> 0, video |-> 0]
  <2>1. Opened(f) = o
    BY <1>1 DEF Opened
  <2>2. key \in Keys /\ StartOf(key) \in Nat
    BY KeyType DEF Keys
  <2>3. f.isIFrame /\ (file # NoFile => IsFileRotationNeeded)
    BY <1>1 DEF Rotates
  <2> HIDE DEF key
  <2> QED
    BY <2>1, <2>2, <2>3 DEF Ready, key
<1>2. CASE ~Rotates(f)
  <2> DEFINE o == [file |-> file, start |-> fileStartTime, bytes |-> disk[file],
                   offset |-> iFrameByteOffset, video |-> videoFrameCount]
  <2>1. Opened(f) = o
    BY <1>2 DEF Opened
  <2>2. file # NoFile /\ ~(f.isIFrame /\ IsFileRotationNeeded)
    BY <1>2 DEF Rotates, Accepted
  <2>3. /\ file \in Keys /\ disk[file] \in Seq(Byte)
        /\ iFrameByteOffset \in Nat /\ videoFrameCount \in Nat
        /\ fileStartTime \in Nat /\ fileStartTime = StartOf(file)
    BY <2>2 DEF TypeOK
  <2> QED
    BY <2>1, <2>2, <2>3 DEF Ready
<1> QED
  BY <1>1, <1>2

LEMMA StoreExtends ==
    ASSUME TypeOK, NEW f \in Received, NEW o, Ready(f, o), NEW n \in Nat,
           Store(o.file, o.bytes \o Bytes(f, n))
    PROVE  Extends(f, o, n)
<1> DEFINE b == o.bytes  key == o.file  more == Bytes(f, n)
<1>1. b \in Seq(Byte) /\ key \in Keys
  BY DEF Ready
<1>2. \A i \in 1..n : [frame |-> f.id, key |-> f.isIFrame, pos |-> i] \in Byte
  BY FrameFields DEF Byte
<1>3. /\ more \in Seq(Byte) /\ Len(more) = n
      /\ \A i \in 1..n : more[i] = [frame |-> frames + 1, key |-> f.isIFrame,
                                    pos |-> i]
  <2>1. f.id = frames + 1
    BY FrameFields
  <2> QED
    BY <1>2, <2>1 DEF Bytes
<1>4. /\ DOMAIN disk' = DOMAIN disk \cup {key}
      /\ disk'[key] = b \o more
      /\ \A k \in DOMAIN disk : k # key => disk'[k] = disk[k]
  BY DEF Store
<1> HIDE DEF b, more, key
<1>5. /\ b \o more \in Seq(Byte) /\ Len(b \o more) = Len(b) + n
      /\ \A i \in 1..Len(b) : (b \o more)[i] = b[i]
      /\ \A i \in 1..n : (b \o more)[Len(b) + i] = more[i]
  <2>1. b \in Seq(Byte) /\ more \in Seq(Byte) /\ Len(more) = n
    BY <1>1, <1>3
  <2>2. /\ b \o more \in Seq(Byte) /\ Len(b \o more) = Len(b) + Len(more)
        /\ \A i \in 1..Len(b) : (b \o more)[i] = b[i]
        /\ \A i \in 1..Len(more) : (b \o more)[Len(b) + i] = more[i]
    BY <2>1, Concatenation
  <2> QED
    BY <2>1, <2>2
<1> QED
  BY <1>3, <1>4, <1>5 DEF Extends, b, key

LEMMA FrameStep ==
    ASSUME TypeOK, HandleFrame
    PROVE  \E f \in Received :
              /\ frames' = frames + 1
              /\ now' = now
              /\ Ignored \/ \E o, n : Writes(f, o, n)
<1>1. PICK ts \in Timestamps, isIFrame \in BOOLEAN, isVideoFrame \in BOOLEAN,
           size \in {0, FrameSize} :
         ProcessFrame(Frame(ts, isIFrame, isVideoFrame, size))
  BY DEF HandleFrame
<1> DEFINE f == Frame(ts, isIFrame, isVideoFrame, size)
<1>2. f \in Received
  BY DEF Frame, Received
<1>3. ProcessFrame(f)
  BY <1>1
<1> HIDE DEF f
<1>4. frames' = frames + 1 /\ now' = now
  BY <1>2, <1>3, FrameFields DEF ProcessFrame, Receive
<1>5. CASE Skip(f) \/ RotateFails(f)
  BY <1>2, <1>4, <1>5 DEF Skip, RotateFails, Ignored
<1>6. CASE WriteFails(f) \/ WriteFrame(f)
  <2> DEFINE o == Opened(f)
  <2>1. Accepted(f)
    BY <1>6 DEF WriteFails, WriteFrame
  <2>2. f.size = FrameSize /\ FrameSize \in Nat \ {0}
    BY <1>2, <2>1, FrameFields DEF Accepted
  <2>3. Ready(f, o)
    BY <1>2, <2>1, ReadyIsOpened
  <2> HIDE DEF o
  <2>4. PICK n \in 0..f.size :
           /\ Store(o.file, o.bytes \o Bytes(f, n))
           /\ file' = o.file /\ fileStartTime' = o.start
           /\ created' = created \cup {o.file}
           /\ Part(f, o, n) \/ Whole(f, o, n)
    <3>1. CASE WriteFails(f)
      <4>1. PICK n \in 0..(f.size - 1) : Store(o.file, o.bytes \o Bytes(f, n))
        BY <3>1 DEF WriteFails, o
      <4>2. /\ file' = o.file /\ fileStartTime' = o.start
            /\ created' = created \cup {o.file}
            /\ Part(f, o, n)
        BY <3>1, <4>1 DEF WriteFails, Part, o
      <4>3. n \in 0..f.size
        BY <2>2
      <4> QED
        BY <4>1, <4>2, <4>3
    <3>2. CASE WriteFrame(f)
      <4>1. /\ Store(o.file, o.bytes \o Bytes(f, f.size))
            /\ file' = o.file /\ fileStartTime' = o.start
            /\ created' = created \cup {o.file}
            /\ Whole(f, o, f.size)
        BY <3>2 DEF WriteFrame, Whole, o
      <4>2. f.size \in 0..f.size
        BY <2>2
      <4> QED
        BY <4>1, <4>2
    <3> QED
      BY <1>6, <3>1, <3>2
  <2>5. Extends(f, o, n)
    BY <1>2, <2>2, <2>3, <2>4, StoreExtends
  <2> QED
    BY <1>2, <1>4, <2>2, <2>3, <2>4, <2>5 DEF Writes
<1> QED
  BY <1>3, <1>5, <1>6 DEF ProcessFrame

\* The bytes of the file after a write: those it had, and the new ones.
LEMMA BytesOfFile ==
    ASSUME TypeOK, NEW f \in Received, NEW o, NEW n, Writes(f, o, n)
    PROVE  /\ n \in Nat
           /\ DOMAIN disk'[o.file] = 1..(Len(o.bytes) + n)
           /\ Len(o.bytes) \in Nat
           /\ DOMAIN o.bytes = 1..Len(o.bytes)
           /\ \A i \in DOMAIN disk'[o.file] :
                 \/ i \in DOMAIN o.bytes /\ disk'[o.file][i] = o.bytes[i]
                 \/ /\ i - Len(o.bytes) \in 1..n
                    /\ disk'[o.file][i].frame = frames + 1
                    /\ disk'[o.file][i].key = f.isIFrame
                    /\ disk'[o.file][i].pos = i - Len(o.bytes)
<1>1. n \in Nat
  BY FrameFields DEF Writes
<1>2. /\ o.bytes \in Seq(Byte) /\ disk'[o.file] \in Seq(Byte)
      /\ Len(disk'[o.file]) = Len(o.bytes) + n
      /\ \A i \in 1..Len(o.bytes) : disk'[o.file][i] = o.bytes[i]
      /\ \A i \in 1..n : disk'[o.file][Len(o.bytes) + i]
                           = [frame |-> frames + 1, key |-> f.isIFrame,
                              pos |-> i]
  BY DEF Writes, Ready, Extends
<1>3. /\ DOMAIN disk'[o.file] = 1..(Len(o.bytes) + n)
      /\ Len(o.bytes) \in Nat
      /\ DOMAIN o.bytes = 1..Len(o.bytes)
  BY <1>1, <1>2
<1>4. ASSUME NEW i \in DOMAIN disk'[o.file], i \notin DOMAIN o.bytes
      PROVE  /\ i - Len(o.bytes) \in 1..n
             /\ disk'[o.file][i].frame = frames + 1
             /\ disk'[o.file][i].key = f.isIFrame
             /\ disk'[o.file][i].pos = i - Len(o.bytes)
  <2> DEFINE j == i - Len(o.bytes)
  <2>1. j \in 1..n /\ i = Len(o.bytes) + j
    BY <1>1, <1>3, <1>4
  <2> HIDE DEF j
  <2>2. disk'[o.file][i] = [frame |-> frames + 1, key |-> f.isIFrame, pos |-> j]
    BY <1>2, <2>1
  <2> QED
    BY <2>1, <2>2 DEF j
<1> QED
  BY <1>1, <1>2, <1>3, <1>4

\* The bytes it had are none, or those of the open file.
LEMMA OldBytes ==
    ASSUME TypeOK, NEW f, NEW o, Ready(f, o), o.bytes # <<>>
    PROVE  /\ file # NoFile /\ o.file = file /\ file \in DOMAIN disk
           /\ o.bytes = disk[file] /\ o.offset = iFrameByteOffset
BY DEF Ready, TypeOK

LEMMA RowFields ==
    ASSUME TypeOK, NEW f \in Received, NEW o, Ready(f, o)
    PROVE  /\ Row(f, o) \in RowType
           /\ Row(f, o).frame = frames + 1
           /\ Row(f, o).timestamp = f.timestamp
           /\ Row(f, o).offset = o.offset
           /\ Row(f, o).file = o.file
           /\ Row(f, o).received = now
<1>1. /\ f.id = frames + 1 /\ f.timestamp \in Nat /\ frames + 1 \in Nat
      /\ now \in Nat
  BY FrameFields
<1>2. o.offset \in Nat /\ o.file \in Keys /\ o.video \in Nat
  BY DEF Ready
<1>3. Counted(f, o) \in Nat
  BY <1>2 DEF Counted
<1> QED
  BY <1>1, <1>2, <1>3 DEF Row, RowType

-----------------------------------------------------------------------------
(* The type invariant.                                                     *)

LEMMA InitType == Init => TypeOK
<1> SUFFICES ASSUME Init PROVE TypeOK
  OBVIOUS
<1>1. DOMAIN disk = {}
  BY DEF Init
<1> QED
  BY <1>1 DEF Init, TypeOK

LEMMA TypeStep == TypeOK /\ [Next]_vars => TypeOK'
<1> SUFFICES ASSUME TypeOK, [Next]_vars PROVE TypeOK'
  OBVIOUS
<1>1. CASE HandleFrame
  <2>1. PICK f \in Received :
           /\ frames' = frames + 1
           /\ now' = now
           /\ Ignored \/ \E o, n : Writes(f, o, n)
    BY <1>1, FrameStep
  <2>2. frames' \in Nat /\ now' \in Nat
    BY <2>1, FrameFields
  <2>3. CASE Ignored
    BY <2>2, <2>3 DEF TypeOK, Ignored, writerVars
  <2>4. ASSUME NEW o, NEW n, Writes(f, o, n) PROVE TypeOK'
    <3>1. /\ o.file \in Keys /\ o.bytes \in Seq(Byte)
          /\ o.offset \in Nat /\ o.video \in Nat
          /\ o.start \in Nat /\ o.start = StartOf(o.file)
      BY <2>4 DEF Writes, Ready
    <3>2. /\ file' = o.file /\ fileStartTime' = o.start
          /\ DOMAIN disk' = DOMAIN disk \cup {o.file}
          /\ disk'[o.file] \in Seq(Byte)
          /\ \A k \in DOMAIN disk : k # o.file => disk'[k] = disk[k]
      BY <2>4 DEF Writes, Extends
    <3>3. /\ file' \in Keys \cup {NoFile} /\ fileStartTime' \in Nat
          /\ DOMAIN disk' \subseteq Keys
          /\ \A k \in DOMAIN disk' : disk'[k] \in Seq(Byte)
          /\ file' \in DOMAIN disk' /\ fileStartTime' = StartOf(file')
      BY <3>1, <3>2 DEF TypeOK
    <3>4. iFrameByteOffset' \in Nat /\ videoFrameCount' \in Nat
      <4>1. o.offset + f.size \in Nat /\ Counted(f, o) \in Nat
        BY <3>1, FrameFields DEF Counted
      <4> QED
        BY <2>4, <3>1, <4>1 DEF Writes, Part, Whole
    <3>5. writeFailed' \in BOOLEAN
      <4>1. writeFailed' = TRUE \/ writeFailed' = writeFailed
        BY <2>4 DEF Writes, Part, Whole
      <4>2. writeFailed \in BOOLEAN
        BY DEF TypeOK
      <4> QED
        BY <4>1, <4>2
    <3>6. rows' \subseteq RowType
      <4>1. rows \subseteq RowType
        BY DEF TypeOK, RowType
      <4>2. Row(f, o) \in RowType
        BY <2>4, RowFields DEF Writes
      <4>3. rows' \subseteq rows \cup {Row(f, o)}
        BY <2>4 DEF Writes, Part, Whole
      <4> QED
        BY <4>1, <4>2, <4>3
    <3>7. created' \subseteq DOMAIN disk'
      BY <2>4, <3>2 DEF TypeOK, Writes
    <3> QED
      BY <2>2, <3>3, <3>4, <3>5, <3>6, <3>7 DEF TypeOK, RowType
  <2> QED
    BY <2>1, <2>3, <2>4
<1>2. CASE Restart
  BY <1>2 DEF Restart, TypeOK
<1>3. CASE Tick
  BY <1>3 DEF Tick, TypeOK, writerVars
<1>4. CASE UNCHANGED vars
  BY <1>4 DEF TypeOK, vars, writerVars
<1> QED
  BY <1>1, <1>2, <1>3, <1>4 DEF Next

\* Sizes, offsets and names are what the code can store; the open file is on
\* disk, and the start of the writer is the one its name stands for.
THEOREM TypeCorrect == Spec => []TypeOK
BY InitType, TypeStep, PTL DEF Spec

-----------------------------------------------------------------------------
(* Index and disk: one lemma for each part of the inductive invariant.     *)

\* Every step but that of a write leaves what is on disk and in the index.
LEMMA StepCases ==
    ASSUME TypeOK, [Next]_vars
    PROVE  \/ /\ UNCHANGED <<disk, rows, writeFailed>>
              /\ frames' \in {frames, frames + 1}
              /\ now' \in Nat /\ now' >= now
              /\ \/ UNCHANGED <<writerVars, created>>
                 \/ file' = NoFile /\ created' = {}
           \/ \E f \in Received : \E o, n :
                 /\ frames' = frames + 1
                 /\ now' = now
                 /\ Writes(f, o, n)
<1>1. CASE HandleFrame
  BY <1>1, FrameStep, FrameFields DEF Ignored
<1>2. CASE Restart
  BY <1>2 DEF Restart, TypeOK
<1>3. CASE Tick
  BY <1>3 DEF Tick, TypeOK
<1>4. CASE UNCHANGED vars
  BY <1>4 DEF vars, TypeOK
<1> QED
  BY <1>1, <1>2, <1>3, <1>4 DEF Next

LEMMA NumberedStep == TypeOK /\ Numbered /\ [Next]_vars => Numbered'
<1> SUFFICES ASSUME TypeOK, Numbered, [Next]_vars PROVE Numbered'
  OBVIOUS
<1>1. frames \in Nat
  BY DEF TypeOK
<1>2. ASSUME UNCHANGED <<disk, rows>>, frames' \in {frames, frames + 1}
      PROVE  Numbered'
  <2>1. \A k \in DOMAIN disk : disk[k] \in Seq(Byte)
    BY DEF TypeOK
  <2>2. \A k \in DOMAIN disk : \A j \in DOMAIN disk[k] : disk[k][j].frame \in Nat
    <3> TAKE k \in DOMAIN disk
    <3> TAKE j \in DOMAIN disk[k]
    <3>1. disk[k][j] \in Byte
      BY <2>1
    <3> QED
      BY <3>1 DEF Byte
  <2>3. \A r \in rows : r.frame \in Nat
    BY DEF TypeOK
  <2> QED
    BY <1>1, <1>2, <2>2, <2>3 DEF Numbered
<1>3. ASSUME NEW f \in Received, NEW o, NEW n, Writes(f, o, n),
             frames' = frames + 1
      PROVE  Numbered'
  <2>1. ASSUME NEW k \in DOMAIN disk', NEW j \in DOMAIN disk'[k]
        PROVE  disk'[k][j].frame <= frames + 1
    <3>1. CASE k # o.file
      <4>1. k \in DOMAIN disk /\ disk'[k] = disk[k]
        BY <1>3, <3>1 DEF Writes, Extends
      <4>2. disk[k][j] \in Byte /\ disk[k][j].frame <= frames
        BY <2>1, <4>1 DEF TypeOK, Numbered
      <4> QED
        BY <1>1, <4>1, <4>2 DEF Byte
    <3>2. CASE k = o.file /\ j \in DOMAIN o.bytes /\ disk'[k][j] = o.bytes[j]
      <4>1. o.bytes \in Seq(Byte)
        BY <1>3 DEF Writes, Ready
      <4>2. o.bytes # <<>>
        BY <3>2
      <4>3. file \in DOMAIN disk /\ o.bytes = disk[file]
        BY <1>3, <4>2, OldBytes DEF Writes
      <4>4. o.bytes[j] \in Byte /\ o.bytes[j].frame <= frames
        BY <3>2, <4>1, <4>3 DEF Numbered
      <4> QED
        BY <1>1, <3>2, <4>4 DEF Byte
    <3>3. CASE k = o.file /\ disk'[k][j].frame = frames + 1
      BY <1>1, <3>3
    <3> QED
      BY <1>3, <2>1, <3>1, <3>2, <3>3, BytesOfFile
  <2>2. ASSUME NEW r \in rows' PROVE r.frame <= frames + 1 /\ r.file \in DOMAIN disk'
    <3>1. DOMAIN disk' = DOMAIN disk \cup {o.file}
      BY <1>3 DEF Writes, Extends
    <3>2. CASE r \in rows
      BY <1>1, <3>1, <3>2 DEF Numbered, TypeOK
    <3>3. CASE r = Row(f, o)
      BY <1>1, <1>3, <3>1, <3>3, RowFields DEF Writes
    <3> QED
      BY <1>3, <3>2, <3>3 DEF Writes, Part, Whole
  <2> QED
    BY <1>3, <2>1, <2>2 DEF Numbered
<1> QED
  BY <1>2, <1>3, StepCases

LEMMA AtTheEndStep == TypeOK /\ AtTheEnd /\ [Next]_vars => AtTheEnd'
<1> SUFFICES ASSUME TypeOK, AtTheEnd, [Next]_vars PROVE AtTheEnd'
  OBVIOUS
<1>1. ASSUME UNCHANGED <<disk, writeFailed>>,
             UNCHANGED writerVars \/ file' = NoFile
      PROVE  AtTheEnd'
  BY <1>1 DEF AtTheEnd, writerVars
<1>2. ASSUME NEW f \in Received, NEW o, NEW n, Writes(f, o, n)
      PROVE  AtTheEnd'
  <2> SUFFICES ASSUME ~writeFailed'
               PROVE  iFrameByteOffset' = Len(disk'[file']) /\ disk'[file'] # <<>>
    BY DEF AtTheEnd
  <2>1. Whole(f, o, n) /\ ~writeFailed /\ file' = o.file
    BY <1>2 DEF Writes, Part, Whole
  <2>2. n = FrameSize /\ FrameSize \in Nat \ {0} /\ iFrameByteOffset' = o.offset + n
    BY <1>2, <2>1, FrameFields DEF Writes, Whole
  <2>3. o.bytes \in Seq(Byte) /\ Len(disk'[o.file]) = Len(o.bytes) + n
    BY <1>2 DEF Writes, Ready, Extends
  <2>4. o.offset = Len(o.bytes)
    <3>1. CASE o.bytes = <<>> /\ o.offset = 0
      BY <3>1
    <3>2. CASE file # NoFile /\ o.bytes = disk[file] /\ o.offset = iFrameByteOffset
      BY <2>1, <3>2 DEF AtTheEnd
    <3> QED
      BY <1>2, <3>1, <3>2 DEF Writes, Ready
  <2>5. Len(o.bytes) + n # 0 /\ Len(<<>>) = 0
    BY <2>2, <2>3
  <2> QED
    BY <2>1, <2>2, <2>3, <2>4, <2>5
<1> QED
  BY <1>1, <1>2, StepCases

LEMMA FilesStartStep ==
    TypeOK /\ AtTheEnd /\ FilesStartWithIFrame /\ [Next]_vars
        => FilesStartWithIFrame'
<1> SUFFICES ASSUME TypeOK, AtTheEnd, FilesStartWithIFrame, [Next]_vars
             PROVE  FilesStartWithIFrame'
  OBVIOUS
<1>1. CASE UNCHANGED <<disk, writeFailed>>
  BY <1>1 DEF FilesStartWithIFrame
<1>2. ASSUME NEW f \in Received, NEW o, NEW n, Writes(f, o, n)
      PROVE  FilesStartWithIFrame'
  <2> SUFFICES ASSUME ~writeFailed', NEW k \in DOMAIN disk', disk'[k] # <<>>
               PROVE  disk'[k][1].key /\ disk'[k][1].pos = 1
    BY DEF FilesStartWithIFrame
  <2>1. ~writeFailed
    BY <1>2 DEF Writes, Part, Whole
  <2>2. CASE k # o.file
    <3>1. k \in DOMAIN disk /\ disk'[k] = disk[k]
      BY <1>2, <2>2 DEF Writes, Extends
    <3> QED
      BY <2>1, <3>1 DEF FilesStartWithIFrame
  <2>3. CASE k = o.file /\ o.bytes # <<>>
    <3>1. file \in DOMAIN disk /\ o.bytes = disk[file]
      BY <1>2, <2>3, OldBytes DEF Writes
    <3>2. o.bytes \in Seq(Byte)
      BY <1>2 DEF Writes, Ready
    <3>3. 1 \in 1..Len(o.bytes)
      BY <2>3, <3>2
    <3>4. disk'[k][1] = o.bytes[1]
      BY <1>2, <2>3, <3>3 DEF Writes, Extends
    <3> QED
      BY <2>1, <2>3, <3>1, <3>4 DEF FilesStartWithIFrame
  <2>4. CASE k = o.file /\ o.bytes = <<>>
    <3>1. f.isIFrame
      <4>1. CASE f.isIFrame
        BY <4>1
      <4>2. CASE file # NoFile /\ o.bytes = disk[file]
        BY <2>1, <2>4, <4>2 DEF AtTheEnd
      <4> QED
        BY <1>2, <4>1, <4>2 DEF Writes, Ready
    <3>2. n = FrameSize /\ FrameSize \in Nat \ {0}
      BY <1>2, FrameFields DEF Writes, Part, Whole
    <3>3. 1 \in 1..n /\ Len(o.bytes) + 1 = 1
      BY <2>4, <3>2
    <3>4. disk'[k][1] = [frame |-> frames + 1, key |-> f.isIFrame, pos |-> 1]
      BY <1>2, <2>4, <3>3 DEF Writes, Extends
    <3> QED
      BY <3>1, <3>4
  <2> QED
    BY <2>2, <2>3, <2>4
<1> QED
  BY <1>1, <1>2, StepCases

\* A file that was empty, or is created anew, starts with the new frame, which
\* is younger than every row.
LEMMA EmptyIsOverwritten ==
    ASSUME TypeOK, Numbered, NEW f \in Received, NEW o, NEW n, Writes(f, o, n),
           NEW r \in rows, r.file = o.file, o.bytes = <<>>
    PROVE  Overwritten(r)'
<1>1. r.file \in DOMAIN disk'
  BY DEF Writes, Extends
<1>2. ASSUME disk'[r.file] # <<>> PROVE disk'[r.file][1].frame > r.frame
  <2>1. /\ DOMAIN disk'[o.file] = 1..n /\ n \in Nat
        /\ disk'[o.file] \in Seq(Byte)
    BY BytesOfFile DEF Writes, Extends
  <2>2. 1 \in DOMAIN disk'[o.file] /\ 1 \notin DOMAIN o.bytes
    BY <1>2, <2>1
  <2>3. disk'[o.file][1].frame = frames + 1
    BY <2>2, BytesOfFile
  <2>4. r.frame <= frames /\ r.frame \in Nat /\ frames \in Nat
    BY DEF Numbered, TypeOK
  <2> QED
    BY <2>3, <2>4
<1> QED
  BY <1>1, <1>2 DEF Overwritten

LEMMA OverwrittenStays ==
    ASSUME TypeOK, Numbered, NEW f \in Received, NEW o, NEW n, Writes(f, o, n),
           NEW r \in rows, Overwritten(r)
    PROVE  Overwritten(r)'
<1>1. CASE r.file # o.file
  BY <1>1 DEF Writes, Extends, Overwritten
<1>2. CASE r.file = o.file /\ o.bytes = <<>>
  BY <1>2, EmptyIsOverwritten
<1>3. CASE r.file = o.file /\ o.bytes # <<>>
  <2>1. o.bytes = disk[r.file] /\ o.bytes \in Seq(Byte)
    BY <1>3, OldBytes DEF Writes, Ready
  <2>2. 1 \in 1..Len(o.bytes)
    BY <1>3, <2>1
  <2>3. disk'[r.file][1] = o.bytes[1] /\ r.file \in DOMAIN disk'
    BY <1>3, <2>2 DEF Writes, Extends
  <2> QED
    BY <1>3, <2>1, <2>3 DEF Overwritten
<1> QED
  BY <1>1, <1>2, <1>3

LEMMA RowsStep ==
    TypeOK /\ Numbered /\ AtTheEnd /\ RowsResolveOrOverwritten /\ [Next]_vars
        => RowsResolveOrOverwritten'
<1> SUFFICES ASSUME TypeOK, Numbered, AtTheEnd, RowsResolveOrOverwritten,
                    [Next]_vars
             PROVE  RowsResolveOrOverwritten'
  OBVIOUS
<1>1. CASE UNCHANGED <<disk, rows, writeFailed>>
  BY <1>1 DEF RowsResolveOrOverwritten, Resolves, Overwritten
<1>2. ASSUME NEW f \in Received, NEW o, NEW n, Writes(f, o, n)
      PROVE  RowsResolveOrOverwritten'
  <2> SUFFICES ASSUME ~writeFailed', NEW r \in rows'
               PROVE  Resolves(r)' \/ Overwritten(r)'
    BY DEF RowsResolveOrOverwritten
  <2>1. Whole(f, o, n) /\ ~writeFailed /\ n = FrameSize /\ FrameSize \in Nat \ {0}
    BY <1>2, FrameFields DEF Writes, Part, Whole
  <2>2. /\ o.bytes \in Seq(Byte) /\ o.file \in DOMAIN disk'
        /\ Len(disk'[o.file]) = Len(o.bytes) + n
    BY <1>2 DEF Writes, Ready, Extends
  <2>3. CASE r \in rows /\ Overwritten(r)
    BY <1>2, <2>3, OverwrittenStays
  <2>4. CASE r \in rows /\ Resolves(r) /\ r.file # o.file
    BY <1>2, <2>4 DEF Writes, Extends, Resolves
  <2>5. CASE r \in rows /\ r.file = o.file /\ o.bytes = <<>>
    BY <1>2, <2>5, EmptyIsOverwritten
  <2>6. CASE r \in rows /\ Resolves(r) /\ r.file = o.file /\ o.bytes # <<>>
    <3>1. o.bytes = disk[r.file]
      BY <1>2, <2>6, OldBytes DEF Writes
    <3>2. r.offset \in Nat
      BY <2>6 DEF TypeOK
    <3>3. r.offset + 1 \in 1..Len(o.bytes) /\ r.offset < Len(o.bytes) + n
      BY <2>1, <2>2, <2>6, <3>1, <3>2 DEF Resolves
    <3>4. disk'[r.file][r.offset + 1] = disk[r.file][r.offset + 1]
      BY <1>2, <2>6, <3>1, <3>3 DEF Writes, Extends
    <3> QED
      BY <2>2, <2>6, <3>3, <3>4 DEF Resolves
  <2>7. CASE f.isIFrame /\ r = Row(f, o)
    <3>1. r.frame = frames + 1 /\ r.offset = o.offset /\ r.file = o.file
      BY <1>2, <2>7, RowFields DEF Writes
    <3>2. o.offset = Len(o.bytes)
      <4>1. CASE o.bytes = <<>> /\ o.offset = 0
        BY <4>1
      <4>2. CASE file # NoFile /\ o.bytes = disk[file] /\ o.offset = iFrameByteOffset
        BY <2>1, <4>2 DEF AtTheEnd
      <4> QED
        BY <1>2, <4>1, <4>2 DEF Writes, Ready
    <3>3. 1 \in 1..n /\ Len(o.bytes) < Len(o.bytes) + n
      BY <2>1, <2>2
    <3>4. f.isIFrame = TRUE
      BY <2>7, FrameFields
    <3>5. disk'[o.file][Len(o.bytes) + 1]
            = [frame |-> frames + 1, key |-> TRUE, pos |-> 1]
      BY <1>2, <3>3, <3>4 DEF Writes, Extends
    <3> QED
      BY <2>2, <3>1, <3>2, <3>3, <3>5 DEF Resolves
  <2>8. r \in rows \/ (f.isIFrame /\ r = Row(f, o))
    BY <2>1 DEF Whole
  <2> QED
    BY <2>1, <2>3, <2>4, <2>5, <2>6, <2>7, <2>8 DEF RowsResolveOrOverwritten
<1> QED
  BY <1>1, <1>2, StepCases

LEMMA WholeFramesStep ==
    TypeOK /\ Numbered /\ IndexedFramesAreWhole /\ [Next]_vars
        => IndexedFramesAreWhole'
<1> SUFFICES ASSUME TypeOK, Numbered, IndexedFramesAreWhole, [Next]_vars
             PROVE  IndexedFramesAreWhole'
  OBVIOUS
<1>1. CASE UNCHANGED <<disk, rows>>
  BY <1>1 DEF IndexedFramesAreWhole, Overwritten
<1>2. ASSUME NEW f \in Received, NEW o, NEW n, Writes(f, o, n)
      PROVE  IndexedFramesAreWhole'
  <2> DEFINE Found(r) ==
               \A i \in 1..FrameSize :
                  \E j \in 1..Len(disk'[r.file]) :
                     disk'[r.file][j] = [frame |-> r.frame, key |-> TRUE, pos |-> i]
  <2> SUFFICES ASSUME NEW r \in rows'
               PROVE  Overwritten(r)' \/ Found(r)
    BY DEF IndexedFramesAreWhole
  <2>1. /\ o.bytes \in Seq(Byte) /\ Len(o.bytes) \in Nat
        /\ Len(disk'[o.file]) = Len(o.bytes) + n /\ n \in Nat
    BY <1>2, FrameFields DEF Writes, Ready, Extends
  <2>2. CASE r \in rows /\ Overwritten(r)
    BY <1>2, <2>2, OverwrittenStays
  <2>3. CASE r \in rows /\ ~Overwritten(r) /\ r.file # o.file
    <3>1. r.file \in DOMAIN disk /\ disk'[r.file] = disk[r.file]
      BY <1>2, <2>3 DEF Numbered, Writes, Extends
    <3> QED
      BY <2>3, <3>1 DEF IndexedFramesAreWhole
  <2>4. CASE r \in rows /\ r.file = o.file /\ o.bytes = <<>>
    BY <1>2, <2>4, EmptyIsOverwritten
  <2>5. CASE r \in rows /\ ~Overwritten(r) /\ r.file = o.file /\ o.bytes # <<>>
    <3>1. o.bytes = disk[r.file]
      BY <1>2, <2>5, OldBytes DEF Writes
    <3>2. \A j \in 1..Len(o.bytes) : /\ j \in 1..Len(disk'[r.file])
                                     /\ disk'[r.file][j] = disk[r.file][j]
      BY <1>2, <2>1, <2>5, <3>1 DEF Writes, Extends
    <3> QED
      BY <2>5, <3>1, <3>2 DEF IndexedFramesAreWhole
  <2>6. CASE f.isIFrame /\ n = FrameSize /\ r = Row(f, o)
    <3> SUFFICES ASSUME NEW i \in 1..FrameSize
                 PROVE  \E j \in 1..Len(disk'[r.file]) :
                          disk'[r.file][j] = [frame |-> r.frame, key |-> TRUE,
                                              pos |-> i]
      OBVIOUS
    <3>1. r.frame = frames + 1 /\ r.file = o.file /\ f.isIFrame = TRUE
      BY <1>2, <2>6, RowFields, FrameFields DEF Writes
    <3>2. disk'[o.file][Len(o.bytes) + i]
            = [frame |-> frames + 1, key |-> TRUE, pos |-> i]
      BY <1>2, <2>6, <3>1 DEF Writes, Extends
    <3>3. Len(o.bytes) + i \in 1..Len(disk'[o.file])
      BY <2>1, <2>6
    <3> QED
      BY <3>1, <3>2, <3>3
  <2>7. r \in rows \/ (f.isIFrame /\ n = FrameSize /\ r = Row(f, o))
    BY <1>2 DEF Writes, Part, Whole
  <2> QED
    BY <2>2, <2>3, <2>4, <2>5, <2>6, <2>7
<1> QED
  BY <1>1, <1>2, StepCases

\* The places of a file where a frame that was written in full ends.
Ends(bytes) == {j \in 1..Len(bytes) : bytes[j].pos = FrameSize}

LEMMA EndsAreFinite ==
    ASSUME NEW b \in Seq(Byte)
    PROVE  IsFiniteSet(Ends(b)) /\ Cardinality(Ends(b)) \in Nat
<1>1. IsFiniteSet(1..Len(b)) /\ Ends(b) \in SUBSET (1..Len(b))
  BY FS_Interval DEF Ends
<1>2. IsFiniteSet(Ends(b))
  BY <1>1, FS_Subset
<1> QED
  BY <1>2, FS_CardinalityType

\* A frame written in full adds one end, a part of a frame none.
LEMMA EndsOfFile ==
    ASSUME TypeOK, NEW f \in Received, NEW o, NEW n, Writes(f, o, n)
    PROVE  Cardinality(Ends(disk'[o.file]))
             = IF n = FrameSize THEN Cardinality(Ends(o.bytes)) + 1
                                ELSE Cardinality(Ends(o.bytes))
<1> DEFINE new == disk'[o.file]  old == o.bytes  end == Len(old) + FrameSize
<1>1. /\ FrameSize \in Nat \ {0} /\ n \in 0..FrameSize
      /\ new \in Seq(Byte) /\ old \in Seq(Byte)
      /\ Len(old) \in Nat /\ Len(new) = Len(old) + n
  BY FrameFields DEF Writes, Ready, Extends
<1>2. /\ \A j \in 1..Len(old) : new[j] = old[j]
      /\ \A j \in 1..Len(new) : j \notin 1..Len(old) => new[j].pos = j - Len(old)
  <2>1. \A j \in 1..Len(old) : new[j] = old[j]
    BY DEF Writes, Extends
  <2>2. DOMAIN new = 1..Len(new) /\ DOMAIN old = 1..Len(old)
    BY <1>1
  <2>3. ASSUME NEW j \in 1..Len(new), j \notin 1..Len(old)
        PROVE  new[j].pos = j - Len(old)
    BY <2>2, <2>3, BytesOfFile
  <2> QED
    BY <2>1, <2>3
<1> HIDE DEF new, old
<1>3. CASE n = FrameSize
  <2>1. Ends(new) = Ends(old) \cup {end}
    <3>1. ASSUME NEW j PROVE j \in Ends(new) <=> j \in Ends(old) \/ j = end
      <4>1. CASE j \in 1..Len(old)
        BY <1>1, <1>2, <1>3, <4>1 DEF Ends
      <4>2. CASE j \in 1..Len(new) /\ j \notin 1..Len(old)
        <5>1. new[j].pos = FrameSize <=> j = end
          <6>1. new[j].pos = j - Len(old)
            BY <1>2, <4>2
          <6>2. j \in Int /\ Len(old) \in Int /\ FrameSize \in Int
            BY <1>1, <4>2
          <6> QED
            BY <6>1, <6>2
        <5> QED
          BY <4>2, <5>1 DEF Ends
      <4>3. CASE j \notin 1..Len(new)
        BY <1>1, <1>3, <4>3 DEF Ends
      <4> QED
        BY <1>1, <4>1, <4>2, <4>3
    <3> QED
      BY <3>1
  <2>2. end \notin Ends(old)
    BY <1>1 DEF Ends
  <2>3. IsFiniteSet(Ends(old))
    BY <1>1, EndsAreFinite
  <2> HIDE DEF end
  <2>4. Cardinality(Ends(old) \cup {end}) = Cardinality(Ends(old)) + 1
    BY <2>2, <2>3, FS_AddElement
  <2> QED
    BY <1>3, <2>1, <2>4 DEF new, old
<1>4. CASE n # FrameSize
  <2>1. Ends(new) = Ends(old)
    <3>1. ASSUME NEW j PROVE j \in Ends(new) <=> j \in Ends(old)
      <4>1. CASE j \in 1..Len(old)
        BY <1>1, <1>2, <4>1 DEF Ends
      <4>2. CASE j \in 1..Len(new) /\ j \notin 1..Len(old)
        <5>1. new[j].pos # FrameSize
          BY <1>1, <1>2, <1>4, <4>2
        <5> QED
          BY <4>2, <5>1 DEF Ends
      <4>3. CASE j \notin 1..Len(new) /\ j \notin 1..Len(old)
        BY <4>3 DEF Ends
      <4> QED
        BY <4>1, <4>2, <4>3
    <3> QED
      BY <3>1
  <2> QED
    BY <1>4, <2>1 DEF new, old
<1> QED
  BY <1>3, <1>4

LEMMA OffsetCountsStep ==
    TypeOK /\ OffsetCountsWholeFrames /\ [Next]_vars => OffsetCountsWholeFrames'
<1> SUFFICES ASSUME TypeOK, OffsetCountsWholeFrames, [Next]_vars
             PROVE  OffsetCountsWholeFrames'
  OBVIOUS
<1>1. ASSUME UNCHANGED disk, UNCHANGED writerVars \/ file' = NoFile
      PROVE  OffsetCountsWholeFrames'
  BY <1>1 DEF OffsetCountsWholeFrames, writerVars
<1>2. ASSUME NEW f \in Received, NEW o, NEW n, Writes(f, o, n)
      PROVE  OffsetCountsWholeFrames'
  <2> DEFINE c == Cardinality(Ends(o.bytes))
             d == Cardinality(Ends(disk'[o.file]))
  <2>1. /\ o.bytes \in Seq(Byte) /\ file' = o.file
        /\ FrameSize \in Nat \ {0} /\ n \in 0..FrameSize
    BY <1>2, FrameFields DEF Writes, Ready
  <2>2. c \in Nat
    BY <2>1, EndsAreFinite
  <2>3. o.offset = FrameSize * c
    <3>1. CASE o.bytes = <<>> /\ o.offset = 0
      <4>1. Ends(<<>>) = {}
        BY DEF Ends
      <4>2. c = 0
        BY <3>1, <4>1, FS_EmptySet
      <4> QED
        BY <2>1, <3>1, <4>2
    <3>2. CASE file # NoFile /\ o.bytes = disk[file] /\ o.offset = iFrameByteOffset
      BY <3>2 DEF OffsetCountsWholeFrames, Ends
    <3> QED
      BY <1>2, <3>1, <3>2 DEF Writes, Ready
  <2>4. d = IF n = FrameSize THEN c + 1 ELSE c
    BY <1>2, EndsOfFile
  <2>5. iFrameByteOffset' = IF n = FrameSize THEN o.offset + FrameSize ELSE o.offset
    BY <1>2, <2>1 DEF Writes, Part, Whole
  <2> HIDE DEF c, d
  <2>6. FrameSize * (c + 1) = FrameSize * c + FrameSize
    BY <2>1, <2>2
  <2>7. iFrameByteOffset' = FrameSize * d
    BY <2>3, <2>4, <2>5, <2>6
  <2> QED
    BY <2>1, <2>7 DEF OffsetCountsWholeFrames, Ends, d
<1> QED
  BY <1>1, <1>2, StepCases

-----------------------------------------------------------------------------
(* The files of different runs.                                            *)

\* The bytes that were in the file that is written are younger than those of
\* any other, and the new ones are the youngest of all.
LEMMA RunsStep ==
    TypeOK /\ Numbered /\ YoungestIsOpen /\ FilesHoldOneRun /\ [Next]_vars
        => YoungestIsOpen' /\ FilesHoldOneRun'
<1> SUFFICES ASSUME TypeOK, Numbered, YoungestIsOpen, FilesHoldOneRun,
                    [Next]_vars
             PROVE  YoungestIsOpen' /\ FilesHoldOneRun'
  OBVIOUS
<1>1. ASSUME UNCHANGED disk, UNCHANGED writerVars \/ file' = NoFile
      PROVE  YoungestIsOpen' /\ FilesHoldOneRun'
  BY <1>1 DEF YoungestIsOpen, FilesHoldOneRun, writerVars
<1>2. ASSUME NEW f \in Received, NEW o, NEW n, Writes(f, o, n)
      PROVE  YoungestIsOpen' /\ FilesHoldOneRun'
  <2> DEFINE new == disk'[o.file]
  <2>1. frames \in Nat /\ file' = o.file
    BY <1>2 DEF TypeOK, Writes
  <2>2. ASSUME NEW k \in DOMAIN disk', k # o.file
        PROVE  k \in DOMAIN disk /\ disk'[k] = disk[k]
    BY <1>2, <2>2 DEF Writes, Extends
  <2>3. ASSUME NEW k \in DOMAIN disk, NEW i \in DOMAIN disk[k]
        PROVE  disk[k][i].frame \in Nat /\ disk[k][i].frame <= frames
    <3>1. disk[k][i] \in Byte
      BY DEF TypeOK
    <3> QED
      BY <3>1 DEF Byte, Numbered
  <2>4. ASSUME NEW j \in DOMAIN new
        PROVE  \/ /\ j \in DOMAIN o.bytes /\ new[j] = o.bytes[j]
                  /\ file # NoFile /\ o.file = file /\ file \in DOMAIN disk
                  /\ o.bytes = disk[file]
               \/ /\ j \notin DOMAIN o.bytes /\ new[j].frame = frames + 1
    <3>1. CASE j \in DOMAIN o.bytes
      <4>1. o.bytes # <<>>
        BY <3>1
      <4>2. j \in 1..Len(o.bytes)
        BY <1>2, <3>1 DEF Writes, Ready
      <4>3. new[j] = o.bytes[j]
        BY <1>2, <4>2 DEF Writes, Extends
      <4> QED
        BY <1>2, <3>1, <4>1, <4>3, OldBytes DEF Writes
    <3>2. CASE j \notin DOMAIN o.bytes
      BY <1>2, <3>2, BytesOfFile
    <3> QED
      BY <3>1, <3>2
  <2>5. ASSUME NEW k \in DOMAIN disk', k # o.file,
               NEW i \in DOMAIN disk'[k], NEW j \in DOMAIN new
        PROVE  disk'[k][i].frame < new[j].frame
    <3>1. /\ k \in DOMAIN disk /\ disk'[k] = disk[k]
          /\ disk[k][i].frame \in Nat /\ disk[k][i].frame <= frames
      BY <2>2, <2>3, <2>5
    <3>2. CASE new[j].frame = frames + 1
      BY <2>1, <3>1, <3>2
    <3>3. CASE /\ j \in DOMAIN o.bytes /\ new[j] = o.bytes[j]
               /\ file # NoFile /\ o.file = file /\ o.bytes = disk[file]
      <4>1. k \in DOMAIN disk \ {file}
        BY <2>5, <3>1, <3>3
      <4>2. i \in DOMAIN disk[k] /\ j \in DOMAIN disk[file]
        BY <2>5, <3>1, <3>3
      <4>3. disk[k][i].frame < disk[file][j].frame
        BY <3>3, <4>1, <4>2 DEF YoungestIsOpen
      <4> QED
        BY <3>1, <3>3, <4>3
    <3> QED
      BY <2>4, <3>2, <3>3
  <2>6. YoungestIsOpen'
    BY <2>1, <2>5 DEF YoungestIsOpen
  <2>7. ASSUME NEW i \in DOMAIN new, NEW j \in DOMAIN new, i <= j
        PROVE  new[i].frame <= new[j].frame
    <3>1. /\ DOMAIN new \subseteq Nat /\ Len(o.bytes) \in Nat
          /\ DOMAIN o.bytes = 1..Len(o.bytes)
      <4>1. /\ DOMAIN new = 1..(Len(o.bytes) + n) /\ Len(o.bytes) \in Nat
            /\ n \in Nat /\ DOMAIN o.bytes = 1..Len(o.bytes)
        BY <1>2, BytesOfFile
      <4> QED
        BY <4>1
    <3>2. i >= 1
      <4>1. DOMAIN new = 1..(Len(o.bytes) + n) /\ n \in Nat
        BY <1>2, BytesOfFile
      <4> QED
        BY <3>1, <4>1
    <3>3. j \in DOMAIN o.bytes => i \in DOMAIN o.bytes
      <4>1. i \in Nat /\ j \in Nat
        BY <3>1
      <4> QED
        BY <2>7, <3>1, <3>2, <4>1
    <3> HIDE DEF new
    <3>4. CASE i \notin DOMAIN o.bytes
      <4>1. new[i].frame = frames + 1 /\ new[j].frame = frames + 1
        BY <2>4, <3>3, <3>4
      <4> QED
        BY <2>1, <4>1
    <3>5. CASE /\ i \in DOMAIN o.bytes /\ new[i] = o.bytes[i]
               /\ file # NoFile /\ o.file = file /\ file \in DOMAIN disk
               /\ o.bytes = disk[file]
      <4>1. new[i].frame \in Nat /\ new[i].frame <= frames
        BY <2>3, <3>5
      <4>2. CASE j \notin DOMAIN o.bytes
        BY <2>1, <2>4, <4>1, <4>2
      <4>3. CASE j \in DOMAIN o.bytes
        <5>1. new[j] = disk[file][j] /\ j \in DOMAIN disk[file]
          BY <2>4, <3>5, <4>3
        <5>2. i \in DOMAIN disk[file]
          BY <3>5
        <5>3. disk[file][i].frame <= disk[file][j].frame
          BY <2>7, <3>5, <5>1, <5>2 DEF FilesHoldOneRun
        <5> QED
          BY <3>5, <5>1, <5>3
      <4> QED
        BY <4>2, <4>3
    <3> QED
      BY <2>4, <3>4, <3>5
  <2>8. ASSUME NEW k1 \in DOMAIN disk', NEW i \in DOMAIN disk'[k1],
               NEW j \in DOMAIN disk'[k1], i <= j
        PROVE  disk'[k1][i].frame <= disk'[k1][j].frame
    <3>1. CASE k1 = o.file
      BY <2>7, <2>8, <3>1
    <3>2. CASE k1 # o.file
      BY <2>2, <2>8, <3>2 DEF FilesHoldOneRun
    <3> QED
      BY <3>1, <3>2
  <2>9. ASSUME NEW k1 \in DOMAIN disk', NEW k2 \in DOMAIN disk' \ {k1}
        PROVE  \/ \A i \in DOMAIN disk'[k1], j \in DOMAIN disk'[k2] :
                     disk'[k1][i].frame < disk'[k2][j].frame
               \/ \A i \in DOMAIN disk'[k1], j \in DOMAIN disk'[k2] :
                     disk'[k2][j].frame < disk'[k1][i].frame
    <3>1. CASE k1 = o.file
      BY <2>5, <2>9, <3>1
    <3>2. CASE k2 = o.file
      BY <2>5, <2>9, <3>2
    <3>3. CASE k1 # o.file /\ k2 # o.file
      <4>1. /\ k1 \in DOMAIN disk /\ disk'[k1] = disk[k1]
            /\ k2 \in DOMAIN disk \ {k1} /\ disk'[k2] = disk[k2]
        BY <2>2, <2>9, <3>3
      <4> QED
        BY <4>1 DEF FilesHoldOneRun
    <3> QED
      BY <3>1, <3>2, <3>3
  <2>10. FilesHoldOneRun'
    BY <2>8, <2>9 DEF FilesHoldOneRun
  <2> QED
    BY <2>6, <2>10
<1> QED
  BY <1>1, <1>2, StepCases

\* The start of a file names that file again.
LEMMA KeyOfStart ==
    ASSUME NEW ts \in Nat
    PROVE  ArchiveKey(StartOf(ArchiveKey(ts))) = ArchiveKey(ts)
<1> DEFINE n == FragmentSeconds  d == SecondsPerDay  m == MsPerSecond
           x == ts \div m  folder == x \div d  r == x % d
           g == r - (r % n)
<1>1. n \in Nat \ {0} /\ d \in Nat \ {0} /\ m \in Nat \ {0}
  BY TimeConstants
<1>2. x \in Nat
  BY <1>1, Division
<1>3. folder \in Nat /\ r \in 0..(d - 1)
  BY <1>1, <1>2, Division
<1>4. r % n \in 0..(n - 1) /\ r = n * (r \div n) + (r % n) /\ r \div n \in Nat
  <2>1. r \in Nat
    BY <1>1, <1>3
  <2> HIDE DEF r, n
  <2> QED
    BY <1>1, <2>1, Division
<1>5. ArchiveKey(ts) = <<folder, g>>
  BY DEF ArchiveKey, GetFolderName, GetFileName
<1>6. g = n * (r \div n) /\ g \in 0..(d - 1) /\ g \in Nat
  <2> HIDE DEF r
  <2>1. n * (r \div n) \in Nat
    BY <1>1, <1>4, ProductIsMonotone
  <2>2. g = n * (r \div n) /\ g <= r
    BY <1>3, <1>4, <2>1
  <2> QED
    BY <1>1, <1>3, <2>1, <2>2
<1>7. g % n = 0
  <2> DEFINE q == r \div n
  <2>1. q \in Nat /\ n \in Nat \ {0} /\ g \in Nat
    BY <1>1, <1>4, <1>6
  <2>2. g = n * q
    BY <1>6
  <2> HIDE DEF g, n, q
  <2>3. g = n * q + 0 /\ 0 \in 0..(n - 1)
    BY <2>1, <2>2
  <2> QED
    BY <2>1, <2>3, DivisionIsUnique
<1> HIDE DEF n, d, m, folder, r, g
<1>8. folder * d \in Nat /\ d * folder = folder * d
  BY <1>1, <1>3, ProductIsMonotone
<1> DEFINE y == folder * d + g
<1>9. y \in Nat
  BY <1>6, <1>8
<1>10. StartOf(ArchiveKey(ts)) = y * m
  BY <1>5 DEF StartOf, d, m
<1>11. y \div d = folder /\ y % d = g
  <2>1. y = d * folder + g
    BY <1>8
  <2> HIDE DEF y
  <2> QED
    BY <1>1, <1>3, <1>6, <1>9, <2>1, DivisionIsUnique
<1>12. (y * m) \div m = y
  <2> HIDE DEF y
  <2>1. y * m \in Nat /\ y * m = m * y + 0 /\ 0 \in 0..(m - 1)
    BY <1>1, <1>9, ProductIsMonotone
  <2> QED
    BY <1>1, <1>9, <2>1, DivisionIsUnique
<1> HIDE DEF y
<1>13. GetFolderName(y * m) = folder
  BY <1>11, <1>12 DEF GetFolderName, m, d
<1>14. GetFileName(y * m) = g
  <2>1. GetFileName(y * m) = g - (g % n)
    BY <1>11, <1>12 DEF GetFileName, m, d, n
  <2> QED
    BY <1>6, <1>7, <2>1
<1> QED
  BY <1>5, <1>10, <1>13, <1>14 DEF ArchiveKey

LEMMA NamedStep == TypeOK /\ NamedByItsStart /\ [Next]_vars => NamedByItsStart'
<1> SUFFICES ASSUME TypeOK, NamedByItsStart, [Next]_vars PROVE NamedByItsStart'
  OBVIOUS
<1>1. ASSUME UNCHANGED writerVars \/ file' = NoFile PROVE NamedByItsStart'
  BY <1>1 DEF NamedByItsStart, writerVars
<1>2. ASSUME NEW f \in Received, NEW o, NEW n, Writes(f, o, n)
      PROVE  NamedByItsStart'
  <2>1. file' = o.file
    BY <1>2 DEF Writes
  <2>2. CASE o.file = ArchiveKey(f.timestamp)
    <3>1. ArchiveKey(StartOf(o.file)) = o.file
      BY <2>2, FrameFields, KeyOfStart
    <3> QED
      BY <2>1, <3>1 DEF NamedByItsStart
  <2>3. CASE file # NoFile /\ o.file = file
    BY <2>1, <2>3 DEF NamedByItsStart
  <2> QED
    BY <1>2, <2>2, <2>3 DEF Writes, Ready
<1> QED
  BY <1>1, <1>2, StepCases

\* A running writer leaves a file only when the fragment of it is over.
LEMMA LeftStep == TypeOK /\ LeftInTime /\ [Next]_vars => LeftInTime'
<1> SUFFICES ASSUME TypeOK, LeftInTime, [Next]_vars PROVE LeftInTime'
  OBVIOUS
<1>1. /\ now \in Nat /\ FragmentMs \in Nat
      /\ \A k \in created : k \in Keys /\ StartOf(k) \in Int
  <2>1. \A k \in created : k[1] \in Nat /\ k[2] \in Nat /\ k \in Keys
    BY DEF TypeOK, Keys
  <2>2. \A k \in created : StartOf(k) \in Int
    BY <2>1, TimeConstants DEF StartOf
  <2> QED
    BY <2>1, <2>2, TimeConstants DEF TypeOK
<1>2. ASSUME now' \in Nat, now' >= now,
             \/ UNCHANGED <<writerVars, created>>
             \/ file' = NoFile /\ created' = {}
      PROVE  LeftInTime'
  BY <1>1, <1>2 DEF LeftInTime, writerVars
<1>3. ASSUME NEW f \in Received, NEW o, NEW n, Writes(f, o, n), now' = now
      PROVE  LeftInTime'
  <2>1. file' = o.file /\ created' = created \cup {o.file}
    BY <1>3 DEF Writes
  <2>2. ASSUME NEW k \in created', k # file' PROVE now >= StartOf(k) + FragmentMs
    <3>1. k \in created
      BY <2>1, <2>2
    <3>2. CASE k # file
      BY <3>1, <3>2 DEF LeftInTime
    <3>3. CASE k = file
      <4>1. file # NoFile /\ fileStartTime = StartOf(file)
        BY <1>1, <3>1, <3>3, WriterAssumption DEF TypeOK, Keys
      <4>2. IsFileRotationNeeded
        BY <1>3, <2>1, <2>2, <3>3, <4>1 DEF Writes, Ready
      <4> QED
        BY <1>1, <3>1, <3>3, <4>1, <4>2 DEF IsFileRotationNeeded
    <3> QED
      BY <3>2, <3>3
  <2> QED
    BY <1>3, <2>1, <2>2 DEF LeftInTime
<1> QED
  BY <1>2, <1>3, StepCases

\* The I-frame of a row that is not misplaced by its age or its clock is in the
\* file that its timestamp names, or within a fragment of it.
LEMMA IndexNamesStep ==
    TypeOK /\ NamedByItsStart /\ IndexNamesTheFile /\ [Next]_vars
        => IndexNamesTheFile'
<1> SUFFICES ASSUME TypeOK, NamedByItsStart, IndexNamesTheFile, [Next]_vars
             PROVE  IndexNamesTheFile'
  OBVIOUS
<1> DEFINE Placed(r) ==
             LET named == ArchiveKey(r.timestamp)
             IN  \/ r.file = named
                 \/ r.timestamp < StartOf(r.file)
                 \/ r.timestamp > r.received
                 \/ /\ ~(FragmentDividesDay /\ FragmentIsWhole)
                    /\ StartOf(named) < StartOf(r.file) + FragmentMs
                    /\ StartOf(r.file) < StartOf(named) + FragmentMs
<1>1. ASSUME NEW f \in Received, NEW o, NEW n, Writes(f, o, n), f.isIFrame
      PROVE  Placed(Row(f, o))
  <2> DEFINE ts == f.timestamp  s == StartOf(o.file)  named == ArchiveKey(ts)
  <2>1. /\ Row(f, o).timestamp = ts /\ Row(f, o).file = o.file
        /\ Row(f, o).received = now
    BY <1>1, RowFields DEF Writes
  <2>2. ts \in Nat /\ now \in Nat
    BY FrameFields
  <2>3. s \in Nat
    BY <1>1 DEF Writes, Ready
  <2>4. CASE /\ file # NoFile /\ ~IsFileRotationNeeded /\ o.file = file
             /\ s <= ts /\ ts <= now
    <3>1. now < s + FragmentMs
      <4>1. fileStartTime = s
        BY <2>4 DEF TypeOK
      <4> QED
        BY <2>2, <2>3, <2>4, <4>1, TimeConstants DEF IsFileRotationNeeded
    <3>2. ArchiveKey(s) = o.file
      BY <2>4 DEF NamedByItsStart
    <3>3. ASSUME FragmentDividesDay, FragmentIsWhole PROVE o.file = named
      <4>1. StartOf(ArchiveKey(s)) = s
        BY <3>2
      <4> HIDE DEF s, ts
      <4>2. ts < StartOf(ArchiveKey(s)) + FragmentMs
        BY <2>2, <2>3, <2>4, <3>1, <4>1, TimeConstants
      <4>3. ArchiveKey(ts) = ArchiveKey(s)
        BY <2>2, <2>3, <2>4, <3>3, <4>2, KeyIsStable
      <4> QED
        BY <3>2, <4>3
    <3>4. StartOf(named) < s + FragmentMs /\ s < StartOf(named) + FragmentMs
      <4> DEFINE K == StartOf(named)
      <4>1. K \in Nat /\ K = StartSecond(ts) * MsPerSecond
        BY <2>2, KeyType
      <4>2. StartSecond(ts) * MsPerSecond <= ts
            /\ ts < StartSecond(ts) * MsPerSecond + FragmentMs
        BY <2>2, StartSecondBounds
      <4>3. K <= ts /\ ts < K + FragmentMs
        BY <4>1, <4>2
      <4> HIDE DEF K, s, ts
      <4> QED
        BY <2>2, <2>3, <2>4, <3>1, <4>1, <4>3, TimeConstants DEF K
    <3> QED
      BY <2>1, <3>3, <3>4
  <2>5. CASE ~(s <= ts /\ ts <= now)
    <3>1. ts < s \/ ts > now
      BY <2>2, <2>3, <2>5
    <3> QED
      BY <2>1, <3>1
  <2>6. CASE o.file = named
    BY <2>1, <2>6
  <2> QED
    BY <1>1, <2>4, <2>5, <2>6 DEF Writes, Ready
<1>2. ASSUME NEW f \in Received, NEW o, NEW n, Writes(f, o, n)
      PROVE  IndexNamesTheFile'
  <2> SUFFICES ASSUME NEW r \in rows' PROVE Placed(r)
    BY DEF IndexNamesTheFile
  <2>1. CASE r \in rows
    BY <2>1 DEF IndexNamesTheFile
  <2>2. CASE f.isIFrame /\ r = Row(f, o)
    BY <1>1, <1>2, <2>2
  <2> QED
    BY <1>2, <2>1, <2>2 DEF Writes, Part, Whole
<1>3. CASE UNCHANGED rows
  BY <1>3 DEF IndexNamesTheFile
<1> QED
  BY <1>2, <1>3, StepCases

-----------------------------------------------------------------------------
\* The inductive invariant holds in every state the writer reaches.
THEOREM InvariantHolds == Spec => []IInv
<1>1. Init => IInv
  <2> SUFFICES ASSUME Init PROVE IInv
    OBVIOUS
  <2>1. DOMAIN disk = {} /\ rows = {} /\ file = NoFile
    BY DEF Init
  <2> QED
    BY <2>1, InitType DEF IInv, Init, Numbered, AtTheEnd, YoungestIsOpen,
       FilesHoldOneRun, NamedByItsStart, LeftInTime, IndexNamesTheFile,
       RowsResolveOrOverwritten, FilesStartWithIFrame, IndexedFramesAreWhole,
       OffsetCountsWholeFrames
<1>2. IInv /\ [Next]_vars => IInv'
  BY TypeStep, NumberedStep, AtTheEndStep, RunsStep, NamedStep, LeftStep,
     IndexNamesStep, RowsStep, FilesStartStep, WholeFramesStep, OffsetCountsStep DEF IInv
<1> QED
  BY <1>1, <1>2, PTL DEF Spec

\* As long as no write fails, an I-frame in the index is found at its offset, or
\* its file has been truncated since, whatever the restarts and the clocks.
THEOREM RowsResolve == Spec => []RowsResolveOrOverwritten
BY InvariantHolds, PTL DEF IInv

\* As long as no write fails, every archive file begins with an I-frame.
THEOREM FilesStart == Spec => []FilesStartWithIFrame
BY InvariantHolds, PTL DEF IInv

\* Also when writes fail half way, no row is sent for an I-frame that is not on
\* disk in full, unless its file was truncated after that.
THEOREM IndexedAreWhole == Spec => []IndexedFramesAreWhole
BY InvariantHolds, PTL DEF IInv

\* The offset of the writer counts the frames written in full and no others.
THEOREM OffsetCounts == Spec => []OffsetCountsWholeFrames
BY InvariantHolds, PTL DEF IInv

\* However often frames are delivered again and writers begin anew, a file holds
\* frames received one after the other, none of another file between them.
THEOREM FilesHoldRuns == Spec => []FilesHoldOneRun
BY InvariantHolds, PTL DEF IInv

\* For any fragment length, any clock and any order of the frames: an I-frame is
\* indexed under a file other than its own in the three cases the property
\* lists, and in no other.
THEOREM IndexNames == Spec => []IndexNamesTheFile
BY InvariantHolds, PTL DEF IInv

\* A running writer truncates a file it created itself only after the fragment
\* of that file is over.
THEOREM TruncationIsLate == Spec => TruncationNeedsLateFrame
<1> DEFINE A == \A k \in created :
                   Len(disk'[k]) < Len(disk[k]) => now >= StartOf(k) + FragmentMs
<1>1. IInv /\ [Next]_vars => A
  <2> SUFFICES ASSUME IInv, [Next]_vars,
                      NEW k \in created, Len(disk'[k]) < Len(disk[k])
               PROVE  now >= StartOf(k) + FragmentMs
    OBVIOUS
  <2>0. TypeOK /\ LeftInTime
    BY DEF IInv
  <2>1. k \in DOMAIN disk /\ k \in Keys /\ disk[k] \in Seq(Byte)
        /\ Len(disk[k]) \in Nat
    BY <2>0 DEF TypeOK
  <2>2. CASE k # file
    BY <2>0, <2>2 DEF LeftInTime
  <2>3. CASE k = file
    <3>1. file # NoFile /\ fileStartTime = StartOf(k)
      BY <2>0, <2>1, <2>3, WriterAssumption DEF TypeOK, Keys
    <3>2. disk' # disk
      BY <2>1
    <3>3. PICK f \in Received : \E o, n : Writes(f, o, n)
      BY <2>0, <3>2, StepCases
    <3>4. PICK o, n : Writes(f, o, n)
      BY <3>3
    <3>5. k = o.file
      BY <2>1, <3>4 DEF Writes, Extends
    <3>6. CASE o.bytes = disk[file]
      <4>1. n \in Nat
        BY <2>0, <3>4, BytesOfFile
      <4>2. Len(disk'[o.file]) = Len(o.bytes) + n
        BY <3>4 DEF Writes, Extends
      <4>3. Len(disk'[k]) = Len(disk[k]) + n
        BY <2>3, <3>5, <3>6, <4>2
      <4> DEFINE a == Len(disk[k])  b == Len(disk'[k])
      <4>4. a \in Nat /\ b = a + n /\ b < a
        BY <2>1, <4>3
      <4> HIDE DEF a, b
      <4> QED
        BY <4>1, <4>4
    <3>7. CASE IsFileRotationNeeded
      <4>1. now \in Nat /\ fileStartTime \in Nat
        BY <2>0 DEF TypeOK
      <4> QED
        BY <3>1, <3>7, <4>1, TimeConstants DEF IsFileRotationNeeded
    <3> QED
      BY <3>1, <3>4, <3>6, <3>7 DEF Writes, Ready
  <2> QED
    BY <2>2, <2>3
<1> QED
  BY <1>1, InvariantHolds, PTL DEF Spec, TruncationNeedsLateFrame
=============================================================================
