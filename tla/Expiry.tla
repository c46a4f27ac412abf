------------------------------- MODULE Expiry -------------------------------
(***************************************************************************)
(* What a retention of some days means in time: the purge of one camera's  *)
(* archive against the clock, while its pipeline goes on recording.        *)
(*                                                                         *)
(* An I-frame is its timestamp.  It is on disk in the file, and in the     *)
(* index in the row, that the timestamp names; FrameWriter has the cases   *)
(* in which these differ.  A row is flushed some time after its frame is   *)
(* written, as late as the database is down.                               *)
(*                                                                         *)
(* The cutoff is computed with time.Duration, an int64: a long retention   *)
(* wraps.  The bound of a Duration is a parameter, in milliseconds here    *)
(* (2^63 nanoseconds, some 106751 days, in the code).                      *)
(***************************************************************************)
EXTENDS ArchiveTime, FiniteSets

CONSTANTS
    Retentions,     \* the retentions a camera may have (days), none of them 0
    DurationBound,  \* a Duration is at least -DurationBound and below it (ms)
    StartTime,      \* the clock when the service starts (ms)
    MaxTime,        \* bound on the clock (ms)
    MaxFrames       \* bound on the number of I-frames

DayMs == SecondsPerDay * MsPerSecond

\* The service is not started on the first day of the epoch.
ASSUME ExpiryAssumption ==
    /\ Retentions \subseteq Nat \ {0}
    /\ DurationBound \in Nat /\ FragmentMs < DurationBound
    /\ StartTime \in Nat /\ StartTime >= DayMs
    /\ MaxTime \in Nat
    /\ MaxFrames \in Nat

VARIABLES
    retentionDays,  \* the retention of the camera
    now,            \* wall clock (ms)
    frames,         \* number of I-frames recorded so far
    onDisk,         \* the I-frames whose file is in the camera's folder
    pending,        \* those recorded and not yet flushed to the index
    indexed,        \* those in the index
    purgePC,        \* where purgeOnce is
    started         \* when the running or the last purge began

vars == <<retentionDays, now, frames, onDisk, pending, indexed, purgePC, started>>

-----------------------------------------------------------------------------
\* The retention in milliseconds, as configured.
RetentionMs(days) == days * DayMs

\* The arithmetic of int64.
Wrap(d) == ((d + DurationBound) % (2 * DurationBound)) - DurationBound

\* Mutant of CutoffTime: the fragment is counted twice.
CutoffTimeTooLate(days, t) == t + Wrap(2 * FragmentMs - RetentionMs(days))

CutoffTime(days, t) == t + Wrap(FragmentMs - RetentionMs(days))

\* Division and remainder of Go, which round towards zero.
Quotient(a, b) == IF a >= 0 THEN a \div b ELSE -((-a) \div b)

Remainder(a, b) == a - b * Quotient(a, b)

\* Folder and second of the day of the cutoff of a purge that began at t.
Cutoff(days, t) ==
    LET cutoff == CutoffTime(days, t)
    IN  <<Quotient(cutoff, DayMs), Quotient(Remainder(cutoff, DayMs), MsPerSecond)>>

\* Mutant of RowExpires: the boundary is excluded.
RowExpiresLate(days, ts, t) ==
    LET key == ArchiveKey(ts)  cutoff == Cutoff(days, t)
    IN  key[1] < cutoff[1] \/ (key[1] = cutoff[1] /\ key[2] < cutoff[2])

\* The condition of the DELETE statement.
RowExpires(days, ts, t) ==
    LET key == ArchiveKey(ts)  cutoff == Cutoff(days, t)
    IN  key[1] < cutoff[1] \/ (key[1] = cutoff[1] /\ key[2] <= cutoff[2])

\* Mutant of FileExpires: the folder of the boundary day is removed with
\* those before it.
FileExpiresWithDay(days, ts, t) == GetFolderName(ts) <= Cutoff(days, t)[1]

\* Folders before the cutoff go as a whole.  Of the folder on the cutoff none
\* does: its files are named "<second>.bin", and a name that ParseInt does not
\* accept is passed over.
FileExpires(days, ts, t) == GetFolderName(ts) < Cutoff(days, t)[1]

ExpiredRows == {ts \in indexed : RowExpires(retentionDays, ts, started)}

ExpiredFiles == {ts \in onDisk : FileExpires(retentionDays, ts, started)}

-----------------------------------------------------------------------------
Init ==
    /\ retentionDays \in Retentions
    /\ now = StartTime
    /\ frames = 0
    /\ onDisk = {}
    /\ pending = {}
    /\ indexed = {}
    /\ purgePC = "idle"
    /\ started = StartTime

Tick ==
    /\ now < MaxTime
    /\ now' = now + 1
    /\ UNCHANGED <<retentionDays, frames, onDisk, pending, indexed, purgePC, started>>

\* Frames may be old, when they are delivered again.  A file that was removed
\* while it was open takes the frames with it that are still written to it.
Record ==
    /\ frames < MaxFrames
    /\ frames' = frames + 1
    /\ \E ts \in StartTime..now :
          /\ pending' = pending \cup {ts}
          /\ \/ onDisk' = onDisk \cup {ts}
             \/ FileExpires(retentionDays, ts, started) /\ UNCHANGED onDisk
    /\ UNCHANGED <<retentionDays, now, indexed, purgePC, started>>

\* The database writer flushes its batch, or loses it when the pipeline ends.
Flush ==
    /\ pending # {}
    /\ pending' = {}
    /\ indexed' \in {indexed, indexed \cup pending}
    /\ UNCHANGED <<retentionDays, now, frames, onDisk, purgePC, started>>

\* Mutant of BeginPurge: the retention is subtracted twice.
BeginPurgeAtCutoff ==
    /\ purgePC = "idle"
    /\ purgePC' = "rows"
    /\ started' = now - RetentionMs(retentionDays)
    /\ UNCHANGED <<retentionDays, now, frames, onDisk, pending, indexed>>

BeginPurge ==
    /\ purgePC = "idle"
    /\ purgePC' = "rows"
    /\ started' = now
    /\ UNCHANGED <<retentionDays, now, frames, onDisk, pending, indexed>>

DeleteRows ==
    /\ purgePC = "rows"
    /\ purgePC' = "files"
    /\ indexed' = indexed \ ExpiredRows
    /\ UNCHANGED <<retentionDays, now, frames, onDisk, pending, started>>

\* The error is logged, and purgeOnce goes on with the files.
DeleteRowsFails ==
    /\ purgePC = "rows"
    /\ purgePC' = "files"
    /\ UNCHANGED <<retentionDays, now, frames, onDisk, pending, indexed, started>>

DeleteFiles ==
    /\ purgePC = "files"
    /\ purgePC' = "idle"
    /\ onDisk' = onDisk \ ExpiredFiles
    /\ UNCHANGED <<retentionDays, now, frames, pending, indexed, started>>

\* Listing a folder fails, or removing some of them does.
DeleteFilesFails ==
    /\ purgePC = "files"
    /\ purgePC' = "idle"
    /\ \E kept \in SUBSET ExpiredFiles :
          /\ kept # {}
          /\ onDisk' = (onDisk \ ExpiredFiles) \cup kept
    /\ UNCHANGED <<retentionDays, now, frames, pending, indexed, started>>

Purge == BeginPurge \/ DeleteRows \/ DeleteRowsFails \/ DeleteFiles \/ DeleteFilesFails

Next == Tick \/ Record \/ Flush \/ Purge

Spec == Init /\ [][Next]_vars

-----------------------------------------------------------------------------
\* Sets of timestamps that the clock has reached, and a purge that began at
\* one of its values.
TypeOK ==
    /\ retentionDays \in Retentions
    /\ now \in Nat
    /\ frames \in 0..MaxFrames
    /\ onDisk \subseteq StartTime..now
    /\ pending \subseteq StartTime..now
    /\ indexed \subseteq StartTime..now
    /\ purgePC \in {"idle", "rows", "files"}
    /\ started \in StartTime..now

\* The retention less the fragment is a Duration: it does not wrap.
FitsDuration(days) == RetentionMs(days) - FragmentMs <= DurationBound

\* The cutoff is a fragment late and so is the comparison with it: what the
\* purge takes from the disk or the index may be younger than the retention,
\* but always by less than two fragments.  That is so up to the longest
\* Duration; of a retention that wraps nothing is kept for certain.
KeptLongEnough ==
    [][FitsDuration(retentionDays) =>
          \A ts \in (onDisk \ onDisk') \cup (indexed \ indexed') :
             started - ts > RetentionMs(retentionDays) - 2 * FragmentMs]_vars

\* A deletion that succeeds leaves nothing in the index that had reached the
\* retention less a fragment when the purge began, and nothing on disk that
\* had reached it by a whole day.
PurgeIsComplete ==
    [][LET limit == RetentionMs(retentionDays) - FragmentMs
       IN  /\ DeleteRows => \A ts \in indexed' : started - ts < limit
           /\ DeleteFiles => \A ts \in onDisk' : started - ts < limit + DayMs]_vars

\* A row whose file is gone will go with the next DELETE that succeeds,
\* however late it was flushed, however many deletions have failed, and
\* whether the retention fits or wraps: the index never names a missing file
\* for ever.
DanglingRowsExpire ==
    \A ts \in indexed \ onDisk : RowExpires(retentionDays, ts, now)
=============================================================================
