----------------------------- MODULE ArchiveTime ----------------------------
(***************************************************************************)
(* How timestamps name archive folders and files.  Shared by the file      *)
(* writer (which file a frame is written to), the database writer (which   *)
(* row an I-frame is indexed under) and the retention purge.               *)
(*                                                                         *)
(* The code fixes 1000 milliseconds in a second and 86400 seconds in a     *)
(* day; here both are parameters, so that a small instance has several     *)
(* days.  Timestamps are milliseconds since the epoch and never negative,  *)
(* so that Go's / and % agree with \div and %.                             *)
(***************************************************************************)
EXTENDS Integers

CONSTANTS
    MsPerSecond,    \* 1000
    SecondsPerDay,  \* 86400
    FragmentMs      \* config.App.ArchiveManager.FragmentDuration

\* GetFileName divides by the whole seconds of the fragment length: a
\* fragment shorter than a second is a division by zero.
ASSUME TimeAssumption ==
    /\ MsPerSecond \in Nat \ {0}
    /\ SecondsPerDay \in Nat \ {0}
    /\ FragmentMs \in Nat
    /\ FragmentMs >= MsPerSecond

FragmentSeconds == FragmentMs \div MsPerSecond

GetFolderName(ts) == (ts \div MsPerSecond) \div SecondsPerDay

GetFileName(ts) ==
    LET secondsSinceMidnight == (ts \div MsPerSecond) % SecondsPerDay
    IN  secondsSinceMidnight - (secondsSinceMidnight % FragmentSeconds)

\* The (folder, file) pair: path of an archive file, key of an index row.
ArchiveKey(ts) == <<GetFolderName(ts), GetFileName(ts)>>

\* time.Unix(folder*86400 + file, 0), in milliseconds.
StartOf(key) == (key[1] * SecondsPerDay + key[2]) * MsPerSecond

-----------------------------------------------------------------------------
\* Two hypotheses on the configuration under which the archive is sound.

\* Files of one day end with the day: no fragment straddles midnight.
FragmentDividesDay == SecondsPerDay % FragmentSeconds = 0

\* The fragment length is a whole number of seconds.
FragmentIsWhole == FragmentMs % MsPerSecond = 0
=============================================================================
