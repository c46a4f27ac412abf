----------------------------- MODULE Retention ------------------------------
(***************************************************************************)
(* The retention service: the purge goroutine with the workers it starts   *)
(* for every round, the hourly cleanup of folders nobody owns, and the map *)
(* of retentions they share with the Kafka consumer.                       *)
(*                                                                         *)
(* A camera's archive is the set of the ages, in days, of what it has on   *)
(* disk and in the index.  A retention of r days expires the ages from r   *)
(* on, up to the retention whose Duration wraps; the rest of the           *)
(* arithmetic of the cutoff is left to the module Expiry.                  *)
(*                                                                         *)
(* A retention is stored under the name its record's value gives, and a    *)
(* record without value, which deletes a key of the compacted topic, gives *)
(* none: it stores a retention of 0 under the empty name, whose folder is  *)
(* the storage path itself.                                                *)
(***************************************************************************)
EXTENDS Integers, FiniteSets

CONSTANTS
    Cameras,
    Workers,        \* the goroutines of one round (RetentionWorkers of them)
    Days,           \* retentions a camera may be configured with
    Ages,           \* ages of recordings that are told apart
    DurationBound,  \* a Duration is less than that many days
    NoName,         \* the name in an empty value, ""
    Nobody,         \* no entry, no camera
    MaxConfigs      \* bound: records of the cameras topic

ASSUME RetentionAssumption ==
    /\ Days \subseteq Nat
    /\ Ages \subseteq Nat
    /\ 0 \in Ages
    /\ DurationBound \in Nat \ {0}
    /\ NoName \notin Cameras
    /\ Nobody \notin Cameras \cup {NoName} \cup Nat
    /\ MaxConfigs \in Nat

VARIABLES
    stopping,       \* the service context is cancelled
    retentions,     \* broker.Retentions: name -> days, or Nobody
    configs,        \* number of camera records consumed
    wanted,         \* cameras some record has asked an archive for
    files,          \* camera -> ages of its recordings on disk
    rows,           \* camera -> ages of its recordings in the index
    purgePC,        \* where purge is
    visit,          \* name -> what Range of this round has done with it
    job,            \* the job purge is about to send
    workerPC,       \* where each worker is
    workerJob,      \* the job of a busy worker
    cleanupPC,      \* where cleanup is
    entries,        \* folders runCleanup has listed and not looked at yet
    victim,         \* the folder runCleanup is about to remove
    seen,           \* history: name -> retentions consumed for it
    orphans         \* history: cameras cleanup took for orphans before any
                    \* record of theirs was consumed

configVars  == <<retentions, configs, wanted, seen>>
archiveVars == <<files, rows>>
purgeVars   == <<purgePC, visit, job>>
workerVars  == <<workerPC, workerJob>>
cleanupVars == <<cleanupPC, entries, victim, orphans>>
vars == <<stopping, configVars, archiveVars, purgeVars,
          workerVars, cleanupVars>>

Names == Cameras \cup {NoName}
Job   == [camera : Names, days : Days \cup {0}]
NoJob == [camera |-> Nobody, days |-> Nobody]

Known(n) == retentions[n] # Nobody

\* The folders under StoragePath joined with a name.
FoldersOf(n) == IF n = NoName THEN Cameras ELSE {n}

\* The days in the Duration of a retention, which wraps: beyond the bound the
\* cutoff is ahead of the clock.
Span(days) == ((days + DurationBound) % (2 * DurationBound)) - DurationBound

\* Mutant of Expired: one day early.
ExpiredEarly(days, ages) == {a \in ages : a + 1 >= Span(days)}

Expired(days, ages) == {a \in ages : days = 0 \/ a >= Span(days)}

-----------------------------------------------------------------------------
\* Archives of an earlier run of the process may be there; the maps are empty.
Init ==
    /\ stopping = FALSE
    /\ retentions = [n \in Names |-> Nobody]
    /\ configs = 0
    /\ wanted = {}
    /\ files \in [Cameras -> {{}, Ages}]
    /\ rows = files
    /\ purgePC = "select"
    /\ visit = [n \in Names |-> "free"]
    /\ job = NoJob
    /\ workerPC = [w \in Workers |-> "idle"]
    /\ workerJob = [w \in Workers |-> NoJob]
    /\ cleanupPC = "select"
    /\ entries = {}
    /\ victim = Nobody
    /\ seen = [n \in Names |-> {}]
    /\ orphans = {}

-----------------------------------------------------------------------------
(* Around the retention service.                                           *)

Shutdown ==
    /\ ~stopping
    /\ stopping' = TRUE
    /\ UNCHANGED <<configVars, archiveVars, purgeVars, workerVars,
                   cleanupVars>>

\* The status code of a camera that is off, and that of one that is not.
CameraOFFStatus == 0
Statuses == {CameraOFFStatus, 1}

\* startConsuming on a record of the cameras topic: a name, a retention and a
\* status code.
Configure(n, days, status) ==
    /\ configs < MaxConfigs
    /\ configs' = configs + 1
    /\ retentions' = [retentions EXCEPT ![n] = days]
    /\ wanted' = IF status = CameraOFFStatus \/ days = 0 THEN wanted
                 ELSE wanted \cup {n}
    /\ seen' = [seen EXCEPT ![n] = @ \cup {days}]
    /\ UNCHANGED <<stopping, archiveVars, purgeVars, workerVars,
                   cleanupVars>>

\* A pipeline creates files and, some time later, index rows.  The controller
\* starts it some time after a record that asks for it, be it after a newer one
\* that does not, and stops it when it likes: the module Controller says when.
Record(c) ==
    /\ c \in wanted
    /\ \/ files' = [files EXCEPT ![c] = @ \cup {0}] /\ UNCHANGED rows
       \/ rows' = [rows EXCEPT ![c] = @ \cup {0}] /\ UNCHANGED files
    /\ UNCHANGED <<stopping, configVars, purgeVars, workerVars,
                   cleanupVars>>

-----------------------------------------------------------------------------
(* purge: one round per tick.                                              *)

\* The ticker fires: a fresh set of workers, and Range over the map.  Keys
\* stored while Range runs may or may not be visited, the others are unless
\* they are deleted before.
BeginRound ==
    /\ purgePC = "select"
    /\ purgePC' = "range"
    /\ visit' = [n \in Names |-> IF Known(n) THEN "owed" ELSE "free"]
    /\ workerPC' = [w \in Workers |-> "select"]
    /\ UNCHANGED <<stopping, configVars, archiveVars, job,
                   workerJob, cleanupVars>>

\* Mutant of Visit: the entry is not looked at.
VisitAnything(n) ==
    /\ purgePC = "range"
    /\ ~stopping
    /\ visit[n] # "done"
    /\ visit' = [visit EXCEPT ![n] = "done"]
    /\ job' = [camera |-> n, days |-> retentions[n]]
    /\ purgePC' = "send"
    /\ UNCHANGED <<stopping, configVars, archiveVars, workerVars,
                   cleanupVars>>

\* Mutant of Visit: the map is read until it is empty.
VisitAgain(n) ==
    /\ purgePC = "range"
    /\ ~stopping
    /\ Known(n)
    /\ job' = [camera |-> n, days |-> retentions[n]]
    /\ purgePC' = "send"
    /\ UNCHANGED <<stopping, configVars, archiveVars, visit,
                   workerVars, cleanupVars>>

\* The callback of Range tests the context, and then sends.
Visit(n) ==
    /\ purgePC = "range"
    /\ ~stopping
    /\ Known(n)
    /\ visit[n] # "done"
    /\ visit' = [visit EXCEPT ![n] = "done"]
    /\ job' = [camera |-> n, days |-> retentions[n]]
    /\ purgePC' = "send"
    /\ UNCHANGED <<stopping, configVars, archiveVars, workerVars,
                   cleanupVars>>

\* jobs is not buffered: a worker takes the job as purge sends it.
Send(w) ==
    /\ purgePC = "send"
    /\ workerPC[w] = "select"
    /\ workerPC' = [workerPC EXCEPT ![w] = "rows"]
    /\ workerJob' = [workerJob EXCEPT ![w] = job]
    /\ job' = NoJob
    /\ purgePC' = "range"
    /\ UNCHANGED <<stopping, configVars, archiveVars, visit,
                   cleanupVars>>

\* Range is over, or its callback found the context done: close(jobs).
EndRange ==
    /\ purgePC = "range"
    /\ stopping \/ \A n \in Names : visit[n] = "owed" => ~Known(n)
    /\ purgePC' = "join"
    /\ UNCHANGED <<stopping, configVars, archiveVars, visit, job,
                   workerVars, cleanupVars>>

\* Mutant of Join: nobody waits for the workers.
JoinAtOnce ==
    /\ purgePC = "join"
    /\ purgePC' = "select"
    /\ visit' = [n \in Names |-> "free"]
    /\ UNCHANGED <<stopping, configVars, archiveVars, job,
                   workerVars, cleanupVars>>

\* Mutant of Join: the wait group was given one worker too many.
JoinOneTooMany ==
    /\ purgePC = "join"
    /\ Cardinality({w \in Workers : workerPC[w] = "gone"})
            = Cardinality(Workers) + 1
    /\ purgePC' = "select"
    /\ visit' = [n \in Names |-> "free"]
    /\ UNCHANGED <<stopping, configVars, archiveVars, job,
                   workerVars, cleanupVars>>

\* wgWorkers.Wait.
Join ==
    /\ purgePC = "join"
    /\ \A w \in Workers : workerPC[w] = "gone"
    /\ purgePC' = "select"
    /\ visit' = [n \in Names |-> "free"]
    /\ UNCHANGED <<stopping, configVars, archiveVars, job,
                   workerVars, cleanupVars>>

StopPurge ==
    /\ purgePC = "select"
    /\ stopping
    /\ purgePC' = "done"
    /\ UNCHANGED <<stopping, configVars, archiveVars, visit, job,
                   workerVars, cleanupVars>>

-----------------------------------------------------------------------------
(* A worker, and the job it does: purgeOnce.                               *)

\* Mutant of Leave: a closed channel goes unnoticed.
LeaveOnContext(w) ==
    /\ workerPC[w] = "select"
    /\ stopping
    /\ workerPC' = [workerPC EXCEPT ![w] = "gone"]
    /\ UNCHANGED <<stopping, configVars, archiveVars, purgeVars,
                   workerJob, cleanupVars>>

\* The worker leaves when the context is done or jobs is closed.
Leave(w) ==
    /\ workerPC[w] = "select"
    /\ stopping \/ purgePC = "join"
    /\ workerPC' = [workerPC EXCEPT ![w] = "gone"]
    /\ UNCHANGED <<stopping, configVars, archiveVars, purgeVars,
                   workerJob, cleanupVars>>

\* The DELETE statement removes every row of the camera that has expired, or
\* fails.  Its error is logged, and the files are removed all the same.
PurgeRows(w) ==
    LET n == workerJob[w].camera IN
    /\ workerPC[w] = "rows"
    /\ \/ rows' = [c \in Cameras |-> IF c = n
                                     THEN rows[c] \ Expired(workerJob[w].days, rows[c])
                                     ELSE rows[c]]
       \/ UNCHANGED rows
    /\ workerPC' = [workerPC EXCEPT ![w] = "files"]
    /\ UNCHANGED <<stopping, configVars, files, purgeVars,
                   workerJob, cleanupVars>>

\* Removing files may fail for some of them.
RemoveFiles(n, days) ==
    /\ files' \in [Cameras -> SUBSET Ages]
    /\ \A c \in Cameras :
          /\ files'[c] \subseteq files[c]
          /\ c \notin FoldersOf(n) => files'[c] = files[c]
          /\ files[c] \ files'[c] \subseteq Expired(days, files[c])

\* Mutant of PurgeFiles: the entry is deleted whatever the retention is.
PurgeFilesThenForget(w) ==
    /\ workerPC[w] = "files"
    /\ RemoveFiles(workerJob[w].camera, workerJob[w].days)
    /\ workerPC' = [workerPC EXCEPT ![w] = "forget"]
    /\ UNCHANGED <<stopping, configVars, rows, purgeVars,
                   workerJob, cleanupVars>>

PurgeFiles(w) ==
    /\ workerPC[w] = "files"
    /\ RemoveFiles(workerJob[w].camera, workerJob[w].days)
    /\ IF workerJob[w].days = 0
       THEN /\ workerPC' = [workerPC EXCEPT ![w] = "forget"]
            /\ UNCHANGED workerJob
       ELSE /\ workerPC' = [workerPC EXCEPT ![w] = "select"]
            /\ workerJob' = [workerJob EXCEPT ![w] = NoJob]
    /\ UNCHANGED <<stopping, configVars, rows, purgeVars,
                   cleanupVars>>

\* Retentions.Delete, whatever the entry holds by now.
Forget(w) ==
    /\ workerPC[w] = "forget"
    /\ retentions' = [retentions EXCEPT ![workerJob[w].camera] = Nobody]
    /\ workerPC' = [workerPC EXCEPT ![w] = "select"]
    /\ workerJob' = [workerJob EXCEPT ![w] = NoJob]
    /\ UNCHANGED <<stopping, configs, wanted, seen, archiveVars,
                   purgeVars, cleanupVars>>

-----------------------------------------------------------------------------
(* cleanup.                                                                *)

\* The timer fires and the storage path is listed, or cannot be; the run is
\* not interrupted by the context.
BeginCleanup ==
    /\ cleanupPC = "select"
    /\ cleanupPC' = "scan"
    /\ entries' \in {{}, {c \in Cameras : files[c] # {}}}
    /\ UNCHANGED <<stopping, configVars, archiveVars, purgeVars,
                   workerVars, victim, orphans>>

\* The look into the map, and the removal after it, are two steps.
LookUp(c) ==
    /\ cleanupPC = "scan"
    /\ c \in entries
    /\ entries' = entries \ {c}
    /\ IF Known(c)
       THEN UNCHANGED <<cleanupPC, victim, orphans>>
       ELSE /\ cleanupPC' = "remove"
            /\ victim' = c
            /\ orphans' = IF seen[c] = {} THEN orphans \cup {c} ELSE orphans
    /\ UNCHANGED <<stopping, configVars, archiveVars, purgeVars,
                   workerVars>>

RemoveOrphan ==
    /\ cleanupPC = "remove"
    /\ \E removed \in SUBSET files[victim] :
          files' = [files EXCEPT ![victim] = @ \ removed]
    /\ cleanupPC' = "scan"
    /\ victim' = Nobody
    /\ UNCHANGED <<stopping, configVars, rows, purgeVars,
                   workerVars, entries, orphans>>

EndCleanup ==
    /\ cleanupPC = "scan"
    /\ entries = {}
    /\ cleanupPC' = "select"
    /\ UNCHANGED <<stopping, configVars, archiveVars, purgeVars,
                   workerVars, entries, victim, orphans>>

StopCleanup ==
    /\ cleanupPC = "select"
    /\ stopping
    /\ cleanupPC' = "done"
    /\ UNCHANGED <<stopping, configVars, archiveVars, purgeVars,
                   workerVars, entries, victim, orphans>>

-----------------------------------------------------------------------------
Environment ==
    \/ Shutdown
    \/ \E c \in Cameras : Record(c)
    \/ \E c \in Cameras, days \in Days, status \in Statuses :
            Configure(c, days, status)
    \/ Configure(NoName, 0, CameraOFFStatus)

Purge ==
    \/ BeginRound
    \/ \E n \in Names : Visit(n)
    \/ \E w \in Workers : Send(w)
    \/ EndRange
    \/ Join
    \/ StopPurge

Work(w) == Leave(w) \/ PurgeRows(w) \/ PurgeFiles(w) \/ Forget(w)

Cleanup ==
    \/ BeginCleanup
    \/ \E c \in Cameras : LookUp(c)
    \/ RemoveOrphan
    \/ EndCleanup
    \/ StopCleanup

Next == Environment \/ Purge \/ (\E w \in Workers : Work(w)) \/ Cleanup

Spec == Init /\ [][Next]_vars

\* The scheduler runs every goroutine, the ticker fires, the database and the
\* disk answer.  A select entered again and again with the context done takes
\* that case some day: Go chooses among ready cases at random.
Fairness ==
    /\ WF_vars(Purge)
    /\ SF_vars(StopPurge)
    /\ \A w \in Workers : WF_vars(Work(w))
    /\ WF_vars(Cleanup)
    /\ SF_vars(StopCleanup)

FairSpec == Spec /\ Fairness

-----------------------------------------------------------------------------
Busy(w) == workerPC[w] \in {"rows", "files", "forget"}

\* Every goroutine is at a place of its own code, and has a job, a victim or
\* entries exactly where that code has them.
TypeOK ==
    /\ stopping \in BOOLEAN
    /\ retentions \in [Names -> Days \cup {0, Nobody}]
    /\ configs \in 0..MaxConfigs
    /\ wanted \subseteq Cameras
    /\ files \in [Cameras -> SUBSET Ages]
    /\ rows \in [Cameras -> SUBSET Ages]
    /\ purgePC \in {"select", "range", "send", "join", "done"}
    /\ visit \in [Names -> {"free", "owed", "done"}]
    /\ job \in Job \cup {NoJob}
    /\ purgePC = "send" <=> job \in Job
    /\ workerPC \in [Workers -> {"idle", "select", "rows", "files", "forget",
                                 "gone"}]
    /\ workerJob \in [Workers -> Job \cup {NoJob}]
    /\ \A w \in Workers : Busy(w) <=> workerJob[w] \in Job
    /\ cleanupPC \in {"select", "scan", "remove", "done"}
    /\ entries \subseteq Cameras
    /\ victim \in Cameras \cup {Nobody}
    /\ cleanupPC = "remove" <=> victim \in Cameras
    /\ seen \in [Names -> SUBSET (Days \cup {0})]
    /\ orphans \subseteq Cameras

\* No entry is ever purged by two workers at once: Range visits it at most
\* once in a round, and a round begins after the workers of the last one.  (The
\* entry without name is one: its worker goes over the folders of all.)
OneWorkerPerCamera ==
    \A v, w \in Workers :
        /\ Busy(v)
        /\ Busy(w)
        /\ workerJob[v].camera = workerJob[w].camera
        => v = w

\* Between rounds, and after purge has returned, nothing is being purged:
\* main closes the database once purge has returned.
RoundsAreJoined ==
    purgePC \in {"select", "done"} => \A w \in Workers : ~Busy(w)

\* The longest retention is one that a Duration can hold.
FitsDuration(days) == days < DurationBound

\* A retention consumed for the camera expires the age.
AskedFor(c, a) == \E days \in seen[c] : days <= a

\* A retention consumed for the camera is longer than a Duration.
Overflows(c) == \E days \in seen[c] : ~FitsDuration(days)

\* However records, rounds and cleanups interleave, a recording disappears
\* from the index only if the camera was at some time configured with a
\* retention that expires it, or with one that no Duration can hold; and from
\* the disk for no other reason but two: cleanup looked for the camera before
\* its first record was consumed, or a record without value was consumed.
OnlyExpiredIsDeleted ==
    [][\A c \in Cameras :
          /\ \A a \in files[c] \ files'[c] :
                \/ AskedFor(c, a) \/ Overflows(c)
                \/ c \in orphans
                \/ seen[NoName] # {}
          /\ \A a \in rows[c] \ rows'[c] : AskedFor(c, a) \/ Overflows(c)]_vars

\* An entry is forgotten only after it was configured with no archive: the
\* cleanup finds the folder of every other consumed camera in the map.
OnlyZeroIsForgotten ==
    \A n \in Names : seen[n] # {} /\ ~Known(n) => 0 \in seen[n]

\* A camera configured with no archive is purged and forgotten in the end, or
\* configured again, as long as the service runs.
ZeroIsForgotten ==
    \A c \in Cameras : retentions[c] = 0 ~> (retentions[c] # 0 \/ stopping)

\* After a signal cleanup returns, and purge returns or hangs in the one
\* place where it can: sending a job when all workers have left.
StopsOrHangsInSend ==
    stopping ~> /\ cleanupPC = "done"
                /\ \/ purgePC = "done"
                   \/ /\ purgePC = "send"
                      /\ \A w \in Workers : workerPC[w] = "gone"

\* main.go: "Wait for all services to finish".  After a signal purge returns.
PurgeStops == stopping ~> purgePC = "done"
=============================================================================
