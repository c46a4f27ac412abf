----------------------------- MODULE Controller -----------------------------
(***************************************************************************)
(* The two maps a record of the cameras topic goes to, and the goroutines  *)
(* that share them: the consumer stores a retention and then a             *)
(* configuration; the controller goes over the configurations every five   *)
(* seconds, starts and cancels pipelines, and deletes the configuration of *)
(* a camera it has switched off; the purge forgets a retention of 0 some   *)
(* time after it has read it.                                              *)
(*                                                                         *)
(* A pipeline is only its context here: Pipeline says what it does with    *)
(* it, and Retention what the purge does with the archive.                 *)
(*                                                                         *)
(* A record is keyed by its camera.  Its value names the camera again, and *)
(* the consumer and the controller believe the value - all but the map of  *)
(* configurations, which goes by the key.  The two differ in a tombstone,  *)
(* the record without value that deletes a key of a compacted topic: it is *)
(* decoded without error to a configuration of no camera.                  *)
(***************************************************************************)
EXTENDS Naturals

CONSTANTS
    Cameras,
    Days,           \* retentions a record may carry
    NoName,         \* the name in an empty value, ""
    None,           \* no entry, no record
    MaxRecords      \* bound: records of the cameras topic

\* What the controller reads of a ProtoCamera that names a camera, and of one
\* decoded from nothing: the zero value of every field.
Config    == [camera : Cameras, on : BOOLEAN, days : Days]
Tombstone == [camera |-> NoName, on |-> FALSE, days |-> 0]
Value     == Config \cup {Tombstone}
Names     == Cameras \cup {NoName}

ASSUME ControllerAssumption ==
    /\ Days \subseteq Nat
    /\ NoName \notin Cameras
    /\ None \notin Names \cup Nat \cup Value
    /\ MaxRecords \in Nat

VARIABLES
    stopping,       \* the service context is cancelled
    records,        \* number of records consumed
    record,         \* the record whose configuration is still to be stored
    cameras,        \* broker.Cameras: key -> value, or None
    retentions,     \* broker.Retentions: name -> days, or None
    controllerPC,   \* where the controller is
    visit,          \* key -> what Range of this tick has done with it
    verdict,        \* the value the callback of Range was called with
    controlled,     \* controlledArchiveStreams: cameras with a cancel function
    live,           \* camera -> pipelines whose context is not done
    zeroJobs,       \* names whose retention of 0 the purge has read
    latest,         \* history: camera -> the last value stored
    lost,           \* history: cameras whose last configuration asked for an
                    \* archive and was deleted by a verdict on an older one
    dropped         \* history: name -> how its retention left the map:
                    \* "no", "zero" as the purge had read it, "newer"

consumerVars   == <<records, record, latest>>
controllerVars == <<controllerPC, visit, verdict, controlled>>
purgeVars      == <<zeroJobs, dropped>>
vars == <<stopping, consumerVars, cameras, retentions, controllerVars, live,
          lost, purgeVars>>

Entry   == [key : Cameras, value : Value]
NoEntry == [key |-> None, value |-> None]

\* The values a record of a camera has.
ValuesOf(c) == {value \in Value : value.camera \in {c, NoName}}

\* Neither OFF nor without retention.  Every status but OFF counts as ON.
Wants(value) == value # None /\ value.on /\ value.days # 0

-----------------------------------------------------------------------------
Init ==
    /\ stopping = FALSE
    /\ records = 0
    /\ record = NoEntry
    /\ cameras = [c \in Cameras |-> None]
    /\ retentions = [n \in Names |-> None]
    /\ controllerPC = "select"
    /\ visit = [c \in Cameras |-> "free"]
    /\ verdict = None
    /\ controlled = {}
    /\ live = [c \in Cameras |-> 0]
    /\ zeroJobs = {}
    /\ latest = [c \in Cameras |-> None]
    /\ lost = {}
    /\ dropped = [n \in Names |-> "no"]

\* The contexts of all pipelines are derived from the one of the service.
Shutdown ==
    /\ ~stopping
    /\ stopping' = TRUE
    /\ live' = [c \in Cameras |-> 0]
    /\ UNCHANGED <<consumerVars, cameras, retentions, controllerVars, lost,
                   purgeVars>>

-----------------------------------------------------------------------------
(* startConsuming on a record of the cameras topic that can be decoded;    *)
(* others change nothing.                                                  *)

\* By the name in the value: of a tombstone, 0 under no name.
StoreRetention(c, value) ==
    /\ record = NoEntry
    /\ records < MaxRecords
    /\ records' = records + 1
    /\ record' = [key |-> c, value |-> value]
    /\ retentions' = [retentions EXCEPT ![value.camera] = value.days]
    /\ dropped' = [dropped EXCEPT ![value.camera] = "no"]
    /\ UNCHANGED <<stopping, cameras, controllerVars, live, zeroJobs, latest,
                   lost>>

\* By the key: a tombstone takes the place of the configuration.
StoreCamera ==
    /\ record # NoEntry
    /\ cameras' = [cameras EXCEPT ![record.key] = record.value]
    /\ latest' = [latest EXCEPT ![record.key] = record.value]
    /\ lost' = lost \ {record.key}
    /\ record' = NoEntry
    /\ UNCHANGED <<stopping, records, retentions, controllerVars, live,
                   purgeVars>>

-----------------------------------------------------------------------------
(* The controller.                                                         *)

\* The ticker fires, and Range begins.  It visits a key at most once; one
\* that is there from the beginning is visited unless it is deleted first,
\* one that is stored meanwhile may be.
Tick ==
    /\ controllerPC = "select"
    /\ controllerPC' = "range"
    /\ visit' = [c \in Cameras |-> IF cameras[c] # None THEN "owed" ELSE "free"]
    /\ UNCHANGED <<stopping, consumerVars, cameras, retentions, verdict,
                   controlled, live, lost, purgeVars>>

\* Range loads the value, calls back, and does not look at the map again.
Visit(c) ==
    /\ controllerPC = "range"
    /\ visit[c] # "done"
    /\ cameras[c] # None
    /\ visit' = [visit EXCEPT ![c] = "done"]
    /\ verdict' = cameras[c]
    /\ controllerPC' = "verdict"
    /\ UNCHANGED <<stopping, consumerVars, cameras, retentions, controlled,
                   live, lost, purgeVars>>

\* The camera the value names is as the value wants it.  No name has a cancel
\* function: the pipeline of a camera with a tombstone is not looked for.
LeaveAlone ==
    /\ controllerPC = "verdict"
    /\ Wants(verdict) <=> verdict.camera \in controlled
    /\ controllerPC' = "range"
    /\ verdict' = None
    /\ UNCHANGED <<stopping, consumerVars, cameras, retentions, visit,
                   controlled, live, lost, purgeVars>>

\* Mutant of SwitchOff: the cancel function stays in the map.
SwitchOffKeepsCancel ==
    /\ controllerPC = "verdict"
    /\ ~Wants(verdict)
    /\ verdict.camera \in controlled
    /\ live' = [live EXCEPT ![verdict.camera] = 0]
    /\ controllerPC' = "delete"
    /\ UNCHANGED <<stopping, consumerVars, cameras, retentions, visit, verdict,
                   controlled, lost, purgeVars>>

\* archiveCancel, which does nothing the second time, and the entry of it.
SwitchOff ==
    /\ controllerPC = "verdict"
    /\ ~Wants(verdict)
    /\ verdict.camera \in controlled
    /\ live' = [live EXCEPT ![verdict.camera] = IF @ = 0 THEN 0 ELSE @ - 1]
    /\ controlled' = controlled \ {verdict.camera}
    /\ controllerPC' = "delete"
    /\ UNCHANGED <<stopping, consumerVars, cameras, retentions, visit, verdict,
                   lost, purgeVars>>

\* Mutant of DeleteCamera: the retention goes with the configuration.
DeleteCameraAndRetention ==
    LET c == verdict.camera IN
    /\ controllerPC = "delete"
    /\ cameras' = [cameras EXCEPT ![c] = None]
    /\ retentions' = [retentions EXCEPT ![c] = None]
    /\ lost' = IF Wants(cameras[c]) THEN lost \cup {c} ELSE lost
    /\ controllerPC' = "range"
    /\ verdict' = None
    /\ UNCHANGED <<stopping, consumerVars, visit, controlled, live, purgeVars>>

\* broker.Cameras.Delete, whatever the entry holds by now.
DeleteCamera ==
    LET c == verdict.camera IN
    /\ controllerPC = "delete"
    /\ cameras' = [cameras EXCEPT ![c] = None]
    /\ lost' = IF Wants(cameras[c]) THEN lost \cup {c} ELSE lost
    /\ controllerPC' = "range"
    /\ verdict' = None
    /\ UNCHANGED <<stopping, consumerVars, retentions, visit, controlled, live,
                   purgeVars>>

\* Mutant of SwitchOn: nobody asks whether the camera has a pipeline.
SwitchOnAgain ==
    /\ controllerPC = "verdict"
    /\ Wants(verdict)
    /\ controlled' = controlled \cup {verdict.camera}
    /\ live' = [live EXCEPT ![verdict.camera] = IF stopping THEN @ ELSE @ + 1]
    /\ controllerPC' = "range"
    /\ verdict' = None
    /\ UNCHANGED <<stopping, consumerVars, cameras, retentions, visit, lost,
                   purgeVars>>

\* A pipeline with a context of its own, which is done from the beginning
\* when the context of the service is.  Range goes on regardless of it.
SwitchOn ==
    /\ controllerPC = "verdict"
    /\ Wants(verdict)
    /\ verdict.camera \notin controlled
    /\ controlled' = controlled \cup {verdict.camera}
    /\ live' = [live EXCEPT ![verdict.camera] = IF stopping THEN @ ELSE @ + 1]
    /\ controllerPC' = "range"
    /\ verdict' = None
    /\ UNCHANGED <<stopping, consumerVars, cameras, retentions, visit, lost,
                   purgeVars>>

EndRange ==
    /\ controllerPC = "range"
    /\ \A c \in Cameras : visit[c] = "owed" => cameras[c] = None
    /\ controllerPC' = "select"
    /\ visit' = [c \in Cameras |-> "free"]
    /\ UNCHANGED <<stopping, consumerVars, cameras, retentions, verdict,
                   controlled, live, lost, purgeVars>>

StopController ==
    /\ controllerPC = "select"
    /\ stopping
    /\ controllerPC' = "done"
    /\ UNCHANGED <<stopping, consumerVars, cameras, retentions, visit, verdict,
                   controlled, live, lost, purgeVars>>

-----------------------------------------------------------------------------
(* The purge, as far as it changes the map of retentions.                  *)

\* Range of a purge round finds a retention of 0: a job for a worker.
TakeZeroJob(n) ==
    /\ retentions[n] = 0
    /\ n \notin zeroJobs
    /\ zeroJobs' = zeroJobs \cup {n}
    /\ UNCHANGED <<stopping, consumerVars, cameras, retentions, controllerVars,
                   live, lost, dropped>>

\* Rows and files are deleted, and Retentions.Delete is the end of purgeOnce.
Forget(n) ==
    /\ n \in zeroJobs
    /\ zeroJobs' = zeroJobs \ {n}
    /\ retentions' = [retentions EXCEPT ![n] = None]
    /\ dropped' = [dropped EXCEPT ![n] = IF retentions[n] = 0 THEN "zero"
                                         ELSE "newer"]
    /\ UNCHANGED <<stopping, consumerVars, cameras, controllerVars, live, lost>>

-----------------------------------------------------------------------------
Consume ==
    \/ \E c \in Cameras : \E value \in ValuesOf(c) : StoreRetention(c, value)
    \/ StoreCamera

Control ==
    \/ Tick
    \/ \E c \in Cameras : Visit(c)
    \/ LeaveAlone \/ SwitchOff \/ DeleteCamera \/ SwitchOn
    \/ EndRange
    \/ StopController

Purge == \E n \in Names : TakeZeroJob(n) \/ Forget(n)

Next == Shutdown \/ Consume \/ Control \/ Purge

Spec == Init /\ [][Next]_vars

\* The ticker fires and Range ends, and the consumer does not stay between
\* its two stores.  No record need ever come, and no purge.
Fairness == WF_vars(Control) /\ WF_vars(StoreCamera)

FairSpec == Spec /\ Fairness

-----------------------------------------------------------------------------
\* The controller has a value in hand exactly in the callback, one that names
\* a camera where it deletes, and the cancel function of every live pipeline,
\* of which a camera has one at most.
TypeOK ==
    /\ stopping \in BOOLEAN
    /\ records \in 0..MaxRecords
    /\ record \in Entry \cup {NoEntry}
    /\ record # NoEntry => record.value \in ValuesOf(record.key)
    /\ cameras \in [Cameras -> Value \cup {None}]
    /\ \A c \in Cameras : cameras[c] # None => cameras[c] \in ValuesOf(c)
    /\ retentions \in [Names -> Days \cup {0, None}]
    /\ controllerPC \in {"select", "range", "verdict", "delete", "done"}
    /\ visit \in [Cameras -> {"free", "owed", "done"}]
    /\ verdict \in Value \cup {None}
    /\ controllerPC \in {"verdict", "delete"} <=> verdict # None
    /\ controllerPC = "delete" => verdict.camera \in Cameras
    /\ controlled \subseteq Cameras
    /\ live \in [Cameras -> {0, 1}]
    /\ \A c \in Cameras : live[c] = 1 => c \in controlled
    /\ zeroJobs \subseteq Names
    /\ latest \in [Cameras -> Value \cup {None}]
    /\ lost \subseteq Cameras
    /\ dropped \in [Names -> {"no", "zero", "newer"}]

\* The configuration that switches the camera off is in the map or about to be.
SwitchesOffSoon(c) ==
    \/ record.key = c /\ record.value # Tombstone
    \/ cameras[c] \in Config /\ ~Wants(cameras[c])

\* However the two stores of a record interleave with ticks and purges, a
\* camera that records has a retention, so that the cleanup leaves its folder
\* alone; unless an old job of the purge has deleted a newer retention, or the
\* camera is about to be switched off, or was until a tombstone took the place
\* of the configuration that said so.
RecordingHasRetention ==
    \A c \in Cameras :
        live[c] = 1 /\ retentions[c] = None =>
            \/ dropped[c] = "newer"
            \/ dropped[c] = "zero" /\ \/ SwitchesOffSoon(c)
                                      \/ cameras[c] = Tombstone

\* When its records stop changing, a camera ends as the last one wants it:
\* without pipeline, or with one, and it stays so.  A record can be lost in one
\* way: it switches the camera on again after the controller has read the one
\* that switched it off, and before it deletes the entry.  After a tombstone,
\* which switches nothing off, the camera ends one way or the other: as the
\* controller left it.
LatestIsObeyed ==
    \A c \in Cameras :
        /\ <>[](latest[c] # Tombstone /\ ~Wants(latest[c])) => <>[](live[c] = 0)
        /\ <>[](Wants(latest[c]) /\ c \notin lost /\ ~stopping)
                => <>[](live[c] = 1)
        /\ <>[](latest[c] = Tombstone) => <>[](live[c] = 0) \/ <>[](live[c] = 1)
=============================================================================
