-------------------------- MODULE RetentionProofs ---------------------------
(***************************************************************************)
(* Safety of the retention service, for any cameras, any number of workers *)
(* and any retentions.                                                     *)
(*                                                                         *)
(* The inductive invariant has two halves.  PoolInv is about one round:    *)
(* what Range has handed out and who works on it.  HistoryInv is about the *)
(* retentions: everything a worker or cleanup acts on goes back to records *)
(* that were consumed.                                                     *)
(***************************************************************************)
EXTENDS Retention, TLAPS

\* A camera that is being sent or purged was visited in this round, and is
\* not both.
HandedOutOnce ==
    /\ job \in Job => visit[job.camera] = "done"
    /\ \A w \in Workers : Busy(w) =>
          /\ visit[workerJob[w].camera] = "done"
          /\ job \in Job => job.camera # workerJob[w].camera

\* Outside rounds there are no workers.
NoWorkersOutsideRounds ==
    purgePC \in {"select", "done"} =>
        \A w \in Workers : workerPC[w] \in {"idle", "gone"}

\* Only a retention of 0 leads to Retentions.Delete.
ForgetsZero ==
    \A w \in Workers : workerPC[w] = "forget" => workerJob[w].days = 0

PoolInv ==
    /\ HandedOutOnce
    /\ OneWorkerPerCamera
    /\ NoWorkersOutsideRounds
    /\ ForgetsZero

\* Every retention that is stored, sent or worked with was consumed.
RetentionsWereSeen ==
    /\ \A n \in Names : Known(n) => retentions[n] \in seen[n]
    /\ job \in Job => job.days \in seen[job.camera]
    /\ \A w \in Workers :
          Busy(w) => workerJob[w].days \in seen[workerJob[w].camera]

\* What cleanup is about to remove was an orphan, or a camera without archive.
VictimIsOrphan ==
    victim \in Cameras => victim \in orphans \/ 0 \in seen[victim]

HistoryInv ==
    /\ RetentionsWereSeen
    /\ OnlyZeroIsForgotten
    /\ VictimIsOrphan

IInv == PoolInv /\ HistoryInv

\* The steps that leave the pool alone.
PoolStays == UNCHANGED <<purgeVars, workerVars>>

-----------------------------------------------------------------------------
\* The fields of a job, and that no job is none.
LEMMA JobFields ==
    /\ NoJob \notin Job
    /\ \A n \in Names, days \in Days \cup {0} :
          /\ [camera |-> n, days |-> days] \in Job
          /\ [camera |-> n, days |-> days].camera = n
          /\ [camera |-> n, days |-> days].days = days
    /\ \A j \in Job : /\ j.camera \in Names
                      /\ j.days \in Days \cup {0}
                      /\ j.days \in Nat
<1>1. NoJob \notin Job
  <2>1. NoJob.camera = Nobody /\ Nobody \notin Names
    BY RetentionAssumption DEF NoJob, Names
  <2>2. \A j \in Job : j.camera \in Names
    BY DEF Job
  <2> QED
    BY <2>1, <2>2
<1>2. \A n \in Names, days \in Days \cup {0} :
         /\ [camera |-> n, days |-> days] \in Job
         /\ [camera |-> n, days |-> days].camera = n
         /\ [camera |-> n, days |-> days].days = days
  BY DEF Job
<1>3. \A j \in Job : /\ j.camera \in Names
                     /\ j.days \in Days \cup {0}
                     /\ j.days \in Nat
  BY RetentionAssumption DEF Job
<1> QED
  BY <1>1, <1>2, <1>3

\* What a record stores, and under which name.
LEMMA RecordFields ==
    /\ NoName \in Names /\ NoName \notin Cameras
    /\ \A c \in Cameras : c \in Names
    /\ \A days \in Days \cup {0} : days \in Nat /\ days # Nobody
BY RetentionAssumption DEF Names

\* Every step is one of purge or of a worker, or leaves the pool alone.
LEMMA PoolSteps ==
    [Next]_vars => \/ PoolStays
                   \/ BeginRound \/ EndRange \/ Join \/ StopPurge
                   \/ \E n \in Names : Visit(n)
                   \/ \E w \in Workers : Send(w) \/ Work(w)
BY DEF Next, Environment, Purge, Cleanup, PoolStays, vars, Shutdown,
   Record, Configure, BeginCleanup, LookUp, RemoveOrphan, EndCleanup,
   StopCleanup

LEMMA InitType == Init => TypeOK
<1> SUFFICES ASSUME Init PROVE TypeOK
  OBVIOUS
<1>1. files \in [Cameras -> SUBSET Ages] /\ rows \in [Cameras -> SUBSET Ages]
  BY DEF Init
<1>2. /\ retentions \in [Names -> Days \cup {0, Nobody}]
      /\ visit \in [Names -> {"free", "owed", "done"}]
      /\ seen \in [Names -> SUBSET (Days \cup {0})]
  BY DEF Init
<1>3. /\ job \in Job \cup {NoJob}
      /\ purgePC = "send" <=> job \in Job
      /\ workerJob \in [Workers -> Job \cup {NoJob}]
      /\ \A w \in Workers : Busy(w) <=> workerJob[w] \in Job
  BY JobFields DEF Init, Busy
<1>4. configs \in 0..MaxConfigs
  BY RetentionAssumption DEF Init
<1>5. cleanupPC = "remove" <=> victim \in Cameras
  BY RetentionAssumption DEF Init
<1> QED
  BY <1>1, <1>2, <1>3, <1>4, <1>5 DEF Init, TypeOK

LEMMA TypeStep == TypeOK /\ NoWorkersOutsideRounds /\ [Next]_vars => TypeOK'
<1> SUFFICES ASSUME TypeOK, NoWorkersOutsideRounds, [Next]_vars PROVE TypeOK'
  OBVIOUS
<1> USE RetentionAssumption, JobFields
<1>1. CASE Shutdown
  BY <1>1 DEF TypeOK, Busy, Shutdown, configVars, archiveVars, purgeVars,
      workerVars, cleanupVars
<1>2. ASSUME NEW n \in Names, NEW days \in Days \cup {0}, NEW status \in Statuses,
             n \in Cameras \/ status = CameraOFFStatus,
             Configure(n, days, status)
      PROVE  TypeOK'
  <2>1. /\ retentions' \in [Names -> Days \cup {0, Nobody}]
        /\ seen' \in [Names -> SUBSET (Days \cup {0})]
        /\ wanted' \subseteq Cameras
        /\ configs' \in 0..MaxConfigs
    BY <1>2 DEF TypeOK, Configure
  <2> QED
    BY <1>2, <2>1 DEF TypeOK, Busy, Configure, archiveVars, purgeVars,
       workerVars, cleanupVars
<1>3. ASSUME NEW c \in Cameras, NEW days \in Days, NEW status \in Statuses,
             Configure(c, days, status)
      PROVE  TypeOK'
  <2>1. c \in Names /\ days \in Days \cup {0}
    BY RecordFields
  <2> QED
    BY <1>2, <1>3, <2>1
<1>3a. CASE Configure(NoName, 0, CameraOFFStatus)
  <2>1. NoName \in Names /\ 0 \in Days \cup {0}
        /\ CameraOFFStatus \in Statuses
    BY RecordFields DEF Statuses
  <2> QED
    BY <1>2, <1>3a, <2>1
<1>4. ASSUME NEW c \in Cameras, Record(c) PROVE TypeOK'
  BY <1>4 DEF TypeOK, Busy, Record, configVars, archiveVars, purgeVars,
      workerVars, cleanupVars
<1>5. CASE BeginRound
  <2>1. visit' \in [Names -> {"free", "owed", "done"}]
    BY <1>5 DEF BeginRound
  <2>2. /\ workerPC' = [w \in Workers |-> "select"]
        /\ workerJob' = workerJob
        /\ job' = job
        /\ purgePC = "select" /\ purgePC' = "range"
    BY <1>5 DEF BeginRound
  <2>3. \A w \in Workers : Busy(w)' <=> workerJob'[w] \in Job
    BY <2>2 DEF TypeOK, NoWorkersOutsideRounds, Busy
  <2> QED
    BY <1>5, <2>1, <2>2, <2>3 DEF TypeOK, BeginRound, configVars, archiveVars,
        cleanupVars
<1>6. ASSUME NEW n \in Names, Visit(n) PROVE TypeOK'
  <2>1. job' \in Job
    BY <1>6 DEF Visit, Known, TypeOK
  <2>2. visit' \in [Names -> {"free", "owed", "done"}]
    BY <1>6 DEF Visit, TypeOK
  <2> QED
    BY <1>6, <2>1, <2>2 DEF TypeOK, Busy, Visit, configVars, archiveVars,
        workerVars, cleanupVars
<1>7. ASSUME NEW w \in Workers, Send(w) PROVE TypeOK'
  BY <1>7 DEF TypeOK, Busy, Send, configVars, archiveVars, purgeVars,
      workerVars, cleanupVars
<1>8. CASE EndRange
  BY <1>8 DEF TypeOK, Busy, EndRange, configVars, archiveVars, purgeVars,
      workerVars, cleanupVars
<1>9. CASE Join
  BY <1>9 DEF TypeOK, Busy, Join, configVars, archiveVars, purgeVars,
      workerVars, cleanupVars
<1>10. CASE StopPurge
  BY <1>10 DEF TypeOK, Busy, StopPurge, configVars, archiveVars, purgeVars,
      workerVars, cleanupVars
<1>11. ASSUME NEW w \in Workers, Leave(w) PROVE TypeOK'
  BY <1>11 DEF TypeOK, Busy, Leave, configVars, archiveVars, purgeVars,
      workerVars, cleanupVars
<1>12. ASSUME NEW w \in Workers, PurgeRows(w) PROVE TypeOK'
  <2>1. rows' \in [Cameras -> SUBSET Ages]
    BY <1>12 DEF TypeOK, PurgeRows
  <2> QED
    BY <1>12, <2>1 DEF TypeOK, Busy, PurgeRows, configVars, purgeVars,
       cleanupVars
<1>13. ASSUME NEW w \in Workers, PurgeFiles(w) PROVE TypeOK'
  <2>1. files' \in [Cameras -> SUBSET Ages]
    BY <1>13 DEF PurgeFiles, RemoveFiles
  <2> QED
    BY <1>13, <2>1 DEF TypeOK, Busy, PurgeFiles, configVars, purgeVars,
       cleanupVars
<1>14. ASSUME NEW w \in Workers, Forget(w) PROVE TypeOK'
  BY <1>14 DEF TypeOK, Busy, Forget, configVars, archiveVars, purgeVars,
      workerVars, cleanupVars
<1>15. CASE BeginCleanup
  BY <1>15 DEF TypeOK, Busy, BeginCleanup, configVars, archiveVars, purgeVars,
      workerVars, cleanupVars
<1>16. ASSUME NEW c \in Cameras, LookUp(c) PROVE TypeOK'
  BY <1>16 DEF TypeOK, Busy, LookUp, configVars, archiveVars, purgeVars,
      workerVars, cleanupVars
<1>17. CASE RemoveOrphan
  BY <1>17 DEF TypeOK, Busy, RemoveOrphan, configVars, archiveVars, purgeVars,
      workerVars, cleanupVars
<1>18. CASE EndCleanup
  BY <1>18 DEF TypeOK, Busy, EndCleanup, configVars, archiveVars, purgeVars,
      workerVars, cleanupVars
<1>19. CASE StopCleanup
  BY <1>19 DEF TypeOK, Busy, StopCleanup, configVars, archiveVars, purgeVars,
      workerVars, cleanupVars
<1>20. CASE UNCHANGED vars
  BY <1>20 DEF TypeOK, Busy, vars, configVars, archiveVars, purgeVars,
      workerVars, cleanupVars
<1> QED
  BY <1>1, <1>3, <1>3a, <1>4, <1>5, <1>6, <1>7, <1>8, <1>9, <1>10,
     <1>11, <1>12, <1>13, <1>14, <1>15, <1>16, <1>17, <1>18, <1>19, <1>20
  DEF Next, Environment, Purge, Work, Cleanup

\* Workers come with a round and are gone when purge waits for the next.
LEMMA RoundStep ==
    TypeOK /\ NoWorkersOutsideRounds /\ [Next]_vars => NoWorkersOutsideRounds'
<1> SUFFICES ASSUME TypeOK, NoWorkersOutsideRounds, [Next]_vars
             PROVE  NoWorkersOutsideRounds'
  OBVIOUS
<1>1. CASE PoolStays
  BY <1>1 DEF PoolStays, purgeVars, workerVars, NoWorkersOutsideRounds
<1>2. CASE BeginRound \/ EndRange
  BY <1>2 DEF BeginRound, EndRange, NoWorkersOutsideRounds
<1>3. CASE \E n \in Names : Visit(n)
  BY <1>3 DEF Visit, NoWorkersOutsideRounds
<1>4. CASE \E w \in Workers : Send(w)
  BY <1>4 DEF Send, NoWorkersOutsideRounds
<1>5. CASE Join \/ StopPurge
  BY <1>5 DEF Join, StopPurge, workerVars, NoWorkersOutsideRounds
<1>6. ASSUME NEW w \in Workers, Work(w) PROVE NoWorkersOutsideRounds'
  BY <1>6 DEF Work, Leave, PurgeRows, PurgeFiles, Forget, purgeVars, TypeOK,
      NoWorkersOutsideRounds
<1> QED
  BY <1>1, <1>2, <1>3, <1>4, <1>5, <1>6, PoolSteps

\* The maps, sets, program counters and jobs of the retention service keep
\* their types whatever the cameras, workers and retentions are.
THEOREM TypeCorrect == Spec => []TypeOK
<1>1. Init => TypeOK /\ NoWorkersOutsideRounds
  BY InitType DEF Init, NoWorkersOutsideRounds
<1>2. TypeOK /\ NoWorkersOutsideRounds /\ [Next]_vars
      => (TypeOK /\ NoWorkersOutsideRounds)'
  BY TypeStep, RoundStep
<1> QED
  BY <1>1, <1>2, PTL DEF Spec

-----------------------------------------------------------------------------
LEMMA InitInv == Init => IInv
<1> SUFFICES ASSUME Init PROVE IInv
  OBVIOUS
<1>1. job \notin Job /\ \A w \in Workers : ~Busy(w) /\ workerPC[w] = "idle"
  BY JobFields DEF Init, Busy
<1>2. /\ \A n \in Names : ~Known(n) /\ seen[n] = {}
      /\ seen[NoName] = {}
  BY RecordFields DEF Init, Known
<1>3. victim \notin Cameras
  BY RetentionAssumption DEF Init
<1> QED
  BY <1>1, <1>2, <1>3 DEF IInv, PoolInv, HandedOutOnce, OneWorkerPerCamera,
     NoWorkersOutsideRounds, ForgetsZero, HistoryInv, RetentionsWereSeen,
     OnlyZeroIsForgotten, VictimIsOrphan

LEMMA PoolStep == TypeOK /\ PoolInv /\ [Next]_vars => PoolInv'
<1> SUFFICES ASSUME TypeOK, PoolInv, [Next]_vars PROVE PoolInv'
  OBVIOUS
<1>0. NoWorkersOutsideRounds'
  BY RoundStep DEF PoolInv
<1> USE JobFields
<1>1. CASE PoolStays
  BY <1>0, <1>1 DEF PoolStays, purgeVars, workerVars, PoolInv, HandedOutOnce,
     OneWorkerPerCamera, ForgetsZero, Busy
<1>2. CASE BeginRound
  <2>1. job \notin Job /\ job' = job
    BY <1>2 DEF BeginRound, TypeOK
  <2>2. \A w \in Workers : workerPC'[w] = "select"
    BY <1>2 DEF BeginRound
  <2> QED
    BY <1>0, <2>1, <2>2 DEF PoolInv, HandedOutOnce, OneWorkerPerCamera,
       ForgetsZero, Busy
<1>3. CASE EndRange \/ StopPurge
  BY <1>0, <1>3 DEF EndRange, StopPurge, workerVars, PoolInv, HandedOutOnce,
     OneWorkerPerCamera, ForgetsZero, Busy
<1>4. CASE Join
  <2>1. job \notin Job /\ job' = job
    BY <1>4 DEF Join, TypeOK
  <2>2. \A w \in Workers : workerPC'[w] = "gone"
    BY <1>4 DEF Join, workerVars
  <2> QED
    BY <1>0, <2>1, <2>2 DEF PoolInv, HandedOutOnce, OneWorkerPerCamera,
       ForgetsZero, Busy
<1>5. ASSUME NEW n \in Names, Visit(n) PROVE PoolInv'
  <2>1. /\ visit[n] # "done"
        /\ visit' = [visit EXCEPT ![n] = "done"]
        /\ job'.camera = n
        /\ UNCHANGED <<workerPC, workerJob>>
    BY <1>5 DEF Visit, workerVars
  <2>2. \A m \in Names : visit'[m] = "done" <=> m = n \/ visit[m] = "done"
    BY <2>1 DEF TypeOK
  <2>3. \A w \in Workers : Busy(w) =>
            workerJob[w].camera \in Names /\ workerJob[w].camera # n
    BY <2>1 DEF PoolInv, HandedOutOnce, TypeOK
  <2> QED
    BY <1>0, <2>1, <2>2, <2>3 DEF PoolInv, HandedOutOnce, OneWorkerPerCamera,
       ForgetsZero, Busy
<1>6. ASSUME NEW w \in Workers, Send(w) PROVE PoolInv'
  <2>1. /\ job \in Job
        /\ job' \notin Job
        /\ visit' = visit
        /\ workerPC' = [workerPC EXCEPT ![w] = "rows"]
        /\ workerJob' = [workerJob EXCEPT ![w] = job]
    BY <1>6 DEF Send, TypeOK
  <2>2. workerPC'[w] = "rows" /\ workerJob'[w] = job
    BY <2>1 DEF TypeOK
  <2>3. \A v \in Workers \ {w} : /\ workerPC'[v] = workerPC[v]
                                /\ workerJob'[v] = workerJob[v]
    BY <2>1 DEF TypeOK
  <2> QED
    BY <1>0, <2>1, <2>2, <2>3 DEF PoolInv, HandedOutOnce, OneWorkerPerCamera,
       ForgetsZero, Busy
<1>7. ASSUME NEW w \in Workers, Work(w) PROVE PoolInv'
  <2>1. /\ UNCHANGED <<job, visit>>
        /\ \A v \in Workers \ {w} : /\ workerPC'[v] = workerPC[v]
                                   /\ workerJob'[v] = workerJob[v]
    BY <1>7 DEF Work, Leave, PurgeRows, PurgeFiles, Forget, purgeVars, TypeOK
  <2>2. Busy(w)' => Busy(w) /\ workerJob'[w] = workerJob[w]
    BY <1>7 DEF Work, Leave, PurgeRows, PurgeFiles, Forget, Busy, TypeOK
  <2>3. workerPC'[w] = "forget" => workerJob'[w].days = 0
    BY <1>7 DEF Work, Leave, PurgeRows, PurgeFiles, Forget, TypeOK
  <2> QED
    BY <1>0, <2>1, <2>2, <2>3 DEF PoolInv, HandedOutOnce, OneWorkerPerCamera,
       ForgetsZero, Busy
<1> QED
  BY <1>1, <1>2, <1>3, <1>4, <1>5, <1>6, <1>7, PoolSteps

-----------------------------------------------------------------------------
\* The steps that leave alone what HistoryInv is about.
HistoryStays == UNCHANGED <<retentions, seen, job, workerVars, victim, orphans>>

LEMMA HistoryStep == TypeOK /\ IInv /\ [Next]_vars => HistoryInv'
<1> SUFFICES ASSUME TypeOK, IInv, [Next]_vars PROVE HistoryInv'
  OBVIOUS
<1> USE RetentionAssumption, JobFields
<1>1. CASE HistoryStays
  BY <1>1 DEF HistoryStays, workerVars, IInv, HistoryInv, RetentionsWereSeen,
     OnlyZeroIsForgotten, VictimIsOrphan, Known, Busy
<1>2. ASSUME NEW n \in Names, NEW days \in Days \cup {0}, NEW status \in Statuses,
             Configure(n, days, status)
      PROVE  HistoryInv'
  <2>1. /\ retentions' = [retentions EXCEPT ![n] = days]
        /\ seen' = [seen EXCEPT ![n] = @ \cup {days}]
        /\ UNCHANGED <<job, workerPC, workerJob, victim, orphans>>
    BY <1>2 DEF Configure, purgeVars, workerVars, cleanupVars
  <2>2. /\ \A m \in Names : seen[m] \subseteq seen'[m]
        /\ days \in seen'[n]
        /\ seen'[n] = seen[n] \cup {days}
        /\ retentions'[n] = days /\ days # Nobody
        /\ \A m \in Names \ {n} : /\ retentions'[m] = retentions[m]
                                 /\ seen'[m] = seen[m]
    BY <2>1, RecordFields DEF TypeOK
  <2>3. RetentionsWereSeen'
    <3>1. \A m \in Names : Known(m)' => retentions'[m] \in seen'[m]
      BY <2>2 DEF IInv, HistoryInv, RetentionsWereSeen, Known
    <3>2. job' \in Job => job'.days \in seen'[job'.camera]
      BY <2>1, <2>2 DEF IInv, HistoryInv, RetentionsWereSeen
    <3>3. \A w \in Workers :
             Busy(w)' => workerJob'[w].days \in seen'[workerJob'[w].camera]
      BY <2>1, <2>2 DEF IInv, HistoryInv, RetentionsWereSeen, Busy, TypeOK
    <3> QED
      BY <3>1, <3>2, <3>3 DEF RetentionsWereSeen
  <2>4. OnlyZeroIsForgotten'
    BY <2>2 DEF IInv, HistoryInv, OnlyZeroIsForgotten, Known
  <2>5. VictimIsOrphan'
    BY <2>1, <2>2, RecordFields DEF IInv, HistoryInv, VictimIsOrphan
  <2> QED
    BY <2>3, <2>4, <2>5 DEF HistoryInv
<1>3. ASSUME NEW n \in Names, Visit(n) PROVE HistoryInv'
  <2>1. /\ job'.camera = n /\ job'.days = retentions[n] /\ Known(n)
        /\ UNCHANGED <<retentions, seen, workerPC, workerJob, victim, orphans>>
    BY <1>3 DEF Visit, configVars, workerVars, cleanupVars
  <2> QED
    BY <2>1 DEF IInv, HistoryInv, RetentionsWereSeen, OnlyZeroIsForgotten,
       VictimIsOrphan, Known, Busy
<1>4. ASSUME NEW w \in Workers, Send(w) PROVE HistoryInv'
  <2>1. /\ job \in Job
        /\ job' \notin Job
        /\ workerJob'[w] = job
        /\ \A v \in Workers \ {w} : /\ workerPC'[v] = workerPC[v]
                                   /\ workerJob'[v] = workerJob[v]
        /\ UNCHANGED <<retentions, seen, victim, orphans>>
    BY <1>4 DEF Send, TypeOK, configVars, cleanupVars
  <2> QED
    BY <2>1 DEF IInv, HistoryInv, RetentionsWereSeen, OnlyZeroIsForgotten,
       VictimIsOrphan, Known, Busy
<1>5. ASSUME NEW w \in Workers, Leave(w) \/ PurgeRows(w) \/ PurgeFiles(w)
      PROVE  HistoryInv'
  <2>1. /\ Busy(w)' => Busy(w) /\ workerJob'[w] = workerJob[w]
        /\ \A v \in Workers \ {w} : /\ workerPC'[v] = workerPC[v]
                                   /\ workerJob'[v] = workerJob[v]
        /\ UNCHANGED <<retentions, seen, job, victim, orphans>>
    BY <1>5 DEF Leave, PurgeRows, PurgeFiles, Busy, TypeOK, configVars,
       purgeVars, cleanupVars
  <2> QED
    BY <2>1 DEF IInv, HistoryInv, RetentionsWereSeen, OnlyZeroIsForgotten,
       VictimIsOrphan, Known, Busy
<1>6. ASSUME NEW w \in Workers, Forget(w) PROVE HistoryInv'
  <2> DEFINE n == workerJob[w].camera
  <2>1. /\ Busy(w) /\ n \in Names /\ 0 \in seen[n]
    BY <1>6 DEF Forget, Busy, TypeOK, IInv, PoolInv, ForgetsZero, HistoryInv,
       RetentionsWereSeen
  <2>2. /\ ~Busy(w)'
        /\ \A v \in Workers \ {w} : /\ workerPC'[v] = workerPC[v]
                                   /\ workerJob'[v] = workerJob[v]
        /\ UNCHANGED <<seen, job, victim, orphans>>
    BY <1>6 DEF Forget, Busy, TypeOK, purgeVars, cleanupVars
  <2>3. /\ retentions'[n] = Nobody
        /\ \A m \in Names \ {n} : retentions'[m] = retentions[m]
    BY <1>6, <2>1 DEF Forget, TypeOK
  <2> HIDE DEF n
  <2> QED
    BY <2>1, <2>2, <2>3 DEF IInv, HistoryInv, RetentionsWereSeen,
       OnlyZeroIsForgotten, VictimIsOrphan, Known, Busy
<1>7. ASSUME NEW c \in Cameras, LookUp(c) PROVE HistoryInv'
  <2>1. UNCHANGED <<retentions, seen, job, workerPC, workerJob>>
    BY <1>7 DEF LookUp, configVars, purgeVars, workerVars
  <2>2. VictimIsOrphan'
    <3>1. CASE Known(c)
      BY <1>7, <2>1, <3>1 DEF LookUp, IInv, HistoryInv, VictimIsOrphan
    <3>2. CASE ~Known(c)
      BY <1>7, <2>1, <3>2 DEF LookUp, IInv, HistoryInv, VictimIsOrphan,
         OnlyZeroIsForgotten, Names
    <3> QED
      BY <3>1, <3>2
  <2> QED
    BY <2>1, <2>2 DEF IInv, HistoryInv, RetentionsWereSeen,
       OnlyZeroIsForgotten, Known, Busy
<1>8. CASE RemoveOrphan
  BY <1>8 DEF RemoveOrphan, configVars, purgeVars, workerVars, IInv,
     HistoryInv, RetentionsWereSeen, OnlyZeroIsForgotten, VictimIsOrphan,
     Known, Busy
<1>9. CASE BeginRound
  <2>1. /\ job \notin Job /\ job' = job
        /\ \A w \in Workers : ~Busy(w)'
        /\ UNCHANGED <<retentions, seen, victim, orphans>>
    BY <1>9 DEF BeginRound, TypeOK, Busy, configVars, cleanupVars
  <2> QED
    BY <2>1 DEF IInv, HistoryInv, RetentionsWereSeen, OnlyZeroIsForgotten,
       VictimIsOrphan, Known, Busy
<1>10. ASSUME NEW c \in Cameras, NEW days \in Days, NEW status \in Statuses,
             Configure(c, days, status)
      PROVE  HistoryInv'
  <2>1. c \in Names /\ days \in Days \cup {0}
    BY RecordFields
  <2> QED
    BY <1>2, <1>10, <2>1
<1>10a. CASE Configure(NoName, 0, CameraOFFStatus)
  <2>1. NoName \in Names /\ 0 \in Days \cup {0}
        /\ CameraOFFStatus \in Statuses
    BY RecordFields DEF Statuses
  <2> QED
    BY <1>2, <1>10a, <2>1
<1>11. \/ HistoryStays
       \/ BeginRound \/ RemoveOrphan
       \/ \E n \in Names : Visit(n)
       \/ \E c \in Cameras : LookUp(c)
       \/ \E c \in Cameras, days \in Days, status \in Statuses :
             Configure(c, days, status)
       \/ Configure(NoName, 0, CameraOFFStatus)
       \/ \E w \in Workers : Send(w) \/ Work(w)
  BY DEF Next, Environment, Purge, Cleanup, HistoryStays, vars, Shutdown,
     Record, EndRange, Join, StopPurge, BeginCleanup, EndCleanup,
     StopCleanup, configVars, purgeVars, workerVars, cleanupVars
<1> QED
  BY <1>1, <1>3, <1>4, <1>5, <1>6, <1>7, <1>8, <1>9, <1>10, <1>10a,
     <1>11 DEF Work

\* The inductive invariant holds in every reachable state.
THEOREM InvariantHolds == Spec => [](TypeOK /\ IInv)
<1>1. Init => TypeOK /\ IInv
  BY InitType, InitInv
<1>2. TypeOK /\ IInv /\ [Next]_vars => (TypeOK /\ IInv)'
  BY TypeStep, PoolStep, HistoryStep DEF IInv, PoolInv
<1> QED
  BY <1>1, <1>2, PTL DEF Spec

-----------------------------------------------------------------------------
\* However many workers a round has, and whatever the consumer stores while
\* Range goes over the map, no camera is purged by two of them at once.
THEOREM OneWorker == Spec => []OneWorkerPerCamera
BY InvariantHolds, PTL DEF IInv, PoolInv

\* Nothing is being purged between rounds, or after purge has returned and
\* main goes on to close the database.
THEOREM RoundsJoined == Spec => []RoundsAreJoined
<1>1. TypeOK /\ IInv => RoundsAreJoined
  BY DEF IInv, PoolInv, NoWorkersOutsideRounds, RoundsAreJoined, Busy
<1> QED
  BY <1>1, InvariantHolds, PTL

\* An entry leaves the map of retentions only after a record asked for no
\* archive.
THEOREM ForgottenWasZero == Spec => []OnlyZeroIsForgotten
BY InvariantHolds, PTL DEF IInv, HistoryInv

\* The steps that leave the archives alone, or only add to them.
LEMMA ArchiveSteps ==
    TypeOK /\ [Next]_vars =>
        \/ \A c \in Cameras : files[c] \subseteq files'[c] /\ rows[c] \subseteq rows'[c]
        \/ RemoveOrphan
        \/ \E w \in Workers : PurgeRows(w) \/ PurgeFiles(w)
<1> SUFFICES ASSUME TypeOK, [Next]_vars
             PROVE  \/ \A c \in Cameras : /\ files[c] \subseteq files'[c]
                                          /\ rows[c] \subseteq rows'[c]
                    \/ RemoveOrphan
                    \/ \E w \in Workers : PurgeRows(w) \/ PurgeFiles(w)
  OBVIOUS
<1>1. \/ UNCHANGED archiveVars
      \/ \E c \in Cameras : Record(c)
      \/ RemoveOrphan
      \/ \E w \in Workers : PurgeRows(w) \/ PurgeFiles(w)
  BY DEF Next, Environment, Purge, Work, Cleanup, vars, Shutdown,
     Configure, BeginRound, Visit, Send, EndRange, Join, StopPurge, Leave,
     Forget, BeginCleanup, LookUp, EndCleanup, StopCleanup
<1>2. ASSUME NEW c \in Cameras, Record(c)
      PROVE  \A d \in Cameras : files[d] \subseteq files'[d] /\ rows[d] \subseteq rows'[d]
  BY <1>2 DEF Record, TypeOK
<1> QED
  BY <1>1, <1>2 DEF archiveVars

\* A retention that a Duration can hold is the age it expires.
LEMMA ExpiredIsOld ==
    ASSUME NEW days \in Nat, NEW ages, ages \subseteq Ages,
           NEW a \in Expired(days, ages)
    PROVE  days <= a \/ ~FitsDuration(days)
<1> SUFFICES ASSUME FitsDuration(days) PROVE days <= a
  OBVIOUS
<1>1. /\ DurationBound \in Nat \ {0} /\ days < DurationBound
      /\ a \in Nat
      /\ days = 0 \/ a >= Span(days)
  BY RetentionAssumption DEF FitsDuration, Expired
<1> DEFINE h == DurationBound  x == days + h  b == 2 * h
<1>2. x \in Int /\ b \in Nat \ {0} /\ x \in 0..(b - 1)
  BY <1>1
<1>3. Span(days) = (x % b) - h
  BY DEF Span
<1> HIDE DEF x, b
<1>4. x % b = x
  BY <1>2
<1>5. Span(days) = days
  BY <1>1, <1>3, <1>4 DEF x
<1> QED
  BY <1>1, <1>5

\* Whatever disappears from the index was expired by a retention consumed for
\* its camera, or one of them is longer than a Duration; whatever disappears
\* from the disk, for the same reasons, or because the camera was on disk
\* before its first record, or because of a record without value.
THEOREM ExpiredOnly == Spec => OnlyExpiredIsDeleted
<1> DEFINE Deletion ==
        \A c \in Cameras :
          /\ \A a \in files[c] \ files'[c] :
                \/ AskedFor(c, a) \/ Overflows(c)
                \/ c \in orphans
                \/ seen[NoName] # {}
          /\ \A a \in rows[c] \ rows'[c] : AskedFor(c, a) \/ Overflows(c)
<1>1. TypeOK /\ IInv /\ [Next]_vars => Deletion
  <2> SUFFICES ASSUME TypeOK, IInv, [Next]_vars PROVE Deletion
    OBVIOUS
  <2>1. CASE \A c \in Cameras : files[c] \subseteq files'[c] /\ rows[c] \subseteq rows'[c]
    BY <2>1
  <2>2. CASE RemoveOrphan
    <3>1. /\ victim \in Cameras
          /\ UNCHANGED rows
          /\ \A c \in Cameras \ {victim} : files'[c] = files[c]
      BY <2>2 DEF RemoveOrphan, TypeOK
    <3>2. victim \in orphans \/ 0 \in seen[victim]
      BY <3>1 DEF IInv, HistoryInv, VictimIsOrphan
    <3>3. \A a \in files[victim] : a \in Nat /\ 0 <= a
      BY <3>1, RetentionAssumption DEF TypeOK
    <3>4. \A a \in files[victim] : victim \in orphans \/ AskedFor(victim, a)
      BY <3>2, <3>3 DEF AskedFor
    <3> QED
      BY <3>1, <3>4
  <2>3. ASSUME NEW w \in Workers, PurgeRows(w) \/ PurgeFiles(w) PROVE Deletion
    <3> DEFINE n == workerJob[w].camera
               days == workerJob[w].days
    <3>1. n \in Names /\ days \in seen[n] /\ days \in Nat
      BY <2>3, JobFields DEF PurgeRows, PurgeFiles, Busy, TypeOK, IInv,
         HistoryInv, RetentionsWereSeen
    <3>2. ASSUME NEW c \in Cameras, n = c, NEW ages, ages \subseteq Ages,
                 NEW a \in Expired(days, ages)
          PROVE  AskedFor(c, a) \/ Overflows(c)
      BY <3>1, <3>2, ExpiredIsOld DEF AskedFor, Overflows
    <3>3. ASSUME NEW c \in Cameras
          PROVE  /\ files[c] \subseteq Ages /\ rows[c] \subseteq Ages
                 /\ n \notin {c, NoName} => files'[c] = files[c]
                 /\ n # c => rows'[c] = rows[c]
                 /\ files[c] \ files'[c] \subseteq Expired(days, files[c])
                 /\ rows[c] \ rows'[c] \subseteq Expired(days, rows[c])
      <4>1. CASE PurgeRows(w)
        BY <4>1 DEF PurgeRows, TypeOK
      <4>2. CASE PurgeFiles(w)
        BY <4>2 DEF PurgeFiles, RemoveFiles, FoldersOf, TypeOK
      <4> QED
        BY <2>3, <4>1, <4>2
    <3> HIDE DEF n, days
    <3>4. ASSUME NEW c \in Cameras, NEW a \in rows[c] \ rows'[c]
          PROVE  AskedFor(c, a) \/ Overflows(c)
      <4>1. n = c /\ rows[c] \subseteq Ages /\ a \in Expired(days, rows[c])
        BY <3>3, <3>4
      <4> QED
        BY <3>2, <4>1
    <3>5. ASSUME NEW c \in Cameras, NEW a \in files[c] \ files'[c]
          PROVE  AskedFor(c, a) \/ Overflows(c) \/ seen[NoName] # {}
      <4>1. n \in {c, NoName} /\ files[c] \subseteq Ages
            /\ a \in Expired(days, files[c])
        BY <3>3, <3>5
      <4>2. CASE n = c
        BY <3>2, <4>1, <4>2
      <4>3. CASE n = NoName
        BY <3>1, <4>3
      <4> QED
        BY <4>1, <4>2, <4>3
    <3> QED
      BY <3>4, <3>5
  <2> QED
    BY <2>1, <2>2, <2>3, ArchiveSteps
<1>2. TypeOK /\ IInv /\ [Next]_vars => [Deletion]_vars
  BY <1>1
<1> QED
  BY <1>2, InvariantHolds, PTL DEF Spec, OnlyExpiredIsDeleted
=============================================================================
