-------------------------- MODULE ControllerProofs --------------------------
(***************************************************************************)
(* Safety of the two maps of the cameras topic, for any cameras, any       *)
(* retentions and any number of records.                                   *)
(*                                                                         *)
(* RecordingHasRetention is not inductive: a live pipeline says nothing of *)
(* the maps.  IInv adds that its configuration is still there, because     *)
(* only the controller deletes it, after it has cancelled the pipeline, or *)
(* has been replaced by a tombstone; and that a stored configuration and   *)
(* the retention that came with it agree, or the purge has forgotten the   *)
(* retention.                                                              *)
(*                                                                         *)
(* NextVisitRepairs, which no run has, is what LatestIsObeyed comes to     *)
(* once it is granted that the controller goes on visiting.                *)
(***************************************************************************)
EXTENDS Controller, TLAPS

\* The retention of a camera is the one of its configuration; or it is gone,
\* and if it was 0 when it went, so is the one of the configuration.
Agrees(c, value) ==
    /\ retentions[c] # None => retentions[c] = value.days
    /\ retentions[c] = None => \/ dropped[c] = "newer"
                               \/ dropped[c] = "zero" /\ value.days = 0

\* The record still to be stored has a configuration of the camera.
Pending(c) == record.key = c /\ record.value # Tombstone

\* The retention is stored before the configuration.
MapsAgree ==
    /\ \A c \in Cameras : Pending(c) => Agrees(c, record.value)
    /\ \A c \in Cameras :
          ~Pending(c) /\ cameras[c] \in Config => Agrees(c, cameras[c])

\* A configuration is stored after a retention, which leaves in two ways; a
\* pipeline has had a configuration.
DroppedIsExplained ==
    \A c \in Cameras : retentions[c] = None =>
        /\ cameras[c] \in Config => dropped[c] \in {"zero", "newer"}
        /\ live[c] = 1 => dropped[c] \in {"zero", "newer"}
        /\ controllerPC = "verdict" /\ verdict.camera = c
                => dropped[c] \in {"zero", "newer"}

\* The callback of Range has an entry that nobody else deletes.
EntryIsThere ==
    /\ \A c \in Cameras : live[c] = 1 => cameras[c] # None
    /\ \A c \in Cameras :
          controllerPC \in {"verdict", "delete"} /\ verdict.camera = c
                => cameras[c] # None
    /\ controllerPC = "delete" => live[verdict.camera] = 0

IInv == MapsAgree /\ DroppedIsExplained /\ EntryIsThere

-----------------------------------------------------------------------------
\* The fields of an entry, and that no entry is none.
LEMMA EntryFields ==
    /\ NoEntry \notin Entry
    /\ NoEntry.key \notin Cameras
    /\ \A e \in Entry : e.key \in Cameras /\ e.value \in Value
    /\ \A value \in Value : /\ value # None
                            /\ value.camera \in Names
                            /\ value.days \in Days \cup {0}
                            /\ value.days # None
                            /\ value.camera \in Cameras <=> value \in Config
                            /\ value = Tombstone <=> value \notin Config
    /\ \A c \in Cameras, value \in Value :
          /\ [key |-> c, value |-> value] \in Entry
          /\ [key |-> c, value |-> value].key = c
          /\ [key |-> c, value |-> value].value = value
<1>1. NoEntry.key = None /\ None \notin Cameras
  BY ControllerAssumption DEF NoEntry, Names
<1>2. \A e \in Entry : e.key \in Cameras /\ e.value \in Value
  BY DEF Entry
<1>3. /\ Tombstone.camera = NoName /\ Tombstone.days = 0
      /\ NoName \notin Cameras /\ None \notin Nat /\ None \notin Value
      /\ Days \subseteq Nat
  BY ControllerAssumption DEF Tombstone
<1>4. \A value \in Config : value.camera \in Cameras /\ value.days \in Days
  BY DEF Config
<1>5. \A value \in Value : /\ value # None
                           /\ value.camera \in Names
                           /\ value.days \in Days \cup {0}
                           /\ value.days # None
  <2>1. ASSUME NEW value \in Value
        PROVE  value.camera \in Names /\ value.days \in Days \cup {0}
    BY <1>3, <1>4 DEF Value, Names
  <2>2. \A n \in Days \cup {0} : n # None
    BY <1>3
  <2>3. \A value \in Value : value # None
    BY <1>3
  <2> QED
    BY <2>1, <2>2, <2>3
<1>6. \A value \in Value : /\ value.camera \in Cameras <=> value \in Config
                           /\ value = Tombstone <=> value \notin Config
  BY <1>3, <1>4 DEF Value
<1>7. \A c \in Cameras, value \in Value :
          /\ [key |-> c, value |-> value] \in Entry
          /\ [key |-> c, value |-> value].key = c
          /\ [key |-> c, value |-> value].value = value
  BY DEF Entry
<1> QED
  BY <1>1, <1>2, <1>5, <1>6, <1>7

\* A record of a camera names it, or nobody.
LEMMA ValuesOfCamera ==
    ASSUME NEW c \in Cameras, NEW value \in ValuesOf(c)
    PROVE  /\ value \in Value
           /\ value.camera \in {c, NoName}
           /\ value # Tombstone => value.camera = c
           /\ value = Tombstone => value.camera = NoName
           /\ NoName \notin Cameras /\ NoName \in Names
<1>1. value \in Value /\ value.camera \in {c, NoName}
  BY DEF ValuesOf
<1>2. NoName \notin Cameras /\ NoName \in Names
  BY ControllerAssumption DEF Names
<1>3. Tombstone.camera = NoName
  BY DEF Tombstone
<1>4. value # Tombstone => value.camera \in Cameras
  BY <1>1, EntryFields
<1> QED
  BY <1>1, <1>2, <1>3, <1>4

LEMMA InitType == Init => TypeOK
<1> SUFFICES ASSUME Init PROVE TypeOK
  OBVIOUS
<1>1. records \in 0..MaxRecords
  BY ControllerAssumption DEF Init
<1>2. /\ cameras \in [Cameras -> Value \cup {None}]
      /\ retentions \in [Names -> Days \cup {0, None}]
      /\ visit \in [Cameras -> {"free", "owed", "done"}]
      /\ live \in [Cameras -> {0, 1}]
      /\ latest \in [Cameras -> Value \cup {None}]
      /\ dropped \in [Names -> {"no", "zero", "newer"}]
  BY DEF Init
<1>3. /\ record = NoEntry
      /\ verdict = None /\ controllerPC = "select"
      /\ \A c \in Cameras : cameras[c] = None
      /\ \A c \in Cameras : live[c] = 1 => c \in controlled
  BY DEF Init
<1> QED
  BY <1>1, <1>2, <1>3 DEF Init, TypeOK

LEMMA TypeStep == TypeOK /\ [Next]_vars => TypeOK'
<1> SUFFICES ASSUME TypeOK, [Next]_vars PROVE TypeOK'
  OBVIOUS
<1> USE DEF TypeOK, consumerVars, controllerVars, purgeVars
<1>1. CASE Shutdown
  BY <1>1 DEF Shutdown
<1>2. ASSUME NEW c \in Cameras, NEW value \in ValuesOf(c),
             StoreRetention(c, value)
      PROVE  TypeOK'
  <2>1. /\ value \in Value
        /\ value.camera \in Names /\ value.days \in Days \cup {0}
    BY ValuesOfCamera, EntryFields
  <2>2. /\ record' \in Entry
        /\ record'.value \in ValuesOf(record'.key)
        /\ retentions' \in [Names -> Days \cup {0, None}]
        /\ dropped' \in [Names -> {"no", "zero", "newer"}]
    BY <1>2, <2>1 DEF StoreRetention, Entry
  <2>3. records' \in 0..MaxRecords
    BY <1>2, ControllerAssumption DEF StoreRetention
  <2> QED
    BY <1>2, <2>2, <2>3 DEF StoreRetention
<1>3. CASE StoreCamera
  <2>1. record.key \in Cameras /\ record.value \in Value
    BY <1>3, EntryFields DEF StoreCamera
  <2>2. record.value \in ValuesOf(record.key)
    BY <1>3 DEF StoreCamera
  <2>3. \A c \in Cameras : cameras'[c] # None => cameras'[c] \in ValuesOf(c)
    BY <1>3, <2>1, <2>2 DEF StoreCamera
  <2>4. /\ cameras' \in [Cameras -> Value \cup {None}]
        /\ latest' \in [Cameras -> Value \cup {None}]
        /\ lost' \subseteq Cameras
    BY <1>3, <2>1 DEF StoreCamera
  <2> QED
    BY <1>3, <2>3, <2>4 DEF StoreCamera
<1>4. CASE Tick
  BY <1>4 DEF Tick
<1>5. ASSUME NEW c \in Cameras, Visit(c) PROVE TypeOK'
  <2>1. cameras[c] \in Value
    BY <1>5 DEF Visit
  <2> QED
    BY <1>5, <2>1 DEF Visit
<1>6. CASE LeaveAlone
  BY <1>6 DEF LeaveAlone
<1>7. CASE SwitchOff
  <2>1. verdict.camera \in Cameras
    BY <1>7 DEF SwitchOff
  <2>2. /\ live' \in [Cameras -> {0, 1}]
        /\ live'[verdict.camera] = 0
        /\ \A c \in Cameras : c # verdict.camera => live'[c] = live[c]
    BY <1>7, <2>1 DEF SwitchOff
  <2> QED
    BY <1>7, <2>1, <2>2 DEF SwitchOff
<1>8. CASE DeleteCamera
  <2>1. verdict.camera \in Cameras
    BY <1>8 DEF DeleteCamera
  <2>2. lost' \subseteq lost \cup {verdict.camera}
    BY <1>8 DEF DeleteCamera
  <2>3. /\ cameras' \in [Cameras -> Value \cup {None}]
        /\ \A c \in Cameras : cameras'[c] \in {cameras[c], None}
    BY <1>8 DEF DeleteCamera
  <2> QED
    BY <1>8, <2>1, <2>2, <2>3 DEF DeleteCamera
<1>9. CASE SwitchOn
  <2>1. verdict.camera \in Cameras /\ live[verdict.camera] = 0
    <3>1. verdict \in Value /\ verdict # Tombstone
      BY <1>9 DEF SwitchOn, Wants, Tombstone
    <3>2. verdict.camera \in Cameras
      BY <3>1, EntryFields
    <3> QED
      BY <1>9, <3>2 DEF SwitchOn
  <2>2. /\ live' \in [Cameras -> {0, 1}]
        /\ \A c \in Cameras : c # verdict.camera => live'[c] = live[c]
    BY <1>9, <2>1 DEF SwitchOn
  <2> QED
    BY <1>9, <2>1, <2>2 DEF SwitchOn
<1>10. CASE EndRange
  BY <1>10 DEF EndRange
<1>11. CASE StopController
  BY <1>11 DEF StopController
<1>12. ASSUME NEW n \in Names, TakeZeroJob(n) PROVE TypeOK'
  BY <1>12 DEF TakeZeroJob
<1>13. ASSUME NEW n \in Names, Forget(n) PROVE TypeOK'
  BY <1>13 DEF Forget
<1>14. CASE UNCHANGED vars
  BY <1>14 DEF vars
<1> QED
  BY <1>1, <1>2, <1>3, <1>4, <1>5, <1>6, <1>7, <1>8, <1>9, <1>10, <1>11,
     <1>12, <1>13, <1>14 DEF Next, Consume, Control, Purge

\* Every variable holds what the code can store in it: in particular a camera
\* has one live pipeline at most, whose cancel function is in the map.
THEOREM TypeCorrect == Spec => []TypeOK
<1>1. Init => TypeOK
  BY InitType
<1>2. TypeOK /\ [Next]_vars => TypeOK'
  BY TypeStep
<1> QED
  BY <1>1, <1>2, PTL DEF Spec

-----------------------------------------------------------------------------
LEMMA InitInv == Init => IInv
<1> SUFFICES ASSUME Init PROVE IInv
  OBVIOUS
<1>1. \A c \in Cameras : record.key # c /\ cameras[c] = None /\ live[c] = 0
  BY EntryFields DEF Init
<1>2. None \notin Config
  BY ControllerAssumption DEF Value
<1> QED
  BY <1>1, <1>2
     DEF Init, IInv, MapsAgree, Pending, DroppedIsExplained, EntryIsThere

\* A record changes the retention of the name in its value alone.
LEMMA StoredRetention ==
    ASSUME TypeOK, NEW c \in Cameras, NEW value \in ValuesOf(c),
           StoreRetention(c, value)
    PROVE  /\ record'.key = c /\ record'.value = value
           /\ \A d \in Cameras : record.key # d
           /\ \A d \in Cameras : value = Tombstone \/ d # c =>
                 /\ retentions'[d] = retentions[d]
                 /\ dropped'[d] = dropped[d]
           /\ value # Tombstone => /\ retentions'[c] = value.days
                                   /\ retentions'[c] # None
           /\ UNCHANGED <<cameras, controllerPC, verdict, live>>
<1>1. /\ value \in Value
      /\ value # Tombstone => value.camera = c
      /\ value = Tombstone => value.camera = NoName
      /\ NoName \notin Cameras
      /\ c \in Names
      /\ value.days # None
  BY ValuesOfCamera, EntryFields DEF Names
<1>2. record'.key = c /\ record'.value = value
  BY <1>1, EntryFields DEF StoreRetention
<1>3. \A d \in Cameras : record.key # d
  BY EntryFields DEF StoreRetention
<1>4. \A d \in Cameras : d # value.camera =>
          retentions'[d] = retentions[d] /\ dropped'[d] = dropped[d]
  BY DEF StoreRetention, TypeOK, Names
<1>5. value # Tombstone => retentions'[c] = value.days
  BY <1>1 DEF StoreRetention, TypeOK
<1>6. UNCHANGED <<cameras, controllerPC, verdict, live>>
  BY DEF StoreRetention, controllerVars
<1> QED
  BY <1>1, <1>2, <1>3, <1>4, <1>5, <1>6

LEMMA StoredCamera ==
    ASSUME TypeOK, StoreCamera
    PROVE  /\ record.key \in Cameras
           /\ record.value \in Value
           /\ record.value # None
           /\ record.value = Tombstone <=> record.value \notin Config
           /\ cameras'[record.key] = record.value
           /\ \A d \in Cameras : d # record.key => cameras'[d] = cameras[d]
           /\ \A d \in Cameras : record'.key # d
           /\ UNCHANGED <<retentions, dropped, controllerPC, verdict, live>>
<1>1. record.key \in Cameras /\ record.value \in Value
  BY EntryFields DEF StoreCamera, TypeOK
<1>2. /\ cameras'[record.key] = record.value
      /\ \A d \in Cameras : d # record.key => cameras'[d] = cameras[d]
      /\ record' = NoEntry
  BY <1>1 DEF StoreCamera, TypeOK
<1>3. UNCHANGED <<retentions, dropped, controllerPC, verdict, live>>
  BY DEF StoreCamera, controllerVars, purgeVars
<1> QED
  BY <1>1, <1>2, <1>3, EntryFields

LEMMA Forgotten ==
    ASSUME TypeOK, NEW n \in Names, Forget(n)
    PROVE  /\ retentions'[n] = None
           /\ dropped'[n] = IF retentions[n] = 0 THEN "zero" ELSE "newer"
           /\ \A d \in Cameras : d # n => /\ retentions'[d] = retentions[d]
                                          /\ dropped'[d] = dropped[d]
           /\ UNCHANGED <<record, cameras, controllerPC, verdict, live>>
BY DEF Forget, TypeOK, Names, consumerVars, controllerVars

LEMMA Deleted ==
    ASSUME TypeOK, DeleteCamera
    PROVE  /\ verdict.camera \in Cameras
           /\ cameras'[verdict.camera] = None
           /\ \A d \in Cameras : d # verdict.camera => cameras'[d] = cameras[d]
           /\ controllerPC = "delete" /\ controllerPC' = "range"
           /\ UNCHANGED <<record, retentions, dropped, live>>
BY DEF DeleteCamera, TypeOK, consumerVars, purgeVars

\* A record still to be stored keeps MapsAgree off the stored configuration.
LEMMA MapsAgreeStep == TypeOK /\ IInv /\ [Next]_vars => MapsAgree'
<1> SUFFICES ASSUME TypeOK, MapsAgree, [Next]_vars PROVE MapsAgree'
  BY DEF IInv
<1> USE DEF MapsAgree, Agrees, Pending
<1>1. ASSUME NEW c \in Cameras, NEW value \in ValuesOf(c),
             StoreRetention(c, value)
      PROVE  MapsAgree'
  <2>1. /\ record'.key = c /\ record'.value = value
        /\ \A d \in Cameras : record.key # d
        /\ \A d \in Cameras : value = Tombstone \/ d # c =>
              /\ retentions'[d] = retentions[d]
              /\ dropped'[d] = dropped[d]
        /\ value # Tombstone => /\ retentions'[c] = value.days
                                /\ retentions'[c] # None
        /\ cameras' = cameras
    BY <1>1, StoredRetention
  <2> QED
    BY <2>1
<1>2. CASE StoreCamera
  <2>1. /\ record.key \in Cameras
        /\ record.value = Tombstone <=> record.value \notin Config
        /\ cameras'[record.key] = record.value
        /\ \A d \in Cameras : d # record.key => cameras'[d] = cameras[d]
        /\ \A d \in Cameras : record'.key # d
        /\ retentions' = retentions /\ dropped' = dropped
    BY <1>2, StoredCamera
  <2> QED
    BY <2>1
<1>3. CASE DeleteCamera
  <2>1. /\ \A d \in Cameras : cameras'[d] \in {cameras[d], None}
        /\ record' = record /\ retentions' = retentions /\ dropped' = dropped
    BY <1>3, Deleted
  <2>2. None \notin Config
    BY ControllerAssumption DEF Value
  <2> QED
    BY <2>1, <2>2
<1>4. ASSUME NEW n \in Names, Forget(n) PROVE MapsAgree'
  <2>1. /\ record' = record /\ cameras' = cameras
        /\ retentions'[n] = None
        /\ dropped'[n] = IF retentions[n] = 0 THEN "zero" ELSE "newer"
        /\ \A d \in Cameras : d # n => /\ retentions'[d] = retentions[d]
                                       /\ dropped'[d] = dropped[d]
    BY <1>4, Forgotten
  <2>2. 0 # None
    BY ControllerAssumption
  <2> QED
    BY <2>1, <2>2
<1>5. CASE UNCHANGED <<record, cameras, retentions, dropped>>
  BY <1>5
<1> QED
  BY <1>1, <1>2, <1>3, <1>4, <1>5 DEF Next, Consume, Control, Purge, vars,
     Shutdown, Tick, Visit, LeaveAlone, SwitchOff, SwitchOn, EndRange,
     StopController, TakeZeroJob, consumerVars, purgeVars

LEMMA DroppedIsExplainedStep ==
    TypeOK /\ IInv /\ [Next]_vars => DroppedIsExplained'
<1> SUFFICES ASSUME TypeOK, MapsAgree, DroppedIsExplained, [Next]_vars
             PROVE  DroppedIsExplained'
  BY DEF IInv
<1> USE DEF DroppedIsExplained
<1>1. ASSUME NEW c \in Cameras, NEW value \in ValuesOf(c),
             StoreRetention(c, value)
      PROVE  DroppedIsExplained'
  <2>1. /\ \A d \in Cameras : value = Tombstone \/ d # c =>
              /\ retentions'[d] = retentions[d]
              /\ dropped'[d] = dropped[d]
        /\ value # Tombstone => retentions'[c] # None
        /\ UNCHANGED <<cameras, controllerPC, verdict, live>>
    BY <1>1, StoredRetention
  <2> QED
    BY <2>1
<1>2. CASE StoreCamera
  <2>1. /\ record.key \in Cameras
        /\ record.value = Tombstone <=> record.value \notin Config
        /\ cameras'[record.key] = record.value
        /\ \A d \in Cameras : d # record.key => cameras'[d] = cameras[d]
        /\ UNCHANGED <<retentions, dropped, controllerPC, verdict, live>>
    BY <1>2, StoredCamera
  <2>2. record.value # Tombstone /\ retentions[record.key] = None =>
            dropped[record.key] \in {"zero", "newer"}
    BY <2>1 DEF MapsAgree, Agrees, Pending
  <2> QED
    BY <2>1, <2>2
<1>3. CASE DeleteCamera
  <2>1. /\ \A d \in Cameras : cameras'[d] \in {cameras[d], None}
        /\ controllerPC' = "range"
        /\ UNCHANGED <<retentions, dropped, live>>
    BY <1>3, Deleted
  <2>2. None \notin Config
    BY ControllerAssumption DEF Value
  <2> QED
    BY <2>1, <2>2
<1>4. ASSUME NEW n \in Names, Forget(n) PROVE DroppedIsExplained'
  <2>1. /\ dropped'[n] \in {"zero", "newer"}
        /\ \A d \in Cameras : d # n => /\ retentions'[d] = retentions[d]
                                       /\ dropped'[d] = dropped[d]
        /\ UNCHANGED <<cameras, controllerPC, verdict, live>>
    BY <1>4, Forgotten
  <2> QED
    BY <2>1
<1>5. ASSUME NEW c \in Cameras, Visit(c) PROVE DroppedIsExplained'
  <2>1. /\ cameras[c] \in ValuesOf(c) /\ verdict' = cameras[c]
        /\ UNCHANGED <<cameras, retentions, dropped, live>>
    BY <1>5 DEF Visit, TypeOK, purgeVars
  <2>2. cameras[c].camera \in Cameras =>
            cameras[c].camera = c /\ cameras[c] \in Config
    BY <2>1, ValuesOfCamera, EntryFields
  <2> QED
    BY <2>1, <2>2
<1>6. CASE SwitchOn
  <2>1. /\ controllerPC = "verdict" /\ controllerPC' = "range"
        /\ \A d \in Cameras : d # verdict.camera => live'[d] = live[d]
        /\ UNCHANGED <<cameras, retentions, dropped>>
    BY <1>6 DEF SwitchOn, TypeOK, purgeVars
  <2> QED
    BY <2>1
<1>7. CASE /\ UNCHANGED <<cameras, retentions, dropped>>
           /\ \A d \in Cameras : live'[d] = 1 => live[d] = 1
           /\ \/ UNCHANGED <<controllerPC, verdict>>
              \/ controllerPC' # "verdict"
  BY <1>7
<1>8. CASE Shutdown
  BY <1>8, <1>7 DEF Shutdown, purgeVars, controllerVars
<1>9. CASE SwitchOff
  <2>1. \A d \in Cameras : live'[d] = 1 => live[d] = 1
    BY <1>9 DEF SwitchOff, TypeOK
  <2> QED
    BY <1>9, <2>1, <1>7 DEF SwitchOff, purgeVars
<1> QED
  BY <1>1, <1>2, <1>3, <1>4, <1>5, <1>6, <1>7, <1>8, <1>9 DEF Next, Consume,
     Control, Purge, vars, Tick, LeaveAlone, EndRange, StopController,
     TakeZeroJob, purgeVars, controllerVars

\* The controller is one goroutine: between Visit and DeleteCamera nobody
\* else deletes, and nobody starts a pipeline.
LEMMA EntryIsThereStep == TypeOK /\ IInv /\ [Next]_vars => EntryIsThere'
<1> SUFFICES ASSUME TypeOK, EntryIsThere, [Next]_vars PROVE EntryIsThere'
  BY DEF IInv
<1> USE DEF EntryIsThere
<1>1. CASE Shutdown
  BY <1>1 DEF Shutdown, TypeOK, controllerVars
<1>2. CASE StoreCamera
  <2>1. /\ record.key \in Cameras
        /\ cameras'[record.key] # None
        /\ \A d \in Cameras : d # record.key => cameras'[d] = cameras[d]
        /\ UNCHANGED <<controllerPC, verdict, live>>
    BY <1>2, StoredCamera
  <2> QED
    BY <2>1
<1>3. ASSUME NEW c \in Cameras, Visit(c) PROVE EntryIsThere'
  <2>1. /\ cameras[c] \in ValuesOf(c) /\ verdict' = cameras[c]
        /\ cameras[c] # None
        /\ controllerPC' = "verdict"
        /\ UNCHANGED <<cameras, live>>
    BY <1>3 DEF Visit, TypeOK
  <2>2. cameras[c].camera \in Cameras => cameras[c].camera = c
    BY <2>1, ValuesOfCamera
  <2> QED
    BY <2>1, <2>2
<1>4. CASE SwitchOff
  <2>1. /\ verdict.camera \in Cameras
        /\ live'[verdict.camera] = 0
        /\ \A c \in Cameras : c # verdict.camera => live'[c] = live[c]
        /\ controllerPC = "verdict" /\ controllerPC' = "delete"
        /\ UNCHANGED <<cameras, verdict>>
    BY <1>4 DEF SwitchOff, TypeOK
  <2> QED
    BY <2>1
<1>5. CASE DeleteCamera
  <2>1. /\ verdict.camera \in Cameras
        /\ live[verdict.camera] = 0 /\ live' = live
        /\ \A c \in Cameras : c # verdict.camera => cameras'[c] = cameras[c]
        /\ controllerPC' = "range"
    BY <1>5, Deleted
  <2> QED
    BY <2>1
<1>6. CASE SwitchOn
  <2>1. /\ controllerPC = "verdict" /\ controllerPC' = "range"
        /\ cameras' = cameras
        /\ \A c \in Cameras : c # verdict.camera => live'[c] = live[c]
    BY <1>6 DEF SwitchOn, TypeOK
  <2> QED
    BY <2>1
<1>7. CASE /\ UNCHANGED <<cameras, live>>
           /\ \/ UNCHANGED <<controllerPC, verdict>>
              \/ controllerPC' \notin {"verdict", "delete"}
  BY <1>7
<1> QED
  BY <1>1, <1>2, <1>3, <1>4, <1>5, <1>6, <1>7 DEF Next, Consume, Control, Purge,
     vars, StoreRetention, Tick, LeaveAlone, EndRange, StopController,
     TakeZeroJob, Forget, controllerVars

LEMMA InvImplies == TypeOK /\ IInv => RecordingHasRetention
<1> SUFFICES ASSUME TypeOK, IInv, NEW c \in Cameras,
                    live[c] = 1, retentions[c] = None, dropped[c] # "newer"
             PROVE  dropped[c] = "zero" /\ \/ SwitchesOffSoon(c)
                                           \/ cameras[c] = Tombstone
  BY DEF RecordingHasRetention
<1>1. cameras[c] # None /\ dropped[c] = "zero"
  BY DEF IInv, EntryIsThere, DroppedIsExplained
<1>2. CASE Pending(c)
  BY <1>1, <1>2 DEF SwitchesOffSoon, Pending
<1>3. CASE ~Pending(c) /\ cameras[c] \in Config
  <2>1. cameras[c].days = 0
    BY <1>1, <1>3 DEF IInv, MapsAgree, Agrees
  <2> QED
    BY <1>1, <1>3, <2>1 DEF SwitchesOffSoon, Wants
<1>4. CASE cameras[c] \notin Config
  <2>1. cameras[c] \in Value
    BY <1>1 DEF TypeOK
  <2> QED
    BY <1>1, <1>4, <2>1, EntryFields
<1> QED
  BY <1>2, <1>3, <1>4

\* However the two stores of a record interleave with the ticks of the
\* controller and the purge, a camera with a live pipeline has a retention,
\* is about to be switched off, would be but for a tombstone, or has lost a
\* newer retention to an old job.
THEOREM RecordingIsRetained == Spec => []RecordingHasRetention
<1>1. Init => TypeOK /\ IInv
  BY InitType, InitInv
<1>2. TypeOK /\ IInv /\ [Next]_vars => TypeOK' /\ IInv'
  BY TypeStep, MapsAgreeStep, DroppedIsExplainedStep, EntryIsThereStep DEF IInv
<1>3. TypeOK /\ IInv => RecordingHasRetention
  BY InvImplies
<1> QED
  BY <1>1, <1>2, <1>3, PTL DEF Spec

-----------------------------------------------------------------------------
(* The safety half of LatestIsObeyed.                                      *)

\* The map has the last configuration stored, or none; one that wants a
\* pipeline is missing only where the controller has lost it.
LatestIsStored ==
    \A c \in Cameras :
        /\ cameras[c] # None => cameras[c] = latest[c]
        /\ cameras[c] = None /\ Wants(latest[c]) => c \in lost

\* Before the end of the service a cancel function is that of a live pipeline.
CancelIsOfLive ==
    ~stopping => \A c \in Cameras : c \in controlled => live[c] = 1

\* A camera that is not as its last record wants it has that record in the
\* map under its own name, and the callback of Range does not leave it alone:
\* whatever came before, the next visit is the one that puts it right.  After
\* a tombstone there is nothing to go by: what the map has of the camera, if
\* anything, names nobody, and the callback looks for the pipeline of nobody.
NextVisitRepairs ==
    ~stopping =>
        \A c \in Cameras \ lost :
            /\ latest[c] # Tombstone /\ ~(Wants(latest[c]) <=> live[c] = 1) =>
                   /\ cameras[c] = latest[c]
                   /\ cameras[c] # None
                   /\ cameras[c].camera = c
                   /\ ~(Wants(cameras[c]) <=> c \in controlled)
            /\ latest[c] = Tombstone =>
                   /\ cameras[c] \in {None, Tombstone}
                   /\ ~Wants(Tombstone)
                   /\ Tombstone.camera \notin controlled

LEMMA LatestIsStoredStep ==
    TypeOK /\ IInv /\ LatestIsStored /\ [Next]_vars => LatestIsStored'
<1> SUFFICES ASSUME TypeOK, IInv, LatestIsStored, [Next]_vars,
                    NEW c \in Cameras
             PROVE  /\ cameras'[c] # None => cameras'[c] = latest'[c]
                    /\ cameras'[c] = None /\ Wants(latest'[c]) => c \in lost'
  BY DEF LatestIsStored
<1> USE DEF TypeOK, LatestIsStored, consumerVars, controllerVars,
        purgeVars
<1>1. CASE StoreCamera
  <2>1. record.key \in Cameras /\ record.value # None
    BY <1>1, StoredCamera
  <2>2. CASE c = record.key
    <3>1. cameras'[c] = record.value /\ latest'[c] = record.value
      BY <1>1, <2>1, <2>2 DEF StoreCamera
    <3> QED
      BY <2>1, <3>1
  <2>3. CASE c # record.key
    <3>1. /\ cameras'[c] = cameras[c] /\ latest'[c] = latest[c]
          /\ c \in lost => c \in lost'
      BY <1>1, <2>1, <2>3 DEF StoreCamera
    <3> QED
      BY <3>1
  <2> QED
    BY <2>2, <2>3
<1>2. CASE DeleteCamera
  <2>1. /\ verdict.camera \in Cameras
        /\ cameras[verdict.camera] # None
        /\ latest' = latest
    BY <1>2 DEF DeleteCamera, IInv, EntryIsThere
  <2>2. CASE c = verdict.camera
    <3>1. cameras[c] = latest[c] /\ cameras'[c] = None
      BY <1>2, <2>1, <2>2 DEF DeleteCamera
    <3>2. Wants(cameras[c]) => c \in lost'
      BY <1>2, <2>2 DEF DeleteCamera
    <3> QED
      BY <2>1, <3>1, <3>2
  <2>3. CASE c # verdict.camera
    <3>1. cameras'[c] = cameras[c] /\ (c \in lost => c \in lost')
      BY <1>2, <2>1, <2>3 DEF DeleteCamera
    <3> QED
      BY <2>1, <3>1
  <2> QED
    BY <2>2, <2>3
<1>3. CASE UNCHANGED <<cameras, latest, lost>>
  BY <1>3
<1> QED
  BY <1>1, <1>2, <1>3 DEF Next, Consume, Control, Purge, vars, Shutdown,
     StoreRetention, Tick, Visit, LeaveAlone, SwitchOff, SwitchOn, EndRange,
     StopController, TakeZeroJob, Forget

LEMMA CancelIsOfLiveStep ==
    TypeOK /\ CancelIsOfLive /\ [Next]_vars => CancelIsOfLive'
<1> SUFFICES ASSUME TypeOK, CancelIsOfLive, [Next]_vars, ~stopping',
                    NEW c \in Cameras, c \in controlled'
             PROVE  live'[c] = 1
  BY DEF CancelIsOfLive
<1> USE DEF TypeOK, CancelIsOfLive, consumerVars, controllerVars,
        purgeVars
<1>1. CASE SwitchOff
  <2>1. /\ verdict.camera \in Cameras /\ ~stopping
        /\ c \in controlled /\ c # verdict.camera
        /\ live'[c] = live[c]
    BY <1>1 DEF SwitchOff
  <2> QED
    BY <2>1
<1>2. CASE SwitchOn
  <2>1. verdict.camera \in Cameras
    <3>1. verdict \in Value /\ verdict # Tombstone
      BY <1>2 DEF SwitchOn, Wants, Tombstone
    <3> QED
      BY <3>1, EntryFields
  <2>2. ~stopping /\ verdict.camera \notin controlled
    BY <1>2 DEF SwitchOn
  <2>3. CASE c = verdict.camera
    <3>1. live[c] = 0 /\ live'[c] = live[c] + 1
      BY <1>2, <2>1, <2>2, <2>3 DEF SwitchOn
    <3> QED
      BY <3>1
  <2>4. CASE c # verdict.camera
    <3>1. c \in controlled /\ live'[c] = live[c]
      BY <1>2, <2>1, <2>4 DEF SwitchOn
    <3> QED
      BY <2>2, <3>1
  <2> QED
    BY <2>3, <2>4
<1>3. CASE Shutdown
  BY <1>3 DEF Shutdown
<1>4. CASE UNCHANGED <<stopping, controlled, live>>
  BY <1>4
<1> QED
  BY <1>1, <1>2, <1>3, <1>4 DEF Next, Consume, Control, Purge, vars,
     StoreRetention, StoreCamera, Tick, Visit, LeaveAlone, DeleteCamera,
     EndRange, StopController, TakeZeroJob, Forget

LEMMA StoredMeansRepairs ==
    TypeOK /\ IInv /\ LatestIsStored /\ CancelIsOfLive => NextVisitRepairs
<1> SUFFICES ASSUME TypeOK, IInv, LatestIsStored, CancelIsOfLive, ~stopping,
                    NEW c \in Cameras \ lost
             PROVE  /\ latest[c] # Tombstone /\ ~(Wants(latest[c]) <=> live[c] = 1)
                       => /\ cameras[c] = latest[c]
                          /\ cameras[c] # None
                          /\ cameras[c].camera = c
                          /\ ~(Wants(cameras[c]) <=> c \in controlled)
                    /\ latest[c] = Tombstone =>
                          /\ cameras[c] \in {None, Tombstone}
                          /\ ~Wants(Tombstone)
                          /\ Tombstone.camera \notin controlled
  BY DEF NextVisitRepairs
<1>1. ASSUME latest[c] # Tombstone, ~(Wants(latest[c]) <=> live[c] = 1)
      PROVE  /\ cameras[c] = latest[c]
             /\ cameras[c] # None
             /\ cameras[c].camera = c
             /\ ~(Wants(cameras[c]) <=> c \in controlled)
  <2>1. c \in controlled <=> live[c] = 1
    BY DEF TypeOK, CancelIsOfLive
  <2>2. cameras[c] # None
    <3>1. CASE live[c] = 1
      BY <3>1 DEF IInv, EntryIsThere
    <3>2. CASE live[c] # 1
      BY <1>1, <3>2 DEF LatestIsStored
    <3> QED
      BY <3>1, <3>2
  <2>3. cameras[c] = latest[c]
    BY <2>2 DEF LatestIsStored
  <2>4. cameras[c].camera = c
    BY <1>1, <2>2, <2>3, ValuesOfCamera DEF TypeOK
  <2> QED
    BY <1>1, <2>1, <2>2, <2>3, <2>4
<1>2. ASSUME latest[c] = Tombstone
      PROVE  cameras[c] \in {None, Tombstone}
  BY <1>2 DEF LatestIsStored
<1>3. ~Wants(Tombstone) /\ Tombstone.camera \notin controlled
  BY ControllerAssumption DEF Wants, Tombstone, TypeOK
<1> QED
  BY <1>1, <1>2, <1>3

\* Whatever the order of records, visits and deletions, as long as the service
\* runs, a camera that is not as its last record wants it, and has not lost
\* it, is repaired by the next visit of the controller, provided the record
\* names it: a verdict on an older record never leaves anything behind that a
\* later one would not see.  If the record is a tombstone, no visit does.
THEOREM VisitRepairs == Spec => []NextVisitRepairs
<1> DEFINE J == TypeOK /\ IInv /\ LatestIsStored /\ CancelIsOfLive
<1>1. Init => J
  <2>1. ASSUME Init
        PROVE  LatestIsStored /\ CancelIsOfLive
    BY <2>1 DEF Init, LatestIsStored, CancelIsOfLive, Wants
  <2> QED
    BY <2>1, InitType, InitInv
<1>2. J /\ [Next]_vars => J'
  BY TypeStep, MapsAgreeStep, DroppedIsExplainedStep, EntryIsThereStep,
     LatestIsStoredStep, CancelIsOfLiveStep DEF IInv
<1>3. J => NextVisitRepairs
  BY StoredMeansRepairs
<1> QED
  BY <1>1, <1>2, <1>3, PTL DEF Spec
=============================================================================
