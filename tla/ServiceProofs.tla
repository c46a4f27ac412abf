---------------------------- MODULE ServiceProofs ----------------------------
(***************************************************************************)
(* Safety of the start, the stop and the announcements of the process, for *)
(* any capacity of the channel, any size of the batches and any number of  *)
(* heartbeats and failed calls.                                            *)
(*                                                                         *)
(* ClosedAfterUse is not inductive: it does not say who is running when    *)
(* main closes things.  Orderly adds that nobody is before main starts the *)
(* services and nobody after it has waited for them, and how much of the   *)
(* closing is done at each place of main.  DeliveredOnceInOrder is not     *)
(* either: what is delivered next comes from the batch, and that from the  *)
(* channel.  InOrder extends the order to the three of them together, and  *)
(* WrittenIsPart to the part of the batch that the transaction holds.      *)
(***************************************************************************)
EXTENDS Service, TLAPS

\* Main before any service, and after all of them.
BeforeServices == {"flags", "config", "load", "open", "table", "broker",
                   "connect", "topics", "channel"}
AfterServices == {"closeRouter", "stopping", "closeBroker", "closeDb",
                  "exited", "forced"}

Orderly ==
    /\ heartbeatPC = "send" => "heartbeat" \in running
    /\ mainPC \in BeforeServices \cup AfterServices => running = {}
    /\ mainPC \notin {"closeDb", "exited", "crashed"} =>
            "closed" \notin {database, client, msgChan}
    /\ mainPC = "flags" => "open" \notin {database, client, msgChan}
    /\ mainPC = "closeDb" => "open" \notin {client, msgChan}

\* Digests before others, and none from the future.
Precedes(s, t) == \A i \in DOMAIN s, j \in DOMAIN t : s[i] < t[j]
UpTo(s, n) == \A i \in DOMAIN s : s[i] <= n

InOrder ==
    /\ Increasing(delivered) /\ Increasing(batch) /\ Increasing(queue)
    /\ Precedes(delivered, batch)
    /\ Precedes(delivered, queue)
    /\ Precedes(batch, queue)
    /\ UpTo(delivered, sent) /\ UpTo(batch, sent) /\ UpTo(queue, sent)

\* What the transaction holds is part of the batch, in its order.
PartOf(s, t) == \A i \in DOMAIN s : \E j \in DOMAIN t : s[i] = t[j]
WrittenIsPart == Increasing(written) /\ PartOf(written, batch)

\* The producer receives only into a batch that is not full.
RoomInBatch == producerPC = "select" => Len(batch) < BatchSize

IInv ==
    /\ TypeOK /\ RoomInBatch
    /\ Orderly /\ ClosedAfterUse
    /\ InOrder /\ WrittenIsPart
-----------------------------------------------------------------------------
LEMMA InitInv == Init => IInv
<1> SUFFICES ASSUME Init PROVE IInv
  OBVIOUS
<1>1. TypeOK /\ RoomInBatch
  <2>1. /\ <<>> \in Seq(Nat) /\ Len(<<>>) = 0
        /\ 0 \in 0..ConfigFiles /\ 0 \in 0..MaxFaults
        /\ 0 <= MsgCap /\ 0 < BatchSize
    BY ServiceAssumption
  <2>2. /\ ctx \in {"live", "done"} /\ config \in Parsed \cup {"none"}
        /\ running \subseteq Services
    BY DEF Init
  <2>3. /\ queue \in Seq(Nat) /\ Len(queue) <= MsgCap
        /\ batch \in Seq(Nat) /\ Len(batch) < BatchSize
        /\ Len(batch) <= BatchSize
        /\ delivered \in Seq(Nat) /\ written \in Seq(Nat)
    BY <2>1, ServiceAssumption DEF Init
  <2>4. candidates \in 0..ConfigFiles /\ sent \in Nat /\ faults \in 0..MaxFaults
    BY <2>1 DEF Init
  <2> QED
    BY <2>2, <2>3, <2>4 DEF Init, TypeOK, RoomInBatch
<1>2. Orderly /\ ClosedAfterUse
  BY DEF Init, Orderly, ClosedAfterUse
<1>3. InOrder /\ WrittenIsPart
  BY DEF Init, InOrder, WrittenIsPart, PartOf, Increasing, Precedes, UpTo
<1> QED
  BY <1>1, <1>2, <1>3 DEF IInv

\* What a digest sent does to the channel.
LEMMA SendKeepsType ==
    ASSUME TypeOK, SendServiceDigest
    PROVE  queue' \in Seq(Nat) /\ Len(queue') <= MsgCap /\ sent' \in Nat
<1>1. CASE Enqueue
  BY <1>1, ServiceAssumption DEF TypeOK, Enqueue
<1>2. CASE UNCHANGED chanVars
  BY <1>2 DEF TypeOK, chanVars
<1> QED
  BY <1>1, <1>2 DEF SendServiceDigest

\* What is produced of a batch keeps its order.
LEMMA PartsKeepOrder ==
    ASSUME NEW s \in Seq(Nat), NEW t \in Parts(s)
    PROVE  /\ t \in Seq(Nat)
           /\ PartOf(t, s)
           /\ Increasing(s) => Increasing(t)
<1>0. PICK n \in 0..Len(s) :
         t \in {[i \in 1..n |-> s[f[i]]] :
                   f \in {g \in [1..n -> DOMAIN s] : Increasing(g)}}
  BY DEF Parts
<1>1. PICK f \in [1..n -> DOMAIN s] :
         Increasing(f) /\ t = [i \in 1..n |-> s[f[i]]]
  BY <1>0
<1>2. /\ n \in Nat /\ DOMAIN f = 1..n /\ DOMAIN t = 1..n
      /\ DOMAIN s = 1..Len(s)
      /\ \A i \in 1..n : f[i] \in DOMAIN s /\ t[i] = s[f[i]]
  BY <1>1
<1>3. t \in Seq(Nat)
  BY <1>1, <1>2
<1>4. PartOf(t, s)
  BY <1>2 DEF PartOf
<1>5. Increasing(s) => Increasing(t)
  BY <1>1, <1>2 DEF Increasing
<1> QED
  BY <1>3, <1>4, <1>5

LEMMA TypeStep ==
    TypeOK /\ RoomInBatch /\ [Next]_vars => TypeOK' /\ RoomInBatch'
<1> SUFFICES ASSUME TypeOK, RoomInBatch, [Next]_vars
             PROVE  TypeOK' /\ RoomInBatch'
  OBVIOUS
<1> USE ServiceAssumption DEF TypeOK, RoomInBatch, mainVars, chanVars,
        serviceVars, producerVars, Services, OtherServices, Parsed
<1>1. CASE Cancel
  BY <1>1 DEF Cancel
<1>2. CASE ParseFlags /\ UNCHANGED <<purgePC, heartbeatPC, producerVars>>
  BY <1>2 DEF ParseFlags
<1>3. CASE NewConfig /\ UNCHANGED <<purgePC, heartbeatPC, producerVars>>
  BY <1>3 DEF NewConfig
<1>4. CASE LoadFromFile /\ UNCHANGED <<purgePC, heartbeatPC, producerVars>>
  BY <1>4 DEF LoadFromFile
<1>5. CASE NoFileLoaded /\ UNCHANGED <<purgePC, heartbeatPC, producerVars>>
  BY <1>5 DEF NoFileLoaded
<1>6. CASE OpenDb /\ UNCHANGED <<purgePC, heartbeatPC, producerVars>>
  BY <1>6 DEF OpenDb
<1>7. CASE CheckTable /\ UNCHANGED <<purgePC, heartbeatPC, producerVars>>
  BY <1>7 DEF CheckTable
<1>8. CASE BrokerInitPanics /\ UNCHANGED <<purgePC, heartbeatPC, producerVars>>
  BY <1>8 DEF BrokerInitPanics, Closed
<1>9. CASE NewClient /\ UNCHANGED <<purgePC, heartbeatPC, producerVars>>
  BY <1>9 DEF NewClient, BrokerInitFails
<1>10. CASE /\ ValidateBrokerConnection
            /\ UNCHANGED <<purgePC, heartbeatPC, producerVars>>
  BY <1>10 DEF ValidateBrokerConnection, BrokerInitFails
<1>11. CASE CheckTopicsExist /\ UNCHANGED <<purgePC, heartbeatPC, producerVars>>
  BY <1>11 DEF CheckTopicsExist, BrokerInitFails
<1>12. CASE StartBroker /\ UNCHANGED <<purgePC, heartbeatPC, producerVars>>
  BY <1>12 DEF StartBroker
<1>13. CASE AnnounceStart /\ UNCHANGED <<purgePC, heartbeatPC, producerVars>>
  BY <1>13, SendKeepsType DEF AnnounceStart
<1>14. CASE ControllerInit /\ UNCHANGED <<purgePC, heartbeatPC, producerVars>>
  BY <1>14 DEF ControllerInit
<1>15. CASE RetentionInit /\ UNCHANGED <<purgePC, heartbeatPC, producerVars>>
  <2>1. running' \subseteq Services
    BY <1>15 DEF RetentionInit
  <2>2. ctx' \in {"live", "done"}
    BY <1>15 DEF RetentionInit
  <2> QED
    BY <1>15, <2>1, <2>2 DEF RetentionInit
<1>16. CASE RouterInit /\ UNCHANGED <<purgePC, heartbeatPC, producerVars>>
  BY <1>16 DEF RouterInit
<1>17. CASE StartHeartbeat /\ UNCHANGED <<purgePC, heartbeatPC, producerVars>>
  BY <1>17 DEF StartHeartbeat
<1>18. CASE AwaitServices /\ UNCHANGED <<purgePC, heartbeatPC, producerVars>>
  BY <1>18 DEF AwaitServices
<1>19. CASE CloseRouter /\ UNCHANGED <<purgePC, heartbeatPC, producerVars>>
  BY <1>19 DEF CloseRouter
<1>20. CASE AnnounceStop /\ UNCHANGED <<purgePC, heartbeatPC, producerVars>>
  BY <1>20, SendKeepsType DEF AnnounceStop
<1>21. CASE CloseBroker /\ UNCHANGED <<purgePC, heartbeatPC, producerVars>>
  BY <1>21 DEF CloseBroker, Closed
<1>22. CASE CloseDb /\ UNCHANGED <<purgePC, heartbeatPC, producerVars>>
  BY <1>22 DEF CloseDb, Closed
<1>23. CASE ServerFails
  BY <1>23 DEF ServerFails
<1>24. ASSUME NEW s \in OtherServices, OtherReturns(s)
       PROVE  TypeOK' /\ RoomInBatch'
  BY <1>24 DEF OtherReturns, Leave
<1>25. ASSUME NEW s \in Services, TickerPanics(s) PROVE TypeOK' /\ RoomInBatch'
  BY <1>25 DEF TickerPanics
<1>25a. CASE StartPipelines \/ PipelinesReturn
  <2>1. running' \subseteq Services
    BY <1>25a DEF StartPipelines, PipelinesReturn
  <2> QED
    BY <1>25a, <2>1 DEF StartPipelines, PipelinesReturn
<1>25b. CASE TestContext \/ HandOut
  <2>1. purgePC' \in {"select", "send"}
    BY <1>25b DEF TestContext, HandOut
  <2>2. UNCHANGED <<ctx, mainVars, chanVars, running, heartbeatPC, producerVars>>
    BY <1>25b DEF TestContext, HandOut
  <2> QED
    BY <2>1, <2>2
<1>25c. CASE StopPurge
  BY <1>25c DEF StopPurge, Leave
<1>26. CASE Beat
  BY <1>26 DEF Beat
<1>27. CASE AnnounceReady
  BY <1>27, SendKeepsType DEF AnnounceReady
<1>28. CASE StopHeartbeat
  BY <1>28 DEF StopHeartbeat, Leave
<1>29. CASE Receive
  BY <1>29 DEF Receive, ProducerAt
<1>30. CASE BatchTimeout
  BY <1>30 DEF BatchTimeout, ProducerAt
<1>31. CASE StopProducer
  BY <1>31 DEF StopProducer, Leave
<1>32. CASE BeginTransaction
  BY <1>32 DEF BeginTransaction, ProducerAt
<1>33. CASE BeginTransactionFails
  BY <1>33 DEF BeginTransactionFails, ProducerAt, CallFails, Finish
<1>34. CASE Produce
  <2>1. UNCHANGED <<batch, ctx, mainVars, chanVars, serviceVars, txn,
                    delivered>>
    BY <1>34 DEF Produce
  <2>2. producerPC' = "commit" /\ batch \in Seq(Nat)
    BY <1>34 DEF Produce
  <2>3. CASE written' = batch /\ UNCHANGED faults
    BY <2>1, <2>2, <2>3
  <2>4. CASE written' \in Parts(batch) /\ CallFails
    <3>1. written' \in Seq(Nat)
      BY <2>2, <2>4, PartsKeepOrder
    <3>2. faults' \in 0..MaxFaults
      BY <2>4 DEF CallFails
    <3> QED
      BY <2>1, <2>2, <3>1, <3>2
  <2> QED
    BY <1>34, <2>3, <2>4 DEF Produce
<1>35. CASE Commit
  BY <1>35 DEF Commit, ProducerAt, Finish
<1>36. CASE CommitRefused
  BY <1>36 DEF CommitRefused, ProducerAt
<1>37. CASE CommitFails
  <2>1. faults' \in 0..MaxFaults
    BY <1>37 DEF CommitFails, CallFails
  <2>2. delivered' \in Seq(Nat) /\ txn' \in {"none", "open"}
    <3>1. delivered' = delivered \o written \/ delivered' = delivered
      BY <1>37 DEF CommitFails
    <3>2. txn' \in {"none", "open"}
      BY <1>37 DEF CommitFails
    <3>3. delivered \o written \in Seq(Nat)
      OBVIOUS
    <3> QED
      BY <3>1, <3>2, <3>3
  <2>3. batch' = <<>> /\ written' = <<>> /\ producerPC' = "select"
    BY <1>37 DEF CommitFails, Finish
  <2> QED
    BY <1>37, <2>1, <2>2, <2>3 DEF CommitFails
<1>38. CASE Rollback
  BY <1>38 DEF Rollback, ProducerAt, CallFails, Finish
<1>39. CASE UNCHANGED vars
  BY <1>39 DEF vars
<1> QED
  BY <1>1, <1>2, <1>3, <1>4, <1>5, <1>6, <1>7, <1>8, <1>9, <1>10, <1>11,
     <1>12, <1>13, <1>14, <1>15, <1>16, <1>17, <1>18, <1>19, <1>20, <1>21,
     <1>22, <1>23, <1>24, <1>25, <1>25a, <1>25b, <1>25c,
     <1>26, <1>27, <1>28, <1>29,
     <1>30, <1>31, <1>32, <1>33, <1>34, <1>35, <1>36, <1>37, <1>38, <1>39
     DEF Next, Main, Start, Stop, Heartbeat, Producer, ProduceBatch

LEMMA OrderlyStep ==
    TypeOK /\ Orderly /\ ClosedAfterUse /\ [Next]_vars
        => Orderly' /\ ClosedAfterUse'
<1> SUFFICES ASSUME TypeOK, Orderly, ClosedAfterUse, [Next]_vars
             PROVE  Orderly' /\ ClosedAfterUse'
  OBVIOUS
<1> USE DEF TypeOK, Orderly, ClosedAfterUse, BeforeServices, AfterServices,
        mainVars, chanVars, serviceVars, producerVars, Alive
<1>1. CASE Cancel
  BY <1>1 DEF Cancel
<1>2. CASE ParseFlags /\ UNCHANGED <<purgePC, heartbeatPC, producerVars>>
  BY <1>2 DEF ParseFlags
<1>3. CASE NewConfig /\ UNCHANGED <<purgePC, heartbeatPC, producerVars>>
  BY <1>3 DEF NewConfig
<1>4. CASE LoadFromFile /\ UNCHANGED <<purgePC, heartbeatPC, producerVars>>
  BY <1>4 DEF LoadFromFile
<1>5. CASE NoFileLoaded /\ UNCHANGED <<purgePC, heartbeatPC, producerVars>>
  BY <1>5 DEF NoFileLoaded
<1>6. CASE OpenDb /\ UNCHANGED <<purgePC, heartbeatPC, producerVars>>
  BY <1>6 DEF OpenDb
<1>7. CASE CheckTable /\ UNCHANGED <<purgePC, heartbeatPC, producerVars>>
  BY <1>7 DEF CheckTable
<1>8. CASE BrokerInitPanics /\ UNCHANGED <<purgePC, heartbeatPC, producerVars>>
  BY <1>8 DEF BrokerInitPanics, Closed
<1>9. CASE NewClient /\ UNCHANGED <<purgePC, heartbeatPC, producerVars>>
  BY <1>9 DEF NewClient, BrokerInitFails
<1>10. CASE /\ ValidateBrokerConnection
            /\ UNCHANGED <<purgePC, heartbeatPC, producerVars>>
  BY <1>10 DEF ValidateBrokerConnection, BrokerInitFails
<1>11. CASE CheckTopicsExist /\ UNCHANGED <<purgePC, heartbeatPC, producerVars>>
  BY <1>11 DEF CheckTopicsExist, BrokerInitFails
<1>12. CASE StartBroker /\ UNCHANGED <<purgePC, heartbeatPC, producerVars>>
  BY <1>12 DEF StartBroker
<1>13. CASE AnnounceStart /\ UNCHANGED <<purgePC, heartbeatPC, producerVars>>
  BY <1>13 DEF AnnounceStart, SendServiceDigest, Enqueue
<1>14. CASE ControllerInit /\ UNCHANGED <<purgePC, heartbeatPC, producerVars>>
  BY <1>14 DEF ControllerInit
<1>15. CASE RetentionInit /\ UNCHANGED <<purgePC, heartbeatPC, producerVars>>
  BY <1>15 DEF RetentionInit
<1>16. CASE RouterInit /\ UNCHANGED <<purgePC, heartbeatPC, producerVars>>
  BY <1>16 DEF RouterInit
<1>17. CASE StartHeartbeat /\ UNCHANGED <<purgePC, heartbeatPC, producerVars>>
  BY <1>17 DEF StartHeartbeat
<1>18. CASE AwaitServices /\ UNCHANGED <<purgePC, heartbeatPC, producerVars>>
  BY <1>18 DEF AwaitServices
<1>19. CASE CloseRouter /\ UNCHANGED <<purgePC, heartbeatPC, producerVars>>
  BY <1>19 DEF CloseRouter
<1>20. CASE AnnounceStop /\ UNCHANGED <<purgePC, heartbeatPC, producerVars>>
  BY <1>20 DEF AnnounceStop, SendServiceDigest, Enqueue
<1>21. CASE CloseBroker /\ UNCHANGED <<purgePC, heartbeatPC, producerVars>>
  BY <1>21 DEF CloseBroker, Closed
<1>22. CASE CloseDb /\ UNCHANGED <<purgePC, heartbeatPC, producerVars>>
  BY <1>22 DEF CloseDb, Closed
<1>23. CASE ServerFails
  BY <1>23 DEF ServerFails
<1>24. ASSUME NEW s \in OtherServices, OtherReturns(s)
       PROVE  Orderly' /\ ClosedAfterUse'
  <2>1. running # {} /\ running' \subseteq running
    BY <1>24 DEF OtherReturns, Leave
  <2>2. heartbeatPC' = "send" => "heartbeat" \in running'
    BY <1>24 DEF OtherReturns, Leave, OtherServices
  <2> QED
    BY <1>24, <2>1, <2>2 DEF OtherReturns
<1>25. ASSUME NEW s \in Services, TickerPanics(s)
       PROVE  Orderly' /\ ClosedAfterUse'
  BY <1>25 DEF TickerPanics
<1>25a. CASE StartPipelines \/ PipelinesReturn
  <2>1. running # {}
    BY <1>25a DEF StartPipelines, PipelinesReturn
  <2>2. heartbeatPC' = "send" => "heartbeat" \in running'
    BY <1>25a DEF StartPipelines, PipelinesReturn
  <2> QED
    BY <1>25a, <2>1, <2>2 DEF StartPipelines, PipelinesReturn
<1>25b. CASE TestContext \/ HandOut
  BY <1>25b DEF TestContext, HandOut
<1>25c. CASE StopPurge
  BY <1>25c DEF StopPurge, Leave
<1>26. CASE Beat
  BY <1>26 DEF Beat
<1>27. CASE AnnounceReady
  BY <1>27 DEF AnnounceReady, SendServiceDigest, Enqueue
<1>28. CASE StopHeartbeat
  BY <1>28 DEF StopHeartbeat, Leave
<1>29. CASE Receive
  BY <1>29 DEF Receive, ProducerAt
<1>30. CASE BatchTimeout
  BY <1>30 DEF BatchTimeout, ProducerAt
<1>31. CASE StopProducer
  BY <1>31 DEF StopProducer, Leave
<1>32. CASE BeginTransaction
  BY <1>32 DEF BeginTransaction, ProducerAt
<1>33. CASE BeginTransactionFails
  BY <1>33 DEF BeginTransactionFails, ProducerAt, CallFails, Finish
<1>34. CASE Produce
  BY <1>34 DEF Produce, ProducerAt, CallFails
<1>35. CASE Commit
  BY <1>35 DEF Commit, ProducerAt, Finish
<1>36. CASE CommitRefused
  BY <1>36 DEF CommitRefused, ProducerAt
<1>37. CASE CommitFails
  BY <1>37 DEF CommitFails, ProducerAt, CallFails, Finish
<1>38. CASE Rollback
  BY <1>38 DEF Rollback, ProducerAt, CallFails, Finish
<1>39. CASE UNCHANGED vars
  BY <1>39 DEF vars
<1> QED
  BY <1>1, <1>2, <1>3, <1>4, <1>5, <1>6, <1>7, <1>8, <1>9, <1>10, <1>11,
     <1>12, <1>13, <1>14, <1>15, <1>16, <1>17, <1>18, <1>19, <1>20, <1>21,
     <1>22, <1>23, <1>24, <1>25, <1>25a, <1>25b, <1>25c,
     <1>26, <1>27, <1>28, <1>29,
     <1>30, <1>31, <1>32, <1>33, <1>34, <1>35, <1>36, <1>37, <1>38, <1>39
     DEF Next, Main, Start, Stop, Heartbeat, Producer, ProduceBatch

-----------------------------------------------------------------------------
(* The three steps of a digest: into the channel, from there to the batch, *)
(* and from the batch to Kafka.                                            *)

LEMMA SendKeepsOrder ==
    ASSUME TypeOK, InOrder, SendServiceDigest, UNCHANGED <<batch, delivered>>
    PROVE  InOrder'
<1>1. CASE Enqueue
  <2> DEFINE d == sent + 1
  <2>1. /\ queue \in Seq(Nat) /\ batch \in Seq(Nat) /\ delivered \in Seq(Nat)
        /\ sent \in Nat /\ d \in Nat
    BY DEF TypeOK
  <2>2. /\ DOMAIN queue' = 1..(Len(queue) + 1)
        /\ DOMAIN queue = 1..Len(queue) /\ Len(queue) \in Nat
        /\ \A i \in DOMAIN queue : queue'[i] = queue[i]
        /\ queue'[Len(queue) + 1] = sent + 1
    BY <1>1, <2>1 DEF Enqueue
  <2>3. \A i \in DOMAIN queue' : \/ i \in DOMAIN queue /\ queue'[i] = queue[i]
                                 \/ i = Len(queue) + 1 /\ queue'[i] = sent + 1
    BY <2>2
  <2>4. /\ \A i \in DOMAIN queue : queue[i] \in Nat
        /\ \A i \in DOMAIN batch : batch[i] \in Nat
        /\ \A i \in DOMAIN delivered : delivered[i] \in Nat
    BY <2>1
  <2>5. sent' = sent + 1
    BY <1>1 DEF Enqueue
  <2>6. Increasing(queue')
    <3> SUFFICES ASSUME NEW i \in DOMAIN queue', NEW j \in DOMAIN queue', i < j
                 PROVE  queue'[i] < queue'[j]
      BY DEF Increasing
    <3>1. i \in DOMAIN queue
      BY <2>2
    <3>2. queue'[i] = queue[i] /\ queue[i] <= sent /\ queue[i] \in Nat
      BY <2>2, <2>4, <3>1 DEF InOrder, UpTo
    <3>3. CASE j \in DOMAIN queue
      BY <2>2, <3>1, <3>2, <3>3 DEF InOrder, Increasing
    <3>4. CASE j = Len(queue) + 1
      BY <2>1, <2>2, <3>2, <3>4
    <3> QED
      BY <2>3, <3>3, <3>4
  <2>7. Precedes(delivered, queue') /\ Precedes(batch, queue')
    <3>1. \A i \in DOMAIN delivered : delivered[i] < sent + 1
      BY <2>1, <2>4 DEF InOrder, UpTo
    <3>2. \A i \in DOMAIN batch : batch[i] < sent + 1
      BY <2>1, <2>4 DEF InOrder, UpTo
    <3> QED
      BY <2>3, <3>1, <3>2 DEF InOrder, Precedes
  <2>8. /\ UpTo(delivered, sent') /\ UpTo(batch, sent')
        /\ UpTo(queue', sent')
    BY <2>1, <2>3, <2>4, <2>5 DEF InOrder, UpTo
  <2> QED
    BY <2>6, <2>7, <2>8 DEF InOrder
<1>2. CASE UNCHANGED chanVars
  BY <1>2 DEF InOrder, chanVars
<1> QED
  BY <1>1, <1>2 DEF SendServiceDigest

LEMMA ReceiveKeepsOrder ==
    ASSUME TypeOK, InOrder, Receive
    PROVE  InOrder'
<1>1. /\ queue \in Seq(Nat) /\ batch \in Seq(Nat) /\ delivered \in Seq(Nat)
      /\ sent \in Nat /\ queue # <<>>
      /\ queue' = Tail(queue) /\ batch' = Append(batch, queue[1])
      /\ UNCHANGED <<sent, delivered>>
  BY DEF TypeOK, Receive
<1>2. /\ DOMAIN queue = 1..Len(queue) /\ Len(queue) \in Nat \ {0}
      /\ DOMAIN queue' = 1..(Len(queue) - 1)
      /\ \A i \in DOMAIN queue' : queue'[i] = queue[i + 1]
  BY <1>1
<1>3. /\ DOMAIN batch = 1..Len(batch) /\ Len(batch) \in Nat
      /\ DOMAIN batch' = 1..(Len(batch) + 1)
      /\ \A i \in DOMAIN batch : batch'[i] = batch[i]
      /\ batch'[Len(batch) + 1] = queue[1]
  BY <1>1, <1>2
<1>4. \A i \in DOMAIN queue' : i + 1 \in DOMAIN queue /\ 1 < i + 1
  BY <1>2
<1>5. \A i \in DOMAIN batch' : \/ i \in DOMAIN batch /\ batch'[i] = batch[i]
                               \/ i = Len(batch) + 1 /\ batch'[i] = queue[1]
  BY <1>3
<1>6. 1 \in DOMAIN queue
  BY <1>2
<1>7. Increasing(queue') /\ Increasing(delivered') /\ Increasing(batch')
  <2>1. Increasing(queue')
    BY <1>2, <1>4 DEF InOrder, Increasing
  <2>2. Increasing(batch')
    <3> SUFFICES ASSUME NEW i \in DOMAIN batch', NEW j \in DOMAIN batch', i < j
                 PROVE  batch'[i] < batch'[j]
      BY DEF Increasing
    <3>1. i \in DOMAIN batch /\ batch'[i] = batch[i]
      BY <1>3
    <3>2. CASE j \in DOMAIN batch
      BY <1>3, <3>1, <3>2 DEF InOrder, Increasing
    <3>3. CASE j = Len(batch) + 1
      BY <1>3, <1>6, <3>1, <3>3 DEF InOrder, Precedes
    <3> QED
      BY <1>5, <3>2, <3>3
  <2> QED
    BY <1>1, <2>1, <2>2 DEF InOrder
<1>8. Precedes(delivered, batch') /\ Precedes(delivered, queue')
  BY <1>2, <1>4, <1>5, <1>6 DEF InOrder, Precedes
<1>9. Precedes(batch', queue')
  <2> SUFFICES ASSUME NEW i \in DOMAIN batch', NEW j \in DOMAIN queue'
               PROVE  batch'[i] < queue'[j]
    BY DEF Precedes
  <2>1. queue'[j] = queue[j + 1] /\ j + 1 \in DOMAIN queue /\ 1 < j + 1
    BY <1>2, <1>4
  <2>2. CASE i \in DOMAIN batch /\ batch'[i] = batch[i]
    BY <2>1, <2>2 DEF InOrder, Precedes
  <2>3. CASE batch'[i] = queue[1]
    BY <1>6, <2>1, <2>3 DEF InOrder, Increasing
  <2> QED
    BY <1>5, <2>2, <2>3
<1>10. UpTo(delivered', sent') /\ UpTo(batch', sent') /\ UpTo(queue', sent')
  BY <1>1, <1>2, <1>4, <1>5, <1>6 DEF InOrder, UpTo
<1> QED
  BY <1>1, <1>7, <1>8, <1>9, <1>10 DEF InOrder

LEMMA ForgetKeepsOrder ==
    ASSUME TypeOK, InOrder, batch' = <<>>, UNCHANGED <<queue, sent, delivered>>
    PROVE  InOrder'
BY DEF InOrder, Increasing, Precedes, UpTo

LEMMA DeliverKeepsOrder ==
    ASSUME TypeOK, InOrder, WrittenIsPart,
           delivered' = delivered \o written, batch' = <<>>,
           UNCHANGED <<queue, sent>>
    PROVE  InOrder'
<1>1. /\ queue \in Seq(Nat) /\ written \in Seq(Nat) /\ delivered \in Seq(Nat)
      /\ sent \in Nat
  BY DEF TypeOK
<1>0. /\ Precedes(delivered, written) /\ Precedes(written, queue)
      /\ UpTo(written, sent) /\ Increasing(written)
  BY DEF InOrder, WrittenIsPart, PartOf, Precedes, UpTo
<1> DEFINE n == Len(delivered)
<1>2. /\ DOMAIN delivered = 1..n /\ n \in Nat
      /\ DOMAIN written = 1..Len(written) /\ Len(written) \in Nat
      /\ DOMAIN delivered' = 1..(n + Len(written))
      /\ \A i \in 1..(n + Len(written)) :
            delivered'[i] = IF i <= n THEN delivered[i] ELSE written[i - n]
  BY <1>1
<1>3. \A i \in DOMAIN delivered' :
         \/ i \in DOMAIN delivered /\ delivered'[i] = delivered[i]
         \/ i > n /\ i - n \in DOMAIN written /\ delivered'[i] = written[i - n]
  BY <1>2
<1>4. Increasing(delivered')
  <2> SUFFICES ASSUME NEW i \in DOMAIN delivered', NEW j \in DOMAIN delivered',
                      i < j
               PROVE  delivered'[i] < delivered'[j]
    BY DEF Increasing
  <2>1. i \in Nat /\ j \in Nat /\ n \in Nat
    BY <1>2
  <2>2. CASE j \in DOMAIN delivered /\ delivered'[j] = delivered[j]
    <3>1. i \in DOMAIN delivered /\ delivered'[i] = delivered[i]
      BY <1>2, <2>1, <2>2
    <3> QED
      BY <2>2, <3>1 DEF InOrder, Increasing
  <2>3. CASE j > n /\ j - n \in DOMAIN written /\ delivered'[j] = written[j - n]
    <3>1. CASE i \in DOMAIN delivered /\ delivered'[i] = delivered[i]
      BY <1>0, <2>3, <3>1 DEF Precedes
    <3>2. CASE /\ i > n /\ i - n \in DOMAIN written
               /\ delivered'[i] = written[i - n]
      BY <1>0, <2>1, <2>3, <3>2 DEF Increasing
    <3> QED
      BY <1>3, <3>1, <3>2
  <2> QED
    BY <1>3, <2>2, <2>3
<1>5. Precedes(delivered', queue)
  BY <1>0, <1>3 DEF InOrder, Precedes
<1>6. UpTo(delivered', sent)
  BY <1>0, <1>3 DEF InOrder, UpTo
<1>7. Increasing(<<>>) /\ UpTo(<<>>, sent) /\ Precedes(delivered', <<>>)
      /\ Precedes(<<>>, queue)
  BY DEF Increasing, UpTo, Precedes
<1> QED
  BY <1>4, <1>5, <1>6, <1>7 DEF InOrder

LEMMA OrderStep ==
    TypeOK /\ InOrder /\ WrittenIsPart /\ [Next]_vars
        => InOrder' /\ WrittenIsPart'
<1> SUFFICES ASSUME TypeOK, InOrder, WrittenIsPart, [Next]_vars
             PROVE  InOrder' /\ WrittenIsPart'
  OBVIOUS
<1>1. CASE UNCHANGED <<queue, sent, batch, written, delivered>>
  BY <1>1 DEF InOrder, WrittenIsPart
<1>2. CASE SendServiceDigest /\ UNCHANGED <<batch, written, delivered>>
  BY <1>2, SendKeepsOrder DEF WrittenIsPart
<1>3. CASE Receive
  <2>1. /\ batch \in Seq(Nat) /\ batch' = Append(batch, Head(queue))
        /\ written' = written
    BY <1>3 DEF TypeOK, Receive
  <2>2. \A i \in DOMAIN batch : i \in DOMAIN batch' /\ batch'[i] = batch[i]
    BY <2>1
  <2> QED
    BY <1>3, <2>1, <2>2, ReceiveKeepsOrder DEF WrittenIsPart, PartOf
<1>4. CASE /\ written' = <<>> /\ batch' = <<>>
           /\ UNCHANGED <<queue, sent, delivered>>
  BY <1>4, ForgetKeepsOrder DEF WrittenIsPart, PartOf, Increasing
<1>5. CASE /\ delivered' = delivered \o written
           /\ written' = <<>> /\ batch' = <<>>
           /\ UNCHANGED <<queue, sent>>
  BY <1>5, DeliverKeepsOrder DEF WrittenIsPart, PartOf, Increasing
<1>5a. CASE Produce
  <2>1. UNCHANGED <<queue, sent, batch, delivered>>
    BY <1>5a DEF Produce, chanVars
  <2>2. CASE written' = batch
    BY <2>1, <2>2 DEF InOrder, WrittenIsPart, PartOf
  <2>3. CASE written' \in Parts(batch)
    BY <2>1, <2>3, PartsKeepOrder DEF TypeOK, InOrder, WrittenIsPart
  <2> QED
    BY <1>5a, <2>2, <2>3 DEF Produce
<1>6. ASSUME Main
      PROVE  \/ UNCHANGED <<queue, sent, batch, written, delivered>>
             \/ SendServiceDigest /\ UNCHANGED <<batch, written, delivered>>
  <2> USE DEF chanVars, producerVars
  <2>1. UNCHANGED <<batch, written, delivered>>
    BY <1>6 DEF Main
  <2>2. CASE Start
    BY <2>1, <2>2 DEF Start, ParseFlags, NewConfig, LoadFromFile, NoFileLoaded,
       OpenDb, CheckTable, BrokerInitPanics, NewClient,
       ValidateBrokerConnection, CheckTopicsExist, StartBroker, AnnounceStart,
       ControllerInit, RetentionInit, RouterInit, StartHeartbeat
  <2>3. CASE Stop
    BY <2>1, <2>3 DEF Stop, AwaitServices, CloseRouter, AnnounceStop,
       CloseBroker, CloseDb
  <2> QED
    BY <1>6, <2>2, <2>3 DEF Main
<1>7. ASSUME ProduceBatch
      PROVE  \/ Produce
             \/ UNCHANGED <<queue, sent, batch, written, delivered>>
             \/ /\ written' = <<>> /\ batch' = <<>>
                /\ UNCHANGED <<queue, sent, delivered>>
             \/ /\ delivered' = delivered \o written
                /\ written' = <<>> /\ batch' = <<>>
                /\ UNCHANGED <<queue, sent>>
  BY <1>7 DEF ProduceBatch, BeginTransaction, BeginTransactionFails,
     Commit, CommitRefused, CommitFails, Rollback, Finish, chanVars
<1>8. ASSUME \/ Cancel \/ ServerFails
             \/ \E s \in OtherServices : OtherReturns(s)
             \/ StartPipelines \/ PipelinesReturn
             \/ TestContext \/ HandOut \/ StopPurge
             \/ \E s \in Services : TickerPanics(s)
             \/ Beat \/ StopHeartbeat \/ BatchTimeout \/ StopProducer
             \/ UNCHANGED vars
      PROVE  UNCHANGED <<queue, sent, batch, written, delivered>>
  BY <1>8 DEF Cancel, ServerFails, OtherReturns, StartPipelines,
     PipelinesReturn, TestContext, HandOut, StopPurge, TickerPanics, Beat,
     StopHeartbeat, BatchTimeout, StopProducer, vars, chanVars, producerVars
<1>9. ASSUME AnnounceReady
      PROVE  SendServiceDigest /\ UNCHANGED <<batch, written, delivered>>
  BY <1>9 DEF AnnounceReady, producerVars
<1> QED
  BY <1>1, <1>2, <1>3, <1>4, <1>5, <1>5a, <1>6, <1>7, <1>8, <1>9
     DEF Next, Heartbeat, Producer

-----------------------------------------------------------------------------
\* The inductive invariant holds in every state the process reaches.
THEOREM InvariantHolds == Spec => []IInv
<1>1. IInv /\ [Next]_vars => IInv'
  BY TypeStep, OrderlyStep, OrderStep DEF IInv
<1> QED
  BY InitInv, <1>1, PTL DEF Spec

\* Program counters and resources hold what the code can store, and neither
\* the channel of digests nor the batch of the producer outgrows its capacity.
THEOREM TypeCorrect == Spec => []TypeOK
BY InvariantHolds, PTL DEF IInv

\* Whichever Init fails and whenever the stop comes, the client, the channel
\* and the pool are closed only when every service of the wait group has
\* returned, and none is left open by a main that returns.
THEOREM ClosesLast == Spec => []ClosedAfterUse
BY InvariantHolds, PTL DEF IInv

\* However many calls to Kafka fail, a commit that was done and reported as
\* failed included, no digest is delivered twice or after a younger one.
THEOREM DeliversInOrder == Spec => []DeliveredOnceInOrder
<1>1. IInv => DeliveredOnceInOrder
  BY DEF IInv, InOrder, DeliveredOnceInOrder
<1> QED
  BY <1>1, InvariantHolds, PTL
=============================================================================
