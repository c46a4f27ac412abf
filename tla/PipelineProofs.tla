--------------------------- MODULE PipelineProofs ---------------------------
(***************************************************************************)
(* Safety of the pipelines, for any number of pipelines and topics, any    *)
(* capacities and any traffic.                                             *)
(*                                                                         *)
(* The five safety properties of Pipeline follow from one inductive        *)
(* invariant, IInv, that ties the registry, the channels and the contexts  *)
(* to the place where Pipeline.Start is: Start alone registers, removes    *)
(* and closes, and it does so in a fixed order.                            *)
(***************************************************************************)
EXTENDS Pipeline, TLAPS

\* Start has seen its context done.
Stopping(p) == startPC[p] \in {"closeFrames", "closeOffsets", "join", "returned"}

\* Whoever is registered is registered under its topic and still waits for
\* its context.
RegisteredIsWaiting ==
    \A t \in Topics : archiveTopics[t] # NoPipeline =>
        /\ TopicOf[archiveTopics[t]] = t
        /\ startPC[archiveTopics[t]] = "wait"

\* A closed channel was closed by its own Start.
ClosedByStart ==
    \A p \in Pipelines :
        /\ framesChan[p].closed =>
               startPC[p] \in {"closeOffsets", "join", "returned"}
        /\ offsetsChan[p].closed => startPC[p] \in {"join", "returned"}

\* A pipeline has a context from the moment it exists, and Start stops only
\* after that context is cancelled.
ContextFollowsStart ==
    \A p \in Pipelines :
        /\ archiveCtx[p] = "none" <=> startPC[p] = "idle"
        /\ Stopping(p) => archiveCtx[p] = "done"

\* The controller can still cancel whatever is live, and cancels only what
\* exists.
LiveIsControlled ==
    \A p \in Pipelines :
        /\ archiveCtx[p] = "live" => controlled[TopicOf[p]] = p
        /\ controlled[TopicOf[p]] = p => archiveCtx[p] # "none"

\* Start returns after both writers.
ReturnedIsJoined ==
    \A p \in Pipelines : startPC[p] = "returned" =>
        writerPC[p] = "done" /\ dbPC[p] = "done"

IInv ==
    /\ RegisteredIsWaiting
    /\ ClosedByStart
    /\ ContextFollowsStart
    /\ LiveIsControlled
    /\ ReturnedIsJoined
    /\ PanicOnlyAfterCancel
    /\ OrphanHasPredecessor

-----------------------------------------------------------------------------
\* What the channel operations do to a channel.
LEMMA ChannelOperations ==
    ASSUME NEW c \in Channel
    PROVE  /\ c.len \in Nat
           /\ Pushed(c) \in Channel
           /\ Pushed(c).len = c.len + 1
           /\ Pushed(c).closed = c.closed
           /\ c.len > 0 => /\ Popped(c) \in Channel
                           /\ Popped(c).len = c.len - 1
                           /\ Popped(c).closed = c.closed
           /\ Shut(c) \in Channel
           /\ Shut(c).len = c.len
           /\ Shut(c).closed
<1>1. c = [len |-> c.len, closed |-> c.closed] /\ c.len \in Nat
      /\ c.closed \in BOOLEAN
  BY DEF Channel
<1>2. Pushed(c) = [len |-> c.len + 1, closed |-> c.closed]
  BY <1>1 DEF Pushed
<1>3. Popped(c) = [len |-> c.len - 1, closed |-> c.closed]
  BY <1>1 DEF Popped
<1>4. Shut(c) \in Channel /\ Shut(c).len = c.len /\ Shut(c).closed
  BY DEF Shut, Channel
<1>5. c.len + 1 \in Nat /\ (c.len > 0 => c.len - 1 \in Nat)
  BY <1>1
<1> QED
  BY <1>1, <1>2, <1>3, <1>4, <1>5 DEF Channel

\* Every step of the system keeps the types and the capacities.
LEMMA TypeStep == TypeOK /\ [Next]_vars => TypeOK'
<1> SUFFICES ASSUME TypeOK, [Next]_vars
             PROVE  TypeOK'
  OBVIOUS
<1> USE PipelineAssumption, ChannelOperations DEF TypeOK, StartStates
<1>1. ASSUME NEW p \in Pipelines, SwitchOn(p)
      PROVE  TypeOK'
  BY <1>1 DEF SwitchOn, consumerVars
<1>2. ASSUME NEW p \in Pipelines, SwitchOff(p)
      PROVE  TypeOK'
  BY <1>2 DEF SwitchOff, consumerVars
<1>3. CASE Shutdown
  BY <1>3 DEF Shutdown, consumerVars
<1>4. ASSUME NEW p \in Pipelines, AddArchiveTopic(p)
      PROVE  TypeOK'
  BY <1>4 DEF AddArchiveTopic, GoTo, controlVars, consumerVars
<1>5. ASSUME NEW p \in Pipelines, RemoveArchiveTopic(p)
      PROVE  TypeOK'
  BY <1>5 DEF RemoveArchiveTopic, GoTo, controlVars, consumerVars
<1>6. ASSUME NEW p \in Pipelines, CloseFrames(p)
      PROVE  TypeOK'
  BY <1>6 DEF CloseFrames, GoTo, controlVars, consumerVars
<1>7. ASSUME NEW p \in Pipelines, CloseOffsets(p)
      PROVE  TypeOK'
  BY <1>7 DEF CloseOffsets, GoTo, controlVars, consumerVars
<1>8. ASSUME NEW p \in Pipelines, Join(p)
      PROVE  TypeOK'
  BY <1>8 DEF Join, GoTo, controlVars, consumerVars
<1>9. ASSUME NEW p \in Pipelines, WriterStep(p)
      PROVE  TypeOK'
  <2>1. CASE WriterStop(p)
    BY <2>1 DEF WriterStop, controlVars, consumerVars
  <2>2. CASE WriterReceive(p)
    <3>1. Popped(framesChan[p]) \in Channel /\ Popped(framesChan[p]).len <= FramesCap
      BY <2>2 DEF WriterReceive
    <3> QED
      BY <2>2, <3>1 DEF WriterReceive, controlVars, consumerVars
  <2>3. CASE WriterEmit(p)
    <3>1. offsetsChan[p].len < OffsetsCap =>
            /\ Pushed(offsetsChan[p]) \in Channel
            /\ Pushed(offsetsChan[p]).len <= OffsetsCap
      OBVIOUS
    <3>2. panicked' \in BOOLEAN
      BY <2>3, Zenon DEF WriterEmit
    <3>3. CASE offsetsChan[p].closed
      BY <2>3, <3>2, <3>3 DEF WriterEmit, controlVars, consumerVars
    <3>4. CASE ~offsetsChan[p].closed
      <4>1. \/ /\ offsetsChan[p].len < OffsetsCap
               /\ offsetsChan' = [offsetsChan EXCEPT ![p] = Pushed(@)]
            \/ offsetsChan' = offsetsChan
        BY <2>3, <3>4 DEF WriterEmit
      <4>2. /\ offsetsChan' \in [Pipelines -> Channel]
            /\ \A q \in Pipelines : offsetsChan'[q].len <= OffsetsCap
        BY <3>1, <4>1
      <4> QED
        BY <2>3, <3>2, <3>4, <4>2 DEF WriterEmit, controlVars, consumerVars
    <3> QED
      BY <3>3, <3>4
  <2> QED
    BY <1>9, <2>1, <2>2, <2>3 DEF WriterStep
<1>10. ASSUME NEW p \in Pipelines, DbStep(p)
       PROVE  TypeOK'
  <2>1. CASE DbStop(p)
    BY <2>1 DEF DbStop, controlVars, consumerVars
  <2>2. CASE DbReceive(p)
    <3>1. Popped(offsetsChan[p]) \in Channel /\ Popped(offsetsChan[p]).len <= OffsetsCap
      BY <2>2 DEF DbReceive
    <3> QED
      BY <2>2, <3>1 DEF DbReceive, controlVars, consumerVars
  <2>3. CASE DbTimer(p) \/ DbFlushed(p)
    BY <2>3 DEF DbTimer, DbFlushed, controlVars, consumerVars
  <2> QED
    BY <1>10, <2>1, <2>2, <2>3 DEF DbStep
<1>11. CASE Poll
  BY <1>11 DEF Poll, Subscribed, controlVars
<1>12. CASE LookupTopic
  BY <1>12 DEF LookupTopic, controlVars
<1>13. CASE SendFrameToArchive
  <2>1. target \in Pipelines
    BY <1>13 DEF SendFrameToArchive
  <2>2. framesChan[target].len < FramesCap =>
          /\ Pushed(framesChan[target]) \in Channel
          /\ Pushed(framesChan[target]).len <= FramesCap
    BY <2>1
  <2>3. panicked' \in BOOLEAN
    BY <1>13, Zenon DEF SendFrameToArchive
  <2>4. CASE framesChan[target].closed
    BY <1>13, <2>3, <2>4 DEF SendFrameToArchive, controlVars
  <2>5. CASE ~framesChan[target].closed
    <3>0. /\ framesChan[target].len < FramesCap
          /\ framesChan' = [framesChan EXCEPT ![target] = Pushed(@)]
      BY <1>13, <2>5 DEF SendFrameToArchive
    <3>1. /\ framesChan' \in [Pipelines -> Channel]
          /\ \A q \in Pipelines : framesChan'[q].len <= FramesCap
      BY <2>1, <2>2, <3>0
    <3> QED
      BY <1>13, <2>3, <2>5, <3>1 DEF SendFrameToArchive, controlVars
  <2> QED
    BY <2>4, <2>5
<1>14. CASE ConsumerStop
  BY <1>14 DEF ConsumerStop, controlVars
<1>15. CASE UNCHANGED vars
  BY <1>15 DEF vars, controlVars, consumerVars
<1> QED
  BY <1>1, <1>2, <1>3, <1>4, <1>5, <1>6, <1>7, <1>8, <1>9, <1>10, <1>11, <1>12,
     <1>13, <1>14, <1>15
     DEF Next, Control, StartStep, ConsumerStep

\* Program counters, contexts, channels and the registry only ever hold what
\* their types allow, and no channel exceeds its capacity.
THEOREM TypeCorrect == Spec => []TypeOK
<1>1. Init => TypeOK
  <2>1. OpenChan \in Channel /\ OpenChan.len = 0
    BY DEF OpenChan, Channel
  <2> SUFFICES ASSUME Init PROVE TypeOK
    OBVIOUS
  <2>2. /\ framesChan \in [Pipelines -> Channel]
        /\ offsetsChan \in [Pipelines -> Channel]
        /\ \A p \in Pipelines : framesChan[p].len <= FramesCap
        /\ \A p \in Pipelines : offsetsChan[p].len <= OffsetsCap
    BY <2>1, PipelineAssumption DEF Init
  <2>3. stopping \in BOOLEAN /\ panicked \in BOOLEAN
    BY Zenon DEF Init
  <2> QED
    BY <2>2, <2>3, PipelineAssumption DEF Init, TypeOK, StartStates
<1> QED
  BY <1>1, TypeStep, PTL DEF Spec

-----------------------------------------------------------------------------
\* A step that leaves the registry, the contexts and Start alone, closes no
\* channel, revives no writer and does not panic keeps the invariant.
LEMMA QuietStep ==
    ASSUME IInv, panicked' = FALSE,
           UNCHANGED <<startPC, archiveCtx, archiveTopics, controlled>>,
           \A p \in Pipelines :
               /\ framesChan'[p].closed => framesChan[p].closed
               /\ offsetsChan'[p].closed => offsetsChan[p].closed
               /\ writerPC[p] = "done" => writerPC'[p] = "done"
               /\ dbPC[p] = "done" => dbPC'[p] = "done"
    PROVE  IInv'
<1>1. RegisteredIsWaiting' /\ LiveIsControlled'
  BY DEF IInv, RegisteredIsWaiting, LiveIsControlled
<1>2. ClosedByStart'
  BY DEF IInv, ClosedByStart
<1>3. ContextFollowsStart'
  BY DEF IInv, ContextFollowsStart, Stopping
<1>4. ReturnedIsJoined'
  BY DEF IInv, ReturnedIsJoined
<1>5. PanicOnlyAfterCancel'
  BY DEF PanicOnlyAfterCancel
<1>6. OrphanHasPredecessor'
  BY DEF IInv, OrphanHasPredecessor, Running
<1> QED
  BY <1>1, <1>2, <1>3, <1>4, <1>5, <1>6 DEF IInv

\* A step that panics changes nothing else; the channel it panics on was
\* closed by a Start that has seen its context done.
LEMMA PanicStep ==
    ASSUME IInv, NEW p \in Pipelines, SendsOnClosed(p),
           UNCHANGED <<startPC, archiveCtx, archiveTopics, controlled,
                       framesChan, offsetsChan, writerPC, dbPC, consumerPC,
                       target>>
    PROVE  IInv'
<1>1. /\ RegisteredIsWaiting' /\ LiveIsControlled' /\ ClosedByStart'
      /\ ContextFollowsStart' /\ ReturnedIsJoined' /\ OrphanHasPredecessor'
  BY DEF IInv, RegisteredIsWaiting, LiveIsControlled, ClosedByStart, Stopping,
         ContextFollowsStart, ReturnedIsJoined, OrphanHasPredecessor, Running
<1>2. Stopping(p)
  BY DEF IInv, ClosedByStart, SendsOnClosed, Stopping
<1>3. PanicOnlyAfterCancel'
  BY <1>2 DEF IInv, ContextFollowsStart, PanicOnlyAfterCancel, SendsOnClosed
<1> QED
  BY <1>1, <1>3 DEF IInv

\* The two writers never touch the registry, the contexts or Start.
LEMMA WritersStep ==
    ASSUME TypeOK, IInv, ~panicked,
           NEW p \in Pipelines,
           WriterStep(p) \/ DbStep(p)
    PROVE  IInv'
<1> USE ChannelOperations DEF TypeOK
<1>0. panicked = FALSE
  OBVIOUS
<1>1. CASE WriterStop(p)
  BY <1>0, <1>1, QuietStep DEF WriterStop, controlVars
<1>2. CASE WriterReceive(p)
  <2>1. \A q \in Pipelines : framesChan'[q].closed => framesChan[q].closed
    BY <1>2 DEF WriterReceive
  <2> QED
    BY <1>0, <1>2, <2>1, QuietStep DEF WriterReceive, controlVars
<1>3. CASE WriterEmit(p) /\ offsetsChan[p].closed
  BY <1>3, PanicStep DEF WriterEmit, SendsOnClosed, controlVars, consumerVars
<1>4. CASE WriterEmit(p) /\ ~offsetsChan[p].closed
  <2>1. \/ offsetsChan' = [offsetsChan EXCEPT ![p] = Pushed(@)]
        \/ offsetsChan' = offsetsChan
    BY <1>4 DEF WriterEmit
  <2>2. Pushed(offsetsChan[p]).closed = offsetsChan[p].closed
    OBVIOUS
  <2>3. \A q \in Pipelines : offsetsChan'[q].closed => offsetsChan[q].closed
    BY <2>1, <2>2
  <2> QED
    BY <1>0, <1>4, <2>3, QuietStep DEF WriterEmit, controlVars
<1>5. CASE DbStop(p) \/ DbTimer(p) \/ DbFlushed(p)
  BY <1>0, <1>5, QuietStep DEF DbStop, DbTimer, DbFlushed, controlVars
<1>6. CASE DbReceive(p)
  <2>1. \A q \in Pipelines : offsetsChan'[q].closed => offsetsChan[q].closed
    BY <1>6 DEF DbReceive
  <2> QED
    BY <1>0, <1>6, <2>1, QuietStep DEF DbReceive, controlVars
<1> QED
  BY <1>1, <1>2, <1>3, <1>4, <1>5, <1>6 DEF WriterStep, DbStep

\* Nor does the consumer.
LEMMA ConsumerStepKeeps ==
    ASSUME TypeOK, IInv, ~panicked, ConsumerStep
    PROVE  IInv'
<1> USE ChannelOperations DEF TypeOK
<1>0. panicked = FALSE
  OBVIOUS
<1>1. CASE Poll \/ LookupTopic \/ ConsumerStop
  BY <1>0, <1>1, QuietStep DEF Poll, LookupTopic, ConsumerStop, controlVars
<1>2. CASE SendFrameToArchive /\ framesChan[target].closed
  <2>1. target \in Pipelines /\ SendsOnClosed(target)
    BY <1>2 DEF SendFrameToArchive, SendsOnClosed
  <2> QED
    BY <1>2, <2>1, PanicStep DEF SendFrameToArchive, controlVars
<1>3. CASE SendFrameToArchive /\ ~framesChan[target].closed
  <2>1. target \in Pipelines
    BY <1>3 DEF SendFrameToArchive
  <2>2. framesChan' = [framesChan EXCEPT ![target] = Pushed(@)]
    BY <1>3 DEF SendFrameToArchive
  <2>3. \A q \in Pipelines : framesChan'[q].closed => framesChan[q].closed
    BY <2>1, <2>2
  <2> QED
    BY <1>0, <1>3, <2>3, QuietStep DEF SendFrameToArchive, controlVars
<1> QED
  BY <1>1, <1>2, <1>3 DEF ConsumerStep

\* The controller: a camera is switched on or off.
LEMMA SwitchStep ==
    ASSUME TypeOK, IInv, ~panicked,
           NEW p \in Pipelines,
           SwitchOn(p) \/ SwitchOff(p)
    PROVE  IInv'
<1> USE PipelineAssumption DEF TypeOK
<1>1. CASE SwitchOn(p)
  <2>1. startPC[p] = "idle"
    BY <1>1 DEF SwitchOn, IInv, ContextFollowsStart
  <2>2. /\ startPC' = [startPC EXCEPT ![p] = "register"]
        /\ archiveCtx' \in [Pipelines -> {"none", "live", "done"}]
        /\ \A q \in Pipelines \ {p} : archiveCtx'[q] = archiveCtx[q]
        /\ archiveCtx'[p] # "none"
    BY <1>1 DEF SwitchOn
  <2>3. RegisteredIsWaiting'
    BY <1>1, <2>1, <2>2 DEF SwitchOn, IInv, RegisteredIsWaiting
  <2>4. ClosedByStart' /\ ReturnedIsJoined'
    BY <1>1, <2>1, <2>2 DEF SwitchOn, IInv, ClosedByStart, ReturnedIsJoined
  <2>5. ContextFollowsStart'
    BY <2>1, <2>2 DEF IInv, ContextFollowsStart, Stopping
  <2>6. LiveIsControlled'
    BY <1>1, <2>2 DEF SwitchOn, IInv, LiveIsControlled
  <2>7. PanicOnlyAfterCancel'
    BY <1>1, Zenon DEF SwitchOn, PanicOnlyAfterCancel
  <2>8. OrphanHasPredecessor'
    BY <1>1, <2>1, <2>2 DEF SwitchOn, IInv, OrphanHasPredecessor, Running
  <2> QED
    BY <2>3, <2>4, <2>5, <2>6, <2>7, <2>8 DEF IInv
<1>2. CASE SwitchOff(p)
  <2>1. /\ archiveCtx' = [archiveCtx EXCEPT ![p] = "done"]
        /\ controlled[TopicOf[p]] = p
        /\ controlled' = [controlled EXCEPT ![TopicOf[p]] = NoPipeline]
        /\ UNCHANGED <<startPC, archiveTopics, framesChan, offsetsChan,
                       writerPC, dbPC>>
    BY <1>2 DEF SwitchOff
  <2>2. RegisteredIsWaiting' /\ ClosedByStart' /\ ReturnedIsJoined'
    BY <2>1 DEF IInv, RegisteredIsWaiting, ClosedByStart, ReturnedIsJoined
  <2>3. ContextFollowsStart'
    BY <2>1 DEF IInv, ContextFollowsStart, LiveIsControlled, Stopping
  <2>4. LiveIsControlled'
    BY <2>1 DEF IInv, LiveIsControlled
  <2>5. PanicOnlyAfterCancel'
    BY <1>2, Zenon DEF SwitchOff, PanicOnlyAfterCancel
  <2>6. OrphanHasPredecessor'
    BY <2>1 DEF IInv, OrphanHasPredecessor, Running
  <2> QED
    BY <2>2, <2>3, <2>4, <2>5, <2>6 DEF IInv
<1> QED
  BY <1>1, <1>2

\* SIGINT or SIGTERM.
LEMMA ShutdownStep ==
    ASSUME TypeOK, IInv, ~panicked, Shutdown
    PROVE  IInv'
<1>1. /\ archiveCtx' \in [Pipelines -> {"none", "live", "done"}]
      /\ \A q \in Pipelines : archiveCtx'[q] =
            IF archiveCtx[q] = "live" THEN "done" ELSE archiveCtx[q]
      /\ UNCHANGED <<controlled, startPC, archiveTopics, framesChan,
                     offsetsChan, writerPC, dbPC>>
  BY DEF Shutdown, TypeOK
<1>2. RegisteredIsWaiting' /\ ClosedByStart' /\ ReturnedIsJoined'
  BY <1>1 DEF IInv, RegisteredIsWaiting, ClosedByStart, ReturnedIsJoined
<1>3. ContextFollowsStart'
  BY <1>1 DEF IInv, ContextFollowsStart, Stopping
<1>4. LiveIsControlled'
  BY <1>1 DEF IInv, LiveIsControlled
<1>5. PanicOnlyAfterCancel'
  BY Zenon DEF Shutdown, PanicOnlyAfterCancel
<1>6. OrphanHasPredecessor'
  BY <1>1 DEF IInv, OrphanHasPredecessor, Running
<1> QED
  BY <1>2, <1>3, <1>4, <1>5, <1>6 DEF IInv

\* Pipeline.Start, from the registration to the return.
LEMMA StartStepKeeps ==
    ASSUME TypeOK, IInv, ~panicked,
           NEW p \in Pipelines,
           StartStep(p)
    PROVE  IInv'
<1> USE PipelineAssumption, ChannelOperations DEF TypeOK
<1>0. ASSUME NEW q \in Pipelines, archiveCtx[q] = "live",
             NEW r \in Pipelines, archiveCtx[r] = "live",
             TopicOf[q] = TopicOf[r]
      PROVE  q = r
  BY <1>0 DEF IInv, LiveIsControlled
<1>1. CASE AddArchiveTopic(p)
  <2>1. /\ startPC[p] = "register"
        /\ startPC' = [startPC EXCEPT ![p] = "wait"]
        /\ writerPC' = [writerPC EXCEPT ![p] = "select"]
        /\ dbPC' = [dbPC EXCEPT ![p] = "select"]
        /\ UNCHANGED <<controlled, archiveCtx, framesChan, offsetsChan>>
    BY <1>1 DEF AddArchiveTopic, GoTo, controlVars
  <2>2. \/ /\ archiveTopics[TopicOf[p]] = NoPipeline
           /\ archiveTopics' = [archiveTopics EXCEPT ![TopicOf[p]] = p]
        \/ /\ archiveTopics[TopicOf[p]] # NoPipeline
           /\ archiveTopics' = archiveTopics
    BY <1>1 DEF AddArchiveTopic
  <2>3. RegisteredIsWaiting'
    BY <2>1, <2>2 DEF IInv, RegisteredIsWaiting
  <2>4. ClosedByStart' /\ ReturnedIsJoined'
    BY <2>1 DEF IInv, ClosedByStart, ReturnedIsJoined
  <2>5. ContextFollowsStart' /\ LiveIsControlled'
    BY <2>1 DEF IInv, ContextFollowsStart, LiveIsControlled, Stopping
  <2>6. PanicOnlyAfterCancel'
    BY <1>1, Zenon DEF AddArchiveTopic, PanicOnlyAfterCancel
  <2>7. OrphanHasPredecessor'
    <3> SUFFICES ASSUME NEW q \in Pipelines, Running(q)',
                        archiveTopics'[TopicOf[q]] # q
                 PROVE  \E r \in Pipelines \ {q} :
                            TopicOf[r] = TopicOf[q] /\ archiveCtx'[r] = "done"
      BY DEF OrphanHasPredecessor
    <3>1. CASE q = p
      <4> DEFINE r == archiveTopics[TopicOf[p]]
      <4>1. r \in Pipelines /\ r # NoPipeline
        BY <2>2, <3>1
      <4>2. TopicOf[r] = TopicOf[p] /\ startPC[r] = "wait"
        BY <4>1 DEF IInv, RegisteredIsWaiting
      <4>3. r # p /\ archiveCtx[p] = "live"
        BY <2>1, <3>1, <4>2 DEF Running
      <4>4. archiveCtx[r] = "done"
        BY <1>0, <4>1, <4>2, <4>3 DEF IInv, ContextFollowsStart
      <4> QED
        BY <2>1, <3>1, <4>1, <4>2, <4>3, <4>4
    <3>2. CASE q # p
      <4>1. Running(q) /\ archiveTopics[TopicOf[q]] # q
        BY <2>1, <2>2, <3>2 DEF Running, IInv, RegisteredIsWaiting
      <4> QED
        BY <2>1, <4>1 DEF IInv, OrphanHasPredecessor
    <3> QED
      BY <3>1, <3>2
  <2> QED
    BY <2>3, <2>4, <2>5, <2>6, <2>7 DEF IInv
<1>2. CASE RemoveArchiveTopic(p)
  <2>1. /\ startPC[p] = "wait"
        /\ startPC' = [startPC EXCEPT ![p] = "closeFrames"]
        /\ archiveCtx[p] = "done"
        /\ archiveTopics' = [archiveTopics EXCEPT ![TopicOf[p]] = NoPipeline]
        /\ UNCHANGED <<controlled, archiveCtx, writerPC, dbPC, framesChan,
                       offsetsChan>>
    BY <1>2 DEF RemoveArchiveTopic, GoTo, controlVars
  <2>2. RegisteredIsWaiting'
    BY <2>1 DEF IInv, RegisteredIsWaiting
  <2>3. ClosedByStart' /\ ReturnedIsJoined'
    BY <2>1 DEF IInv, ClosedByStart, ReturnedIsJoined
  <2>4. ContextFollowsStart' /\ LiveIsControlled'
    BY <2>1 DEF IInv, ContextFollowsStart, LiveIsControlled, Stopping
  <2>5. PanicOnlyAfterCancel'
    BY <1>2, Zenon DEF RemoveArchiveTopic, PanicOnlyAfterCancel
  <2>6. OrphanHasPredecessor'
    <3> SUFFICES ASSUME NEW q \in Pipelines, Running(q)',
                        archiveTopics'[TopicOf[q]] # q
                 PROVE  \E r \in Pipelines \ {q} :
                            TopicOf[r] = TopicOf[q] /\ archiveCtx'[r] = "done"
      BY DEF OrphanHasPredecessor
    <3>1. Running(q) /\ q # p
      BY <2>1 DEF Running
    <3>2. CASE TopicOf[q] = TopicOf[p]
      BY <2>1, <3>1, <3>2
    <3>3. CASE TopicOf[q] # TopicOf[p]
      BY <2>1, <3>1, <3>3 DEF IInv, OrphanHasPredecessor
    <3> QED
      BY <3>2, <3>3
  <2> QED
    BY <2>2, <2>3, <2>4, <2>5, <2>6 DEF IInv
<1>3. CASE CloseFrames(p) \/ CloseOffsets(p) \/ Join(p)
  <2>1. /\ startPC[p] \in {"closeFrames", "closeOffsets", "join"}
        /\ startPC' \in [Pipelines -> StartStates]
        /\ \A q \in Pipelines \ {p} : startPC'[q] = startPC[q]
        /\ startPC'[p] \in {"closeOffsets", "join", "returned"}
        /\ UNCHANGED <<controlled, archiveCtx, archiveTopics, writerPC, dbPC,
                       panicked>>
    BY <1>3 DEF CloseFrames, CloseOffsets, Join, GoTo, controlVars, StartStates
  <2>2. archiveCtx[p] = "done"
    BY <2>1 DEF IInv, ContextFollowsStart, Stopping
  <2>3. RegisteredIsWaiting'
    BY <2>1 DEF IInv, RegisteredIsWaiting
  <2>4. ClosedByStart'
    <3>1. CASE CloseFrames(p)
      BY <3>1 DEF CloseFrames, GoTo, IInv, ClosedByStart
    <3>2. CASE CloseOffsets(p)
      BY <3>2 DEF CloseOffsets, GoTo, IInv, ClosedByStart
    <3>3. CASE Join(p)
      BY <3>3 DEF Join, GoTo, IInv, ClosedByStart
    <3> QED
      BY <1>3, <3>1, <3>2, <3>3
  <2>5. ContextFollowsStart' /\ LiveIsControlled'
    BY <2>1, <2>2 DEF IInv, ContextFollowsStart, LiveIsControlled, Stopping
  <2>6. ReturnedIsJoined'
    BY <1>3 DEF CloseFrames, CloseOffsets, Join, GoTo, IInv, ReturnedIsJoined
  <2>7. PanicOnlyAfterCancel'
    BY <2>1, Zenon DEF PanicOnlyAfterCancel
  <2>8. OrphanHasPredecessor'
    BY <2>1 DEF IInv, OrphanHasPredecessor, Running
  <2> QED
    BY <2>3, <2>4, <2>5, <2>6, <2>7, <2>8 DEF IInv
<1> QED
  BY <1>1, <1>2, <1>3 DEF StartStep

\* Every step of the system keeps the invariant.
LEMMA InvariantStep == TypeOK /\ IInv /\ [Next]_vars => IInv'
<1> SUFFICES ASSUME TypeOK, IInv, [Next]_vars
             PROVE  IInv'
  OBVIOUS
<1>1. CASE Next
  <2>1. ~panicked
    BY <1>1 DEF Next
  <2>2. CASE \E p \in Pipelines : SwitchOn(p) \/ SwitchOff(p)
    BY <2>1, <2>2, SwitchStep
  <2>3. CASE Shutdown
    BY <2>1, <2>3, ShutdownStep
  <2>4. CASE \E p \in Pipelines : StartStep(p)
    BY <2>1, <2>4, StartStepKeeps
  <2>5. CASE \E p \in Pipelines : WriterStep(p) \/ DbStep(p)
    BY <2>1, <2>5, WritersStep
  <2>6. CASE ConsumerStep
    BY <2>1, <2>6, ConsumerStepKeeps
  <2> QED
    BY <1>1, <2>2, <2>3, <2>4, <2>5, <2>6 DEF Next, Control
<1>2. CASE UNCHANGED vars
  BY <1>2 DEF vars, controlVars, consumerVars, IInv, RegisteredIsWaiting,
              ClosedByStart, ContextFollowsStart, Stopping, LiveIsControlled,
              ReturnedIsJoined, PanicOnlyAfterCancel, SendsOnClosed,
              OrphanHasPredecessor, Running
<1> QED
  BY <1>1, <1>2

-----------------------------------------------------------------------------
\* The inductive invariant holds throughout.
THEOREM InvariantHolds == Spec => [](TypeOK /\ IInv)
<1>1. Init => IInv
  BY PipelineAssumption
     DEF Init, OpenChan, IInv, RegisteredIsWaiting, ClosedByStart,
         ContextFollowsStart, Stopping, LiveIsControlled, ReturnedIsJoined,
         PanicOnlyAfterCancel, OrphanHasPredecessor, Running
<1> QED
  BY <1>1, TypeCorrect, InvariantStep, PTL DEF Spec

\* A consumer that looks a topic up never gets a channel that is closed.
THEOREM RegistryIsOpen == Spec => []RegistryHoldsOpenChannels
<1>1. TypeOK /\ IInv => RegistryHoldsOpenChannels
  BY DEF TypeOK, IInv, RegisteredIsWaiting, ClosedByStart,
         RegistryHoldsOpenChannels
<1> QED
  BY <1>1, InvariantHolds, PTL

\* At most one pipeline per topic has a context that is not cancelled.
THEOREM OneLivePipeline == Spec => []OneLivePipelinePerTopic
<1>1. IInv => OneLivePipelinePerTopic
  BY DEF IInv, LiveIsControlled, OneLivePipelinePerTopic
<1> QED
  BY <1>1, InvariantHolds, PTL

\* Only a pipeline that was cancelled can bring the process down.
THEOREM PanicNeedsCancel == Spec => []PanicOnlyAfterCancel
<1>1. IInv => PanicOnlyAfterCancel
  BY DEF IInv
<1> QED
  BY <1>1, InvariantHolds, PTL

\* When Start has returned nothing of the pipeline runs or is registered.
THEOREM ReturnIsFinal == Spec => []NothingRunsAfterReturn
<1>1. TypeOK /\ IInv => NothingRunsAfterReturn
  BY PipelineAssumption
     DEF TypeOK, IInv, RegisteredIsWaiting, ReturnedIsJoined,
         NothingRunsAfterReturn
<1> QED
  BY <1>1, InvariantHolds, PTL

\* A running pipeline is registered unless a cancelled one of the same topic
\* went before it.
THEOREM OrphansHavePredecessors == Spec => []OrphanHasPredecessor
<1>1. IInv => OrphanHasPredecessor
  BY DEF IInv
<1> QED
  BY <1>1, InvariantHolds, PTL
=============================================================================
