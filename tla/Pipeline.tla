------------------------------ MODULE Pipeline ------------------------------
(***************************************************************************)
(* Goroutines and channels of the archive pipelines, and the Kafka         *)
(* consumer that feeds them.                                               *)
(*                                                                         *)
(* A Pipeline object lives once: the controller creates it when a camera   *)
(* is switched on, Start runs in a goroutine of its own and launches the   *)
(* file writer and the database writer, and the pipeline is gone when      *)
(* Start returns.  Switching a camera off and on again creates a second    *)
(* pipeline for the same Kafka topic while the first may still be          *)
(* stopping.  One consumer goroutine serves every topic.                   *)
(*                                                                         *)
(* Frames and offsets carry no data here: a channel is its length and its  *)
(* closed flag.  What is written where is the subject of FrameWriter and   *)
(* OffsetWriter.                                                           *)
(***************************************************************************)
EXTENDS Naturals, Sequences

CONSTANTS
    Pipelines,      \* the Pipeline objects created in a run of the process
    Topics,         \* main stream topics, one per camera
    NoPipeline,     \* "no channel registered", "no cancel function stored"
    TopicOf,        \* topic of each pipeline
    FramesCap,      \* capacity of framesChan (300 in the code)
    OffsetsCap,     \* capacity of offsetsChan (100 in the code)
    MaxRecords,     \* bound: records the broker delivers in a behaviour
    MaxPoll         \* bound: records returned by one PollFetches

ASSUME PipelineAssumption ==
    /\ NoPipeline \notin Pipelines
    /\ TopicOf \in [Pipelines -> Topics]
    /\ FramesCap \in Nat \ {0}
    /\ OffsetsCap \in Nat \ {0}
    /\ MaxRecords \in Nat
    /\ MaxPoll \in Nat

VARIABLES
    stopping,       \* the service context (ctx, brokerCtx) is cancelled
    controlled,     \* controlledArchiveStreams: whose cancel function is stored
    archiveCtx,     \* context of each pipeline: "none", "live", "done"
    startPC,        \* where Pipeline.Start is
    writerPC,       \* where Writer.Run is
    dbPC,           \* where DatabaseWriter.Run is
    archiveTopics,  \* broker.ArchiveTopics: topic -> pipeline owning the channel
    framesChan,
    offsetsChan,
    consumerPC,     \* where startConsuming is
    fetched,        \* topics of the polled records not handled yet
    target,         \* the channel sendFrameToArchive was given
    polled,         \* number of records polled so far
    panicked        \* a goroutine panicked: the process is dead

controlVars  == <<stopping, controlled>>
consumerVars == <<consumerPC, fetched, target, polled>>
vars == <<controlVars, archiveCtx, startPC, writerPC, dbPC, archiveTopics,
          framesChan, offsetsChan, consumerVars, panicked>>

-----------------------------------------------------------------------------
(* Go channels, reduced to what sending, receiving and closing depend on.  *)

Channel   == [len : Nat, closed : BOOLEAN]
OpenChan  == [len |-> 0, closed |-> FALSE]
Pushed(c) == [c EXCEPT !.len = @ + 1]
Popped(c) == [c EXCEPT !.len = @ - 1]
Shut(c)   == [c EXCEPT !.closed = TRUE]
Drained(c) == c.closed /\ c.len = 0

-----------------------------------------------------------------------------
Init ==
    /\ stopping = FALSE
    /\ controlled = [t \in Topics |-> NoPipeline]
    /\ archiveCtx = [p \in Pipelines |-> "none"]
    /\ startPC = [p \in Pipelines |-> "idle"]
    /\ writerPC = [p \in Pipelines |-> "idle"]
    /\ dbPC = [p \in Pipelines |-> "idle"]
    /\ archiveTopics = [t \in Topics |-> NoPipeline]
    /\ framesChan = [p \in Pipelines |-> OpenChan]
    /\ offsetsChan = [p \in Pipelines |-> OpenChan]
    /\ consumerPC = "loop"
    /\ fetched = <<>>
    /\ target = NoPipeline
    /\ polled = 0
    /\ panicked = FALSE

-----------------------------------------------------------------------------
(* Controller: one tick's verdict on one camera.                           *)

\* A fresh object for every start; which one makes no difference.
NewPipeline(t) ==
    CHOOSE p \in Pipelines : TopicOf[p] = t /\ archiveCtx[p] = "none"

\* Mutant of SwitchOn: does not look whether the camera is already archived.
SwitchOnTwice(p) ==
    /\ archiveCtx[p] = "none"
    /\ p = NewPipeline(TopicOf[p])
    /\ controlled' = [controlled EXCEPT ![TopicOf[p]] = p]
    /\ archiveCtx' = [archiveCtx EXCEPT ![p] = IF stopping THEN "done" ELSE "live"]
    /\ startPC' = [startPC EXCEPT ![p] = "register"]
    /\ UNCHANGED <<stopping, writerPC, dbPC, archiveTopics, framesChan,
                   offsetsChan, consumerVars, panicked>>

\* A context derived from a cancelled one is born cancelled: the select of
\* the controller may still take a tick after the service was told to stop.
SwitchOn(p) ==
    /\ archiveCtx[p] = "none"
    /\ p = NewPipeline(TopicOf[p])
    /\ controlled[TopicOf[p]] = NoPipeline
    /\ controlled' = [controlled EXCEPT ![TopicOf[p]] = p]
    /\ archiveCtx' = [archiveCtx EXCEPT ![p] = IF stopping THEN "done" ELSE "live"]
    /\ startPC' = [startPC EXCEPT ![p] = "register"]
    /\ UNCHANGED <<stopping, writerPC, dbPC, archiveTopics, framesChan,
                   offsetsChan, consumerVars, panicked>>

\* The entry is dropped without waiting for the pipeline to finish.
SwitchOff(p) ==
    /\ controlled[TopicOf[p]] = p
    /\ controlled' = [controlled EXCEPT ![TopicOf[p]] = NoPipeline]
    /\ archiveCtx' = [archiveCtx EXCEPT ![p] = "done"]
    /\ UNCHANGED <<stopping, startPC, writerPC, dbPC, archiveTopics,
                   framesChan, offsetsChan, consumerVars, panicked>>

\* Mutant of Shutdown: the archive contexts do not derive from the service's.
ShutdownKeepsPipelines ==
    /\ ~stopping
    /\ stopping' = TRUE
    /\ UNCHANGED <<controlled, archiveCtx, startPC, writerPC, dbPC,
                   archiveTopics, framesChan, offsetsChan, consumerVars,
                   panicked>>

\* SIGINT or SIGTERM: every context derived from the service context is
\* cancelled with it.
Shutdown ==
    /\ ~stopping
    /\ stopping' = TRUE
    /\ archiveCtx' = [p \in Pipelines |->
                        IF archiveCtx[p] = "live" THEN "done" ELSE archiveCtx[p]]
    /\ UNCHANGED <<controlled, startPC, writerPC, dbPC, archiveTopics,
                   framesChan, offsetsChan, consumerVars, panicked>>

-----------------------------------------------------------------------------
(* Pipeline.Start.                                                         *)

GoTo(p, from, to) ==
    /\ startPC[p] = from
    /\ startPC' = [startPC EXCEPT ![p] = to]

\* Mutant of AddArchiveTopic: the test for an entry is inverted.
AddArchiveTopicInverted(p) ==
    /\ GoTo(p, "register", "wait")
    /\ archiveTopics' = IF archiveTopics[TopicOf[p]] # NoPipeline
                        THEN [archiveTopics EXCEPT ![TopicOf[p]] = p]
                        ELSE archiveTopics
    /\ writerPC' = [writerPC EXCEPT ![p] = "select"]
    /\ dbPC' = [dbPC EXCEPT ![p] = "select"]
    /\ UNCHANGED <<controlVars, archiveCtx, framesChan, offsetsChan,
                   consumerVars, panicked>>

\* AddArchiveTopic under the write lock; Start ignores the error it returns
\* when the topic is taken, and launches the two writers all the same.
AddArchiveTopic(p) ==
    /\ GoTo(p, "register", "wait")
    /\ archiveTopics' = IF archiveTopics[TopicOf[p]] = NoPipeline
                        THEN [archiveTopics EXCEPT ![TopicOf[p]] = p]
                        ELSE archiveTopics
    /\ writerPC' = [writerPC EXCEPT ![p] = "select"]
    /\ dbPC' = [dbPC EXCEPT ![p] = "select"]
    /\ UNCHANGED <<controlVars, archiveCtx, framesChan, offsetsChan,
                   consumerVars, panicked>>

\* Mutant of RemoveArchiveTopic: the entry stays.
RemoveArchiveTopicKeepsEntry(p) ==
    /\ archiveCtx[p] = "done"
    /\ GoTo(p, "wait", "closeFrames")
    /\ UNCHANGED <<controlVars, archiveCtx, writerPC, dbPC, archiveTopics,
                   framesChan, offsetsChan, consumerVars, panicked>>

\* Mutant of RemoveArchiveTopic: Start does not wait for ctx.Done.
RemoveArchiveTopicAtOnce(p) ==
    /\ GoTo(p, "wait", "closeFrames")
    /\ archiveTopics' = [archiveTopics EXCEPT ![TopicOf[p]] = NoPipeline]
    /\ UNCHANGED <<controlVars, archiveCtx, writerPC, dbPC, framesChan,
                   offsetsChan, consumerVars, panicked>>

\* Mutant of RemoveArchiveTopic: the consumer holds the read lock while it
\* sends.
RemoveArchiveTopicLockedOut(p) ==
    /\ consumerPC # "send"
    /\ archiveCtx[p] = "done"
    /\ GoTo(p, "wait", "closeFrames")
    /\ archiveTopics' = [archiveTopics EXCEPT ![TopicOf[p]] = NoPipeline]
    /\ UNCHANGED <<controlVars, archiveCtx, writerPC, dbPC, framesChan,
                   offsetsChan, consumerVars, panicked>>

\* RemoveArchiveTopic goes by topic: it drops whichever channel is there.
RemoveArchiveTopic(p) ==
    /\ archiveCtx[p] = "done"
    /\ GoTo(p, "wait", "closeFrames")
    /\ archiveTopics' = [archiveTopics EXCEPT ![TopicOf[p]] = NoPipeline]
    /\ UNCHANGED <<controlVars, archiveCtx, writerPC, dbPC, framesChan,
                   offsetsChan, consumerVars, panicked>>

\* Mutant of CloseFrames: the channel is left open.
CloseFramesOmitted(p) ==
    /\ GoTo(p, "closeFrames", "closeOffsets")
    /\ UNCHANGED <<controlVars, archiveCtx, writerPC, dbPC, archiveTopics,
                   framesChan, offsetsChan, consumerVars, panicked>>

CloseFrames(p) ==
    /\ GoTo(p, "closeFrames", "closeOffsets")
    /\ framesChan' = [framesChan EXCEPT ![p] = Shut(@)]
    /\ UNCHANGED <<controlVars, archiveCtx, writerPC, dbPC, archiveTopics,
                   offsetsChan, consumerVars, panicked>>

CloseOffsets(p) ==
    /\ GoTo(p, "closeOffsets", "join")
    /\ offsetsChan' = [offsetsChan EXCEPT ![p] = Shut(@)]
    /\ UNCHANGED <<controlVars, archiveCtx, writerPC, dbPC, archiveTopics,
                   framesChan, consumerVars, panicked>>

\* Mutant of Join: the database writer is not in the wait group.
JoinWithoutDb(p) ==
    /\ GoTo(p, "join", "returned")
    /\ writerPC[p] = "done"
    /\ UNCHANGED <<controlVars, archiveCtx, writerPC, dbPC, archiveTopics,
                   framesChan, offsetsChan, consumerVars, panicked>>

Join(p) ==
    /\ GoTo(p, "join", "returned")
    /\ writerPC[p] = "done"
    /\ dbPC[p] = "done"
    /\ UNCHANGED <<controlVars, archiveCtx, writerPC, dbPC, archiveTopics,
                   framesChan, offsetsChan, consumerVars, panicked>>

-----------------------------------------------------------------------------
(* Writer.Run and processFrame.                                            *)

WriterStop(p) ==
    /\ writerPC[p] = "select"
    /\ archiveCtx[p] = "done" \/ Drained(framesChan[p])
    /\ writerPC' = [writerPC EXCEPT ![p] = "done"]
    /\ UNCHANGED <<controlVars, archiveCtx, startPC, dbPC, archiveTopics,
                   framesChan, offsetsChan, consumerVars, panicked>>

\* A received frame is skipped, fails, or is written; an I-frame that was
\* written has its offset sent next.
WriterReceive(p) ==
    /\ writerPC[p] = "select"
    /\ framesChan[p].len > 0
    /\ framesChan' = [framesChan EXCEPT ![p] = Popped(@)]
    /\ \E next \in {"select", "emit"} : writerPC' = [writerPC EXCEPT ![p] = next]
    /\ UNCHANGED <<controlVars, archiveCtx, startPC, dbPC, archiveTopics,
                   offsetsChan, consumerVars, panicked>>

\* The send never blocks: a full channel drops the offset.  A closed channel
\* panics, default case or not.
WriterEmit(p) ==
    /\ writerPC[p] = "emit"
    /\ IF offsetsChan[p].closed
       THEN panicked' = TRUE /\ UNCHANGED <<writerPC, offsetsChan>>
       ELSE /\ writerPC' = [writerPC EXCEPT ![p] = "select"]
            /\ offsetsChan' = IF offsetsChan[p].len < OffsetsCap
                              THEN [offsetsChan EXCEPT ![p] = Pushed(@)]
                              ELSE offsetsChan
            /\ UNCHANGED panicked
    /\ UNCHANGED <<controlVars, archiveCtx, startPC, dbPC, archiveTopics,
                   framesChan, consumerVars>>

-----------------------------------------------------------------------------
(* DatabaseWriter.Run.                                                     *)

\* The deferred flush is immediate: the context is cancelled by then.
DbStop(p) ==
    /\ dbPC[p] = "select"
    /\ archiveCtx[p] = "done" \/ Drained(offsetsChan[p])
    /\ dbPC' = [dbPC EXCEPT ![p] = "done"]
    /\ UNCHANGED <<controlVars, archiveCtx, startPC, writerPC, archiveTopics,
                   framesChan, offsetsChan, consumerVars, panicked>>

\* The received offset may complete a batch, which is flushed at once.
DbReceive(p) ==
    /\ dbPC[p] = "select"
    /\ offsetsChan[p].len > 0
    /\ offsetsChan' = [offsetsChan EXCEPT ![p] = Popped(@)]
    /\ \E next \in {"select", "flush"} : dbPC' = [dbPC EXCEPT ![p] = next]
    /\ UNCHANGED <<controlVars, archiveCtx, startPC, writerPC, archiveTopics,
                   framesChan, consumerVars, panicked>>

DbTimer(p) ==
    /\ dbPC[p] = "select"
    /\ dbPC' = [dbPC EXCEPT ![p] = "flush"]
    /\ UNCHANGED <<controlVars, archiveCtx, startPC, writerPC, archiveTopics,
                   framesChan, offsetsChan, consumerVars, panicked>>

DbFlushed(p) ==
    /\ dbPC[p] = "flush"
    /\ dbPC' = [dbPC EXCEPT ![p] = "select"]
    /\ UNCHANGED <<controlVars, archiveCtx, startPC, writerPC, archiveTopics,
                   framesChan, offsetsChan, consumerVars, panicked>>

-----------------------------------------------------------------------------
(* startConsuming.  The context is looked at only between two polls.       *)

Subscribed == {t \in Topics : archiveTopics[t] # NoPipeline}

Poll ==
    /\ consumerPC = "loop"
    /\ fetched = <<>>
    /\ ~stopping
    /\ \E n \in 1..MaxPoll :
         /\ polled + n <= MaxRecords
         /\ polled' = polled + n
         /\ fetched' \in [1..n -> Subscribed]
    /\ UNCHANGED <<controlVars, archiveCtx, startPC, writerPC, dbPC,
                   archiveTopics, framesChan, offsetsChan, consumerPC, target,
                   panicked>>

\* The lookup holds the read lock; the lock is released before the send.
\* A record of a topic nobody owns any more is logged and dropped.
LookupTopic ==
    /\ consumerPC = "loop"
    /\ fetched # <<>>
    /\ target' = archiveTopics[Head(fetched)]
    /\ fetched' = Tail(fetched)
    /\ consumerPC' = IF target' = NoPipeline THEN "loop" ELSE "send"
    /\ UNCHANGED <<controlVars, archiveCtx, startPC, writerPC, dbPC,
                   archiveTopics, framesChan, offsetsChan, polled, panicked>>

\* Mutant of SendFrameToArchive: the buffer has no limit.
SendFrameUnbounded ==
    /\ consumerPC = "send"
    /\ IF framesChan[target].closed
       THEN panicked' = TRUE /\ UNCHANGED <<framesChan, consumerPC, target>>
       ELSE /\ framesChan' = [framesChan EXCEPT ![target] = Pushed(@)]
            /\ consumerPC' = "loop"
            /\ target' = NoPipeline
            /\ UNCHANGED panicked
    /\ UNCHANGED <<controlVars, archiveCtx, startPC, writerPC, dbPC,
                   archiveTopics, offsetsChan, fetched, polled>>

\* A plain send: it waits for room, and panics once the channel is closed,
\* also when it was already waiting.
SendFrameToArchive ==
    /\ consumerPC = "send"
    /\ IF framesChan[target].closed
       THEN panicked' = TRUE /\ UNCHANGED <<framesChan, consumerPC, target>>
       ELSE /\ framesChan[target].len < FramesCap
            /\ framesChan' = [framesChan EXCEPT ![target] = Pushed(@)]
            /\ consumerPC' = "loop"
            /\ target' = NoPipeline
            /\ UNCHANGED panicked
    /\ UNCHANGED <<controlVars, archiveCtx, startPC, writerPC, dbPC,
                   archiveTopics, offsetsChan, fetched, polled>>

ConsumerStop ==
    /\ consumerPC = "loop"
    /\ fetched = <<>>
    /\ stopping
    /\ consumerPC' = "done"
    /\ UNCHANGED <<controlVars, archiveCtx, startPC, writerPC, dbPC,
                   archiveTopics, framesChan, offsetsChan, fetched, target,
                   polled, panicked>>

-----------------------------------------------------------------------------
StartStep(p) == \/ AddArchiveTopic(p) \/ RemoveArchiveTopic(p)
                \/ CloseFrames(p) \/ CloseOffsets(p) \/ Join(p)
WriterStep(p) == WriterStop(p) \/ WriterReceive(p) \/ WriterEmit(p)
DbStep(p) == DbStop(p) \/ DbReceive(p) \/ DbTimer(p) \/ DbFlushed(p)
ConsumerStep == Poll \/ LookupTopic \/ SendFrameToArchive \/ ConsumerStop

Control == (\E p \in Pipelines : SwitchOn(p) \/ SwitchOff(p)) \/ Shutdown

\* A panic kills the whole process.
Next ==
    /\ ~panicked
    /\ \/ Control
       \/ \E p \in Pipelines : StartStep(p) \/ WriterStep(p) \/ DbStep(p)
       \/ ConsumerStep

Spec == Init /\ [][Next]_vars

\* The Go scheduler runs every goroutine that can run, and a select that is
\* entered again and again with a ready case takes that case some day.
\* Cameras need not be switched and nobody has to stop the service.
Alive(A) == ~panicked /\ A
Fairness ==
    /\ WF_vars(Alive(ConsumerStep))
    /\ \A p \in Pipelines :
         /\ WF_vars(Alive(StartStep(p)))
         /\ WF_vars(Alive(WriterStep(p)))
         /\ WF_vars(Alive(DbStep(p)))
         /\ SF_vars(Alive(DbStop(p)))

FairSpec == Spec /\ Fairness

-----------------------------------------------------------------------------
(* Safety.                                                                 *)

StartStates == {"idle", "register", "wait", "closeFrames", "closeOffsets",
                "join", "returned"}

\* Every variable holds what the goroutine that owns it can store; a channel
\* never holds more than its capacity.
TypeOK ==
    /\ stopping \in BOOLEAN
    /\ controlled \in [Topics -> Pipelines \cup {NoPipeline}]
    /\ archiveCtx \in [Pipelines -> {"none", "live", "done"}]
    /\ startPC \in [Pipelines -> StartStates]
    /\ writerPC \in [Pipelines -> {"idle", "select", "emit", "done"}]
    /\ dbPC \in [Pipelines -> {"idle", "select", "flush", "done"}]
    /\ archiveTopics \in [Topics -> Pipelines \cup {NoPipeline}]
    /\ framesChan \in [Pipelines -> Channel]
    /\ offsetsChan \in [Pipelines -> Channel]
    /\ \A p \in Pipelines : framesChan[p].len <= FramesCap
    /\ \A p \in Pipelines : offsetsChan[p].len <= OffsetsCap
    /\ consumerPC \in {"loop", "send", "done"}
    /\ fetched \in Seq(Topics)
    /\ target \in Pipelines \cup {NoPipeline}
    /\ consumerPC = "send" => target \in Pipelines
    /\ polled \in Nat
    /\ panicked \in BOOLEAN

\* A registered channel is open: whatever overlap there is between pipelines
\* of one topic, a consumer that looks a topic up never gets a channel that
\* is already closed.  Start unregisters before it closes, and registers
\* only once.
RegistryHoldsOpenChannels ==
    \A t \in Topics : archiveTopics[t] # NoPipeline =>
        /\ TopicOf[archiveTopics[t]] = t
        /\ ~framesChan[archiveTopics[t]].closed

\* However often a camera is switched off and on, and whenever the service
\* is stopped, one pipeline at most per topic has a context that is not
\* cancelled: a camera is never recorded twice on purpose.
OneLivePipelinePerTopic ==
    \A p, q \in Pipelines :
        /\ TopicOf[p] = TopicOf[q]
        /\ archiveCtx[p] = "live"
        /\ archiveCtx[q] = "live"
        => p = q

\* The two sends that can meet a channel closed under them.
SendsOnClosed(p) ==
    \/ consumerPC = "send" /\ target = p /\ framesChan[p].closed
    \/ writerPC[p] = "emit" /\ offsetsChan[p].closed

\* The process dies only of a pipeline whose context was cancelled: recording
\* cameras do not bring it down, stopping one may.
PanicOnlyAfterCancel ==
    panicked => \E p \in Pipelines : SendsOnClosed(p) /\ archiveCtx[p] = "done"

\* When Start has returned, nothing of the pipeline is left: main closes the
\* database after waiting for Start, and relies on it.
NothingRunsAfterReturn ==
    \A p \in Pipelines : startPC[p] = "returned" =>
        /\ writerPC[p] = "done"
        /\ dbPC[p] = "done"
        /\ archiveTopics[TopicOf[p]] # p

Running(p) == startPC[p] = "wait" /\ archiveCtx[p] = "live"

\* A running pipeline that gets no frames (its topic is registered to nobody
\* or to another pipeline) has a predecessor on the same topic that was
\* cancelled: the first time a camera is switched on it is always recorded.
OrphanHasPredecessor ==
    \A p \in Pipelines : Running(p) /\ archiveTopics[TopicOf[p]] # p =>
        \E q \in Pipelines \ {p} :
            TopicOf[q] = TopicOf[p] /\ archiveCtx[q] = "done"

-----------------------------------------------------------------------------
(* What the comments of the code say and the code does not do.             *)

\* pipeline.go: "Close channels to signal goroutines to stop".  Closing ends
\* the goroutines that receive; it must not kill those that send.
ClosingChannelsOnlySignals == ~panicked

\* pipeline.go: "Register topic with broker and start consuming frames".  A
\* running pipeline is the one its topic is registered to.
RunningIsRegistered ==
    \A p \in Pipelines : Running(p) => archiveTopics[TopicOf[p]] = p

-----------------------------------------------------------------------------
(* Liveness.                                                               *)

\* A cancelled pipeline terminates, or the process has died.
CancelledPipelineReturns ==
    \A p \in Pipelines :
        archiveCtx[p] = "done" ~> (startPC[p] = "returned" \/ panicked)

\* The consumer, which serves every camera, is never stuck for ever on the
\* full channel of one: the writer takes a frame, or the channel is closed.
ConsumerGetsUnstuck ==
    consumerPC = "send" ~> (consumerPC # "send" \/ panicked)

\* main.go: "Wait for all services to finish".  After a signal the consumer
\* and every pipeline end, or the process has died.
ShutdownCompletes ==
    stopping ~> \/ panicked
                \/ /\ consumerPC = "done"
                   /\ \A p \in Pipelines : startPC[p] \in {"idle", "returned"}
=============================================================================
