------------------------------ MODULE Service -------------------------------
(***************************************************************************)
(* The life of the process: main starts the services one after the other,  *)
(* waits for the end of the context and for the wait group, and closes     *)
(* what they used.  In between, the heartbeat announces the service with   *)
(* digests, which the producer sends to Kafka in transactional batches.    *)
(*                                                                         *)
(* The consumer, the controller, the pipelines and the cleanup appear as    *)
(* members of the wait group that return some time after the context is    *)
(* done, and the purge with the one send it may never come back from: the  *)
(* modules Pipeline, Controller and Retention say how they do that.  A     *)
(* digest is the number of its sending.  Of the configuration the model    *)
(* keeps the one setting, if any, that a later step trips over.            *)
(***************************************************************************)
EXTENDS Naturals, Sequences

CONSTANTS
    MsgCap,      \* MessageChanBufferSize
    BatchSize,   \* batchSize of the producer
    ConfigFiles, \* number of default names of the configuration file
    MaxBeats,    \* bound: heartbeats
    MaxFaults    \* bound: Kafka calls that fail while the context is live

ASSUME ServiceAssumption ==
    /\ MsgCap \in Nat \ {0}
    /\ BatchSize \in Nat \ {0}
    /\ ConfigFiles \in Nat \ {0}
    /\ MaxBeats \in Nat
    /\ MaxFaults \in Nat

VARIABLES
    ctx,          \* the service context, also the broker's: "live", "done"
    mainPC,       \* where main is
    candidates,   \* configuration files not tried yet
    config,       \* "none", "usable", or which setting is not
    database,     \* the pool: "none", "open", "closed"
    client,       \* the Kafka client: the same
    msgChan,      \* MsgChan: "nil", "open", "closed"
    queue,        \* the digests in it
    running,      \* the goroutines the wait group counts
    purgePC,      \* where the purge is: "select", "send"
    heartbeatPC,  \* where the heartbeat is: "select", "send"
    producerPC,   \* where the producer is
    batch,        \* its records
    written,      \* those of them produced in the transaction
    txn,          \* the transaction of the client: "none", "open"
    delivered,    \* the digests in committed transactions, in order
    sent,         \* number of digests sent to the channel so far
    faults        \* number of failed Kafka calls so far

mainVars     == <<mainPC, candidates, config, database, client, msgChan>>
chanVars     == <<queue, sent>>
serviceVars  == <<running, purgePC, heartbeatPC>>
producerVars == <<producerPC, batch, written, txn, delivered, faults>>
vars == <<ctx, mainVars, chanVars, serviceVars, producerVars>>

\* Those this module says nothing else about.
OtherServices == {"consumer", "controller", "cleanup"}

\* "pipelines" stands for all those the controller has started.
Services == OtherServices \cup {"pipelines", "purge", "producer", "heartbeat"}

-----------------------------------------------------------------------------
Init ==
    /\ ctx = "live"
    /\ mainPC = "flags"
    /\ candidates = 0
    /\ config = "none"
    /\ database = "none"
    /\ client = "none"
    /\ msgChan = "nil"
    /\ queue = <<>>
    /\ running = {}
    /\ purgePC = "select"
    /\ heartbeatPC = "select"
    /\ producerPC = "select"
    /\ batch = <<>>
    /\ written = <<>>
    /\ txn = "none"
    /\ delivered = <<>>
    /\ sent = 0
    /\ faults = 0

\* SIGINT or SIGTERM, once they are caught.
Cancel ==
    /\ ctx = "live"
    /\ mainPC # "flags"
    /\ ctx' = "done"
    /\ UNCHANGED <<mainVars, chanVars, serviceVars, producerVars>>

-----------------------------------------------------------------------------
(* SendServiceDigest: a select of the context and a send, where a channel  *)
(* that is nil or full never takes the digest.                             *)

Enqueue ==
    /\ msgChan = "open"
    /\ Len(queue) < MsgCap
    /\ queue' = Append(queue, sent + 1)
    /\ sent' = sent + 1

\* Mutant of SendServiceDigest: the context is not looked at.
SendServiceDigestBlocking == Enqueue

SendServiceDigest ==
    \/ Enqueue
    \/ ctx = "done" /\ UNCHANGED chanVars

-----------------------------------------------------------------------------
(* main, start-up.  An Init that fails cancels the context, and main goes  *)
(* on with the next.  Main adds what these steps leave alone together.     *)

\* --version and --help end the process; --config names the one file to try.
ParseFlags ==
    /\ mainPC = "flags"
    /\ \/ mainPC' = "exited" /\ UNCHANGED candidates
       \/ mainPC' = "config" /\ candidates' \in {1, ConfigFiles}
    /\ UNCHANGED <<ctx, config, database, client, msgChan, chanVars, running>>

\* config.New: the reader itself.
NewConfig ==
    /\ mainPC = "config"
    /\ \/ mainPC' = "load" /\ UNCHANGED ctx
       \/ mainPC' = "open" /\ ctx' = "done"
    /\ UNCHANGED <<candidates, config, database, client, msgChan, chanVars,
                   running>>

\* What parseConfiguration may make of a file that has the required keys:
\* "acks" and "auto.offset.reset" may not be there as strings, and the two
\* intervals may be 0.
Parsed == {"usable", "broker", "heartbeat", "fragment"}

\* The files are tried in turn until one loads.
LoadFromFile ==
    /\ mainPC = "load"
    /\ candidates > 0
    /\ \/ config' \in Parsed /\ mainPC' = "open" /\ candidates' = 0
       \/ candidates' = candidates - 1 /\ UNCHANGED <<config, mainPC>>
    /\ UNCHANGED <<ctx, database, client, msgChan, chanVars, running>>

NoFileLoaded ==
    /\ mainPC = "load"
    /\ candidates = 0
    /\ mainPC' = "open"
    /\ ctx' = "done"
    /\ UNCHANGED <<candidates, config, database, client, msgChan, chanVars,
                   running>>

\* An empty configuration names no driver.
HasDSN == config # "none"

\* open: a pool that does not answer the ping is closed again.
OpenDb ==
    /\ mainPC = "open"
    /\ \/ HasDSN /\ database' = "open" /\ mainPC' = "table" /\ UNCHANGED ctx
       \/ mainPC' = "broker" /\ ctx' = "done" /\ UNCHANGED database
    /\ UNCHANGED <<candidates, config, client, msgChan, chanVars, running>>

\* The pool stays open when the table is missing.
CheckTable ==
    /\ mainPC = "table"
    /\ mainPC' = "broker"
    /\ ctx' \in {ctx, "done"}
    /\ UNCHANGED <<candidates, config, database, client, msgChan, chanVars,
                   running>>

Closed(resource) == IF resource = "open" THEN "closed" ELSE resource

\* A type assertion panics; of the deferred calls there is db.Close so far.
BrokerInitPanics ==
    /\ mainPC = "broker"
    /\ config \in {"none", "broker"}
    /\ mainPC' = "crashed"
    /\ database' = Closed(database)
    /\ UNCHANGED <<ctx, candidates, config, client, msgChan, chanVars, running>>

\* broker.Init returns an error.
BrokerInitFails ==
    /\ mainPC' = "controller"
    /\ ctx' = "done"

NewClient ==
    /\ mainPC = "broker"
    /\ config \notin {"none", "broker"}
    /\ \/ client' = "open" /\ mainPC' = "connect" /\ UNCHANGED ctx
       \/ BrokerInitFails /\ UNCHANGED client
    /\ UNCHANGED <<candidates, config, database, msgChan, chanVars, running>>

\* A request fails under a context that is done, or for a reason of its own;
\* the client stays open.
ValidateBrokerConnection ==
    /\ mainPC = "connect"
    /\ \/ ctx = "live" /\ mainPC' = "topics" /\ UNCHANGED ctx
       \/ BrokerInitFails
    /\ UNCHANGED <<candidates, config, database, client, msgChan, chanVars,
                   running>>

\* A request for each of the two topics.
CheckTopicsExist ==
    /\ mainPC = "topics"
    /\ \/ ctx = "live" /\ mainPC' = "channel" /\ UNCHANGED ctx
       \/ BrokerInitFails
    /\ UNCHANGED <<candidates, config, database, client, msgChan, chanVars,
                   running>>

StartBroker ==
    /\ mainPC = "channel"
    /\ mainPC' = "starting"
    /\ msgChan' = "open"
    /\ running' = running \cup {"consumer", "producer"}
    /\ UNCHANGED <<ctx, candidates, config, database, client, chanVars>>

\* ServiceStateStarting, and the pause after it.
AnnounceStart ==
    /\ mainPC = "starting"
    /\ mainPC' = "controller"
    /\ SendServiceDigest
    /\ UNCHANGED <<ctx, candidates, config, database, client, msgChan, running>>

ControllerInit ==
    /\ mainPC = "controller"
    /\ mainPC' = "retention"
    /\ running' = running \cup {"controller"}
    /\ UNCHANGED <<ctx, candidates, config, database, client, msgChan, chanVars>>

\* It fails when the storage path is not a directory.
RetentionInit ==
    /\ mainPC = "retention"
    /\ mainPC' = "router"
    /\ \/ running' = running \cup {"purge", "cleanup"} /\ UNCHANGED ctx
       \/ ctx' = "done" /\ UNCHANGED running
    /\ UNCHANGED <<candidates, config, database, client, msgChan, chanVars>>

\* router.Init does not fail: the server listens in a goroutine of its own.
RouterInit ==
    /\ mainPC = "router"
    /\ mainPC' = "heartbeat"
    /\ UNCHANGED <<ctx, candidates, config, database, client, msgChan, chanVars,
                   running>>

StartHeartbeat ==
    /\ mainPC = "heartbeat"
    /\ mainPC' = "serve"
    /\ running' = running \cup {"heartbeat"}
    /\ UNCHANGED <<ctx, candidates, config, database, client, msgChan, chanVars>>

-----------------------------------------------------------------------------
(* main, the end: the deferred closes run in the reverse order.            *)

\* Mutant of AwaitServices: main does not wait for the wait group.
AwaitContextOnly ==
    /\ mainPC = "serve"
    /\ ctx = "done"
    /\ mainPC' = "closeRouter"
    /\ UNCHANGED <<ctx, candidates, config, database, client, msgChan, chanVars,
                   running>>

\* <-ctx.Done() and wg.Wait().
AwaitServices ==
    /\ mainPC = "serve"
    /\ ctx = "done"
    /\ running = {}
    /\ mainPC' = "closeRouter"
    /\ UNCHANGED <<ctx, candidates, config, database, client, msgChan, chanVars,
                   running>>

\* Requests that take longer than 30 seconds end the process at once.
CloseRouter ==
    /\ mainPC = "closeRouter"
    /\ mainPC' \in {"stopping", "forced"}
    /\ UNCHANGED <<ctx, candidates, config, database, client, msgChan, chanVars,
                   running>>

\* ServiceStateStopping, and the pause after it.
AnnounceStop ==
    /\ mainPC = "stopping"
    /\ mainPC' = "closeBroker"
    /\ SendServiceDigest
    /\ UNCHANGED <<ctx, candidates, config, database, client, msgChan, running>>

\* The client first, then the channel.
CloseBroker ==
    /\ mainPC = "closeBroker"
    /\ mainPC' = "closeDb"
    /\ client' = Closed(client)
    /\ msgChan' = Closed(msgChan)
    /\ UNCHANGED <<ctx, candidates, config, database, chanVars, running>>

CloseDb ==
    /\ mainPC = "closeDb"
    /\ mainPC' = "exited"
    /\ database' = Closed(database)
    /\ UNCHANGED <<ctx, candidates, config, client, msgChan, chanVars, running>>

-----------------------------------------------------------------------------
(* The services.                                                           *)

Leave(s) ==
    /\ s \in running
    /\ ctx = "done"
    /\ running' = running \ {s}

\* ListenAndServe returns an error other than that of a closed server.
ServerFails ==
    /\ mainPC \in {"heartbeat", "serve"}
    /\ ctx = "live"
    /\ ctx' = "done"
    /\ UNCHANGED <<mainVars, chanVars, serviceVars, producerVars>>

\* time.NewTicker, the first call of the heartbeat and of the purge, panics
\* when its interval is not positive: the process ends, and nothing is closed.
NewTickerPanics(s) ==
    \/ s = "heartbeat" /\ config = "heartbeat"
    \/ s = "purge" /\ config = "fragment"

TickerPanics(s) ==
    /\ s \in running
    /\ NewTickerPanics(s)
    /\ mainPC' = "crashed"
    /\ UNCHANGED <<ctx, candidates, config, database, client, msgChan, chanVars,
                   serviceVars, producerVars>>

\* The loops of the consumer, the controller and the cleanup test the context.
OtherReturns(s) ==
    /\ Leave(s)
    /\ UNCHANGED <<ctx, mainVars, chanVars, purgePC, heartbeatPC,
                   producerVars>>

\* wg.Go of the controller, which is counted itself while it does so: also
\* with the context done, when its ticker is chosen first.
StartPipelines ==
    /\ "controller" \in running
    /\ running' = running \cup {"pipelines"}
    /\ UNCHANGED <<ctx, mainVars, chanVars, purgePC, heartbeatPC,
                   producerVars>>

\* Their own contexts end with that of the service, or when their cameras go
\* off.
PipelinesReturn ==
    /\ "pipelines" \in running
    /\ running' = running \ {"pipelines"}
    /\ UNCHANGED <<ctx, mainVars, chanVars, purgePC, heartbeatPC,
                   producerVars>>

\* purge, at a camera: the context is tested, and a send to the workers
\* follows, whatever happens to the context in between.
TestContext ==
    /\ "purge" \in running
    /\ ~NewTickerPanics("purge")
    /\ purgePC = "select"
    /\ ctx = "live"
    /\ purgePC' = "send"
    /\ UNCHANGED <<ctx, mainVars, chanVars, running, heartbeatPC, producerVars>>

\* A worker receives the job.  With the context done it may leave instead.
HandOut ==
    /\ purgePC = "send"
    /\ purgePC' = "select"
    /\ UNCHANGED <<ctx, mainVars, chanVars, running, heartbeatPC, producerVars>>

StopPurge ==
    /\ purgePC = "select"
    /\ ~NewTickerPanics("purge")
    /\ Leave("purge")
    /\ UNCHANGED <<ctx, mainVars, chanVars, purgePC, heartbeatPC,
                   producerVars>>

\* The ticker of the heartbeat fires.
Beat ==
    /\ "heartbeat" \in running
    /\ ~NewTickerPanics("heartbeat")
    /\ heartbeatPC = "select"
    /\ sent <= MaxBeats
    /\ heartbeatPC' = "send"
    /\ UNCHANGED <<ctx, mainVars, chanVars, running, purgePC, producerVars>>

\* ServiceStateReady.
AnnounceReady ==
    /\ heartbeatPC = "send"
    /\ SendServiceDigest
    /\ heartbeatPC' = "select"
    /\ UNCHANGED <<ctx, mainVars, running, purgePC, producerVars>>

StopHeartbeat ==
    /\ heartbeatPC = "select"
    /\ ~NewTickerPanics("heartbeat")
    /\ Leave("heartbeat")
    /\ UNCHANGED <<ctx, mainVars, chanVars, purgePC, heartbeatPC,
                   producerVars>>

-----------------------------------------------------------------------------
(* startProducing and produceBatch.                                        *)

ProducerAt(place) == "producer" \in running /\ producerPC = place

\* A call fails for a reason of its own, or because the context is done.
CallFails ==
    IF ctx = "done" THEN UNCHANGED faults
    ELSE faults < MaxFaults /\ faults' = faults + 1

\* The channel is closed only after the producer has returned: it never
\* receives from a closed one.
Receive ==
    /\ ProducerAt("select")
    /\ queue # <<>>
    /\ queue' = Tail(queue)
    /\ batch' = Append(batch, Head(queue))
    /\ producerPC' = IF Len(batch') >= BatchSize THEN "begin" ELSE "select"
    /\ UNCHANGED <<ctx, mainVars, sent, serviceVars, written, txn,
                   delivered, faults>>

\* Mutant of BatchTimeout: the ticker waits for a full batch.
BatchTimeoutOfFullBatch ==
    /\ ProducerAt("select")
    /\ Len(batch) >= BatchSize
    /\ producerPC' = "begin"
    /\ UNCHANGED <<ctx, mainVars, chanVars, serviceVars, batch,
                   written, txn, delivered, faults>>

\* The ticker of the producer fires.
BatchTimeout ==
    /\ ProducerAt("select")
    /\ batch # <<>>
    /\ producerPC' = "begin"
    /\ UNCHANGED <<ctx, mainVars, chanVars, serviceVars, batch,
                   written, txn, delivered, faults>>

\* What is left in batch and channel is not produced.
StopProducer ==
    /\ producerPC = "select"
    /\ Leave("producer")
    /\ UNCHANGED <<ctx, mainVars, chanVars, purgePC, heartbeatPC,
                   producerVars>>

\* Mutant of Finish: the batch is not reset.
FinishKeepsBatch ==
    /\ producerPC' = "select"
    /\ batch' = batch
    /\ written' = <<>>

\* produceBatch returns nothing, and its caller resets the batch.
Finish ==
    /\ producerPC' = "select"
    /\ batch' = <<>>
    /\ written' = <<>>

BeginTransaction ==
    /\ ProducerAt("begin")
    /\ txn = "none"
    /\ txn' = "open"
    /\ producerPC' = "produce"
    /\ UNCHANGED <<ctx, mainVars, chanVars, serviceVars, batch, written,
                   delivered, faults>>

\* The client refuses to begin a transaction within another.
BeginTransactionFails ==
    /\ ProducerAt("begin")
    /\ \/ txn = "open" /\ UNCHANGED faults
       \/ txn = "none" /\ CallFails
    /\ UNCHANGED delivered
    /\ Finish
    /\ UNCHANGED <<ctx, mainVars, chanVars, serviceVars, txn>>

Increasing(s) == \A i, j \in DOMAIN s : i < j => s[i] < s[j]

\* What is left of a batch when some of its records are not produced.
Parts(s) ==
    UNION {{[i \in 1..n |-> s[f[i]]] :
               f \in {g \in [1..n -> DOMAIN s] : Increasing(g)}} :
           n \in 0..Len(s)}

\* ProduceSync, whose results are not looked at, and Flush, which has nothing
\* left to wait for.
Produce ==
    /\ ProducerAt("produce")
    /\ \/ written' = batch /\ UNCHANGED faults
       \/ written' \in Parts(batch) /\ CallFails
    /\ producerPC' = "commit"
    /\ UNCHANGED <<ctx, mainVars, chanVars, serviceVars, batch, txn, delivered>>

\* The transaction holds what was produced, be it the batch or not.
Commit ==
    /\ ProducerAt("commit")
    /\ txn' = "none"
    /\ delivered' = delivered \o written
    /\ Finish
    /\ UNCHANGED <<ctx, mainVars, chanVars, serviceVars, faults>>

\* OperationNotAttempted: the failure of a record has cost the client its
\* producer ID.
CommitRefused ==
    /\ ProducerAt("commit")
    /\ written # batch
    /\ producerPC' = "rollback"
    /\ UNCHANGED <<ctx, mainVars, chanVars, serviceVars, batch, written, txn,
                   delivered, faults>>

\* Mutant of CommitFails: the batch is kept, to be tried again.
CommitFailsKeepsBatch ==
    /\ ProducerAt("commit")
    /\ CallFails
    /\ \/ txn' = "none" /\ delivered' = delivered \o written
       \/ txn' \in {"none", "open"} /\ UNCHANGED delivered
    /\ producerPC' = "select"
    /\ written' = <<>>
    /\ UNCHANGED <<ctx, mainVars, chanVars, serviceVars, batch>>

\* Any other error is logged.  The commit may have been done, and the
\* transaction may be over or not.
CommitFails ==
    /\ ProducerAt("commit")
    /\ CallFails
    /\ \/ txn' = "none" /\ delivered' = delivered \o written
       \/ txn' \in {"none", "open"} /\ UNCHANGED delivered
    /\ Finish
    /\ UNCHANGED <<ctx, mainVars, chanVars, serviceVars>>

Rollback ==
    /\ ProducerAt("rollback")
    /\ \/ txn' = "none" /\ UNCHANGED faults
       \/ txn' = "open" /\ CallFails
    /\ UNCHANGED delivered
    /\ Finish
    /\ UNCHANGED <<ctx, mainVars, chanVars, serviceVars>>

-----------------------------------------------------------------------------
Start ==
    \/ ParseFlags
    \/ NewConfig \/ LoadFromFile \/ NoFileLoaded
    \/ OpenDb \/ CheckTable
    \/ BrokerInitPanics \/ NewClient \/ ValidateBrokerConnection
    \/ CheckTopicsExist \/ StartBroker \/ AnnounceStart
    \/ ControllerInit \/ RetentionInit \/ RouterInit
    \/ StartHeartbeat

Stop ==
    \/ AwaitServices
    \/ CloseRouter \/ AnnounceStop \/ CloseBroker \/ CloseDb

Main ==
    /\ Start \/ Stop
    /\ UNCHANGED <<purgePC, heartbeatPC, producerVars>>

Heartbeat == Beat \/ AnnounceReady \/ StopHeartbeat

ProduceBatch ==
    \/ BeginTransaction \/ BeginTransactionFails
    \/ Produce
    \/ Commit \/ CommitRefused \/ CommitFails
    \/ Rollback

Producer == Receive \/ BatchTimeout \/ StopProducer \/ ProduceBatch

\* The goroutines end with the process.
Alive == mainPC \notin {"exited", "crashed", "forced"}

Next ==
    /\ Alive
    /\ \/ Cancel
       \/ Main
       \/ ServerFails
       \/ \E s \in OtherServices : OtherReturns(s)
       \/ StartPipelines \/ PipelinesReturn
       \/ TestContext \/ HandOut \/ StopPurge
       \/ \E s \in Services : TickerPanics(s)
       \/ Heartbeat
       \/ Producer

Spec == Init /\ [][Next]_vars

\* The scheduler runs every goroutine, and Kafka answers every call.  A select
\* entered again and again with the context done takes that case some day.  The
\* workers of the purge receive for certain only until the context is done.
Fairness ==
    /\ WF_vars(Alive /\ Main)
    /\ \A s \in OtherServices : WF_vars(Alive /\ OtherReturns(s))
    /\ WF_vars(Alive /\ ctx = "done" /\ PipelinesReturn)
    /\ WF_vars(Alive /\ ctx = "live" /\ HandOut)
    /\ WF_vars(Alive /\ StopPurge)
    /\ \A s \in Services : WF_vars(Alive /\ TickerPanics(s))
    /\ WF_vars(Alive /\ AnnounceReady)
    /\ SF_vars(Alive /\ StopHeartbeat)
    /\ WF_vars(Alive /\ Receive)
    /\ WF_vars(Alive /\ BatchTimeout)
    /\ WF_vars(Alive /\ ProduceBatch)
    /\ SF_vars(Alive /\ StopProducer)

FairSpec == Spec /\ Fairness

-----------------------------------------------------------------------------
\* Program counters, the three states of what is opened and closed, and a
\* channel and a batch within their capacities.
TypeOK ==
    /\ ctx \in {"live", "done"}
    /\ mainPC \in {"flags", "config", "load", "open", "table", "broker",
                   "connect", "topics", "channel", "starting", "controller",
                   "retention", "router", "heartbeat", "serve", "closeRouter",
                   "stopping", "closeBroker", "closeDb", "exited", "crashed",
                   "forced"}
    /\ candidates \in 0..ConfigFiles
    /\ config \in Parsed \cup {"none"}
    /\ database \in {"none", "open", "closed"}
    /\ client \in {"none", "open", "closed"}
    /\ msgChan \in {"nil", "open", "closed"}
    /\ queue \in Seq(Nat)
    /\ Len(queue) <= MsgCap
    /\ running \subseteq Services
    /\ purgePC \in {"select", "send"}
    /\ heartbeatPC \in {"select", "send"}
    /\ producerPC \in {"select", "begin", "produce", "commit", "rollback"}
    /\ batch \in Seq(Nat)
    /\ Len(batch) <= BatchSize
    /\ written \in Seq(Nat)
    /\ txn \in {"none", "open"}
    /\ delivered \in Seq(Nat)
    /\ sent \in Nat
    /\ faults \in 0..MaxFaults

\* Whatever fails during the start and whenever the stop comes, what the
\* services use is closed only when they have returned: nobody sends on the
\* closed channel, and nobody uses the closed client or pool.  And whatever
\* the failing Init calls have left open is closed when main returns.
ClosedAfterUse ==
    /\ "closed" \in {database, client, msgChan} =>
            /\ running = {}
            /\ heartbeatPC = "select"
    /\ mainPC = "exited" => "open" \notin {database, client, msgChan}

\* Failed calls lose digests, but no digest is delivered twice or after a
\* younger one, also when a commit was done and reported as failed.
DeliveredOnceInOrder == Increasing(delivered)

\* main returns, or a request has outlived the shutdown of the server, or the
\* process has panicked over its configuration.
Ended ==
    \/ mainPC \in {"exited", "forced"}
    \/ mainPC = "crashed" /\ config # "usable"

\* Whichever Init has failed, and however full the channel is when the producer
\* leaves, the process ends once the context is done, unless the purge stays in
\* the send of a job: nobody else waits for ever.
ServiceEnds == ctx = "done" ~> (Ended \/ [](purgePC = "send"))

\* A commit or a rollback has failed and left the transaction open.
StuckInTransaction == txn = "open" /\ producerPC \in {"select", "begin"}

Delivered(d) == \E i \in DOMAIN delivered : delivered[i] = d

\* Without a further failed call and a stop, and with intervals above 0, a
\* digest in the channel is delivered in the end, whether it fills a batch or
\* not: failures of the past do no harm, unless one has left the transaction
\* open.
DigestsAreDelivered ==
    \A d \in 1..(MaxBeats + 1), f \in 0..MaxFaults :
        /\ config = "usable"
        /\ \E i \in DOMAIN queue : queue[i] = d
        /\ faults = f
        /\ ~StuckInTransaction
        ~> Delivered(d) \/ faults > f \/ ctx = "done"
=============================================================================
