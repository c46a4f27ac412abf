# Verification of the archive manager

TLA+ models of `archive_manager`, the service that records the main streams of
cameras: it consumes frames from Kafka, writes them to fragment files, keeps an
index of I-frame offsets in PostgreSQL and purges what is older than each
camera's retention. TLC checks the models on small instances; TLAPS proves
theorems about them for all values of the constants.

    tlc -workers 2 -config Pipeline_restart.cfg MCPipeline
    tlapm PipelineProofs.tla      (and ControllerProofs, FrameWriterProofs,
                                   OffsetWriterProofs, RetentionProofs,
                                   ArchiveTimeProofs, ExpiryProofs, ServiceProofs)

## 1. The system

| Component | State | Operations | Modelled in |
| --- | --- | --- | --- |
| Broker consumer, `broker/consumer.go` | `ArchiveTopics` (topic to frame channel, under an RW mutex); the sync maps `Cameras`, `Retentions` | `startConsuming`, `sendFrameToArchive`, `AddArchiveTopic`, `RemoveArchiveTopic` | `Pipeline` (frames), `Controller` (records of the cameras topic and the two maps), `Retention` (what the retentions do) |
| Controller, `controller/` | `controlledArchiveStreams` (camera to cancel function) | every 5 s, over `Cameras`: start or cancel a pipeline per camera, delete the configuration of one switched off | `Controller`; `Pipeline` (what a context does) |
| Archive pipeline, `archive/pipeline.go` | two buffered channels, the context | `Start` | `Pipeline` |
| File writer, `archive/file.go` | open file, its start, byte offset, video count | `Run`, `processFrame`, `rotateFile` | `Pipeline` (channels), `FrameWriter` (data) |
| Database writer, `db/offset.go` | `batch`, ticker | `Run`, `flush` | `Pipeline` (channels), `OffsetWriter` (data), `OffsetStore` (its promise) |
| Names of folders and files, `db/offset.go` | none | `GetFolderName`, `GetFileName` | `ArchiveTime` |
| Retention, `retention/` | worker pool, job channel; reads and deletes from `Retentions`, rows, folders | `purge`, `purgeOnce`, `runCleanup` | `Retention` (goroutines), `Expiry` (time) |
| Producer and digest, `broker/producer.go`, `digest.go` | `MsgChan`, batch, Kafka transaction | `startProducing`, `produceBatch`, `rollback`, heartbeat | `Service` |
| Lifecycle, `cmd/archive_manager/main.go` | service context, wait group | start in order, stop in reverse | `Service` |
| Configuration, `config/` | `App`, read-only after start | `Init`: the files in turn, `parseConfiguration` | `Service` (`NewConfig`, `LoadFromFile`, `NoFileLoaded`) |
| Database pool, `db/init.go` | the pool | `Init`, `Close` | `Service` (`OpenDb`, `CheckTable`, `CloseDb`) |
| HTTP server, `router/` | the server | `Init`, `Close`; two read-only routes | `Service` (`RouterInit`, `ServerFails`, `CloseRouter`); routes and middleware are not modelled |
| Kafka error table, metrics, protobuf | none | | not modelled, section 7 |

How they interact. One consumer goroutine serves every camera. It looks the
channel of a record's topic up under a read lock, releases the lock, and does a
blocking send. The controller starts one `Start` goroutine per camera; `Start`
registers the frame channel, launches the two writers, and on cancellation
unregisters, closes both channels and waits. The file writer sends one offset
per I-frame to the database writer and never blocks on it. The database writer
writes batches in transactions. `main` waits for all of them through one wait
group and then closes the database and the broker client. Every fragment length
the purge starts workers, hands each of them cameras and retentions from the map
the consumer fills, and waits for them; once an hour the cleanup removes the
folders of cameras that are not in that map.

What is hard about it:

* a channel is closed by one goroutine while two others may send on it;
* switching a camera off does not wait for its pipeline, so two pipelines of one
  topic overlap, and the registry goes by topic;
* one full channel stalls every camera;
* a file is chosen by the frame's timestamp, its rotation by the wall clock, and
  its index row by the timestamp again;
* a process is a consumer group of its own, and a topic subscribed to again goes on
  where its offset was: frames written long ago come again;
* files and index rows are written by different goroutines, survive restarts and
  are not changed atomically;
* every database call may fail, also after it was done;
* the purge works on retentions it read some time ago, forgets cameras the
  consumer may have just stored again, and deletes beside writers that go on;
* a record of a camera goes to two maps in two steps, one by the name in its
  value and one by its key, which differ in a tombstone; the controller acts on an
  entry it read before, and deletes by key;
* a retention in days becomes an `int64` of nanoseconds, and wraps;
* `main` goes on after an `Init` has failed, and some settings panic only later.

Properties that make the parts correct, each a definition of a module below:

| Part | What must hold |
| --- | --- |
| Pipeline, consumer, controller | only open channels are registered; at most one live pipeline a topic; nothing of a pipeline runs after `Start` returned; a stop never kills the process and a start always records (both violated); every stop ends |
| Controller, the two maps | a camera ends as its last record wants it; a camera that records has a retention, up to the named races |
| File writer | a row names the file that holds its I-frame, at the offset where it begins; a fragment starts with an I-frame; a file that was left is not gone on with; what a writer destroys of its own belongs to a fragment that is over |
| Database writer | offsets become durable in order, by whole batches, exactly once while commits are answered, and in the end; the rest is flushed on exit (violated) |
| Retention | one worker a camera, rounds joined; nothing is deleted that no retention expired; the retention is kept and is enforced, to within a fragment or two; rows without files expire; a stop always ends (violated) |
| Producer, lifecycle | digests are delivered at most once, in order, and in the end; nothing is closed while a service uses it; the process ends, unless the purge hangs in its send |

## 2. Modules

### Pipeline

Goroutines are program counters, one step per operation that other goroutines
can see: `startPC`, `writerPC`, `dbPC` per pipeline, `consumerPC` for the
consumer. A channel is its length and its closed flag; Go's rules are the guards
(a receive needs an element or a closed channel, a send needs room, a send on a
closed channel panics even if it was already waiting). A panic ends the process:
`Next` requires `~panicked`.

| Action | Code |
| --- | --- |
| `SwitchOn`, `SwitchOff` | `controller.go`, the two branches of one tick's verdict on one camera |
| `Shutdown` | `signal.NotifyContext` in `main`; cancels every derived context |
| `AddArchiveTopic`, `RemoveArchiveTopic` | `consumer.go`, each under the write lock, called by `Start` |
| `CloseFrames`, `CloseOffsets`, `Join` | the rest of `Start` |
| `WriterStop`, `WriterReceive`, `WriterEmit` | `Writer.Run`, and the send in `processFrame` |
| `DbStop`, `DbReceive`, `DbTimer`, `DbFlushed` | `DatabaseWriter.Run` |
| `Poll`, `LookupTopic`, `SendFrameToArchive`, `ConsumerStop` | `startConsuming` |

A select with several ready cases is a choice between actions, so a writer may
go on receiving after its context is done, as it may in Go. Each `Pipeline`
object is used once; switching a camera off and on again uses the next one.
Kafka buffers nothing for a topic that was purged from the client, but a record
already polled is still looked up, which the model keeps. `NewPipeline` takes the
unused objects of a camera in a fixed order, since they are interchangeable.

### Controller

The two maps a record of the cameras topic goes to, with everybody who touches
them. `record` is the record between the two stores of the consumer; `verdict` the
entry the callback of `Range` was called with, which may be old by the time it is
acted upon. `Range` over `Cameras` is modelled as in `Retention`.

| Action | Code |
| --- | --- |
| `StoreRetention`, `StoreCamera` | `startConsuming` on a record of the cameras topic |
| `Tick`, `Visit`, `EndRange`, `StopController` | the loop of `controller`, and `Cameras.Range` |
| `LeaveAlone`, `SwitchOff`, `DeleteCamera`, `SwitchOn` | the branches of the callback; cancelling and deleting are two steps |
| `TakeZeroJob`, `Forget` | the purge, as far as it changes `Retentions` |
| `Shutdown` | the service context, from which those of the pipelines are derived |

A pipeline is only its context. The error branch of `pipeline.Start`
(`controller.go:78`) is left out, as `Start` returns nil in every case. Records are
keyed by the UUID of their camera, as the comment on `CameraUuid` says, and their
values have it once more. `Retentions` and the controller go by the value, `Cameras`
by the key. The topic is compacted, so there are records without value, tombstones,
which `proto.Unmarshal` decodes without error to the empty `ProtoCamera`: a retention
of 0 is stored under `""` (`NoName`), the configuration under the key, and the visit
looks `""` up among the cancel functions and finds nothing. Other records whose key
and value differ are left out. The order of `TakeZeroJob` and of the end of the
service is left open, which only adds behaviours. `latest`, `lost` and `dropped` are history variables: the last
configuration stored, the cameras whose last configuration was deleted by a
verdict on an older one, and how a retention left its map.

### ArchiveTime and FrameWriter

`ArchiveTime` holds the arithmetic of folder and file names. The numbers of
milliseconds in a second and of seconds in a day are constants of the model, so
that an instance with two seconds in a day exercises midnight. It names two
hypotheses on the configuration: `FragmentDividesDay` and `FragmentIsWhole`.

`FrameWriter` is `Writer.processFrame` over a disk of bytes, each byte tagged with
the frame it comes from. One action handles one frame completely: skip, failed
rotation, failed write after any number of bytes, or a write followed by the
offset (sent, or dropped if the channel is full) and the advance of the byte
offset. `Restart` stands for any end of the writer followed by a new one over the
same disk. Of the order and the age of frames nothing is assumed: the group of the
consumer has a new UUID in each process (`parse.go:11`, `init.go:45`), so with
`auto.offset.reset` at `earliest` (`init.go:68`) a new process is given the topic from
its beginning, and a topic that is subscribed to again goes on from an offset
committed before. No timestamp is more than `MaxLead` ahead of the wall clock, which
is a bound of the instance. A row remembers the file its I-frame really went to and
when it was received, which the code does not keep; that is what the properties
compare it with. `created`, the files the running writer has created, and `writeFailed`
are history variables as well: the properties about exact offsets are claimed
until the first failed write. Two writers of one camera at once, which
`Pipeline` shows to happen after a quick switch off and on, are not modelled here.

### OffsetStore and OffsetWriter

`OffsetStore` is what a caller may rely on: offsets are accepted one by one,
become durable a whole batch at a time behind those already there, and pending
ones are lost if the writer stops. `OffsetWriter` is the code: the select loop,
and `flush` as a transaction that begins, inserts one group per archive file in
any order (the groups are a Go map), and commits. Any call may fail, and must
fail when the context is done, since `database/sql` refuses it; a failure rolls
back and keeps the batch. `CommitUnacknowledged` is a commit done by the server
and reported failed. `Return` leads to the deferred flush. `ImplementsStore` is
the refinement, with `pending <- batch` and `stored` the arrays of the rows.
`Only`, in `OffsetGroups`, is the loop of `flush` that takes a batch apart, as a
function of the turns it has made; both modules use it.

### Retention

The goroutines of the retention service over the map they share with the
consumer. What a camera has recorded is a set of ages in days; a retention of
`days` expires the ages from `days` on, and 0 expires all. From `DurationBound` days on
(106751 in the code) the `time.Duration` of the cutoff wraps (`Span`) and may expire
everything. A worker carries the retention it was sent, however old. The name of
a tombstone is `NoName`, and its folders (`FoldersOf`) are all of them, since
`filepath.Join` of the storage path with `""` is that path.

| Action | Code |
| --- | --- |
| `Configure` | `startConsuming` on a record of the cameras topic, tombstones included |
| `Record` | what a pipeline does to the archive: it may run from the first record that asks for one, since an old verdict can start it late; `Controller` says when it does |
| `BeginRound`, `Visit`, `Send`, `EndRange`, `Join`, `StopPurge` | `purge`: tick and workers, the callback of `Range` up to the send and the send, `close(jobs)`, `wgWorkers.Wait`, `ctx.Done` |
| `Leave`, `PurgeRows`, `PurgeFiles`, `Forget` | a worker, and the three steps of `purgeOnce`; either deletion may fail |
| `BeginCleanup`, `LookUp`, `RemoveOrphan`, `EndCleanup`, `StopCleanup` | `cleanup` and `runCleanup`, the look into the map apart from the removal |

`visit` is what `sync.Map` promises of `Range`: a key is visited at most once; one
that was there from the beginning is visited unless it is deleted first; one
stored stored meanwhile may or may not be. The job channel has no buffer, so `Send` is
the rendezvous of `purge` and one worker. `seen` and `orphans` are history
variables: the retentions consumed for a name, and the cameras the cleanup
looked for in vain before their first record, which is the case of a restart
whose topic is consumed late. Time does not pass in this module: ages stay.

### Expiry

One camera's archive against the clock. An I-frame is its timestamp, which is on
disk in one file and in the index in one row; that the two agree is shown by
`FrameWriter`. `RowExpires` is the condition of the DELETE, on folder and second of
the day. `FileExpires` removes folders before the cutoff and nothing of the folder
on it: the files there are called `N.bin`, `strconv.ParseInt` rejects that, and the
loop passes them over (`purge.go:165`), so a file stays until its day is over. A
purge reads the clock once and deletes later; a batch may be flushed, or lost, at
any time. Frames may be as old as `StartTime`. The retention minus the fragment is
an `int64` in the code and wraps here too, at `DurationBound` (`Wrap`, `CutoffTime`); a cutoff
before the epoch is divided as Go divides, towards zero. `FitsDuration` is a retention
that does not wrap.

### Service

The life of the process. `mainPC` goes through the flags, the steps of the `Init`
calls, the wait and the deferred closes in the reverse order. An `Init` that fails
cancels the context and `main` goes on: after a failed `config.Init` the database
has no data source name and the broker panics on the empty configuration
(`BrokerInitPanics`, with `db.Close` as the only deferred close so far), after any
other failure the remaining services start under a cancelled context and return.
`config` is the one setting, if any, that is not usable: those of the broker panic
in `broker.Init`, an interval of 0 in the goroutine that makes a ticker of it
(`TickerPanics`), where no deferred close of `main` runs. `running` is the wait group, with the
pipelines, which the controller adds to it (`controller.go:76`), as one member.

| Action | Code |
| --- | --- |
| `ParseFlags` | `main`: `--version`, `--help`, `--config` |
| `NewConfig`, `LoadFromFile`, `NoFileLoaded` | `config.Init` |
| `OpenDb`, `CheckTable` | `db.Init`: `open` with its ping, `isTableExists` |
| `BrokerInitPanics`, `NewClient`, `ValidateBrokerConnection`, `CheckTopicsExist`, `StartBroker`, `AnnounceStart` | `broker.Init` |
| `ControllerInit`, `RetentionInit`, `RouterInit`, `StartHeartbeat` | the rest of `main` up to `<-ctx.Done()` |
| `ServerFails`, `TickerPanics` | goroutines started by then: the server, the tickers |
| `OtherReturns`, `StartPipelines`, `PipelinesReturn` | consumer, controller, cleanup and the pipelines, of which only the end matters here |
| `TestContext`, `HandOut`, `StopPurge` | `purge`: the context tested, and the send to a worker that may not come (`purge.go:72-76`), the end |
| `AwaitServices`, `CloseRouter`, `AnnounceStop`, `CloseBroker`, `CloseDb` | the rest of `main`: `wg.Wait` and the deferred closes |
| `Beat`, `AnnounceReady`, `StopHeartbeat` | `ServiceDigestHeartbeat` |
| `Receive`, `BatchTimeout`, `StopProducer` | the select of `startProducing` |
| `BeginTransaction`, `Produce`, `Commit`, `CommitRefused`, `CommitFails`, `Rollback` | `produceBatch` and `rollback` |

`SendServiceDigest` is a select of the context and the send, shared by its three
callers. The branch of `startProducing` for a closed channel is left out, since
`ClosedAfterUse` shows that it is never reached. Of the Kafka client the model
assumes little: a transaction commits as a whole or not; the results of producing
are not looked at (`producer.go:64`), so a transaction may hold any part of the
batch, and its commit may be done or be refused; another error of a commit
may hide a commit that was done and may leave the transaction open; a client in a
transaction refuses to begin one. Consumer, controller, cleanup and pipelines
return when the context is done, as `Pipeline`, `Controller` and `Retention` show. The
purge may be in its send by then, and stays there if the workers have left. The
panic of a pipeline that stops is left to `Pipeline`.

### MC modules and mutants

The MC modules add the model values and the hypotheses of a run: for
`FrameWriter` and `Expiry` those on the fragment length, for `Expiry` also that one
retention fits a `Duration` and one does not, for `Retention` that there is
a worker (with `RetentionWorkers` 0, the first job is never taken and `purge` hangs). Definitions whose comment
begins with "Mutant of" are not used by any specification: each is a plausible
bug in the definition that follows it, and the property it is listed with in
`PROJECT.json` is violated when it takes that definition's place.

## 3. Runs

| Run | Checks | Instance |
| --- | --- | --- |
| `Pipeline_restart` | `TypeOK`, `RegistryHoldsOpenChannels`, `OneLivePipelinePerTopic`, `PanicOnlyAfterCancel`, `NothingRunsAfterReturn`, `OrphanHasPredecessor`, `CancelledPipelineReturns`, `ConsumerGetsUnstuck`, `ShutdownCompletes` | two pipelines of one camera, capacities 1, 2 records, polled one by one or together |
| `Pipeline_closing` | `ClosingChannelsOnlySignals`, violated | the same with 4 records |
| `Pipeline_orphan` | `RunningIsRegistered`, violated | the same with 4 records |
| `FrameWriter_index` | `TypeOK`, `RowsResolveOrOverwritten`, `IndexNamesTheFile`, `FilesStartWithIFrame`, `IndexedFramesAreWhole`, `OffsetCountsWholeFrames`, `FilesHoldOneRun`, `TruncationNeedsLateFrame` | 2 ms a second, 2 s a day, fragments of 1 s, 3 frames of 2 bytes of any age and at most 1 ms ahead, 5 ms, failing disk |
| `FrameWriter_offsets` | `OffsetsAreInTheFile`, violated | frames of 1 byte, no failures |
| `OffsetWriter_store` | `TypeOK`, `ExactlyOnce`, `ImplementsStore`, `OffsetsBecomeDurable` | two files, batches of 2, 3 offsets, 2 failing calls |
| `OffsetWriter_exit` | `FlushRemainingOnExit`, violated | no failing call needed |
| `Controller_cameras` | `TypeOK`, `RecordingHasRetention`, `LatestIsObeyed` | 2 cameras, retentions of 0 and 1 day, 3 records, tombstones among them |
| `Retention_pool` | `TypeOK`, `OneWorkerPerCamera`, `RoundsAreJoined`, `OnlyZeroIsForgotten`, `OnlyExpiredIsDeleted`, `ZeroIsForgotten`, `StopsOrHangsInSend` | 1 camera, 2 workers, retentions of 0, 1 and 3 days where a `Duration` has less than 2, ages of 0 and 1 day, 2 records, tombstones among them |
| `Retention_hang` | `PurgeStops`, violated | 2 cameras, 1 worker, retention 0 |
| `Expiry_purge` | `TypeOK`, `DanglingRowsExpire`, `KeptLongEnough`, `PurgeIsComplete` | 2 ms a second, 2 s a day, fragments of 1 s, retentions of 2 days and of 3, which wraps, 2 I-frames, 18 ms |
| `Service_run` | `TypeOK`, `ClosedAfterUse`, `DeliveredOnceInOrder`, `ServiceEnds`, `DigestsAreDelivered` | a channel of 1, batches of 2, 2 names of the configuration file, 1 failing call and any number once the context is done, heartbeats until 3 digests are sent |

Deadlock is not checked: a process that has stopped, panicked, or reached the
bounds of the instance has no next step, and the liveness runs tell those ends
from a hang.

Why the bounds are enough. With a capacity of 1 two records fill the channel and
block the consumer, or leave a record polled but not looked up; larger buffers
and more records only postpone that. Two pipelines are the smallest overlap, and
the theorems below cover any number of both. For
the file writer, five ticks of the clock pass two rotations and midnight, and
three frames are a file, another, and the first once more: after a restart, by a
late frame or by one delivered again. For
the database writer, three offsets and batches of two give a full batch, a
remainder that only the ticker flushes, and two failures a failed retry; what is
beyond is the same state with longer arrays; a batch that cannot be flushed
grows to 3 there, past its size. For the controller, three records switch one
camera on, off and on again, or leave one for a tombstone or for the other camera,
whose visit comes between; more than one record between two steps of the
controller only replaces the one before. For the purge, one camera and two
workers are a round that must not hand the camera out twice, two records a 0
before or after another retention, a retention that wraps, or a tombstone, and two
ages what a retention tells apart; a round, the next, a cleanup and a shutdown
interleave freely. The second camera that waits for a
worker is in `Retention_hang`, and the safety properties are proved for any
number. For `Expiry`, the 13 ms from a start at 5 are three days
and a quarter: a frame is recorded, crosses a midnight and expires, row first and
file after, and under the retention that wraps it expires at once.
For `Service`, a channel of 1 is full when the producer leaves and the heartbeat
beats once more; a batch of 2 is filled once and left to the ticker once; one
failure is a commit that was done and reported failed, or a batch of which one
record was produced, and under a cancelled context they follow one another.

Fairness. `FairSpec` of `Pipeline` has weak fairness for every goroutine, which is
the Go scheduler's, and strong fairness for the exit of the database writer's
loop: a select that is entered again and again with `ctx.Done` ready takes that
case some day, since Go chooses among ready cases at random, while the ticker
could otherwise keep the loop busy. Cameras need not be switched and nobody has
to stop the service. The disk and the database answer in the end: flushes and
writes are steps that are taken. `OffsetWriter` has weak fairness for the flush,
the ticker and the return, and none for arriving offsets or cancellation.
Failing calls are bounded, which is the hypothesis that the outage ends.
`Retention` has weak fairness for `purge`, each worker and `cleanup`, and strong
fairness for the two `ctx.Done` cases, which compete with tickers. That a deletion
of files or rows fails again and again does not matter to its liveness: `Forget`
follows a failed deletion as well. `Service` has weak fairness for `main`, each
service and each case of the producer, strong fairness for the `ctx.Done` cases of
heartbeat and producer, and none for signals,
heartbeats and a failing server. Its purge gets rid of a job for certain only while
the context is live, when the workers receive; its pipelines return for certain
only when the context is done. Sleeps end, and every `Init` comes back.
`Controller` has weak fairness for the controller, whose ticker fires, and for the
second store of the consumer; records, purges and the signal need never come.

## 4. Proofs

`PipelineProofs` proves the type invariant and the five safety properties of
`Pipeline_restart` for any sets of pipelines and topics, any capacities, any
traffic and any assignment of pipelines to topics. The only assumption is
`PipelineAssumption`, evaluated by TLC on every instance.

None of the properties is inductive alone. `IInv` adds what they rest on:
whoever is registered is in `Start`'s wait for its context (`RegisteredIsWaiting`);
a channel is closed only by its own `Start` past that wait (`ClosedByStart`); `Start`
leaves the wait only when its context is done, and a pipeline has a context
exactly when it has been started (`ContextFollowsStart`); the controller holds the
cancel function of whatever is live (`LiveIsControlled`); `Start` returns after both
writers (`ReturnedIsJoined`). Then

* a registered channel is open, since its owner waits and has not closed it;
* two live pipelines of one topic would both be the one the controller holds;
* a send on a closed channel meets a pipeline that is stopping, hence cancelled;
* an unregistered running pipeline either failed to register, because another
  one was registered and therefore waits with a cancelled context, or was
  removed by another one that has seen its context done.

The steps of the consumer and of the writers are handled by `QuietStep` and
`PanicStep`; the controller, the shutdown and `Start` by a lemma each.

`ControllerProofs` proves the two invariants of `Controller_cameras` for any cameras,
any retentions and any number of records and tombstones, from
`ControllerAssumption` (that `NoName` is no camera, and `None` neither a name nor a
value). `RecordingHasRetention` says of a live pipeline something about the map of
retentions, while the two meet only in the map of configurations. `IInv` puts that
between them. `EntryIsThere`: a camera with a live pipeline has a configuration,
since only the controller deletes one, and only the one whose pipeline it has
cancelled in the step before. `MapsAgree`: a configuration that is stored, or about
to be, has the retention that is in the other map, unless the purge has forgotten
it; if it was a 0 when it was forgotten, so is the one of the configuration.
`DroppedIsExplained` keeps the reason for cameras whose next record is between the
two stores. A live camera without retention then has a configuration of 0 days,
which switches it off, or a next record coming, or a tombstone in the place of
that configuration. `VisitRepairs` is the safety half of `LatestIsObeyed`, and no run
has it: a camera that is not as its last record wants it, and has not lost that
record, has it in the map (`LatestIsStored`), and the next visit does not leave the
camera alone, since the visit looks up the name of a record that has one, and the
cancel functions are those of the live pipelines (`CancelIsOfLive`). Of a tombstone it
says the opposite: the visit has nothing to look up and leaves everything as it
is. What remains for TLC is that the visit comes.

`RetentionProofs` proves the invariants of `Retention_pool` and its action property
for any sets of cameras and workers, any retentions and any number of records,
from `RetentionAssumption` alone. `IInv` has two halves. `PoolInv` is about the
round: outside it no worker is busy; the camera of every busy worker and of the
job on its way has been visited, and no two of them are the same. So the next
camera to be visited is not being purged, which keeps the jobs apart. `HistoryInv`
ties what is in the map, in a job or at a worker to `seen`: a retention in use was
consumed for that name, a victim of the cleanup either had a 0 or was never
consumed. `OnlyExpiredIsDeleted` then follows from the deleting steps. What the
theorem promises is what the code keeps and no more: a row goes because a
retention consumed for its camera had expired it or overflows a `Duration`
(`ExpiredIsOld`, from the wrapped arithmetic); a file goes for these reasons, or with
the folder of a camera that was on disk before its first record, or with the
whole storage path once a tombstone has been consumed.

`ExpiryProofs` proves everything `Expiry_purge` checks, for any lengths of second,
day, fragment and retention, wrapping ones included, and for frames of any age,
under `TimeAssumption` and `ExpiryAssumption`. The hypotheses of `MCExpiry` are not
needed for it. The code compares a folder, and
then a second of the day; the proofs turn that into one comparison, of the second
at which the file starts with the second of the cutoff (`RowExpiresInSeconds`, from
`NestedDivision` and `Lexicographic`). `StartSecondBounds` puts the start of a file
less than a fragment before each of its frames, whence the two bounds:
deleted is older than the retention less two fragments (`KeptLong`), and kept is
younger than the retention less one, or for files a day more (`Complete`). `KeptBounds`
is what wrapping does to them: the computed distance of the cutoff is never more
than the configured one, so `Complete` holds for every retention, and equals it for
those that fit, to which `KeptLong` is confined. A cutoff before the epoch expires
nothing (`NegativeCutoff`). `DanglingExpire` strengthens `DanglingRowsExpire` to rows that are still to be
flushed; it holds since a file's folder before the cutoff means that its row is
before it too (`FilesExpireAfterRows`), and what has expired stays so
(`ExpiryIsForEver`).

`ArchiveTimeProofs` has the arithmetic that `ExpiryProofs` and `FrameWriterProofs`
share, about the names of folders and files for any lengths of second, day and
fragment: a later timestamp never has an earlier name (`KeysFollowTime`), and
all milliseconds of one fragment have one name if fragments are whole seconds and
divide a day (`KeyIsStable`).

`FrameWriterProofs` proves all eight properties of `FrameWriter_index`, for any size
of frame, any order and age of the frames, any lead of the camera's clock, any
fragment and any number of frames, restarts and failed writes; `TimeAssumption` and
`WriterAssumption` are its only hypotheses. `IInv` adds to the properties what the
next frame needs. Bytes and rows are of frames already received, so that a new
row is not mistaken for an old one (`Numbered`). The byte offset the writer keeps is
the length of its file, as long as no write has failed (`AtTheEnd`). The bytes of the
open file are younger than all others (`YoungestIsOpen`): a file is appended to only
while it is open and truncated when it is opened, whence `FilesHoldOneRun`. The open
file is the one its own start names (`NamedByItsStart`), and the files the writer has
created and left are of fragments that are over (`LeftInTime`), since it leaves one
only when the clock says so. `IndexNamesTheFile` takes the clock of the camera and
the fragment into its statement: a row names another file than the one its I-frame
is in only for a frame older than that file, for one ahead of the clock, or where
fragments are not of whole seconds that divide the day; and in this last case the
two files begin less than a fragment apart.

`OffsetWriterProofs` proves `TypeOK`, `ExactlyOnce` and that the writer implements
`OffsetStore`, for any files, any size of batch and any number of offsets and of
failing calls, from `StoreAssumption`. `ExactlyOnce` speaks of everything that was
received and not lost, and does not say where in that sequence the lost ones are.
`IInv` cuts what was received in two (`BatchIsNewest`): the batch is its end, none of
it lost; what is before is settled, each offset in its row or lost
(`SettledIsAccounted`), and each row has the settled ones of its file
(`RowsAreSettled`). `TransactionIsPartOfBatch` says that an open transaction is the
table with the groups done so far behind their rows; so a commit extends every
row of the batch at once, which is `Persist` of the store, and no other step of the
loop over the groups is visible there. Of `Only` and of the largest count the proof
needs laws for batches of any length (`OnlyOfConcat`, `OnlyOfAll`, `CountOfConcat` and
others). The induction theorems of the library take a predicate as parameter and
cannot be used; `NaturalInduction` and `SequenceInduction` have a set in its place,
and rest on the pigeonhole principle. `SliceExists` and `SliceIsUnique` show by
them that the recursive function in `Only` is there and is unique.

`ServiceProofs` proves `TypeOK`, `ClosedAfterUse` and `DeliveredOnceInOrder` for any
capacity of the channel, any size of batch, and any number of heartbeats and failed
calls, from `ServiceAssumption`. `Orderly` ties the places of `main` to who runs and
what is open: nobody before the services are started and after they were waited
for, nothing closed before that wait. `InOrder` extends the order of what was
delivered to the batch and the channel behind it: the three together increase and
stay below the number sent, so that the batch may be committed, dropped, or
committed and dropped, and what comes next is always younger. `WrittenIsPart` says
that a transaction holds a part of the batch in the order of the batch, which is
what a commit adds when some records failed (`PartsKeepOrder`).

Only model-checked: the liveness properties (`CancelledPipelineReturns`,
`ConsumerGetsUnstuck`, `ShutdownCompletes`, `OffsetsBecomeDurable`, `LatestIsObeyed`,
`ZeroIsForgotten`, `StopsOrHangsInSend`, `ServiceEnds`, `DigestsAreDelivered`), since
the prover has neither fairness nor `ENABLED`. Every invariant and every action
property of a passing run, and the refinement, is a theorem.

## 5. What the runs found

* **Stopping one camera can kill the service** (`Pipeline_closing`). `Start` closes
  the two channels after unregistering. The consumer may have looked the channel
  up before that, and the file writer may be about to send an offset. Both then
  panic. `PanicOnlyAfterCancel` says that this is the only way to die.
* **A camera can be on and never recorded** (`Pipeline_orphan`). If it is switched on
  again before its old pipeline has unregistered, the new one either fails to
  register, an error `Start` ignores, or is unregistered by the old one. The
  controller believes that it runs.
* **A restart leaves stale index rows** (`FrameWriter_offsets`). A new writer in the
  same fragment truncates the file; the rows of the first part stay, and
  those of the second are appended to the same array.
* **The last batch is never flushed** (`OffsetWriter_exit`). `Run` returns only when
  the context is done, and the deferred flush uses that context.
* **A stop can hang in the purge** (`Retention_hang`). `purge` tests the context,
  and then sends on a channel without a buffer. If the signal comes in between,
  the workers leave and nobody takes the job; `main` waits for `purge` for ever, and
  neither closes the database nor the broker. `StopsOrHangsInSend` says that this
  is the only place, and `ServiceEnds` that the process ends but for it.

Results that are not violations but worth knowing. A tombstone in the cameras
topic does the opposite of what it is for. The retention of 0 under `""` makes the
next purge remove the storage path (`purge.go:122`), the archive of all cameras with it,
which `OnlyExpiredIsDeleted` has to allow; and the pipeline of the camera whose key it
deletes is not switched off but runs on, out of reach, since its configuration is
gone (`LatestIsObeyed`, `VisitRepairs`). A retention above 106751 days wraps, and the
purge takes everything (`FitsDuration`). A process whose consumer group begins at the
start of the frames topic writes the fragments of the past again, over the files
that were there: a running writer does not do that to its own files before their
fragment is over (`TruncationNeedsLateFrame`), but those of an earlier process have no
such protection. If a camera's clock runs ahead, its frames can belong to the next
fragment while the wall clock keeps the old file open, and the row then names a
file the frame is not in; the same goes for a frame that comes late
(`IndexNamesTheFile`). That an offset is stored only once ends with the
first commit whose answer is lost (`ExactlyOnce`): the retry appends the same
offsets again. `KeptLongEnough` has its two
fragments because the cutoff adds one fragment where it would have to subtract
one: what is deleted can be that much younger than the retention, where
`protoData.pb.go:196` speaks of the number of days to retain.
`OnlyZeroIsForgotten` speaks of a 0 at some time, not of the current retention:
`Retentions.Delete` (`purge.go:104`) also removes what the consumer stored since
the job was sent, and the next cleanup then takes the folder of a camera that
records, which `OnlyExpiredIsDeleted` allows for the same reason. Rows flushed
after `DeleteAllOffsetsByCameraID` stay until the camera is purged again, which for
a forgotten camera is never. The `Stopping` digest is sent when the producer has
left (`AnnounceStop`): it is dropped, or stays in the channel until that is closed,
and no consumer of the digests ever sees it. A batch whose transaction could not
be begun or committed is dropped with no more than a line in the log, one of which
some records failed may be committed without them, and a
rollback or a commit that fails may leave the transaction open, after which no
digest is delivered any more (`StuckInTransaction`); no other failure of the past
keeps a digest from being delivered (`DigestsAreDelivered`).

The controller can lose a record: it cancels a pipeline on an entry it has read,
and then deletes whatever the consumer has stored since (`controller.go:62`). A
camera switched on again in between stays off until its next record.
`LatestIsObeyed` says that this is the only way to lose one, and
`RecordingHasRetention` that a camera records without a retention, for the cleanup
to take its folder, only after an old job of the purge or shortly before it is
switched off. The deletion is there "to prevent memory leak" (`controller.go:61`),
but it comes only with a pipeline that is cancelled: the configuration of a camera
that is off from the beginning, as after a restart, stays in the map
(`LeaveAlone`). An interval of 0 in a configuration that loads is found only by
the panic of the goroutine that makes a ticker of it. Two things the models do not show: a negative number of workers panics in
`wgWorkers.Add`, and the two DELETE statements name the table
`iframe_byte_offsets` (`offset.go:157`) where the INSERT has the one of the
configuration, so that with another name no row would ever expire.

## 6. Plan

Done: `Pipeline`, `Controller`, `FrameWriter`, `OffsetWriter` over `OffsetStore`,
`Retention`, `Expiry` and `Service`, and the proofs of all safety properties. In
order:

1. Proofs that go beyond the runs: a bound on how far a row may be off under a
   clock lead; the safety half of more liveness properties, as `VisitRepairs` is
   one: who can take the next step of a stop.
2. A composition of the two writers and the purge, in place of the instance of
   `Expiry`: what a reader of the index finds on disk, when a row may be missing
   or dangle.
3. Abstract specifications: a camera that is on or off, for controller and
   pipeline; an archive that only loses what is old, for the composition.

## 7. Not modelled

* The two HTTP routes and the middleware: they read a request and write an
  answer, and share no state with the archive or with each other.
* The metrics: `InitializeMetrics` is called by tests only, so nothing that runs
  reads or writes them. Of `parseConfiguration` only the settings a later step
  trips over; the debug print of the configuration.
* The generated protobuf code, its printer for logs, and the table of texts for
  Kafka error codes: constant data and text.
* The tuning of the database pool and the options of the Kafka client, which
  change how fast and not in which order things happen.
