---------------------------- MODULE OffsetWriter ----------------------------
(***************************************************************************)
(* The database writer of one camera (db.DatabaseWriter): offsets are      *)
(* collected in a batch, and a full batch, or whatever there is when the   *)
(* ticker fires, is written to the index table in one transaction, one     *)
(* statement per archive file.                                             *)
(*                                                                         *)
(* Any call to the database may fail; a commit may also be done by the     *)
(* server and reported as failed.  The context may be cancelled at any     *)
(* point, and after that database/sql refuses every call.                  *)
(***************************************************************************)
EXTENDS Naturals, Sequences, FiniteSetsExt, OffsetGroups

CONSTANTS
    Keys,           \* (folder, file) pairs: the rows of the camera
    VideoCounts,    \* values of BatchMetadata.VideoFramesInBatch
    BatchSize,      \* batchSize (50 in the code)
    MaxOffsets,     \* bound: offsets received
    MaxFaults,      \* bound: database calls that fail
    CommitAckMayBeLost  \* whether a commit can be done and reported failed

ASSUME StoreAssumption ==
    /\ VideoCounts \subseteq Nat
    /\ BatchSize \in Nat \ {0}
    /\ MaxOffsets \in Nat
    /\ MaxFaults \in Nat
    /\ CommitAckMayBeLost \in BOOLEAN

VARIABLES
    ctxDone,    \* the context of Run is cancelled
    pc,         \* "select", "begin", "exec", "commit", "stopped"
    exiting,    \* Run is returning: the flush is the deferred one
    batch,      \* dw.batch
    grouped,    \* the keys of grouped that have not been inserted yet
    tx,         \* the table as the open transaction sees it
    table,      \* the index rows, committed
    received,   \* history: every offset received from the channel
    lost,       \* history: ids of offsets that were in a discarded batch
    faults,     \* number of failed calls so far
    unacked     \* history: a commit was done and reported failed

history == <<received, lost>>
trouble == <<faults, unacked>>
vars == <<ctxDone, pc, exiting, batch, grouped, tx, table, history, trouble>>

-----------------------------------------------------------------------------
Offset == [id : 1..MaxOffsets, key : Keys, video : VideoCounts]

\* What grouped[k] has when the loop over the batch is done.
Group(b, k) == Only(b, {o \in Offset : o.key = k})

\* Mutant of KeysOf: grouped by offset, not by file.
KeysOfEach(b) == {b[i].id : i \in DOMAIN b}

KeysOf(b) == {b[i].key : i \in DOMAIN b}

\* A row that is not in the table yet is an empty one.
Row == [indexes : Seq(Offset), total : Nat]
EmptyRow == [indexes |-> <<>>, total |-> 0]

\* The largest VideoFramesInBatch of the group, starting from 0.
VideoFrameCount(group) == Max({0} \cup {group[i].video : i \in DOMAIN group})

\* INSERT ... ON CONFLICT DO UPDATE: the array is extended, the total is the
\* greatest of the two.
Upsert(row, group) ==
    [indexes |-> row.indexes \o group,
     total |-> Max({row.total, VideoFrameCount(group)})]

-----------------------------------------------------------------------------
Init ==
    /\ ctxDone = FALSE
    /\ pc = "select"
    /\ exiting = FALSE
    /\ batch = <<>>
    /\ grouped = {}
    /\ tx = [k \in Keys |-> EmptyRow]
    /\ table = [k \in Keys |-> EmptyRow]
    /\ received = <<>>
    /\ lost = {}
    /\ faults = 0
    /\ unacked = FALSE

Cancel ==
    /\ ~ctxDone
    /\ ctxDone' = TRUE
    /\ UNCHANGED <<pc, exiting, batch, grouped, tx, table, history, trouble>>

-----------------------------------------------------------------------------
(* Run.                                                                    *)

\* The select may take an offset although the context is cancelled.
Receive(o) ==
    /\ pc = "select"
    /\ batch' = Append(batch, o)
    /\ received' = Append(received, o)
    /\ pc' = IF Len(batch') >= BatchSize THEN "begin" ELSE "select"
    /\ UNCHANGED <<ctxDone, exiting, grouped, tx, table, lost, trouble>>

ReceiveOffset ==
    /\ Len(received) < MaxOffsets
    /\ \E k \in Keys, v \in VideoCounts :
         Receive([id |-> Len(received) + 1, key |-> k, video |-> v])

\* Mutant of FlushTimer: only full batches are flushed.
FlushTimerFullOnly ==
    /\ pc = "select"
    /\ Len(batch) >= BatchSize
    /\ pc' = "begin"
    /\ UNCHANGED <<ctxDone, exiting, batch, grouped, tx, table, history,
                   trouble>>

FlushTimer ==
    /\ pc = "select"
    /\ batch # <<>>
    /\ pc' = "begin"
    /\ UNCHANGED <<ctxDone, exiting, batch, grouped, tx, table, history,
                   trouble>>

\* ctx.Done, or the channel is closed, which happens only after that.  The
\* deferred flush runs before Run returns.
Return ==
    /\ pc = "select"
    /\ ctxDone
    /\ exiting' = TRUE
    /\ pc' = IF batch = <<>> THEN "stopped" ELSE "begin"
    /\ UNCHANGED <<ctxDone, batch, grouped, tx, table, history, trouble>>

-----------------------------------------------------------------------------
(* flush.  Its error is logged, or dropped by the deferred call.           *)

FlushReturns == pc' = IF exiting THEN "stopped" ELSE "select"

\* A call that fails, because the context is cancelled or for a reason of
\* its own: the transaction is rolled back and the batch is kept.
FlushFails ==
    /\ pc \in {"begin", "exec", "commit"}
    /\ IF ctxDone THEN UNCHANGED faults
                  ELSE faults < MaxFaults /\ faults' = faults + 1
    /\ FlushReturns
    /\ grouped' = {}
    /\ UNCHANGED <<ctxDone, exiting, batch, tx, table, history, unacked>>

BeginTx ==
    /\ pc = "begin"
    /\ ~ctxDone
    /\ tx' = table
    /\ grouped' = KeysOf(batch)
    /\ pc' = "exec"
    /\ UNCHANGED <<ctxDone, exiting, batch, table, history, trouble>>

\* Mutant of ExecInsert: every statement commits by itself.
ExecInsertAutocommit(k) ==
    /\ pc = "exec"
    /\ ~ctxDone
    /\ k \in grouped
    /\ tx' = [tx EXCEPT ![k] = Upsert(@, Group(batch, k))]
    /\ table' = tx'
    /\ grouped' = grouped \ {k}
    /\ pc' = IF grouped' = {} THEN "commit" ELSE "exec"
    /\ UNCHANGED <<ctxDone, exiting, batch, history, trouble>>

\* The groups are a Go map: they are inserted in any order.
ExecInsert(k) ==
    /\ pc = "exec"
    /\ ~ctxDone
    /\ k \in grouped
    /\ tx' = [tx EXCEPT ![k] = Upsert(@, Group(batch, k))]
    /\ grouped' = grouped \ {k}
    /\ pc' = IF grouped' = {} THEN "commit" ELSE "exec"
    /\ UNCHANGED <<ctxDone, exiting, batch, table, history, trouble>>

\* Mutant of Commit: the batch is not reset.
CommitKeepsBatch ==
    /\ pc = "commit"
    /\ ~ctxDone
    /\ table' = tx
    /\ FlushReturns
    /\ UNCHANGED <<ctxDone, exiting, batch, grouped, tx, history, trouble>>

Commit ==
    /\ pc = "commit"
    /\ ~ctxDone
    /\ table' = tx
    /\ batch' = <<>>
    /\ FlushReturns
    /\ UNCHANGED <<ctxDone, exiting, grouped, tx, history, trouble>>

\* The server committed and the answer was lost: flush returns the error
\* before it resets the batch.
CommitUnacknowledged ==
    /\ CommitAckMayBeLost
    /\ pc = "commit"
    /\ ~ctxDone
    /\ faults < MaxFaults
    /\ faults' = faults + 1
    /\ unacked' = TRUE
    /\ table' = tx
    /\ FlushReturns
    /\ UNCHANGED <<ctxDone, exiting, batch, grouped, tx, history>>

-----------------------------------------------------------------------------
\* The process is killed, or Run has returned and the camera is switched on
\* again: the next NewDatabaseWriter starts from an empty batch.
Restart ==
    /\ lost' = lost \cup {batch[i].id : i \in DOMAIN batch}
    /\ batch' = <<>>
    /\ pc' = "select"
    /\ exiting' = FALSE
    /\ ctxDone' = FALSE
    /\ grouped' = {}
    /\ UNCHANGED <<tx, table, received, trouble>>

Flush == BeginTx \/ (\E k \in Keys : ExecInsert(k)) \/ Commit
         \/ CommitUnacknowledged \/ FlushFails

Next == Cancel \/ ReceiveOffset \/ FlushTimer \/ Return \/ Flush \/ Restart

Spec == Init /\ [][Next]_vars

\* The goroutine runs, the database answers every call, and the ticker goes
\* on firing.  Nothing makes offsets arrive or the context be cancelled.
Fairness == WF_vars(Flush) /\ WF_vars(FlushTimer) /\ WF_vars(Return)

FairSpec == Spec /\ Fairness

-----------------------------------------------------------------------------
\* The variables hold what the code can store.
TypeOK ==
    /\ ctxDone \in BOOLEAN
    /\ pc \in {"select", "begin", "exec", "commit", "stopped"}
    /\ exiting \in BOOLEAN
    /\ batch \in Seq(Offset)
    /\ grouped \subseteq Keys
    /\ tx \in [Keys -> Row]
    /\ table \in [Keys -> Row]
    /\ received \in Seq(Offset)
    /\ lost \subseteq Nat
    /\ faults \in Nat
    /\ unacked \in BOOLEAN

Durable == UNION {{table[k].indexes[i].id : i \in DOMAIN table[k].indexes} :
                  k \in Keys}

\* The offsets received that no discarded batch has taken with it.
Survivors == Only(received, {o \in Offset : o.id \notin lost})

\* Whatever calls fail, in whatever place, an offset that was received is in
\* the row of its file exactly once, in order, or it waits in the batch; or
\* it was in the batch of a writer that stopped.  The one exception is a
\* commit whose answer was lost: then it may be there twice, but it does not
\* disappear.  And total_packets is the largest count of the offsets of the
\* row, however they were split over batches and however often retried.
ExactlyOnce ==
    /\ ~unacked =>
            \A k \in Keys :
                table[k].indexes \o Group(batch, k) = Group(Survivors, k)
    /\ \A i \in DOMAIN received :
            \/ i \in Durable \cup lost
            \/ \E j \in DOMAIN batch : batch[j] = received[i]
    /\ \A k \in Keys : table[k].total = VideoFrameCount(table[k].indexes)

\* The transaction loop over the map of groups, the rollbacks and the retries
\* implement the atomic store.
Store == INSTANCE OffsetStore WITH
            Offsets <- Offset,
            pending <- batch,
            stored <- [k \in Keys |-> table[k].indexes]
ImplementsStore == Store!Spec

\* After a transient outage the retries catch up: every offset received is
\* durable in the end, unless the context is cancelled or the batch is lost
\* with the process.
OffsetsBecomeDurable ==
    \A i \in 1..MaxOffsets :
        Len(received) >= i ~> (i \in Durable \/ i \in lost \/ ctxDone)

-----------------------------------------------------------------------------
(* What a comment of the code says and the code does not do.               *)

\* offset.go: "Flush remaining on exit".  When Run has returned nothing is
\* left in the batch.
FlushRemainingOnExit == pc = "stopped" => batch = <<>>
=============================================================================
