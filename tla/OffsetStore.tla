----------------------------- MODULE OffsetStore ----------------------------
(***************************************************************************)
(* What the database writer promises: the offsets of one camera are        *)
(* accepted one at a time and become durable a whole batch at a time, each *)
(* in the index row of its archive file, behind those already there.       *)
(*                                                                         *)
(* A batch whose commit was done but not acknowledged is durable and still *)
(* pending.  Offsets that are pending when the writer stops are lost.      *)
(***************************************************************************)
EXTENDS Naturals, Sequences, OffsetGroups

CONSTANTS
    Keys,       \* (folder, file) pairs: the rows of the camera
    Offsets     \* I-frame offsets

VARIABLES
    pending,    \* accepted and not known to be durable, in order
    stored      \* the durable offsets of each key, in order

vars == <<pending, stored>>

\* The offsets of a batch that belong to the row of key k.
Group(batch, k) == Only(batch, {o \in Offsets : o.key = k})

\* The rows a batch writes to.
KeysOf(batch) == {batch[i].key : i \in DOMAIN batch}

\* Every row of the batch extended, all at once.
Extended(rows, batch) ==
    [k \in Keys |-> IF k \in KeysOf(batch) THEN rows[k] \o Group(batch, k)
                                           ELSE rows[k]]

Init ==
    /\ pending = <<>>
    /\ stored = [k \in Keys |-> <<>>]

Accept ==
    /\ \E o \in Offsets : pending' = Append(pending, o)
    /\ UNCHANGED stored

Persist ==
    /\ pending' = <<>>
    /\ stored' = Extended(stored, pending)

PersistUnacknowledged ==
    /\ stored' = Extended(stored, pending)
    /\ UNCHANGED pending

Lose ==
    /\ pending' = <<>>
    /\ UNCHANGED stored

Next == Accept \/ Persist \/ PersistUnacknowledged \/ Lose

Spec == Init /\ [][Next]_vars
=============================================================================
