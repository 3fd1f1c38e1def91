----------------------------- MODULE StorageSink -----------------------------
(***************************************************************************)
(* ClickHouseSink.java between a Kafka source that is rewound to the last  *)
(* checkpoint and tables whose FINAL views keep one row of every key.      *)
(*                                                                         *)
(* Records are numbered in the order of the source, which is the identity  *)
(* they are stored under; odd ones go to one table and even ones to        *)
(* another.                                                                *)
(***************************************************************************)
EXTENDS Integers, Sequences, SequencesExt

CONSTANTS MaxRecord,   \* bound: records in the topic
          BatchSize,   \* batchSize
          MaxFailures  \* bound: failures of the task or of the database

SinkAssumption == MaxRecord \in Nat /\ BatchSize \in Nat \ {0} /\ MaxFailures \in Nat

VARIABLES read,     \* records the source has emitted
          buffer,   \* buffer
          rows,     \* rows of a record in its _raw table
          todo,     \* tables that flush() has not reached yet
          at,       \* who flushes: "run", "checkpoint", "close", or nobody: "idle"
          ready,    \* read at the snapshot that waits for the others' acknowledgement
          saved,    \* read at the last completed checkpoint
          attempts, \* history: failures so far
          most      \* history: how far the source was ever read

sinkVars == <<read, buffer, rows, todo, at, ready, saved, attempts, most>>

NoAnswer == -1
Kinds == <<1, 0>>
Record == 1..MaxRecord
OfKind(kind) == {i \in Range(buffer) : i % 2 = kind}

------------------------------------------------------------------------------

\* flush() begins: an empty buffer has nothing to insert.
Flush(who) == at' = who /\ todo' = IF buffer' = <<>> THEN <<>> ELSE Kinds

\* invoke()
Invoke ==
  /\ at = "idle" /\ read < MaxRecord
  /\ read' = read + 1 /\ most' = IF read' > most THEN read' ELSE most
  /\ buffer' = Append(buffer, read')
  /\ IF Len(buffer') >= BatchSize THEN Flush("run") ELSE UNCHANGED <<at, todo>>
  /\ UNCHANGED <<rows, ready, saved, attempts>>

\* insert() of the rows of the next kind, one statement for all of them.
Insert ==
  /\ todo # <<>>
  /\ rows' = [i \in Record |-> IF i \in OfKind(Head(todo)) THEN rows[i] + 1 ELSE rows[i]]
  /\ todo' = Tail(todo)
  /\ UNCHANGED <<read, buffer, at, ready, saved, attempts, most>>

\* Mutant: the buffer is not cleared.
Uncleared == buffer

\* buffer.clear()
Cleared == <<>>

\* flush() returns.
Flushed ==
  /\ at \in {"run", "checkpoint"} /\ todo = <<>>
  /\ buffer' = Cleared /\ at' = "idle"
  /\ ready' = IF at = "checkpoint" THEN read ELSE ready
  /\ UNCHANGED <<read, rows, todo, saved, attempts, most>>

\* Mutant: snapshotState() leaves the buffer to the next batch.
SnapshotLeavesBuffer ==
  /\ ready' = read
  /\ UNCHANGED <<buffer, todo, at>>

\* snapshotState()
Snapshot ==
  /\ UNCHANGED <<buffer, ready>>
  /\ Flush("checkpoint")

\* A barrier arrives; the one before has been completed or given up.
Barrier ==
  /\ at = "idle" /\ ready = NoAnswer
  /\ Snapshot
  /\ UNCHANGED <<read, rows, saved, attempts, most>>

\* The coordinator has every acknowledgement, or gives the checkpoint up.
CompleteCheckpoint ==
  /\ ready # NoAnswer
  /\ saved' = ready /\ ready' = NoAnswer
  /\ UNCHANGED <<read, buffer, rows, todo, at, attempts, most>>
GiveUp ==
  /\ ready # NoAnswer
  /\ ready' = NoAnswer
  /\ UNCHANGED <<read, buffer, rows, todo, at, saved, attempts, most>>

\* A statement fails, with its rows inserted or not, or anything else in the task:
\* the task is cancelled and close() flushes what the buffer holds.
TaskFails(inserted) ==
  /\ at # "close" /\ attempts < MaxFailures
  /\ inserted => todo # <<>>
  /\ attempts' = attempts + 1
  /\ rows' = [i \in Record |->
                IF inserted /\ i \in OfKind(Head(todo)) THEN rows[i] + 1 ELSE rows[i]]
  /\ UNCHANGED <<read, buffer, saved, most>> /\ ready' = NoAnswer
  /\ Flush("close")

\* The job is restored from the last checkpoint: after close(), which may have failed
\* half-way, or at once when the process died.
Restore ==
  /\ \/ at = "close" /\ UNCHANGED attempts
     \/ at # "close" /\ attempts < MaxFailures /\ attempts' = attempts + 1
  /\ read' = saved /\ buffer' = <<>> /\ todo' = <<>> /\ at' = "idle" /\ ready' = NoAnswer
  /\ UNCHANGED <<rows, saved, most>>

\* open()
SinkInit ==
  /\ read = 0 /\ buffer = <<>> /\ rows = [i \in Record |-> 0]
  /\ todo = <<>> /\ at = "idle" /\ ready = NoAnswer /\ saved = 0
  /\ attempts = 0 /\ most = 0

SinkNext ==
  \/ Invoke \/ Insert \/ Flushed \/ Barrier \/ CompleteCheckpoint \/ GiveUp
  \/ \E inserted \in BOOLEAN : TaskFails(inserted)
  \/ Restore

SinkSpec == SinkInit /\ [][SinkNext]_sinkVars

------------------------------------------------------------------------------
(* Properties.                                                             *)

\* What a completed checkpoint covers is stored: the source will not read it again.
\* And nothing that was read is anywhere but in the tables or in the buffer.
CheckpointIsStored ==
  /\ \A i \in 1..saved : rows[i] > 0
  /\ \A i \in 1..read : rows[i] > 0 \/ i \in Range(buffer)

\* Every failure adds two rows of a record at most, one when close() flushes and one
\* when the source reads it again, and there are no others: that is all the merges
\* behind the FINAL views have to remove.
DuplicatesBounded == \A i \in Record : rows[i] <= 1 + 2 * attempts

\* What the sink promises its tables.
StoredExactly == CheckpointIsStored /\ DuplicatesBounded
=============================================================================
