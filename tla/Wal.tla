--------------------------------- MODULE Wal ---------------------------------
(***************************************************************************)
(* The vehicle's write-ahead log (wal.py): segment files, the COMMIT       *)
(* pointer, the DROPPED journal of the disk cap, and recovery.             *)
(*                                                                         *)
(* A segment file holds the seqs start..next-1; a record's bytes are       *)
(* abstracted to the life of the process that wrote it, which tells apart  *)
(* two readings that were given the same seq (one life never issues a seq  *)
(* twice).  Three places hold a record in turn: Python's write buffer      *)
(* (lost with the process), the page cache (lost with the power) and the   *)
(* disk.  Methods hold the WAL's lock, so two of them never interleave,    *)
(* but a crash can fall between their file operations: commit() and        *)
(* _enforce_disk_cap() are one step per file operation.                    *)
(*                                                                         *)
(* Simplification: creating, renaming and unlinking a file is durable at   *)
(* once, though only _record_dropped() fsyncs the directory.               *)
(***************************************************************************)
EXTENDS Integers, FiniteSets, FiniteSetsExt

CONSTANTS MaxSeq,     \* bound: the last seq issued
          SegRecs,    \* records in a full segment (segment_bytes)
          MaxDisk,    \* max_disk_bytes, in records
          MaxRead,    \* the largest batch a reader asks for
          MaxLife     \* bound: number of process lives

ASSUME WalAssumption ==
  /\ MaxSeq \in Nat /\ SegRecs \in Nat \ {0} /\ MaxDisk \in Nat
  /\ MaxRead \in Nat \ {0} /\ MaxLife \in Nat \ {0}

VARIABLES
  \* On disk (or in the page cache).
  files,      \* start |-> [next, safe]: holds start..next-1, fsynced below safe
  commit,     \* the COMMIT file; -1 when there is none
  dropped,    \* the DROPPED journal, a set of <<lo, hi>>
  \* The process.
  up,
  life,       \* which life of the process this is
  nextSeq,    \* _next_seq
  active,     \* start of the segment open for appending
  flushed,    \* seqs below it left Python's write buffer
  cursor,     \* WalCursor: [seq, path], the next seq and the segment it is in
  busy,       \* file operation a method under the lock does next
  \* History.
  text,       \* seq |-> life that appended it last
  shown       \* seq |-> lives whose record of that seq a reader was given

disk == <<files, commit, dropped>>
process == <<up, life, nextSeq, active, flushed, cursor, busy>>
history == <<text, shown>>
vars == <<disk, process, history>>

SeqNo == 0..MaxSeq
Life == 1..MaxLife
None == -1
NewFile(s) == [next |-> s, safe |-> s]

\* A segment is opened at s, unless it is there already.
Opened(fs, s) ==
  [f \in DOMAIN fs \cup {s} |-> IF f \in DOMAIN fs THEN fs[f] ELSE NewFile(s)]

Starts == DOMAIN files
Holds(fs, f) == f..(fs[f].next - 1)
HeldIn(fs) == UNION {Holds(fs, f) : f \in DOMAIN fs}
Held == HeldIn(files)
Dropped == UNION {d[1]..d[2] : d \in dropped}
Without(fs) == [f \in Starts \ fs |-> files[f]]

\* _disk_bytes() is what stat() sees: the write buffer is not in it.
DiskUse(fs, fl) == Cardinality({s \in HeldIn(fs) : s < fl})
OverCap(fs, fl) == DiskUse(fs, fl) > MaxDisk /\ Cardinality(DOMAIN fs) > 1

Idle == up /\ busy = "idle"

------------------------------------------------------------------------------
(* append() and _sync().                                                   *)

\* The record goes to the buffer, which may spill up to seq out; a full segment
\* is fsynced and a new one opened; otherwise the group commit may be due (its
\* timer, or its bytes).  A segment that was unlinked takes bytes nobody sees.
Append(due, out) ==
  /\ Idle
  /\ nextSeq \in SeqNo
  /\ out \in flushed..(nextSeq + 1)
  /\ LET n == nextSeq + 1
         full == n - active >= SegRecs
         written == [f \in Starts |->
                       IF f # active THEN files[f]
                       ELSE [next |-> n,
                             safe |-> IF full \/ due THEN n ELSE files[f].safe]]
     IN /\ nextSeq' = n
        /\ files' = IF full THEN Opened(written, n) ELSE written
        /\ active' = IF full THEN n ELSE active
        /\ flushed' = IF full \/ due THEN n ELSE out
        /\ busy' = IF OverCap(files', flushed') THEN "cap" ELSE "idle"
  /\ text' = [text EXCEPT ![nextSeq] = life]
  /\ UNCHANGED <<commit, dropped, up, life, cursor, shown>>

Synced == [f \in Starts |->
             IF f = active THEN [files[f] EXCEPT !.safe = nextSeq] ELSE files[f]]

\* flush(), and the _sync() of close().
Sync ==
  /\ Idle
  /\ files' = Synced
  /\ flushed' = nextSeq
  /\ UNCHANGED <<commit, dropped, up, life, nextSeq, active, cursor, busy, history>>

------------------------------------------------------------------------------
(* WalCursor.read(): flush the buffer, then read on, segment after segment. *)

\* _locate(): the last segment that starts at or before the wanted seq.
Locate ==
  LET below == {f \in Starts : f <= cursor.seq}
  IN IF below # {} THEN Max(below) ELSE Min(Starts)

Path == IF cursor.path = None THEN Locate ELSE cursor.path

\* Records the cursor can still reach: it never turns back to a segment.
Ahead == {s \in SeqNo : s >= cursor.seq /\
            \E f \in Starts : f >= Path /\ s \in Holds(files, f)}

Batch(k) == {s \in Ahead : Cardinality({t \in Ahead : t < s}) < k}

\* Segment the cursor stops in: where it got its fill, or the last one.
StopsIn(k) ==
  IF Cardinality(Batch(k)) < k
  THEN Max(Starts \cup {Path})
  ELSE CHOOSE f \in Starts : Max(Batch(k)) \in Holds(files, f)

\* Mutant: the cursor moves on to the next segment once it got a batch.
PositionJumping(k) ==
  [seq |-> Max({cursor.seq - 1} \cup Batch(k)) + 1, path |-> Max(Starts \cup {Path})]

PositionAfter(k) ==
  [seq |-> Max({cursor.seq - 1} \cup Batch(k)) + 1, path |-> StopsIn(k)]

Read(k) ==
  /\ Idle
  /\ flushed' = nextSeq
  /\ cursor' = PositionAfter(k)
  /\ shown' = [s \in SeqNo |->
                 IF s \in Batch(k) THEN shown[s] \cup {text[s]} ELSE shown[s]]
  /\ UNCHANGED <<disk, up, life, nextSeq, active, busy, text>>

------------------------------------------------------------------------------
(* commit() and _truncate_before().                                        *)

\* Mutant: the newest segment is reclaimed like the others.
ReclaimableAll(fs, c) == {f \in DOMAIN fs : f < fs[f].next /\ fs[f].next - 1 <= c}

\* Mutant: a segment is judged by its first record.
ReclaimableByFirst(fs, c) ==
  {f \in DOMAIN fs \ {Max(DOMAIN fs)} : f < fs[f].next /\ f <= c}

\* Every segment but the newest, once its last record is acknowledged.
Reclaimable(fs, c) ==
  {f \in DOMAIN fs \ {Max(DOMAIN fs)} : f < fs[f].next /\ fs[f].next - 1 <= c}

\* The COMMIT file is written aside, fsynced and renamed.  a is the seq of a
\* record a reader was given (on_ack() ignores the ones below COMMIT).
Commit(a) ==
  /\ Idle
  /\ a \in commit..(cursor.seq - 1) /\ a >= 0 /\ shown[a] # {}
  /\ commit' = a
  /\ busy' = IF Reclaimable(files, a) # {} THEN "truncate" ELSE "idle"
  /\ UNCHANGED <<files, dropped, up, life, nextSeq, active, flushed, cursor, history>>

\* One unlink of _truncate_before().
Truncate ==
  /\ up /\ busy = "truncate"
  /\ files' = Without({Min(Reclaimable(files, commit))})
  /\ busy' = IF Reclaimable(files', commit) # {} THEN "truncate" ELSE "idle"
  /\ UNCHANGED <<commit, dropped, up, life, nextSeq, active, flushed, cursor, history>>

------------------------------------------------------------------------------
(* _enforce_disk_cap(): journal the oldest segment, then unlink it.        *)

victim == Min(Starts)

\* Mutant: one segment is dropped and the disk not looked at again.
UnlinkOnce ==
  /\ files' = Without({victim})
  /\ busy' = "idle"

UnlinkVictim ==
  /\ files' = Without({victim})
  /\ busy' = IF OverCap(files', flushed) THEN "cap" ELSE "idle"

\* Mutant: the segment goes and no journal entry is written.
CapJournalForgotten ==
  /\ up /\ busy = "cap"
  /\ UnlinkVictim
  /\ UNCHANGED <<commit, dropped, up, life, nextSeq, active, flushed, cursor, history>>

\* _record_dropped() fsyncs the entry before the unlink.  A segment that holds
\* no record needs none.
CapJournal ==
  /\ up /\ busy = "cap"
  /\ dropped' = dropped \cup
       {d \in {<<victim, files[victim].next - 1>>} : d[1] <= d[2]}
  /\ busy' = "unlink"
  /\ UNCHANGED <<files, commit, up, life, nextSeq, active, flushed, cursor, history>>

CapUnlink ==
  /\ up /\ busy = "unlink"
  /\ UnlinkVictim
  /\ UNCHANGED <<commit, dropped, up, life, nextSeq, active, flushed, cursor, history>>

------------------------------------------------------------------------------
(* The process stops, and recovers.                                        *)

Down ==
  /\ up' = FALSE /\ nextSeq' = 0 /\ active' = 0 /\ flushed' = 0 /\ busy' = "idle"
  /\ cursor' = [seq |-> 0, path |-> None]
  /\ UNCHANGED <<commit, dropped, life, history>>

\* close(): the tail is fsynced.
Close ==
  /\ Idle
  /\ files' = Synced
  /\ Down

\* SIGKILL: the write buffer is gone.  A record cut in half is a torn tail,
\* which every scan stops at and recovery truncates.
Kill ==
  /\ up
  /\ files' = [f \in Starts |->
                 IF f = active THEN [files[f] EXCEPT !.next = flushed] ELSE files[f]]
  /\ Down

\* Power loss: each file keeps what was fsynced and any prefix of the rest.
LosePower ==
  /\ up
  /\ \E cut \in [Starts -> 0..(MaxSeq + 1)] :
       /\ \A f \in Starts : cut[f] \in files[f].safe..files[f].next
       /\ files' = [f \in Starts |-> [next |-> cut[f], safe |-> cut[f]]]
  /\ Down

\* Mutant: only the newest segment is looked at.
EndOfNewest(fs) == Max({0} \cup {s + 1 : s \in Holds(fs, Max(DOMAIN fs))})

\* End of the last segment that holds a record.
EndOf(fs) == Max({0} \cup {s + 1 : s \in HeldIn(fs)})

\* Mutant: recovery ignores COMMIT and trusts the segments and the journal.
FloorOfJournal == Max({0} \cup {d[2] + 1 : d \in dropped})

\* next_seq never falls to or below COMMIT or a dropped range.
Floor == Max({commit + 1} \cup {d[2] + 1 : d \in dropped})

\* __init__: redo journalled deletions, find the end of the last segment that
\* holds a record, open a segment there; a new shipper starts after COMMIT.
\* Truncating a torn tail fsyncs the newest segment.
Recover(torn) ==
  /\ ~up /\ life < MaxLife
  /\ LET redo == {f \in Starts : f < files[f].next /\
                    \E d \in dropped : d[1] <= f /\ files[f].next - 1 <= d[2]}
         left == Without(redo)
         next == Max({Floor, EndOf(left)})
         repaired == [f \in DOMAIN left |->
                        IF torn /\ f = Max(DOMAIN left)
                        THEN [left[f] EXCEPT !.safe = left[f].next] ELSE left[f]]
     IN /\ files' = Opened(repaired, next)
        /\ nextSeq' = next /\ active' = next /\ flushed' = next
  /\ cursor' = [seq |-> commit + 1, path |-> None]
  /\ up' = TRUE
  /\ life' = life + 1
  /\ UNCHANGED <<commit, dropped, busy, history>>

------------------------------------------------------------------------------

Init ==
  /\ files = [f \in {0} |-> NewFile(f)] /\ commit = None /\ dropped = {}
  /\ up = TRUE /\ life = 1 /\ nextSeq = 0 /\ active = 0 /\ flushed = 0
  /\ cursor = [seq |-> 0, path |-> None]
  /\ busy = "idle"
  /\ text = [s \in SeqNo |-> 0]
  /\ shown = [s \in SeqNo |-> {}]

Next ==
  \/ \E due \in BOOLEAN, out \in 0..(MaxSeq + 1) : Append(due, out)
  \/ Sync
  \/ \E k \in 1..MaxRead : Read(k)
  \/ \E a \in SeqNo : Commit(a)
  \/ Truncate
  \/ CapJournal
  \/ CapUnlink
  \/ Close
  \/ Kill
  \/ \E torn \in BOOLEAN : Recover(torn)

Spec == Init /\ [][Next]_vars

\* The same log where the power may fail too.
PowerSpec == Init /\ [][Next \/ LosePower]_vars

------------------------------------------------------------------------------
(* Properties.                                                             *)

\* The shape of the log's state, and a file is fsynced no further than written.
TypeOK ==
  /\ \A f \in Starts : /\ f \in 0..(MaxSeq + 1)
                       /\ f <= files[f].next /\ files[f].next <= MaxSeq + 1
                       /\ files[f].safe \in f..files[f].next
  /\ commit \in {None} \cup SeqNo
  /\ dropped \subseteq SeqNo \X SeqNo
  /\ up \in BOOLEAN /\ life \in Life
  /\ nextSeq \in 0..(MaxSeq + 1) /\ active \in 0..(MaxSeq + 1)
  /\ flushed \in 0..nextSeq
  /\ cursor \in [seq : 0..(MaxSeq + 1), path : {None} \cup 0..(MaxSeq + 1)]
  /\ busy \in {"idle", "cap", "unlink", "truncate"}
  /\ text \in [SeqNo -> {0} \cup Life] /\ shown \in [SeqNo -> SUBSET Life]

\* No seq ever names two readings that were both given to a reader: the key of
\* the downstream de-duplication would make it drop the second one silently.
SeqIdentity == \A s \in SeqNo : Cardinality(shown[s]) <= 1

\* A seq that was issued, is not acknowledged and is no longer held is in the
\* DROPPED journal: no record leaves the log without a trace (W-5).
NoSilentGap ==
  up => \A s \in (commit + 1)..(nextSeq - 1) : s \in Held \cup Dropped

\* The cursor has passed no record it did not give, but for what the cap dropped:
\* no segment was reclaimed unread, and no seq issued below the cursor (W-2).
NothingSkipped ==
  up => \A s \in 0..(cursor.seq - 1) : text[s] \in shown[s] \/ s \in Dropped

\* What is left to read is within the cursor's reach: it has not moved past the
\* segment that still takes records.
ReachesTheRest ==
  up => {s \in Held : s >= cursor.seq} \subseteq Ahead

\* The segment being appended to is never unlinked under its open file, by
\* reclaiming or by the cap (docstring of _truncate_before).
ActiveUntouched == up => active \in Starts

\* Once this life has appended, the cap holds but for what reads and flushes
\* bring in from the write buffer (W-3).  Recovery itself never looks at the cap.
AppendedThisLife == \E s \in SeqNo : s < nextSeq /\ text[s] = life
DiskBounded ==
  Idle /\ AppendedThisLife => DiskUse(files, flushed) <= MaxDisk + SegRecs - 1

\* What holds of the files at every moment: their shape, the segment in use, the cap.
Consistent == TypeOK /\ ActiveUntouched /\ DiskBounded

\* The cursor has given all that is behind it and reaches all that is before it.
CursorComplete == NothingSkipped /\ ReachesTheRest
=============================================================================
