----------------------------- MODULE ExactlyOnce -----------------------------
(***************************************************************************)
(* What the ingest path promises as a whole (docs/ack-dedup-design.md):    *)
(* records get their seqs in order, each goes downstream at most once, and *)
(* the vehicle's commit point covers only records that did, so what the    *)
(* write-ahead log forgets is never lost, unless the disk cap dropped it,  *)
(* always from the oldest on, which is on record (docs/wal-design.md 3.6). *)
(***************************************************************************)
EXTENDS Integers

CONSTANT MaxSeq     \* bound: the last seq

VARIABLES issued,   \* seqs below it were given to a record
          times,    \* seq |-> how often it went downstream
          acked,    \* the vehicle may forget everything up to here
          kept      \* what was dropped lies below it

vars == <<issued, times, acked, kept>>

SeqNo == 0..MaxSeq

Init ==
  /\ issued = 0
  /\ times = [s \in SeqNo |-> 0]
  /\ acked = -1
  /\ kept = 0

Issue(keep) ==
  /\ issued <= MaxSeq
  /\ issued' = issued + 1
  /\ kept' = keep
  /\ UNCHANGED <<times, acked>>

Deliver(s) ==
  /\ s < issued /\ times[s] = 0
  /\ times' = [times EXCEPT ![s] = 1]
  /\ UNCHANGED <<issued, acked, kept>>

Acknowledge(a) ==
  /\ acked < a /\ a < issued
  /\ \A s \in kept..a : times[s] = 1
  /\ acked' = a
  /\ UNCHANGED <<issued, times, kept>>

Next ==
  \/ \E keep \in kept..(issued + 1) : Issue(keep)
  \/ \E s \in SeqNo : Deliver(s) \/ Acknowledge(s)

Spec == Init /\ [][Next]_vars
=============================================================================
