----------------------------- MODULE AckTracker -----------------------------
(***************************************************************************)
(* The gateway's cumulative acknowledgement (ack/AckTracker.java), a pure  *)
(* algorithm on a record                                                   *)
(*    start  first seq of the stream (kept for the properties)             *)
(*    ack    everything from start to here is written                      *)
(*    done   written, but above a hole                                     *)
(*    last   the ack emitted last                                          *)
(***************************************************************************)
EXTENDS Integers, FiniteSets

CONSTANT EveryN     \* an ack is emitted every so many records
ASSUME EveryNAssumption == EveryN \in Nat \ {0}

None == -1
NoTracker == [start |-> None, ack |-> None, last |-> None, done |-> {}]

NewTracker(s) == [start |-> s, ack |-> s - 1, last |-> s - 1, done |-> {}]

\* Mutant: the ack follows the highest completed seq.
CompleteHighest(t, s) ==
  IF s <= t.ack THEN t ELSE [t EXCEPT !.ack = s]

\* A write succeeded, in any order: the ack climbs to the next hole.
Complete(t, s) ==
  IF s <= t.ack THEN t
  ELSE LET done == t.done \cup {s}
           top == CHOOSE a \in {t.ack} \cup done :
                    /\ (t.ack + 1)..a \subseteq done
                    /\ a + 1 \notin done
       IN [t EXCEPT !.ack = top, !.done = {d \in done : d > top}]

\* Mutant: whatever was completed is emitted again.
HasNewsAlways(t) == t # NoTracker

HasNews(t) == t.ack > t.last

\* take(): is an ack due, by count or because the period has passed?
Due(t, late) == HasNews(t) /\ (t.ack - t.last >= EveryN \/ late)

Emitted(t) == [t EXCEPT !.last = t.ack]
=============================================================================
