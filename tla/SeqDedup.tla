------------------------------ MODULE SeqDedup ------------------------------
(***************************************************************************)
(* SeqDedup of dedup.py, the de-duplicator of the vehicle's own tests and  *)
(* tools, for comparison with the window the Flink job keeps (SeqWindow):  *)
(* one contract, written twice.  The state of one vehicle has the same     *)
(* fields; there is none before its first record.                          *)
(***************************************************************************)
EXTENDS SeqWindowLoops

\* st.get() is None, or another boot: start below the record, then fall through.
Opened(st, boot, seq) == IF st.bootId = boot THEN st ELSE Reset(boot, seq)

\* accept(): which counter moves.
Counted(st, seq) ==
  CASE seq > st.lastSeen -> "accepted"
    [] seq <= st.lastSeen - W -> "too_old"
    [] OTHER -> IF Test(st, seq) THEN "duplicate" ELSE "late"

\* Mutant: a late record sets its bit, but contiguous waits for the next advance.
StateAfterNoPull(st, seq) ==
  CASE Counted(st, seq) = "accepted" -> AdvanceLoop(st, seq)
    [] Counted(st, seq) = "late" -> [st EXCEPT !.bits = @ \cup {Slot(seq)}]
    [] OTHER -> st

StateAfter(st, seq) ==
  CASE Counted(st, seq) = "accepted" -> AdvanceLoop(st, seq)
    [] Counted(st, seq) = "late" -> PullLoop([st EXCEPT !.bits = @ \cup {Slot(seq)}])
    [] OTHER -> st

\* progress(): what has not arrived between contiguous and last_seen.
PendingHoles(st) ==
  LET open == (st.contiguous + 1)..st.lastSeen
      arrived == {n \in open : Test(st, n)}
  IN (st.lastSeen - st.contiguous) - Cardinality(arrived)

\* The verdict of DedupFunction each counter stands for.
CounterOf(verdict) ==
  CASE verdict \in {"FIRST", "BOOT_RESET", "ACCEPT"} -> "accepted"
    [] verdict = "LATE" -> "late"
    [] verdict = "DUPLICATE" -> "duplicate"
    [] verdict = "TOO_OLD" -> "too_old"

WindowAfter(boot, seq) ==
  CASE Judge(win, boot, seq) \in {"FIRST", "BOOT_RESET"} -> Advance(Reset(boot, seq), seq)
    [] Judge(win, boot, seq) = "ACCEPT" -> Advance(win, seq)
    [] Judge(win, boot, seq) = "LATE" -> SetLate(win, seq)
    [] OTHER -> win

\* The two de-duplicators are one: from every window either can reach they judge
\* every record alike and end in the same state, and pending_holes counts exactly
\* the seqs above contiguous that never went downstream.
ImplementationsAgree ==
  /\ LoopsAgree
  /\ \A b \in Boot, s \in SeqNo :
       LET st == Opened(win, b, s)
       IN /\ Counted(st, s) = CounterOf(Judge(win, b, s))
          /\ StateAfter(st, s) = WindowAfter(b, s)
  /\ PendingHoles(win) =
       Cardinality({s \in (win.contiguous + 1)..win.lastSeen : passed[s] = 0})
=============================================================================
