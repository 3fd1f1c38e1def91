--------------------------- MODULE SeqWindowLoops ---------------------------
(***************************************************************************)
(* The two loops of SeqWindow.java (and of SeqDedup in dedup.py, the same  *)
(* algorithm line for line) turn by turn, for comparison with the closed   *)
(* forms that SeqWindow uses and its proofs reason about.                  *)
(***************************************************************************)
EXTENDS SeqWindow, SequencesExt

\* Mutant: the slot is emptied before the seq that leaves it is judged.
TurnClearFirst(w, n) ==
  LET old == n - W
      cleared == [w EXCEPT !.bits = @ \ {Slot(n)}]
  IN IF old > w.contiguous
     THEN [cleared EXCEPT !.contiguous = old,
             !.lost = IF Test(cleared, old) THEN @ ELSE @ + 1]
     ELSE cleared

\* One turn of the for loop: judge the seq W back, then empty its slot for n.
Turn(w, n) ==
  LET old == n - W
      judged == IF old > w.contiguous
                THEN [w EXCEPT !.contiguous = old,
                        !.lost = IF Test(w, old) THEN @ ELSE @ + 1]
                ELSE w
  IN [judged EXCEPT !.bits = @ \ {Slot(n)}]

\* One turn of the while loop.
PullTurn(w, n) ==
  IF w.contiguous < w.lastSeen /\ Test(w, w.contiguous + 1)
  THEN [w EXCEPT !.contiguous = @ + 1]
  ELSE w

PullLoop(w) ==
  FoldLeft(PullTurn, w, [i \in 1..(w.lastSeen - w.contiguous) |-> i])

\* The branch taken when seq is more than a window ahead.
Jump(w, seq) ==
  LET floor == seq - W
      empty == [w EXCEPT !.bits = {}]
  IN IF floor > w.contiguous
     THEN [empty EXCEPT !.lost = @ + floor - w.contiguous, !.contiguous = floor]
     ELSE empty

AdvanceLoop(w, seq) ==
  LET end == IF seq < w.lastSeen + W THEN seq ELSE w.lastSeen + W
      turned == FoldLeft(Turn, w, [i \in 1..(end - w.lastSeen) |-> w.lastSeen + i])
      jumped == IF seq > end THEN Jump(turned, seq) ELSE turned
  IN PullLoop([jumped EXCEPT !.lastSeen = seq, !.bits = @ \cup {Slot(seq)}])

\* On every window the de-duplicator reaches, advance()'s loop over the slots,
\* its jump branch and pullContiguous() compute the closed forms of SeqWindow:
\* no seq is judged by a bit already emptied, none is judged twice.
LoopsAgree ==
  /\ \A s \in SeqNo : s > win.lastSeen => AdvanceLoop(win, s) = Advance(win, s)
  /\ \A s \in (win.lastSeen - W + 1)..win.lastSeen :
       PullLoop([win EXCEPT !.bits = @ \cup {Slot(s)}]) = SetLate(win, s)
=============================================================================
