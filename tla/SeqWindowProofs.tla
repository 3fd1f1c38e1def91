--------------------------- MODULE SeqWindowProofs ---------------------------
(***************************************************************************)
(* Proofs about SeqWindow, for every window width, every set of boots and  *)
(* every bound on the seqs.  The heart is Mirror: inside the window a bit  *)
(* is set exactly for the seqs that went downstream.  It survives a step   *)
(* because two seqs less than W apart never share a slot (SlotsDiffer).    *)
(* The last part proves that the loops of SeqWindow.java, and dedup.py,    *)
(* compute the closed forms that the rest is about.                        *)
(***************************************************************************)
EXTENDS SeqDedup, IntervalTheorems

WindowType == [bootId : Boot \cup {NoBoot}, lastSeen : -1..MaxSeq,
               contiguous : -1..MaxSeq, lost : Nat, bits : SUBSET (0..(W - 1))]

\* Inside the window a bit is set exactly for what went downstream.
Mirror ==
  \A n \in SeqNo : n \in (win.lastSeen - W + 1)..win.lastSeen =>
                     (Test(win, n) <=> passed[n] = 1)

\* Nothing above lastSeen went downstream.
Ahead == \A n \in SeqNo : n > win.lastSeen => passed[n] = 0

\* A seq that contiguous passed without its record has left the window.
Condemned ==
  \A n \in SeqNo : n \in (base + 1)..win.contiguous /\ passed[n] = 0 =>
                     n <= win.lastSeen - W

WindowInv ==
  /\ WindowTypeOK
  /\ win.contiguous <= win.lastSeen
  /\ base <= win.contiguous
  /\ Mirror
  /\ Ahead
  /\ AtMostOnce
  /\ Condemned

------------------------------------------------------------------------------
(* Arithmetic.                                                             *)

\* Two seqs less than W apart use different slots of the bitmap.
LEMMA SlotsDiffer ==
  ASSUME NEW a \in Int, NEW b \in Int, a < b, b < a + W
  PROVE  Slot(a) # Slot(b)
<1> USE WindowAssumption
<1> SUFFICES ASSUME a % W = b % W PROVE FALSE
  BY DEF Slot
<1> DEFINE p == a \div W
           q == b \div W
<1>1. a = W * p + (a % W) /\ b = W * q + (b % W)
  OBVIOUS
<1>2. p \in Int /\ q \in Int
  OBVIOUS
<1>3. W * q - W * p = b - a
  BY <1>1
<1> HIDE DEF p, q
<1>4. W * (q - p) = b - a
  BY <1>2, <1>3
<1>5. q - p <= 0 => W * (q - p) <= 0
  BY <1>2
<1>6. q - p >= 1 => W * (q - p) >= W
  BY <1>2
<1> QED
  BY <1>2, <1>4, <1>5, <1>6

\* A slot is a position of the bitmap.
LEMMA SlotType ==
  ASSUME NEW n \in Int
  PROVE  Slot(n) \in 0..(W - 1)
BY WindowAssumption DEF Slot

------------------------------------------------------------------------------
(* What the helpers of accept() do.                                        *)

\* pullContiguous() moves contiguous only, forward, over set bits, up to the first
\* that is not set and never past lastSeen.
LEMMA PulledMoves ==
  ASSUME NEW w \in WindowType, w.contiguous <= w.lastSeen
  PROVE  /\ Pulled(w) = [w EXCEPT !.contiguous = Pulled(w).contiguous]
         /\ Pulled(w).contiguous \in w.contiguous..w.lastSeen
         /\ \A n \in (w.contiguous + 1)..Pulled(w).contiguous : Test(w, n)
         /\ Pulled(w).contiguous < w.lastSeen => ~Test(w, Pulled(w).contiguous + 1)
<1> USE SeqAssumption
<1> DEFINE Run == {c \in w.contiguous..w.lastSeen :
                     \A n \in (w.contiguous + 1)..c : Test(w, n)}
           End(c) == /\ \A n \in (w.contiguous + 1)..c : Test(w, n)
                     /\ c < w.lastSeen => ~Test(w, c + 1)
           d == CHOOSE c \in w.contiguous..w.lastSeen : End(c)
<1>1. w.contiguous \in Int /\ w.lastSeen \in Int
  BY DEF WindowType
<1>2. \E c \in w.contiguous..w.lastSeen : End(c)
  <2>1. w.contiguous \in Run
    BY <1>1
  <2>2. PICK c \in Run : \A e \in Run : e <= c
    <3>1. Run \subseteq w.contiguous..w.lastSeen /\ Run # {}
      BY <2>1
    <3> HIDE DEF Run
    <3> QED
      BY <3>1, <1>1, GreatestElement
  <2>3. ASSUME c < w.lastSeen, Test(w, c + 1) PROVE FALSE
    <3>1. c + 1 \in w.contiguous..w.lastSeen
      BY <1>1, <2>3
    <3>2. \A n \in (w.contiguous + 1)..(c + 1) : n = c + 1 \/ n \in (w.contiguous + 1)..c
      BY <1>1
    <3>3. c + 1 \in Run
      BY <3>1, <3>2, <2>3
    <3> QED
      BY <3>3, <2>2, <1>1
  <2> QED
    BY <2>3
<1>3. d \in w.contiguous..w.lastSeen /\ End(d)
  <2> HIDE DEF End
  <2> QED
    BY <1>2
<1>4. Pulled(w) = [w EXCEPT !.contiguous = d]
  BY DEF Pulled
<1>5. Pulled(w).contiguous = d
  BY <1>4 DEF WindowType
<1> QED
  BY <1>3, <1>4, <1>5

\* The floor advance() raises contiguous to before pulling it on.
Raised(w, seq) == IF seq - W > w.contiguous THEN seq - W ELSE w.contiguous

\* advance() ends at seq with the skipped slots emptied, and moves contiguous
\* only over seqs that left the window or whose bit is set.
LEMMA AdvanceMoves ==
  ASSUME NEW w \in WindowType, w.contiguous <= w.lastSeen,
         NEW seq \in SeqNo, seq > w.lastSeen
  PROVE  /\ Advance(w, seq) \in WindowType
         /\ Advance(w, seq).bootId = w.bootId
         /\ Advance(w, seq).lastSeen = seq
         /\ Advance(w, seq).lost = w.lost + Cardinality(Missed(w, seq))
         /\ Advance(w, seq).bits = (w.bits \ Reused(w, seq)) \cup {Slot(seq)}
         /\ Advance(w, seq).contiguous \in Raised(w, seq)..seq
         /\ \A n \in (Raised(w, seq) + 1)..Advance(w, seq).contiguous :
              Test(Advance(w, seq), n)
<1> USE SeqAssumption, WindowAssumption
<1> DEFINE v == [w EXCEPT
                   !.lastSeen = seq,
                   !.contiguous = IF seq - W > @ THEN seq - W ELSE @,
                   !.lost = @ + Cardinality(Missed(w, seq)),
                   !.bits = (@ \ Reused(w, seq)) \cup {Slot(seq)}]
<1>1. Cardinality(Missed(w, seq)) \in Nat
  <2>1. Missed(w, seq) \subseteq (w.contiguous + 1)..(seq - W)
    BY DEF Missed
  <2>2. w.contiguous + 1 \in Int /\ seq - W \in Int
    BY DEF WindowType, SeqNo
  <2> QED
    BY <2>1, <2>2, FS_Interval, FS_Subset, FS_CardinalityType
<1>2. Slot(seq) \in 0..(W - 1)
  BY SlotType DEF SeqNo
<1>3. v \in WindowType
  <2> DEFINE k == Cardinality(Missed(w, seq))
             r == Reused(w, seq)
             s == Slot(seq)
  <2>1. k \in Nat /\ s \in 0..(W - 1)
    BY <1>1, <1>2
  <2> HIDE DEF k, r, s
  <2>2. w.lost + k \in Nat
    BY <2>1 DEF WindowType
  <2>3. (w.bits \ r) \cup {s} \in SUBSET (0..(W - 1))
    BY <2>1 DEF WindowType
  <2>4. (IF seq - W > w.contiguous THEN seq - W ELSE w.contiguous) \in -1..MaxSeq
    BY DEF WindowType, SeqNo
  <2>5. seq \in -1..MaxSeq
    BY DEF SeqNo
  <2>6. [w EXCEPT !.lastSeen = seq,
                  !.contiguous = IF seq - W > @ THEN seq - W ELSE @,
                  !.lost = @ + k,
                  !.bits = (@ \ r) \cup {s}] \in WindowType
    BY <2>2, <2>3, <2>4, <2>5 DEF WindowType
  <2> QED
    BY <2>6 DEF k, r, s
<1>4. /\ v.bootId = w.bootId
      /\ v.lastSeen = seq
      /\ v.bits = (w.bits \ Reused(w, seq)) \cup {Slot(seq)}
      /\ v.contiguous = Raised(w, seq)
      /\ v.lost = w.lost + Cardinality(Missed(w, seq))
  BY DEF WindowType, Raised
<1>5. v.contiguous <= v.lastSeen
  BY <1>4 DEF WindowType, SeqNo, Raised
<1>6. Advance(w, seq) = Pulled(v)
  BY DEF Advance
<1> HIDE DEF v
<1>7. /\ Pulled(v) = [v EXCEPT !.contiguous = Pulled(v).contiguous]
      /\ Pulled(v).contiguous \in v.contiguous..v.lastSeen
      /\ \A n \in (v.contiguous + 1)..Pulled(v).contiguous : Test(v, n)
  BY <1>3, <1>5, PulledMoves
<1>8. /\ Pulled(v).bootId = v.bootId
      /\ Pulled(v).lastSeen = v.lastSeen
      /\ Pulled(v).bits = v.bits
      /\ Pulled(v).lost = v.lost
  BY <1>3, <1>7 DEF WindowType
<1>9. Pulled(v) \in WindowType
  BY <1>3, <1>7 DEF WindowType
<1> QED
  BY <1>4, <1>6, <1>7, <1>8, <1>9 DEF Test

\* A late record sets its bit and moves contiguous over set bits only.
LEMMA SetLateMoves ==
  ASSUME NEW w \in WindowType, w.contiguous <= w.lastSeen, NEW seq \in SeqNo
  PROVE  /\ SetLate(w, seq) \in WindowType
         /\ SetLate(w, seq).bootId = w.bootId
         /\ SetLate(w, seq).lastSeen = w.lastSeen
         /\ SetLate(w, seq).lost = w.lost
         /\ SetLate(w, seq).bits = w.bits \cup {Slot(seq)}
         /\ SetLate(w, seq).contiguous \in w.contiguous..w.lastSeen
         /\ \A n \in (w.contiguous + 1)..SetLate(w, seq).contiguous :
              Test(SetLate(w, seq), n)
<1> USE SeqAssumption, WindowAssumption
<1> DEFINE v == [w EXCEPT !.bits = @ \cup {Slot(seq)}]
<1>1. Slot(seq) \in 0..(W - 1)
  BY SlotType DEF SeqNo
<1>2. v \in WindowType
  BY <1>1 DEF WindowType
<1>3. /\ v.bootId = w.bootId
      /\ v.lastSeen = w.lastSeen
      /\ v.bits = w.bits \cup {Slot(seq)}
      /\ v.contiguous = w.contiguous
      /\ v.lost = w.lost
  BY DEF WindowType
<1>4. SetLate(w, seq) = Pulled(v)
  BY DEF SetLate
<1> HIDE DEF v
<1>5. /\ Pulled(v) = [v EXCEPT !.contiguous = Pulled(v).contiguous]
      /\ Pulled(v).contiguous \in v.contiguous..v.lastSeen
      /\ \A n \in (v.contiguous + 1)..Pulled(v).contiguous : Test(v, n)
  BY <1>2, <1>3, PulledMoves
<1>6. /\ Pulled(v).bootId = v.bootId
      /\ Pulled(v).lastSeen = v.lastSeen
      /\ Pulled(v).bits = v.bits
      /\ Pulled(v).lost = v.lost
  BY <1>2, <1>5 DEF WindowType
<1>7. Pulled(v) \in WindowType
  BY <1>2, <1>5 DEF WindowType
<1> QED
  BY <1>3, <1>4, <1>5, <1>6, <1>7 DEF Test

\* Which bits advance() leaves set: inside the new window, those of the old
\* window and the new one.
LEMMA AdvanceBits ==
  ASSUME NEW w \in WindowType, w.contiguous <= w.lastSeen,
         NEW seq \in SeqNo, seq > w.lastSeen,
         NEW n \in Int, n \in (seq - W + 1)..seq
  PROVE  Test(Advance(w, seq), n) <=>
           \/ n = seq
           \/ n <= w.lastSeen /\ Test(w, n)
<1> USE WindowAssumption
<1>1. w.lastSeen \in Int /\ seq \in Int
  BY SeqAssumption DEF WindowType, SeqNo
<1>2. Test(Advance(w, seq), n) <=>
        Slot(n) \in (w.bits \ Reused(w, seq)) \cup {Slot(seq)}
  BY AdvanceMoves DEF Test
<1>3. n # seq => Slot(n) # Slot(seq)
  BY <1>1, SlotsDiffer
<1>4. CASE n = seq
  BY <1>2, <1>4
<1>5. CASE n # seq /\ n > w.lastSeen
  <2>1. Slot(n) \in Reused(w, seq)
    BY <1>1, <1>5 DEF Reused
  <2> QED
    BY <1>1, <1>2, <1>3, <1>5, <2>1
<1>6. CASE n # seq /\ n <= w.lastSeen
  <2>1. ASSUME NEW m \in (w.lastSeen + 1)..seq PROVE Slot(n) # Slot(m)
    <3>1. m \in Int /\ n < m /\ m < n + W
      BY <1>1, <1>6
    <3> QED
      BY <3>1, SlotsDiffer
  <2>2. Slot(n) \notin Reused(w, seq)
    BY <2>1 DEF Reused
  <2> QED
    BY <1>2, <1>3, <1>6, <2>2 DEF Test
<1> QED
  BY <1>1, <1>4, <1>5, <1>6

------------------------------------------------------------------------------
(* The invariant.                                                          *)

\* Before the first record everything holds vacuously.
LEMMA InitWindowInv == WindowInit => WindowInv
<1> SUFFICES ASSUME WindowInit PROVE WindowInv
  OBVIOUS
<1> USE SeqAssumption, WindowAssumption DEF WindowInit, NewWindow, SeqNo
<1>1. WindowTypeOK
  BY DEF WindowTypeOK
<1>2. Mirror /\ Ahead /\ AtMostOnce /\ Condemned
  BY DEF Mirror, Ahead, AtMostOnce, Condemned
<1> QED
  BY <1>1, <1>2 DEF WindowInv

\* A record that opens a window leaves one bit and one forwarded seq.
LEMMA OpeningWindowInv ==
  ASSUME WindowInv, NEW boot \in Boot, NEW seq \in SeqNo, OpenWindow(boot, seq)
  PROVE  WindowInv'
<1> USE SeqAssumption, WindowAssumption
<1> DEFINE w == Reset(boot, seq)
<1>1. w \in WindowType /\ w.contiguous = seq - 1 /\ w.lastSeen = seq - 1 /\ w.bits = {}
  BY DEF Reset, WindowType, SeqNo
<1>2. win' = Advance(w, seq) /\ base' = seq - 1
  BY DEF OpenWindow
<1>3. passed' = [s \in SeqNo |-> IF s = seq THEN 1 ELSE 0]
  BY DEF OpenWindow
<1> HIDE DEF w
<1>4. seq \in Int /\ w.contiguous <= w.lastSeen /\ seq > w.lastSeen
  BY <1>1 DEF SeqNo
<1>5. /\ win' \in WindowType
      /\ win'.lastSeen = seq
      /\ win'.contiguous \in Raised(w, seq)..seq
  BY <1>1, <1>2, <1>4, AdvanceMoves
<1>6. win'.contiguous \in (seq - 1)..seq
  BY <1>1, <1>4, <1>5 DEF Raised
<1>7. WindowTypeOK'
  BY <1>2, <1>3, <1>5 DEF WindowTypeOK, WindowType, SeqNo
<1>8. Mirror'
  <2> SUFFICES ASSUME NEW n \in SeqNo, n \in (seq - W + 1)..seq
               PROVE  Test(win', n) <=> passed'[n] = 1
    BY <1>5 DEF Mirror, Test
  <2>1. Test(win', n) <=> n = seq \/ (n <= w.lastSeen /\ Test(w, n))
    BY <1>1, <1>2, <1>4, AdvanceBits DEF SeqNo
  <2> QED
    BY <2>1, <1>1, <1>3 DEF Test
<1>9. Ahead' /\ AtMostOnce'
  BY <1>3, <1>4, <1>5 DEF Ahead, AtMostOnce, SeqNo
<1>10. Condemned'
  BY <1>2, <1>3, <1>4, <1>6 DEF Condemned, SeqNo
<1> QED
  BY <1>2, <1>4, <1>5, <1>6, <1>7, <1>8, <1>9, <1>10 DEF WindowInv

\* The facts about the current state that the other steps start from.
LEMMA WindowInvFacts ==
  ASSUME WindowInv
  PROVE  /\ win \in WindowType
         /\ win.lastSeen \in Int /\ win.contiguous \in Int /\ base \in Int
         /\ passed \in [SeqNo -> Nat]
         /\ win.contiguous <= win.lastSeen /\ base <= win.contiguous
BY SeqAssumption DEF WindowInv, WindowTypeOK, WindowType

\* The guards of accept() cover every record and give one verdict each.
LEMMA Verdicts ==
  ASSUME NEW w \in WindowType, NEW boot \in Boot, NEW seq \in SeqNo
  PROVE  LET v == Judge(w, boot, seq)
             inside == seq \in (w.lastSeen - W + 1)..w.lastSeen
         IN /\ v \in {"FIRST", "BOOT_RESET"} => w.bootId # boot
            /\ v = "ACCEPT" => seq > w.lastSeen
            /\ v = "LATE" => inside /\ ~Test(w, seq)
            /\ v = "DUPLICATE" => inside /\ Test(w, seq)
            /\ v = "TOO_OLD" => seq <= w.lastSeen - W
<1> USE SeqAssumption, WindowAssumption, BootAssumption
<1>0. w.lastSeen \in Int /\ seq \in Int /\ boot # NoBoot
  BY DEF WindowType, SeqNo
<1>1. CASE w.bootId = NoBoot
  BY <1>0, <1>1 DEF Judge
<1>2. CASE w.bootId \notin {NoBoot, boot}
  BY <1>0, <1>2 DEF Judge
<1>3. CASE w.bootId = boot /\ seq > w.lastSeen
  <2>1. Judge(w, boot, seq) = "ACCEPT"
    BY <1>0, <1>3 DEF Judge
  <2> QED
    BY <1>3, <2>1
<1>4. CASE w.bootId = boot /\ seq <= w.lastSeen - W
  <2>1. Judge(w, boot, seq) = "TOO_OLD"
    BY <1>0, <1>4 DEF Judge
  <2> QED
    BY <1>4, <2>1
<1>5. CASE w.bootId = boot /\ seq \in (w.lastSeen - W + 1)..w.lastSeen
  <2>1. Judge(w, boot, seq) = IF Test(w, seq) THEN "DUPLICATE" ELSE "LATE"
    BY <1>0, <1>5 DEF Judge
  <2> QED
    BY <1>5, <2>1
<1> QED
  BY <1>0, <1>1, <1>2, <1>3, <1>4, <1>5

\* A record ahead of the window moves it.
LEMMA AcceptWindowInv ==
  ASSUME WindowInv, NEW boot \in Boot, NEW seq \in SeqNo, Accept(boot, seq)
  PROVE  WindowInv'
<1> USE SeqAssumption, WindowAssumption
<1>1. seq > win.lastSeen
  BY WindowInvFacts, Verdicts DEF Accept
<1>2. /\ win' = Advance(win, seq)
      /\ passed' = [passed EXCEPT ![seq] = @ + 1]
      /\ base' = base
  BY DEF Accept
<1>3. seq \in Int
  BY DEF SeqNo
<1>4. /\ win' \in WindowType
      /\ win'.lastSeen = seq
      /\ win'.contiguous \in Raised(win, seq)..seq
      /\ \A n \in (Raised(win, seq) + 1)..win'.contiguous : Test(win', n)
  BY <1>1, <1>2, WindowInvFacts, AdvanceMoves
<1>5. win'.contiguous \in Int /\ win.contiguous <= win'.contiguous
  BY <1>3, <1>4, WindowInvFacts DEF Raised, WindowType
<1>6. passed[seq] = 0
  BY <1>1 DEF WindowInv, Ahead
<1>7. WindowTypeOK'
  BY <1>2, <1>4, WindowInvFacts DEF WindowInv, WindowTypeOK, WindowType
<1>8. \A n \in SeqNo : passed'[n] = IF n = seq THEN 1 ELSE passed[n]
  BY <1>2, <1>6, WindowInvFacts
<1>9. Mirror'
  <2> SUFFICES ASSUME NEW n \in SeqNo, n \in (seq - W + 1)..seq
               PROVE  Test(win', n) <=> passed'[n] = 1
    BY <1>4 DEF Mirror, Test
  <2>1. n \in Int
    BY DEF SeqNo
  <2>2. Test(win', n) <=> n = seq \/ (n <= win.lastSeen /\ Test(win, n))
    BY <1>1, <1>2, <2>1, WindowInvFacts, AdvanceBits
  <2>3. CASE n <= win.lastSeen
    <3>1. n \in (win.lastSeen - W + 1)..win.lastSeen
      BY <1>1, <1>3, <2>1, <2>3, WindowInvFacts
    <3>2. Test(win, n) <=> passed[n] = 1
      BY <3>1 DEF WindowInv, Mirror
    <3> QED
      BY <1>1, <1>8, <2>2, <2>3, <3>2
  <2>4. CASE n > win.lastSeen
    <3>1. passed[n] = 0
      BY <2>4 DEF WindowInv, Ahead
    <3> QED
      BY <1>8, <2>1, <2>2, <2>4, <3>1, WindowInvFacts
  <2>5. win.lastSeen \in Int
    BY WindowInvFacts
  <2> QED
    BY <2>1, <2>3, <2>4, <2>5
<1>10. Ahead'
  <2> SUFFICES ASSUME NEW n \in SeqNo, n > seq PROVE passed'[n] = 0
    BY <1>4 DEF Ahead
  <2>1. n \in Int /\ win.lastSeen \in Int
    BY WindowInvFacts DEF SeqNo
  <2>2. n > win.lastSeen /\ n # seq
    BY <1>1, <1>3, <2>1
  <2> QED
    BY <1>8, <2>2 DEF WindowInv, Ahead
<1>11. AtMostOnce'
  BY <1>8 DEF WindowInv, AtMostOnce
<1>12. Condemned'
  <2> SUFFICES ASSUME NEW n \in SeqNo, n \in (base + 1)..win'.contiguous,
                      passed'[n] = 0, n > seq - W
               PROVE  FALSE
    BY <1>2, <1>3, <1>4 DEF Condemned, SeqNo
  <2>1. n \in Int /\ n # seq /\ passed[n] = 0
    BY <1>8 DEF SeqNo
  <2>2. CASE n <= win.contiguous
    <3>1. n <= win.lastSeen - W
      BY <2>1, <2>2, WindowInvFacts DEF WindowInv, Condemned
    <3> QED
      BY <1>1, <1>3, <2>1, <3>1, WindowInvFacts
  <2>3. CASE n > win.contiguous
    <3>1. n \in (Raised(win, seq) + 1)..win'.contiguous
      BY <1>3, <1>5, <2>1, <2>3, WindowInvFacts DEF Raised
    <3>2. n \in (seq - W + 1)..seq
      BY <1>3, <1>4, <1>5, <2>1, WindowInvFacts DEF Raised
    <3>3. Test(win', n) <=> passed'[n] = 1
      BY <1>4, <1>9, <3>2 DEF Mirror, Test
    <3> QED
      BY <1>4, <3>1, <3>3
  <2> QED
    BY <2>1, <2>2, <2>3, WindowInvFacts
<1> QED
  BY <1>2, <1>4, <1>5, <1>7, <1>9, <1>10, <1>11, <1>12, <1>3, WindowInvFacts DEF WindowInv, Raised

\* A late record fills a hole of the window.
LEMMA LateWindowInv ==
  ASSUME WindowInv, NEW boot \in Boot, NEW seq \in SeqNo, Late(boot, seq)
  PROVE  WindowInv'
<1> USE SeqAssumption, WindowAssumption
<1>1. seq \in (win.lastSeen - W + 1)..win.lastSeen /\ ~Test(win, seq)
  BY WindowInvFacts, Verdicts DEF Late
<1>2. /\ win' = SetLate(win, seq)
      /\ passed' = [passed EXCEPT ![seq] = @ + 1]
      /\ base' = base
  BY DEF Late
<1>3. seq \in Int
  BY DEF SeqNo
<1>4. /\ win' \in WindowType
      /\ win'.lastSeen = win.lastSeen
      /\ win'.bits = win.bits \cup {Slot(seq)}
      /\ win'.contiguous \in win.contiguous..win.lastSeen
      /\ \A n \in (win.contiguous + 1)..win'.contiguous : Test(win', n)
  BY <1>2, WindowInvFacts, SetLateMoves
<1>5. passed[seq] = 0
  <2>1. passed[seq] # 1
    BY <1>1 DEF WindowInv, Mirror
  <2> QED
    BY <2>1, WindowInvFacts DEF WindowInv, AtMostOnce
<1>6. \A n \in SeqNo : passed'[n] = IF n = seq THEN 1 ELSE passed[n]
  BY <1>2, <1>5, WindowInvFacts
<1>7. WindowTypeOK'
  BY <1>2, <1>4, WindowInvFacts DEF WindowInv, WindowTypeOK, WindowType
<1>8. Mirror'
  <2> SUFFICES ASSUME NEW n \in SeqNo, n \in (win.lastSeen - W + 1)..win.lastSeen
               PROVE  Test(win', n) <=> passed'[n] = 1
    BY <1>4 DEF Mirror, Test
  <2>1. n \in Int
    BY DEF SeqNo
  <2>2. CASE n = seq
    BY <1>4, <1>6, <2>2 DEF Test
  <2>3. CASE n # seq
    <3>1. Slot(n) # Slot(seq)
      BY <1>1, <1>3, <2>1, <2>3, WindowInvFacts, SlotsDiffer
    <3>2. Test(win', n) <=> Test(win, n)
      BY <1>4, <3>1 DEF Test
    <3> QED
      BY <1>6, <2>3, <3>2 DEF WindowInv, Mirror
  <2> QED
    BY <2>2, <2>3
<1>9. Ahead' /\ AtMostOnce'
  BY <1>1, <1>3, <1>4, <1>6, WindowInvFacts DEF WindowInv, Ahead, AtMostOnce
<1>10. Condemned'
  <2> SUFFICES ASSUME NEW n \in SeqNo, n \in (base + 1)..win'.contiguous,
                      passed'[n] = 0, n > win.lastSeen - W
               PROVE  FALSE
    BY <1>2, <1>4, WindowInvFacts DEF Condemned, SeqNo
  <2>1. n \in Int /\ passed[n] = 0 /\ win'.contiguous \in Int
    <3>1. n \in Int
      BY DEF SeqNo
    <3>2. passed[n] = 0
      BY <1>6
    <3>3. win'.contiguous \in Int
      BY <1>4, WindowInvFacts
    <3> QED
      BY <3>1, <3>2, <3>3
  <2>2. n > win.contiguous
    BY <2>1, WindowInvFacts DEF WindowInv, Condemned
  <2>3. Test(win', n)
    BY <1>4, <2>1, <2>2, WindowInvFacts
  <2>4. Test(win', n) <=> passed'[n] = 1
    BY <1>4, <1>8, <2>1, WindowInvFacts DEF Mirror, Test
  <2> QED
    BY <2>3, <2>4
<1> QED
  BY <1>2, <1>4, <1>7, <1>8, <1>9, <1>10, WindowInvFacts DEF WindowInv

\* Every step keeps the invariant.
LEMMA NextWindowInv == WindowInv /\ [WindowNext]_windowVars => WindowInv'
<1> SUFFICES ASSUME WindowInv, [WindowNext]_windowVars PROVE WindowInv'
  OBVIOUS
<1>1. CASE UNCHANGED windowVars
  BY <1>1 DEF WindowInv, WindowTypeOK, Mirror, Ahead, AtMostOnce, Condemned, Test, windowVars
<1>2. ASSUME NEW boot \in Boot, NEW seq \in SeqNo, ProcessElement(boot, seq)
      PROVE  WindowInv'
  <2>1. CASE OpenWindow(boot, seq)
    BY <2>1, OpeningWindowInv
  <2>2. CASE Accept(boot, seq)
    BY <2>2, AcceptWindowInv
  <2>3. CASE Late(boot, seq)
    BY <2>3, LateWindowInv
  <2>4. CASE Drop(boot, seq)
    BY <1>1, <2>4 DEF Drop
  <2> QED
    BY <1>2, <2>1, <2>2, <2>3, <2>4 DEF ProcessElement
<1> QED
  BY <1>1, <1>2 DEF WindowNext

THEOREM Invariance == WindowSpec => []WindowInv
BY InitWindowInv, NextWindowInv, PTL DEF WindowSpec

\* Types and cursor ranges, for every width of the window.
THEOREM TypeCorrect == WindowSpec => []WindowTypeOK
<1>1. WindowInv => WindowTypeOK
  BY DEF WindowInv
<1> QED
  BY <1>1, Invariance, PTL

\* Within one window no seq goes downstream twice, however the topic reorders
\* or repeats the records (processElement collects each at most once).
THEOREM ForwardsAtMostOnce == WindowSpec => []AtMostOnce
<1>1. WindowInv => AtMostOnce
  BY DEF WindowInv
<1> QED
  BY <1>1, Invariance, PTL

\* A record judged DUPLICATE was forwarded before: no stale bit of the reused
\* slots ever condemns a record that was not seen.
THEOREM DuplicatesWereForwarded == WindowSpec => []NoFreshDuplicate
<1>1. WindowInv => NoFreshDuplicate
  <2> SUFFICES ASSUME WindowInv, NEW b \in Boot, NEW s \in SeqNo,
                      Judge(win, b, s) = "DUPLICATE"
               PROVE  passed[s] > 0
    BY DEF NoFreshDuplicate
  <2>1. s \in (win.lastSeen - W + 1)..win.lastSeen /\ Test(win, s)
    BY WindowInvFacts, Verdicts
  <2>2. passed[s] = 1
    BY <2>1 DEF WindowInv, Mirror
  <2> QED
    BY <2>2
<1> QED
  BY <1>1, Invariance, PTL

\* What advance() gave up as lost is never forwarded later in that window.
THEOREM LossStands == WindowSpec => LossIsFinal
<1> DEFINE Stands == \A s \in (base + 1)..win.contiguous :
                       passed[s] = 0 /\ win'.bootId = win.bootId => passed'[s] = 0
<1>1. WindowInv /\ [WindowNext]_windowVars => [Stands]_windowVars
  <2> SUFFICES ASSUME WindowInv, NEW boot \in Boot, NEW seq \in SeqNo,
                      ProcessElement(boot, seq), win'.bootId = win.bootId,
                      NEW s \in (base + 1)..win.contiguous, passed[s] = 0
               PROVE  passed'[s] = 0
    BY DEF WindowNext
  <2>1. s \in SeqNo /\ s \in Int
    BY SeqAssumption DEF WindowInv, WindowTypeOK, SeqNo
  <2>2. s <= win.lastSeen - W
    BY <2>1 DEF WindowInv, Condemned
  <2>3. CASE OpenWindow(boot, seq)
    <3>1. win.bootId # boot
      BY <2>3, WindowInvFacts, Verdicts DEF OpenWindow
    <3>2. /\ Reset(boot, seq) \in WindowType
          /\ Reset(boot, seq).bootId = boot
          /\ Reset(boot, seq).contiguous <= Reset(boot, seq).lastSeen
          /\ seq > Reset(boot, seq).lastSeen
      BY SeqAssumption DEF Reset, WindowType, SeqNo
    <3>3. win'.bootId = boot
      BY <2>3, <3>2, AdvanceMoves DEF OpenWindow
    <3> QED
      BY <3>1, <3>3
  <2>4. CASE Accept(boot, seq) \/ Late(boot, seq)
    <3>1. seq > win.lastSeen - W
      BY <2>4, WindowAssumption, WindowInvFacts, Verdicts DEF Accept, Late, SeqNo
    <3>2. s # seq
      BY <2>1, <2>2, <3>1, WindowInvFacts, WindowAssumption
    <3> QED
      BY <2>1, <2>4, <3>2, WindowInvFacts DEF Accept, Late
  <2>5. CASE Drop(boot, seq)
    BY <2>5 DEF Drop, windowVars
  <2> QED
    BY <2>3, <2>4, <2>5 DEF ProcessElement
<1> QED
  BY <1>1, Invariance, PTL DEF WindowSpec, LossIsFinal

------------------------------------------------------------------------------
(* The count of lost seqs.                                                 *)

\* Below contiguous, what never went downstream.
Gone == {s \in (base + 1)..win.contiguous : passed[s] = 0}

\* What left the window was judged: contiguous is never behind its lower edge.
Judged == win.contiguous >= win.lastSeen - W

LossInv == WindowInv /\ Judged /\ LossIsExact

\* The set that is counted is finite.
LEMMA GoneFinite == WindowInv => IsFiniteSet(Gone)
<1> SUFFICES ASSUME WindowInv PROVE IsFiniteSet(Gone)
  OBVIOUS
<1>1. Gone \subseteq (base + 1)..win.contiguous
  BY DEF Gone
<1>2. IsFiniteSet((base + 1)..win.contiguous)
  BY WindowInvFacts, FS_Interval
<1> QED
  BY <1>1, <1>2, FS_Subset

\* A new window has lost nothing.
LEMMA OpenWindowLoss ==
  ASSUME WindowInv, NEW boot \in Boot, NEW seq \in SeqNo, OpenWindow(boot, seq), WindowInv'
  PROVE  Judged' /\ LossIsExact'
<1> USE SeqAssumption, WindowAssumption
<1> DEFINE w == Reset(boot, seq)
<1>1. w \in WindowType /\ w.contiguous = seq - 1 /\ w.lastSeen = seq - 1 /\ w.lost = 0
  BY DEF Reset, WindowType, SeqNo
<1>2. win' = Advance(w, seq) /\ base' = seq - 1
  BY DEF OpenWindow
<1>3. passed'[seq] = 1
  BY DEF OpenWindow
<1> HIDE DEF w
<1>4. seq \in Int /\ w.contiguous <= w.lastSeen /\ seq > w.lastSeen
  BY <1>1 DEF SeqNo
<1>5. /\ win'.lastSeen = seq
      /\ win'.contiguous \in Raised(w, seq)..seq
      /\ win'.lost = w.lost + Cardinality(Missed(w, seq))
  BY <1>1, <1>2, <1>4, AdvanceMoves
<1>6. win'.contiguous \in (seq - 1)..seq
  BY <1>1, <1>4, <1>5 DEF Raised
<1>7. Missed(w, seq) = {}
  BY <1>1, <1>4 DEF Missed
<1>8. Gone' = {}
  BY <1>2, <1>3, <1>4, <1>6 DEF Gone
<1>9. win'.lost = 0
  BY <1>1, <1>5, <1>7, FS_EmptySet
<1> QED
  BY <1>4, <1>5, <1>6, <1>8, <1>9, FS_EmptySet DEF Judged, LossIsExact, Gone

\* What advance() counts is what it takes contiguous past.
LEMMA AcceptLoss ==
  ASSUME LossInv, NEW boot \in Boot, NEW seq \in SeqNo, Accept(boot, seq), WindowInv'
  PROVE  Judged' /\ LossIsExact'
<1> USE SeqAssumption, WindowAssumption
<1>0. WindowInv /\ Judged /\ LossIsExact
  BY DEF LossInv
<1>1. seq > win.lastSeen /\ seq \in Int
  BY <1>0, WindowInvFacts, Verdicts DEF Accept, SeqNo
<1>2. /\ win' = Advance(win, seq)
      /\ passed' = [passed EXCEPT ![seq] = @ + 1]
      /\ base' = base
  BY DEF Accept
<1>3. /\ win'.lastSeen = seq
      /\ win'.contiguous \in Raised(win, seq)..seq
      /\ win'.lost = win.lost + Cardinality(Missed(win, seq))
      /\ \A n \in (Raised(win, seq) + 1)..win'.contiguous : Test(win', n)
  BY <1>0, <1>1, <1>2, WindowInvFacts, AdvanceMoves
<1>4. /\ Raised(win, seq) \in Int /\ win'.contiguous \in Int
      /\ win.contiguous <= Raised(win, seq) /\ Raised(win, seq) <= win'.contiguous
      /\ seq - W <= Raised(win, seq)
      /\ Raised(win, seq) = win.contiguous \/ Raised(win, seq) = seq - W
  BY <1>0, <1>1, <1>3, WindowInvFacts DEF Raised
<1>5. \A n \in SeqNo : n # seq => passed'[n] = passed[n]
  BY <1>0, <1>2, WindowInvFacts
<1>6. ASSUME NEW n \in Int, n > win.contiguous, n <= seq - W, n >= 0
      PROVE  n \in SeqNo /\ (n \in Missed(win, seq) <=> passed[n] = 0)
  <2>1. n \in SeqNo
    BY <1>1, <1>6 DEF SeqNo
  <2>2. CASE n > win.lastSeen
    BY <1>0, <1>1, <1>6, <2>1, <2>2, WindowInvFacts DEF WindowInv, Ahead, Missed
  <2>3. CASE n <= win.lastSeen
    <3>1. n \in (win.lastSeen - W + 1)..win.lastSeen
      BY <1>0, <1>6, <2>3, WindowInvFacts DEF Judged
    <3>2. Test(win, n) <=> passed[n] = 1
      BY <1>0, <2>1, <3>1 DEF WindowInv, Mirror
    <3>3. passed[n] \in Nat /\ passed[n] <= 1
      BY <1>0, <2>1, WindowInvFacts DEF WindowInv, AtMostOnce
    <3>4. n \in Missed(win, seq) <=> ~Test(win, n)
      BY <1>0, <1>1, <1>6, <2>3, WindowInvFacts DEF Missed
    <3> QED
      BY <2>1, <3>2, <3>3, <3>4
  <2> QED
    BY <1>0, <2>2, <2>3, WindowInvFacts
<1>7. Gone' = Gone \cup Missed(win, seq)
  <2>1. base \in Int /\ base >= -1 /\ win.contiguous \in Int /\ base <= win.contiguous
        /\ win.contiguous <= win.lastSeen /\ win.lastSeen \in Int /\ win'.contiguous <= seq
    BY <1>0, <1>1, <1>3, WindowInvFacts DEF WindowInv, WindowTypeOK
  <2>2. ASSUME NEW n \in Int, n > base, n <= win.contiguous
        PROVE  (n \in Gone' <=> n \in Gone) /\ n \notin Missed(win, seq)
    <3>1. n \in SeqNo /\ n # seq
      BY <1>1, <2>1, <2>2 DEF SeqNo
    <3> QED
      BY <1>2, <1>4, <1>5, <2>1, <2>2, <3>1 DEF Gone, Missed
  <2>3. ASSUME NEW n \in Int, n > win.contiguous, n <= Raised(win, seq)
        PROVE  (n \in Gone' <=> n \in Missed(win, seq)) /\ n \notin Gone
    <3>1. n <= seq - W /\ n >= 0 /\ n # seq
      BY <1>1, <1>4, <2>1, <2>3
    <3>2. n \in SeqNo /\ (n \in Missed(win, seq) <=> passed[n] = 0)
      BY <1>6, <2>3, <3>1
    <3> QED
      BY <1>2, <1>4, <1>5, <2>1, <2>3, <3>1, <3>2 DEF Gone
  <2>4. ASSUME NEW n \in Int, n > Raised(win, seq), n <= win'.contiguous
        PROVE  n \notin Gone' /\ n \notin Gone /\ n \notin Missed(win, seq)
    <3>1. Test(win', n)
      BY <1>3, <1>4, <2>4
    <3>2. n \in SeqNo /\ n \in (seq - W + 1)..seq
      BY <1>1, <1>4, <2>1, <2>4 DEF SeqNo
    <3>3. passed'[n] = 1
      BY <1>3, <3>1, <3>2 DEF WindowInv, Mirror, Test
    <3> QED
      BY <1>1, <1>4, <2>1, <2>4, <3>2, <3>3 DEF Gone, Missed
  <2>5. Gone' \subseteq (base + 1)..win'.contiguous /\ Gone \subseteq (base + 1)..win.contiguous
    BY <1>2 DEF Gone
  <2>6. Missed(win, seq) \subseteq (win.contiguous + 1)..Raised(win, seq)
    BY <1>1, <1>4, <2>1 DEF Missed
  <2> QED
    <3>1. \A n \in Gone' \cup Gone \cup Missed(win, seq) :
            n \in Int /\ n > base /\ n <= win'.contiguous
      BY <1>4, <2>1, <2>5, <2>6
    <3> QED
      BY <1>4, <2>1, <2>2, <2>3, <2>4, <3>1
<1>8. Gone \cap Missed(win, seq) = {}
  BY <1>0, WindowInvFacts DEF Gone, Missed
<1>9. IsFiniteSet(Missed(win, seq))
  <2>1. Missed(win, seq) \subseteq (win.contiguous + 1)..(seq - W)
    BY DEF Missed
  <2>2. win.contiguous + 1 \in Int /\ seq - W \in Int
    BY <1>0, <1>1, WindowInvFacts
  <2> QED
    BY <2>1, <2>2, FS_Interval, FS_Subset
<1>10. Cardinality(Gone') = Cardinality(Gone) + Cardinality(Missed(win, seq))
  <2>1. IsFiniteSet(Gone)
    BY <1>0, GoneFinite
  <2>2. Cardinality(Gone \cup Missed(win, seq)) =
          Cardinality(Gone) + Cardinality(Missed(win, seq)) - Cardinality({})
    BY <1>8, <1>9, <2>1, FS_Union
  <2>3. Cardinality(Gone) \in Nat /\ Cardinality(Missed(win, seq)) \in Nat
    BY <1>9, <2>1, FS_CardinalityType
  <2> QED
    BY <1>7, <2>2, <2>3, FS_EmptySet
<1>11. win.lost = Cardinality(Gone) /\ win'.lost = Cardinality(Gone')
  BY <1>0, <1>3, <1>10 DEF LossIsExact, Gone
<1>12. Judged'
  BY <1>1, <1>3, <1>4 DEF Judged
<1> QED
  BY <1>11, <1>12 DEF LossIsExact, Gone

\* A late record was never counted, nor is what contiguous then passes.
LEMMA LateLoss ==
  ASSUME LossInv, NEW boot \in Boot, NEW seq \in SeqNo, Late(boot, seq), WindowInv'
  PROVE  Judged' /\ LossIsExact'
<1> USE SeqAssumption, WindowAssumption
<1>0. WindowInv /\ Judged /\ LossIsExact
  BY DEF LossInv
<1>1. seq \in (win.lastSeen - W + 1)..win.lastSeen /\ seq \in Int
  BY <1>0, WindowInvFacts, Verdicts DEF Late, SeqNo
<1>2. /\ win' = SetLate(win, seq)
      /\ passed' = [passed EXCEPT ![seq] = @ + 1]
      /\ base' = base
  BY DEF Late
<1>3. /\ win'.lastSeen = win.lastSeen
      /\ win'.lost = win.lost
      /\ win'.contiguous \in win.contiguous..win.lastSeen
      /\ \A n \in (win.contiguous + 1)..win'.contiguous : Test(win', n)
  BY <1>0, <1>2, WindowInvFacts, SetLateMoves
<1>4. base \in Int /\ base >= -1 /\ win.contiguous \in Int /\ base <= win.contiguous
      /\ win.lastSeen \in Int /\ win.contiguous <= win.lastSeen
      /\ win.lastSeen <= MaxSeq
  BY <1>0, WindowInvFacts DEF WindowInv, WindowTypeOK
<1>5. ASSUME NEW n \in Int, n > base, n <= win.contiguous
      PROVE  n \in Gone' <=> n \in Gone
  <2>1. n \in SeqNo
    BY <1>4, <1>5 DEF SeqNo
  <2>2. CASE n = seq
    <3>1. passed[n] # 0
      BY <1>0, <1>1, <1>4, <1>5, <2>1, <2>2 DEF WindowInv, Condemned
    <3>2. passed'[n] # 0
      BY <1>0, <1>2, <2>1, <2>2, WindowInvFacts
    <3> QED
      BY <3>1, <3>2 DEF Gone
  <2>3. CASE n # seq
    <3>1. passed'[n] = passed[n]
      BY <1>0, <1>2, <2>1, <2>3, WindowInvFacts
    <3> QED
      BY <1>2, <1>3, <1>4, <1>5, <3>1 DEF Gone
  <2> QED
    BY <2>2, <2>3
<1>6. ASSUME NEW n \in Int, n > win.contiguous, n <= win'.contiguous
      PROVE  n \notin Gone'
  <2>1. n \in SeqNo /\ n \in (win.lastSeen - W + 1)..win.lastSeen
    BY <1>0, <1>3, <1>4, <1>6 DEF Judged, SeqNo
  <2>2. passed'[n] = 1
    BY <1>3, <1>4, <1>6, <2>1 DEF WindowInv, Mirror, Test
  <2> QED
    BY <2>2 DEF Gone
<1>7. Gone' = Gone
  <2>1. /\ \A n \in Gone' : n \in Int /\ n > base /\ n <= win'.contiguous
        /\ \A n \in Gone : n \in Int /\ n > base /\ n <= win.contiguous
    BY <1>2, <1>3, <1>4 DEF Gone
  <2>2. \A n \in Gone' : n \in Gone
    <3>1. \A n \in Gone' : n <= win.contiguous
      BY <1>6, <1>4, <2>1
    <3> QED
      BY <1>5, <2>1, <3>1
  <2>3. \A n \in Gone : n \in Gone'
    BY <1>5, <2>1
  <2> QED
    BY <2>2, <2>3
<1> QED
  BY <1>0, <1>3, <1>4, <1>7 DEF Judged, LossIsExact, Gone

\* The count goes with the window at every step.
THEOREM LossInvariance == WindowSpec => []LossInv
<1> USE SeqAssumption, WindowAssumption
<1>1. WindowInit => LossInv
  <2> SUFFICES ASSUME WindowInit PROVE LossInv
    OBVIOUS
  <2>1. Judged /\ (base + 1)..win.contiguous = {} /\ win.lost = 0
    BY DEF WindowInit, NewWindow, Judged
  <2>2. Gone = {}
    BY <2>1 DEF Gone
  <2> QED
    BY <2>1, <2>2, InitWindowInv, FS_EmptySet DEF LossInv, LossIsExact, Gone
<1>2. LossInv /\ [WindowNext]_windowVars => LossInv'
  <2> SUFFICES ASSUME LossInv, [WindowNext]_windowVars PROVE LossInv'
    OBVIOUS
  <2>1. WindowInv /\ WindowInv'
    BY NextWindowInv DEF LossInv
  <2>2. CASE UNCHANGED windowVars
    BY <2>1, <2>2 DEF LossInv, Judged, LossIsExact, windowVars
  <2>3. ASSUME NEW boot \in Boot, NEW seq \in SeqNo, ProcessElement(boot, seq)
        PROVE  LossInv'
    <3>1. CASE OpenWindow(boot, seq)
      BY <2>1, <3>1, OpenWindowLoss DEF LossInv
    <3>2. CASE Accept(boot, seq)
      BY <2>1, <3>2, AcceptLoss DEF LossInv
    <3>3. CASE Late(boot, seq)
      BY <2>1, <3>3, LateLoss DEF LossInv
    <3>4. CASE Drop(boot, seq)
      BY <2>2, <3>4 DEF Drop
    <3> QED
      BY <2>3, <3>1, <3>2, <3>3, <3>4 DEF ProcessElement
  <2> QED
    BY <2>2, <2>3 DEF WindowNext
<1> QED
  BY <1>1, <1>2, PTL DEF WindowSpec

\* Lost is exact: it counts the seqs that contiguous has passed and that never went
\* downstream (Transition.lost, summed into dedup.seq_gap).
THEOREM LossExact == WindowSpec => []LossIsExact
<1>1. LossInv => LossIsExact
  BY DEF LossInv
<1> QED
  BY <1>1, LossInvariance, PTL

------------------------------------------------------------------------------
(* Folds over a sequence.  What the loops of SeqWindowLoops do in their    *)
(* first i turns is found by induction over i, with the least turn that    *)
(* would be wrong.                                                         *)

\* A turn of either loop.
StepOf(loop, w, n) == IF loop = "pull" THEN PullTurn(w, n) ELSE Turn(w, n)

\* The function a fold over a sequence of k is defined by, on sets of its indices.
Folds(iter, loop, w, k, q) ==
  iter = [s \in SUBSET (1..k) |->
            IF s = {} THEN w ELSE StepOf(loop, iter[s \ {Max(s)}], q[Max(s)])]

\* The windows it runs through, each made from the one before by a turn.
Runs(f, loop, w, k, q) ==
  f[0] = w /\ \A i \in 1..k : f[i] = StepOf(loop, f[i - 1], q[i])

\* A fold over a sequence is what it is after its first i turns, for each i: the function
\* on the sets of turns that the fold is defined by exists, since each set has fewer
\* elements without its greatest.
LEMMA FoldExists ==
  ASSUME NEW loop, NEW w, NEW k \in Nat, NEW q
  PROVE  \E iter : Folds(iter, loop, w, k, q)
<1> DEFINE Fits(g, m) == g = [s \in SUBSET (1..m) |->
             IF s = {} THEN w ELSE StepOf(loop, g[s \ {Max(s)}], q[Max(s)])]
           Bad == {m \in 0..k : ~ \E g : Fits(g, m)}
<1>1. \E g : Fits(g, 0)
  <2> DEFINE g == [s \in SUBSET (1..0) |-> w]
  <2>1. SUBSET (1..0) = {{}}
    OBVIOUS
  <2>2. Fits(g, 0)
    BY <2>1
  <2> HIDE DEF Fits
  <2> QED
    BY <2>2
<1>2. ASSUME NEW m \in Nat, \E g : Fits(g, m) PROVE \E g : Fits(g, m + 1)
  <2>1. PICK g : Fits(g, m)
    BY <1>2
  <2> DEFINE h == [s \in SUBSET (1..(m + 1)) |->
                     IF m + 1 \in s THEN StepOf(loop, g[s \ {m + 1}], q[m + 1]) ELSE g[s]]
  <2>2. ASSUME NEW s \in SUBSET (1..(m + 1))
        PROVE  h[s] = IF s = {} THEN w ELSE StepOf(loop, h[s \ {Max(s)}], q[Max(s)])
    <3>0. h[s] = IF m + 1 \in s THEN StepOf(loop, g[s \ {m + 1}], q[m + 1]) ELSE g[s]
      OBVIOUS
    <3>1. CASE m + 1 \in s
      <4>1. Max(s) = m + 1
        <5>1. 1 \in Int /\ m + 1 \in Int /\ s \subseteq 1..(m + 1) /\ s # {}
          BY <3>1
        <5>2. Max(s) \in s /\ \A d \in s : d <= Max(s)
          BY <5>1, MaxIsGreatest
        <5>3. PICK x : x = Max(s)
          OBVIOUS
        <5>4. x \in s /\ x \in 1..(m + 1) /\ m + 1 <= x
          BY <3>1, <5>1, <5>2, <5>3
        <5>5. x = m + 1
          BY <5>4
        <5> QED
          BY <5>3, <5>5
      <4>2. s \ {m + 1} \in SUBSET (1..(m + 1)) /\ m + 1 \notin s \ {m + 1} /\ s # {}
        BY <3>1
      <4>3. h[s \ {m + 1}] = g[s \ {m + 1}]
        BY <4>2
      <4> HIDE DEF h
      <4> QED
        BY <3>0, <3>1, <4>1, <4>2, <4>3
    <3>2. CASE m + 1 \notin s /\ s # {}
      <4>1. s \in SUBSET (1..m)
        BY <3>2
      <4>2. Max(s) \in s
        <5>1. 1 \in Int /\ m \in Int
          OBVIOUS
        <5> QED
          BY <3>2, <4>1, <5>1, MaxIsGreatest
      <4>3. s \ {Max(s)} \in SUBSET (1..(m + 1)) /\ m + 1 \notin s \ {Max(s)}
        BY <3>2
      <4>4. h[s \ {Max(s)}] = g[s \ {Max(s)}]
        BY <4>3
      <4>5. g[s] = StepOf(loop, g[s \ {Max(s)}], q[Max(s)])
        BY <2>1, <3>2, <4>1
      <4> HIDE DEF h
      <4> QED
        BY <3>0, <3>2, <4>4, <4>5
    <3>3. CASE s = {}
      <4>1. s \in SUBSET (1..m)
        BY <3>3
      <4>2. g[s] = w
        BY <2>1, <3>3, <4>1
      <4> HIDE DEF h
      <4> QED
        BY <3>0, <3>3, <4>2
    <3> QED
      BY <3>1, <3>2, <3>3
  <2>3. Fits(h, m + 1)
    <3>1. h = [s \in SUBSET (1..(m + 1)) |-> h[s]]
      OBVIOUS
    <3> HIDE DEF h
    <3> QED
      BY <2>2, <3>1
  <2> HIDE DEF Fits, h
  <2> QED
    BY <2>3
<1>3. Bad = {}
  <2> SUFFICES ASSUME Bad # {} PROVE FALSE
    OBVIOUS
  <2> HIDE DEF Fits
  <2>1. PICK m \in Bad : \A d \in Bad : m <= d
    <3>1. Bad \subseteq 0..k /\ 0 \in Int /\ k \in Int
      OBVIOUS
    <3> HIDE DEF Bad
    <3> QED
      BY <3>1, LeastElement
  <2>2. m \in 0..k /\ m # 0 /\ ~ \E g : Fits(g, m)
    BY <1>1, <2>1
  <2>3. m - 1 \in Nat /\ m - 1 \in 0..k /\ m - 1 \notin Bad
    BY <2>1, <2>2
  <2>4. PICK n \in Nat : n = m - 1
    BY <2>3
  <2>5. \E g : Fits(g, n)
    BY <2>3, <2>4
  <2>6. \E g : Fits(g, n + 1)
    BY <1>2, <2>5
  <2>7. n + 1 = m
    BY <2>2, <2>4
  <2> QED
    BY <2>2, <2>6, <2>7
<1>4. \E g : Fits(g, k)
  <2> HIDE DEF Fits
  <2> QED
    BY <1>3
<1> QED
  BY <1>4 DEF Folds

\* On the first i indices it is a turn more than on the first i - 1.
LEMMA FoldRuns ==
  ASSUME NEW loop, NEW w, NEW k \in Nat, NEW q, NEW iter, Folds(iter, loop, w, k, q)
  PROVE  \A i \in 1..k : iter[1..i] = StepOf(loop, iter[1..(i - 1)], q[i])
<1>0. iter = [s \in SUBSET (1..k) |->
        IF s = {} THEN w ELSE StepOf(loop, iter[s \ {Max(s)}], q[Max(s)])]
  BY DEF Folds
<1>1. ASSUME NEW i \in 1..k PROVE iter[1..i] = StepOf(loop, iter[1..(i - 1)], q[i])
  <2>1. 1..i \in SUBSET (1..k) /\ i \in 1..i /\ i \in Int /\ 1..i # {}
    OBVIOUS
  <2>2. Max(1..i) = i
    <3>1. 1 \in Int /\ 1..i \subseteq 1..i
      OBVIOUS
    <3>2. Max(1..i) \in 1..i /\ \A d \in 1..i : d <= Max(1..i)
      BY <2>1, <3>1, MaxIsGreatest
    <3>3. PICK x : x = Max(1..i)
      OBVIOUS
    <3>4. x = i
      BY <2>1, <3>2, <3>3
    <3> QED
      BY <3>3, <3>4
  <2>3. (1..i) \ {i} = 1..(i - 1)
    OBVIOUS
  <2>4. iter[1..i] = StepOf(loop, iter[(1..i) \ {Max(1..i)}], q[Max(1..i)])
    BY <1>0, <2>1
  <2> QED
    BY <2>2, <2>3, <2>4
<1> QED
  BY <1>1

\* advance()'s for loop as a sequence of windows.
LEMMA TurnsRun ==
  ASSUME NEW w, NEW k \in Nat, NEW q, DOMAIN q = 1..k
  PROVE  \E f : Runs(f, "judge", w, k, q) /\ FoldLeft(Turn, w, q) = f[k]
<1> DEFINE Fits(iter) == iter = [s \in SUBSET (1..k) |->
             IF s = {} THEN w ELSE Turn(iter[s \ {Max(s)}], q[Max(s)])]
<1>1. FoldLeft(Turn, w, q) = (CHOOSE iter : Fits(iter))[1..k]
  BY DEF FoldLeft, MapThenFoldSet
<1>2. PICK iter : Folds(iter, "judge", w, k, q)
  BY FoldExists
<1>3. Fits(iter)
  BY <1>2 DEF Folds, StepOf
<1>4. PICK it : it = CHOOSE g : Fits(g)
  OBVIOUS
<1>5. Fits(it)
  <2> HIDE DEF Fits
  <2> QED
    BY <1>3, <1>4
<1>6. Folds(it, "judge", w, k, q)
  BY <1>5 DEF Folds, StepOf
<1>7. it[{}] = w /\ \A i \in 1..k : it[1..i] = StepOf("judge", it[1..(i - 1)], q[i])
  <2>1. it[{}] = w
    BY <1>5
  <2> QED
    BY <1>6, <2>1, FoldRuns
<1> DEFINE f == [i \in 0..k |-> it[1..i]]
<1>8. f[0] = w /\ f[k] = it[1..k] /\ \A i \in 1..k : f[i] = it[1..i] /\ f[i - 1] = it[1..(i - 1)]
  <2>1. 1..0 = {} /\ f[0] = it[1..0]
    OBVIOUS
  <2> QED
    BY <1>7, <2>1
<1>9. FoldLeft(Turn, w, q) = f[k]
  <2> HIDE DEF Fits, f
  <2> QED
    BY <1>1, <1>4, <1>8
<1> HIDE DEF f
<1> QED
  BY <1>7, <1>8, <1>9 DEF Runs

\* pullContiguous()'s while loop as a sequence of windows.
LEMMA PullTurnsRun ==
  ASSUME NEW w, NEW k \in Nat, NEW q, DOMAIN q = 1..k
  PROVE  \E f : Runs(f, "pull", w, k, q) /\ FoldLeft(PullTurn, w, q) = f[k]
<1> DEFINE Fits(iter) == iter = [s \in SUBSET (1..k) |->
             IF s = {} THEN w ELSE PullTurn(iter[s \ {Max(s)}], q[Max(s)])]
<1>1. FoldLeft(PullTurn, w, q) = (CHOOSE iter : Fits(iter))[1..k]
  BY DEF FoldLeft, MapThenFoldSet
<1>2. PICK iter : Folds(iter, "pull", w, k, q)
  BY FoldExists
<1>3. Fits(iter)
  BY <1>2 DEF Folds, StepOf
<1>4. PICK it : it = CHOOSE g : Fits(g)
  OBVIOUS
<1>5. Fits(it)
  <2> HIDE DEF Fits
  <2> QED
    BY <1>3, <1>4
<1>6. Folds(it, "pull", w, k, q)
  BY <1>5 DEF Folds, StepOf
<1>7. it[{}] = w /\ \A i \in 1..k : it[1..i] = StepOf("pull", it[1..(i - 1)], q[i])
  <2>1. it[{}] = w
    BY <1>5
  <2> QED
    BY <1>6, <2>1, FoldRuns
<1> DEFINE f == [i \in 0..k |-> it[1..i]]
<1>8. f[0] = w /\ f[k] = it[1..k] /\ \A i \in 1..k : f[i] = it[1..i] /\ f[i - 1] = it[1..(i - 1)]
  <2>1. 1..0 = {} /\ f[0] = it[1..0]
    OBVIOUS
  <2> QED
    BY <1>7, <2>1
<1>9. FoldLeft(PullTurn, w, q) = f[k]
  <2> HIDE DEF Fits, f
  <2> QED
    BY <1>1, <1>4, <1>8
<1> HIDE DEF f
<1> QED
  BY <1>7, <1>8, <1>9 DEF Runs

\* Any W seqs in a row use every slot of the bitmap.
LEMMA SlotsAllUsed ==
  ASSUME NEW a \in Int, NEW b \in 0..(W - 1)
  PROVE  \E n \in a..(a + W - 1) : Slot(n) = b
<1> USE WindowAssumption
<1> DEFINE p == a \div W
           r == a % W
           n == IF b >= r THEN a + b - r ELSE a + b - r + W
           q == IF b >= r THEN p ELSE p + 1
           d == n \div W
           e == n % W
<1>1. a = W * p + r /\ p \in Int /\ r \in 0..(W - 1)
  OBVIOUS
<1>2. W * (p + 1) = W * p + W
  BY <1>1
<1>3. n \in a..(a + W - 1) /\ n = W * q + b /\ q \in Int
  <2> HIDE DEF p, r
  <2> QED
    BY <1>1, <1>2
<1>4. n = W * d + e /\ d \in Int /\ e \in 0..(W - 1)
  <2> HIDE DEF p, r
  <2>1. n \in Int
    BY <1>3
  <2> HIDE DEF n
  <2> QED
    BY <2>1
<1> HIDE DEF p, r, n, q, d, e
<1>5. W * q - W * d = e - b
  BY <1>3, <1>4
<1>6. W * (q - d) = e - b
  BY <1>3, <1>4, <1>5
<1>7. q - d <= 0 - 1 => W * (q - d) <= 0 - W
  BY <1>3, <1>4
<1>8. q - d >= 1 => W * (q - d) >= W
  BY <1>3, <1>4
<1>9. q - d = 0
  BY <1>3, <1>4, <1>6, <1>7, <1>8
<1>10. e = b
  BY <1>3, <1>4, <1>6, <1>9
<1> QED
  BY <1>3, <1>10 DEF Slot, e

------------------------------------------------------------------------------
(* The loops of advance() and pullContiguous().                            *)

\* What advance() condemns within the window, after i turns of its loop.
Leaving(w, i) == {n \in (w.contiguous + 1)..(w.lastSeen + i - W) : ~Test(w, n)}

\* The window after i turns.
Turned(w, i) ==
  [bootId |-> w.bootId, lastSeen |-> w.lastSeen,
   contiguous |-> Raised(w, w.lastSeen + i),
   lost |-> w.lost + Cardinality(Leaving(w, i)),
   bits |-> w.bits \ {Slot(n) : n \in (w.lastSeen + 1)..(w.lastSeen + i)}]

\* A turn judges the seq that leaves the window before its slot is emptied.
LEMMA TurnMakes ==
  ASSUME NEW w \in WindowType, w.contiguous <= w.lastSeen, w.lastSeen - W <= w.contiguous,
         NEW i \in 1..W
  PROVE  Turn(Turned(w, i - 1), w.lastSeen + i) = Turned(w, i)
<1> USE SeqAssumption, WindowAssumption
<1> DEFINE v == Turned(w, i - 1)
           n == w.lastSeen + i
           old == n - W
<1> SUFFICES Turn(v, n) = Turned(w, i)
  OBVIOUS
<1>0. /\ w.contiguous \in Int /\ w.lastSeen \in Int /\ w.lost \in Nat
      /\ n \in Int /\ old \in Int /\ old <= w.lastSeen
  BY DEF WindowType
<1>1. /\ v.bootId = w.bootId /\ v.lastSeen = w.lastSeen
      /\ v.contiguous = Raised(w, n - 1)
      /\ v.lost = w.lost + Cardinality(Leaving(w, i - 1))
      /\ v.bits = w.bits \ {Slot(m) : m \in (w.lastSeen + 1)..(n - 1)}
  <2>1. w.lastSeen + (i - 1) = n - 1
    BY <1>0
  <2> QED
    BY <2>1 DEF Turned
<1>2. v = [bootId |-> v.bootId, lastSeen |-> v.lastSeen, contiguous |-> v.contiguous,
           lost |-> v.lost, bits |-> v.bits]
  BY DEF Turned
<1>3. v.bits \ {Slot(n)} = w.bits \ {Slot(m) : m \in (w.lastSeen + 1)..n}
  <2>1. (w.lastSeen + 1)..n = ((w.lastSeen + 1)..(n - 1)) \cup {n}
    BY <1>0
  <2>2. PICK S : S = (w.lastSeen + 1)..(n - 1)
    OBVIOUS
  <2>3. (w.lastSeen + 1)..n = S \cup {n} /\ v.bits = w.bits \ {Slot(m) : m \in S}
    BY <1>1, <2>1, <2>2
  <2> HIDE DEF v, n
  <2> QED
    BY <2>3
<1>6. Turned(w, i) =
        [bootId |-> w.bootId, lastSeen |-> w.lastSeen, contiguous |-> Raised(w, n),
         lost |-> w.lost + Cardinality(Leaving(w, i)),
         bits |-> w.bits \ {Slot(m) : m \in (w.lastSeen + 1)..n}]
  BY DEF Turned
<1>4. CASE old <= w.contiguous
  <2>1. Raised(w, n - 1) = w.contiguous /\ Raised(w, n) = w.contiguous
    BY <1>0, <1>4 DEF Raised
  <2>2. Leaving(w, i - 1) = {} /\ Leaving(w, i) = {}
    BY <1>0, <1>4 DEF Leaving
  <2>3. ~(old > v.contiguous)
    BY <1>0, <1>1, <1>4, <2>1
  <2>4. Turn(v, n) = [v EXCEPT !.bits = @ \ {Slot(n)}]
    BY <2>3 DEF Turn
  <2>5. Turn(v, n) = [bootId |-> v.bootId, lastSeen |-> v.lastSeen,
                      contiguous |-> v.contiguous, lost |-> v.lost,
                      bits |-> v.bits \ {Slot(n)}]
    <3> HIDE DEF v, n
    <3> QED
      BY <1>2, <2>4
  <2> HIDE DEF v, n
  <2> QED
    BY <1>1, <1>3, <1>6, <2>1, <2>2, <2>5
<1>5. CASE old > w.contiguous
  <2>1. Raised(w, n) = old
    BY <1>0, <1>5 DEF Raised
  <2>2. old > v.contiguous
    BY <1>0, <1>1, <1>5 DEF Raised
  <2>3. Test(v, old) <=> Test(w, old)
    <3>1. ASSUME NEW m \in (w.lastSeen + 1)..(n - 1) PROVE Slot(old) # Slot(m)
      <4>1. m \in Int /\ old < m /\ m < old + W
        BY <1>0
      <4> HIDE DEF old
      <4> QED
        BY <1>0, <4>1, SlotsDiffer
    <3> HIDE DEF v, n, old
    <3> QED
      BY <1>1, <3>1 DEF Test
  <2>4. Cardinality(Leaving(w, i)) =
          Cardinality(Leaving(w, i - 1)) + (IF Test(w, old) THEN 0 ELSE 1)
    <3>1. (w.contiguous + 1)..old = ((w.contiguous + 1)..(old - 1)) \cup {old}
      BY <1>0, <1>5
    <3>2. PICK S : S = (w.contiguous + 1)..(old - 1)
      OBVIOUS
    <3>3. w.lastSeen + i - W = old /\ w.lastSeen + (i - 1) - W = old - 1
      BY <1>0
    <3>4. /\ Leaving(w, i) = {x \in S \cup {old} : ~Test(w, x)}
          /\ Leaving(w, i - 1) = {x \in S : ~Test(w, x)}
      BY <3>1, <3>2, <3>3 DEF Leaving
    <3>5. old \notin S /\ IsFiniteSet(S)
      <4>1. w.contiguous + 1 \in Int /\ old - 1 \in Int /\ old \notin (w.contiguous + 1)..(old - 1)
        BY <1>0
      <4> HIDE DEF old
      <4> QED
        BY <3>2, <4>1, FS_Interval
    <3> HIDE DEF v, n, old
    <3>6. IsFiniteSet(Leaving(w, i - 1)) /\ old \notin Leaving(w, i - 1)
      <4>1. Leaving(w, i - 1) \subseteq S
        BY <3>4
      <4> QED
        BY <3>5, <4>1, FS_Subset
    <3>7. CASE Test(w, old)
      <4>1. Leaving(w, i) = Leaving(w, i - 1)
        BY <3>4, <3>7
      <4> QED
        BY <3>6, <3>7, <4>1, FS_CardinalityType
    <3>8. CASE ~Test(w, old)
      <4>1. Leaving(w, i) = Leaving(w, i - 1) \cup {old}
        BY <3>4, <3>8
      <4> QED
        BY <3>6, <3>8, <4>1, FS_AddElement
    <3> QED
      BY <3>7, <3>8
  <2>5. Cardinality(Leaving(w, i - 1)) \in Nat
    <3>1. Leaving(w, i - 1) \subseteq (w.contiguous + 1)..(old - 1)
      BY <1>0 DEF Leaving
    <3>2. w.contiguous + 1 \in Int /\ old - 1 \in Int
      BY <1>0
    <3> QED
      BY <3>1, <3>2, FS_Interval, FS_Subset, FS_CardinalityType
  <2>6. (IF Test(v, old) THEN v.lost ELSE v.lost + 1) = w.lost + Cardinality(Leaving(w, i))
    <3> HIDE DEF v, old
    <3> QED
      BY <1>0, <1>1, <2>3, <2>4, <2>5
  <2>7. Turn(v, n) = [[v EXCEPT !.contiguous = old, !.lost = IF Test(v, old) THEN @ ELSE @ + 1]
                      EXCEPT !.bits = @ \ {Slot(n)}]
    <3> HIDE DEF v
    <3> QED
      BY <2>2 DEF Turn
  <2>8. Turn(v, n) = [bootId |-> v.bootId, lastSeen |-> v.lastSeen, contiguous |-> old,
                      lost |-> IF Test(v, old) THEN v.lost ELSE v.lost + 1,
                      bits |-> v.bits \ {Slot(n)}]
    <3> HIDE DEF v, n, old
    <3> QED
      BY <1>2, <2>7
  <2> HIDE DEF v, n, old
  <2> QED
    BY <1>1, <1>3, <1>6, <2>1, <2>6, <2>8
<1> QED
  BY <1>0, <1>4, <1>5

\* So the loop over the slots leaves what the closed forms say.
LEMMA TurnsMake ==
  ASSUME NEW w \in WindowType, w.contiguous <= w.lastSeen, w.lastSeen - W <= w.contiguous,
         NEW k \in 0..W
  PROVE  FoldLeft(Turn, w, [i \in 1..k |-> w.lastSeen + i]) = Turned(w, k)
<1> USE SeqAssumption, WindowAssumption
<1> DEFINE q == [i \in 1..k |-> w.lastSeen + i]
<1>0. w.contiguous \in Int /\ w.lastSeen \in Int /\ w.lost \in Nat /\ k \in Nat
  BY DEF WindowType
<1>1. PICK f : /\ f[0] = w
               /\ \A i \in 1..k : f[i] = Turn(f[i - 1], q[i])
               /\ FoldLeft(Turn, w, q) = f[k]
  <2>1. DOMAIN q = 1..k
    OBVIOUS
  <2> HIDE DEF q
  <2>2. PICK f : Runs(f, "judge", w, k, q) /\ FoldLeft(Turn, w, q) = f[k]
    BY <1>0, <2>1, TurnsRun
  <2> QED
    BY <2>2 DEF Runs, StepOf
<1>2. Turned(w, 0) = w
  <2>1. Raised(w, w.lastSeen + 0) = w.contiguous /\ Leaving(w, 0) = {}
        /\ (w.lastSeen + 1)..(w.lastSeen + 0) = {}
    BY <1>0 DEF Raised, Leaving
  <2>2. w.lost + Cardinality({}) = w.lost
    BY <1>0, FS_EmptySet
  <2>3. {Slot(n) : n \in {}} = {}
    OBVIOUS
  <2>4. Turned(w, 0) = [bootId |-> w.bootId, lastSeen |-> w.lastSeen,
                        contiguous |-> w.contiguous, lost |-> w.lost, bits |-> w.bits]
    BY <2>1, <2>2, <2>3 DEF Turned
  <2> QED
    BY <2>4 DEF WindowType
<1> DEFINE Bad == {i \in 0..k : f[i] # Turned(w, i)}
<1>3. Bad = {}
  <2> SUFFICES ASSUME Bad # {} PROVE FALSE
    OBVIOUS
  <2>1. PICK m \in Bad : \A d \in Bad : m <= d
    <3>1. Bad \subseteq 0..k /\ 0 \in Int /\ k \in Int
      OBVIOUS
    <3> HIDE DEF Bad
    <3> QED
      BY <3>1, LeastElement
  <2>2. m \in 1..k /\ m \in 1..W /\ f[m] # Turned(w, m)
    BY <1>1, <1>2, <2>1
  <2>3. m - 1 \in 0..k /\ m - 1 \notin Bad
    BY <2>1, <2>2
  <2>4. f[m - 1] = Turned(w, m - 1)
    BY <2>3
  <2>5. f[m] = Turn(Turned(w, m - 1), w.lastSeen + m)
    BY <1>1, <2>2, <2>4
  <2> HIDE DEF Bad
  <2> QED
    BY <2>2, <2>5, TurnMakes
<1>4. f[k] = Turned(w, k)
  BY <1>0, <1>3
<1> QED
  BY <1>1, <1>4

\* pullContiguous()'s loop stops where its closed form says.
LEMMA PullLoopPulls ==
  ASSUME NEW w \in WindowType, w.contiguous <= w.lastSeen
  PROVE  PullLoop(w) = Pulled(w)
<1> USE SeqAssumption
<1> DEFINE p == Pulled(w).contiguous
           k == w.lastSeen - w.contiguous
           At(i) == IF w.contiguous + i <= p THEN w.contiguous + i ELSE p
           Upto(i) == [w EXCEPT !.contiguous = At(i)]
           q == [i \in 1..k |-> i]
<1>0. w.contiguous \in Int /\ w.lastSeen \in Int /\ k \in Nat
  BY DEF WindowType
<1>1. /\ Pulled(w) = [w EXCEPT !.contiguous = p] /\ p \in w.contiguous..w.lastSeen
      /\ \A n \in (w.contiguous + 1)..p : Test(w, n)
      /\ p < w.lastSeen => ~Test(w, p + 1)
  BY PulledMoves
<1>2. PICK f : /\ f[0] = w
               /\ \A i \in 1..k : f[i] = PullTurn(f[i - 1], i)
               /\ PullLoop(w) = f[k]
  <2>1. DOMAIN q = 1..k /\ \A i \in 1..k : q[i] = i
    OBVIOUS
  <2>2. PullLoop(w) = FoldLeft(PullTurn, w, q)
    BY DEF PullLoop
  <2> HIDE DEF q, k
  <2>3. PICK f : Runs(f, "pull", w, k, q) /\ FoldLeft(PullTurn, w, q) = f[k]
    BY <1>0, <2>1, PullTurnsRun
  <2> QED
    BY <2>1, <2>2, <2>3 DEF Runs, StepOf
<1> HIDE DEF p
<1>3. Upto(0) = w /\ Upto(k) = [w EXCEPT !.contiguous = p]
  <2>1. At(0) = w.contiguous /\ At(k) = p
    BY <1>0, <1>1
  <2> HIDE DEF At, k
  <2> QED
    BY <2>1 DEF WindowType
<1>4. ASSUME NEW i \in 1..k PROVE PullTurn(Upto(i - 1), i) = Upto(i)
  <2> DEFINE v == Upto(i - 1)
  <2>1. /\ v.contiguous = At(i - 1) /\ v.lastSeen = w.lastSeen /\ v.bits = w.bits
        /\ \A x : [v EXCEPT !.contiguous = x] = [w EXCEPT !.contiguous = x]
    <3> HIDE DEF At
    <3> QED
      BY DEF WindowType
  <2>2. CASE w.contiguous + i <= p
    <3>1. /\ At(i - 1) = w.contiguous + i - 1 /\ At(i) = w.contiguous + i
          /\ w.contiguous + i - 1 < w.lastSeen /\ w.contiguous + i - 1 + 1 = w.contiguous + i
          /\ w.contiguous + i \in (w.contiguous + 1)..p
      BY <1>0, <1>1, <2>2
    <3>2. v.contiguous < v.lastSeen /\ v.contiguous + 1 = At(i)
      BY <1>0, <2>1, <3>1
    <3>3. Test(v, v.contiguous + 1)
      BY <1>1, <2>1, <3>1, <3>2 DEF Test
    <3>4. PullTurn(v, i) = [v EXCEPT !.contiguous = @ + 1]
      <4> HIDE DEF v
      <4> QED
        BY <3>2, <3>3 DEF PullTurn
    <3> HIDE DEF At, v
    <3>5. PullTurn(v, i) = [v EXCEPT !.contiguous = At(i)]
      BY <3>2, <3>4
    <3>6. PullTurn(v, i) = [w EXCEPT !.contiguous = At(i)]
      BY <2>1, <3>5
    <3> QED
      BY <3>6 DEF v
  <2>3. CASE ~(w.contiguous + i <= p)
    <3>1. At(i - 1) = p /\ At(i) = p
      BY <1>0, <1>1, <2>3
    <3>2. ~(v.contiguous < v.lastSeen /\ Test(v, v.contiguous + 1))
      <4> HIDE DEF v, At
      <4> QED
        BY <1>1, <2>1, <3>1 DEF Test
    <3>3. PullTurn(v, i) = v
      <4> HIDE DEF v
      <4> QED
        BY <3>2 DEF PullTurn
    <3> HIDE DEF At
    <3> QED
      BY <3>1, <3>3
  <2> QED
    BY <2>2, <2>3
<1> DEFINE Bad == {i \in 0..k : f[i] # Upto(i)}
<1> HIDE DEF Upto
<1>5. Bad = {}
  <2> SUFFICES ASSUME Bad # {} PROVE FALSE
    OBVIOUS
  <2> HIDE DEF k
  <2>1. PICK m \in Bad : \A d \in Bad : m <= d
    <3>1. Bad \subseteq 0..k /\ 0 \in Int /\ k \in Int
      BY <1>0
    <3> HIDE DEF Bad
    <3> QED
      BY <3>1, LeastElement
  <2>2. m \in 1..k /\ f[m] # Upto(m)
    BY <1>0, <1>2, <1>3, <2>1
  <2>3. m - 1 \in 0..k /\ m - 1 \notin Bad
    BY <1>0, <2>1, <2>2
  <2>4. f[m - 1] = Upto(m - 1)
    BY <2>3
  <2>5. f[m] = PullTurn(Upto(m - 1), m)
    BY <1>2, <2>2, <2>4
  <2> HIDE DEF Bad
  <2> QED
    BY <1>4, <2>2, <2>5
<1>6. f[k] = Upto(k)
  <2> HIDE DEF k
  <2> QED
    BY <1>0, <1>5
<1> QED
  BY <1>1, <1>2, <1>3, <1>6, Zenon

\* A late record's loop too.
LEMMA LateLoopPulls ==
  ASSUME NEW w \in WindowType, w.contiguous <= w.lastSeen, NEW s \in Int
  PROVE  PullLoop([w EXCEPT !.bits = @ \cup {Slot(s)}]) = SetLate(w, s)
<1> DEFINE v == [w EXCEPT !.bits = @ \cup {Slot(s)}]
<1>1. Slot(s) \in 0..(W - 1)
  BY SlotType
<1>2. v \in WindowType /\ v.contiguous <= v.lastSeen
  BY <1>1 DEF WindowType
<1> HIDE DEF v
<1>3. PullLoop(v) = Pulled(v)
  BY <1>2, PullLoopPulls
<1> QED
  BY <1>3 DEF v, SetLate

\* A window whose fields are assigned, all four or two of them.
Assign(w, l, c, m, s) ==
  [w EXCEPT !.lastSeen = l, !.contiguous = c, !.lost = m, !.bits = s]
AssignTop(w, l, s) == [w EXCEPT !.lastSeen = l, !.bits = s]
WindowOf(b, l, c, m, s) ==
  [bootId |-> b, lastSeen |-> l, contiguous |-> c, lost |-> m, bits |-> s]

LEMMA Assigned ==
  ASSUME NEW b, NEW l, NEW c, NEW m, NEW s, NEW l2, NEW c2, NEW m2, NEW s2
  PROVE  /\ Assign(WindowOf(b, l, c, m, s), l2, c2, m2, s2) = WindowOf(b, l2, c2, m2, s2)
         /\ AssignTop(WindowOf(b, l, c, m, s), l2, s2) = WindowOf(b, l2, c, m, s2)
<1> DEFINE w == [bootId |-> b, lastSeen |-> l, contiguous |-> c, lost |-> m, bits |-> s]
           Fields == {"bootId", "lastSeen", "contiguous", "lost", "bits"}
<1>1. [w EXCEPT !.lastSeen = l2, !.contiguous = c2, !.lost = m2, !.bits = s2] =
        [bootId |-> b, lastSeen |-> l2, contiguous |-> c2, lost |-> m2, bits |-> s2]
  <2> DEFINE u == [w EXCEPT !.lastSeen = l2, !.contiguous = c2, !.lost = m2, !.bits = s2]
             v == [bootId |-> b, lastSeen |-> l2, contiguous |-> c2, lost |-> m2, bits |-> s2]
  <2>1. u.bootId = b /\ v.bootId = b
    OBVIOUS
  <2>2. u.lastSeen = l2 /\ v.lastSeen = l2
    OBVIOUS
  <2>3. u.contiguous = c2 /\ v.contiguous = c2
    OBVIOUS
  <2>4. u.lost = m2 /\ v.lost = m2
    OBVIOUS
  <2>5. u.bits = s2 /\ v.bits = s2
    OBVIOUS
  <2>6. DOMAIN u = Fields /\ DOMAIN v = Fields
    OBVIOUS
  <2>7. u = [k \in DOMAIN u |-> u[k]] /\ v = [k \in DOMAIN v |-> v[k]]
    BY Zenon
  <2> HIDE DEF u, v
  <2>8. \A k \in Fields : u[k] = v[k]
    BY <2>1, <2>2, <2>3, <2>4, <2>5
  <2>9. u = v
    BY <2>6, <2>7, <2>8
  <2> QED
    BY <2>9 DEF u, v
<1>2. [w EXCEPT !.lastSeen = l2, !.bits = s2] =
        [bootId |-> b, lastSeen |-> l2, contiguous |-> c, lost |-> m, bits |-> s2]
  <2> DEFINE u == [w EXCEPT !.lastSeen = l2, !.bits = s2]
             v == [bootId |-> b, lastSeen |-> l2, contiguous |-> c, lost |-> m, bits |-> s2]
  <2>1. u.bootId = b /\ v.bootId = b
    OBVIOUS
  <2>2. u.lastSeen = l2 /\ v.lastSeen = l2
    OBVIOUS
  <2>3. u.contiguous = c /\ v.contiguous = c
    OBVIOUS
  <2>4. u.lost = m /\ v.lost = m
    OBVIOUS
  <2>5. u.bits = s2 /\ v.bits = s2
    OBVIOUS
  <2>6. DOMAIN u = Fields /\ DOMAIN v = Fields
    OBVIOUS
  <2>7. u = [k \in DOMAIN u |-> u[k]] /\ v = [k \in DOMAIN v |-> v[k]]
    BY Zenon
  <2> HIDE DEF u, v
  <2>8. \A k \in Fields : u[k] = v[k]
    BY <2>1, <2>2, <2>3, <2>4, <2>5
  <2>9. u = v
    BY <2>6, <2>7, <2>8
  <2> QED
    BY <2>9 DEF u, v
<1> QED
  BY <1>1, <1>2 DEF Assign, AssignTop, WindowOf

\* advance(), loop by loop, is Advance.
LEMMA AdvanceLoopAdvances ==
  ASSUME NEW w \in WindowType, w.contiguous <= w.lastSeen, w.lastSeen - W <= w.contiguous,
         NEW seq \in SeqNo, seq > w.lastSeen
  PROVE  AdvanceLoop(w, seq) = Advance(w, seq)
<1> USE SeqAssumption, WindowAssumption
<1>0. /\ w.contiguous \in Int /\ w.lastSeen \in Int /\ w.lost \in Nat /\ seq \in Int
      /\ seq \in 0..MaxSeq /\ -1 <= w.contiguous
  BY DEF WindowType, SeqNo
<1> DEFINE end == IF seq < w.lastSeen + W THEN seq ELSE w.lastSeen + W
           k == end - w.lastSeen
           t == Turned(w, k)
           jumped == IF seq > end THEN Jump(t, seq) ELSE t
           empty == w.bits \ Reused(w, seq)
           v == [bootId |-> w.bootId, lastSeen |-> seq, contiguous |-> Raised(w, seq),
                 lost |-> w.lost + Cardinality(Missed(w, seq)), bits |-> empty \cup {Slot(seq)}]
<1>1. k \in 0..W /\ end \in Int /\ w.lastSeen + k = end
  BY <1>0
<1>2. FoldLeft(Turn, w, [i \in 1..k |-> w.lastSeen + i]) = t
  <2> HIDE DEF k
  <2> QED
    BY <1>1, TurnsMake
<1>3. AdvanceLoop(w, seq) = PullLoop([jumped EXCEPT !.lastSeen = seq, !.bits = @ \cup {Slot(seq)}])
  <2> HIDE DEF t
  <2> QED
    BY <1>2 DEF AdvanceLoop
<1>4. Advance(w, seq) = Pulled(v)
  <2>1. v = [w EXCEPT !.lastSeen = seq,
               !.contiguous = IF seq - W > @ THEN seq - W ELSE @,
               !.lost = @ + Cardinality(Missed(w, seq)),
               !.bits = (@ \ Reused(w, seq)) \cup {Slot(seq)}]
    <3> DEFINE m == Cardinality(Missed(w, seq))
               s == Slot(seq)
               r == Reused(w, seq)
    <3>1. Raised(w, seq) = IF seq - W > w.contiguous THEN seq - W ELSE w.contiguous
      BY DEF Raised
    <3> HIDE DEF m, s, r
    <3>2. [w EXCEPT !.lastSeen = seq,
             !.contiguous = IF seq - W > @ THEN seq - W ELSE @,
             !.lost = @ + m, !.bits = (@ \ r) \cup {s}] =
          [bootId |-> w.bootId, lastSeen |-> seq, contiguous |-> Raised(w, seq),
           lost |-> w.lost + m, bits |-> (w.bits \ r) \cup {s}]
      <4>1. w = WindowOf(w.bootId, w.lastSeen, w.contiguous, w.lost, w.bits)
        BY DEF WindowType, WindowOf
      <4>2. [w EXCEPT !.lastSeen = seq,
               !.contiguous = IF seq - W > @ THEN seq - W ELSE @,
               !.lost = @ + m, !.bits = (@ \ r) \cup {s}] =
            Assign(w, seq, Raised(w, seq), w.lost + m, (w.bits \ r) \cup {s})
        BY <3>1 DEF Assign
      <4>3. Assign(w, seq, Raised(w, seq), w.lost + m, (w.bits \ r) \cup {s}) =
              WindowOf(w.bootId, seq, Raised(w, seq), w.lost + m, (w.bits \ r) \cup {s})
        BY <4>1, Assigned
      <4> QED
        BY <4>2, <4>3 DEF WindowOf
    <3> QED
      BY <3>2 DEF m, s, r
  <2> QED
    BY <2>1 DEF Advance
<1>5. v \in WindowType /\ v.contiguous <= v.lastSeen
  <2>1. Cardinality(Missed(w, seq)) \in Nat
    <3>1. Missed(w, seq) \subseteq (w.contiguous + 1)..(seq - W)
      BY DEF Missed
    <3>2. w.contiguous + 1 \in Int /\ seq - W \in Int
      BY <1>0
    <3> QED
      BY <3>1, <3>2, FS_Interval, FS_Subset, FS_CardinalityType
  <2>2. Slot(seq) \in 0..(W - 1)
    BY <1>0, SlotType
  <2>3. empty \cup {Slot(seq)} \in SUBSET (0..(W - 1))
    BY <2>2 DEF WindowType
  <2>4. Raised(w, seq) \in -1..MaxSeq /\ Raised(w, seq) <= seq
    BY <1>0 DEF Raised, WindowType
  <2>5. w.lost + Cardinality(Missed(w, seq)) \in Nat
    BY <1>0, <2>1
  <2> HIDE DEF empty
  <2> QED
    BY <1>0, <2>3, <2>4, <2>5 DEF WindowType
<1>6. jumped = [bootId |-> w.bootId, lastSeen |-> w.lastSeen, contiguous |-> Raised(w, seq),
                lost |-> w.lost + Cardinality(Missed(w, seq)), bits |-> empty]
  <2>1. CASE seq <= w.lastSeen + W
    <3>1. end = seq /\ w.lastSeen + k = seq
      BY <1>0, <2>1
    <3>2. jumped = t
      BY <1>0, <3>1
    <3>3. Leaving(w, k) = Missed(w, seq)
      <4>1. \A n \in (w.contiguous + 1)..(seq - W) : ~(n > w.lastSeen)
        BY <1>0, <2>1
      <4>2. Leaving(w, k) = {n \in (w.contiguous + 1)..(seq - W) : ~Test(w, n)}
        <5> HIDE DEF k
        <5> QED
          BY <1>0, <1>1, <3>1 DEF Leaving
      <4> QED
        BY <4>1, <4>2 DEF Missed
    <3> HIDE DEF k, end
    <3>4. empty = w.bits \ {Slot(n) : n \in (w.lastSeen + 1)..(w.lastSeen + k)}
      BY <3>1 DEF Reused
    <3> HIDE DEF empty, jumped
    <3> QED
      BY <3>1, <3>2, <3>3, <3>4 DEF Turned
  <2>2. CASE seq > w.lastSeen + W
    <3>1. end = w.lastSeen + W /\ k = W /\ seq > end
      BY <1>0, <2>2
    <3>2. t.contiguous = w.lastSeen
      <4>1. Raised(w, w.lastSeen + W) = w.lastSeen
        BY <1>0 DEF Raised
      <4> HIDE DEF k
      <4> QED
        BY <3>1, <4>1 DEF Turned
    <3>3. t = [bootId |-> w.bootId, lastSeen |-> w.lastSeen, contiguous |-> w.lastSeen,
               lost |-> w.lost + Cardinality(Leaving(w, W)), bits |-> t.bits]
      <4> HIDE DEF k
      <4> QED
        BY <3>1, <3>2 DEF Turned
    <3>4. Raised(w, seq) = seq - W /\ seq - W > w.lastSeen
      BY <1>0, <2>2 DEF Raised
    <3>5. /\ Cardinality(Leaving(w, W)) \in Nat
          /\ Cardinality(Missed(w, seq)) = Cardinality(Leaving(w, W)) + (seq - W - w.lastSeen)
      <4> DEFINE L == Leaving(w, W)
                 R == (w.lastSeen + 1)..(seq - W)
      <4>1. L = {n \in (w.contiguous + 1)..w.lastSeen : ~Test(w, n)}
        <5>1. w.lastSeen + W - W = w.lastSeen
          BY <1>0
        <5> QED
          BY <5>1 DEF Leaving
      <4>2. L \subseteq (w.contiguous + 1)..w.lastSeen /\ w.contiguous + 1 \in Int
        BY <1>0, <4>1
      <4>3. IsFiniteSet(L) /\ Cardinality(L) \in Nat
        BY <1>0, <4>2, FS_Interval, FS_Subset, FS_CardinalityType
      <4>4. IsFiniteSet(R) /\ Cardinality(R) = seq - W - w.lastSeen
        <5>1. PICK a \in Int : a = w.lastSeen + 1
          BY <1>0
        <5>2. PICK n \in Nat : n = seq - W - w.lastSeen
          BY <1>0, <2>2
        <5>3. R = a..(a + n - 1)
          BY <1>0, <5>1, <5>2
        <5> QED
          BY <5>2, <5>3, RunSize
      <4>5. (w.contiguous + 1)..(seq - W) = ((w.contiguous + 1)..w.lastSeen) \cup R
        BY <1>0, <2>2
      <4>6. \A n \in (w.contiguous + 1)..w.lastSeen : ~(n > w.lastSeen)
        BY <1>0
      <4>7. \A n \in R : n > w.lastSeen
        BY <1>0
      <4>8. Missed(w, seq) = L \cup R /\ L \cap R = {}
        <5> HIDE DEF R, L
        <5> QED
          BY <4>1, <4>2, <4>5, <4>6, <4>7 DEF Missed
      <4>9. Cardinality(L \cap R) = 0
        BY <4>8, FS_EmptySet
      <4> HIDE DEF L, R
      <4>10. Cardinality(L \cup R) = Cardinality(L) + Cardinality(R) - Cardinality(L \cap R)
        BY <4>3, <4>4, FS_Union
      <4>11. Cardinality(Missed(w, seq)) = Cardinality(L) + (seq - W - w.lastSeen)
        BY <1>0, <4>3, <4>4, <4>8, <4>9, <4>10
      <4> QED
        BY <4>3, <4>11 DEF L
    <3>6. empty = {}
      <4> SUFFICES ASSUME NEW b \in w.bits PROVE b \in Reused(w, seq)
        OBVIOUS
      <4>1. b \in 0..(W - 1)
        BY DEF WindowType
      <4>2. PICK a \in Int : a = w.lastSeen + 1
        BY <1>0
      <4>3. PICK n \in a..(a + W - 1) : Slot(n) = b
        BY <4>1, SlotsAllUsed
      <4>4. n \in (w.lastSeen + 1)..seq
        BY <1>0, <2>2, <4>2
      <4> QED
        BY <4>3, <4>4 DEF Reused
    <3>7. jumped = Jump(t, seq)
      BY <3>1
    <3>8. Jump(t, seq) = [[t EXCEPT !.bits = {}]
                          EXCEPT !.lost = @ + (seq - W) - t.contiguous, !.contiguous = seq - W]
      <4>1. seq - W > t.contiguous
        BY <3>2, <3>4
      <4> HIDE DEF t
      <4> QED
        BY <4>1 DEF Jump
    <3>9. t.lost + (seq - W) - t.contiguous = w.lost + Cardinality(Missed(w, seq))
      <4>1. t.lost = w.lost + Cardinality(Leaving(w, W))
        BY <3>3
      <4> HIDE DEF t
      <4> QED
        BY <1>0, <3>2, <3>5, <4>1
    <3> HIDE DEF t, empty, jumped
    <3>10. Jump(t, seq) = [bootId |-> t.bootId, lastSeen |-> t.lastSeen, contiguous |-> seq - W,
                           lost |-> t.lost + (seq - W) - t.contiguous, bits |-> {}]
      BY <3>3, <3>8
    <3> QED
      BY <3>3, <3>4, <3>6, <3>7, <3>9, <3>10
  <2> QED
    BY <1>0, <2>1, <2>2
<1>7. [jumped EXCEPT !.lastSeen = seq, !.bits = @ \cup {Slot(seq)}] = v
  <2> DEFINE r == Raised(w, seq)
             m == w.lost + Cardinality(Missed(w, seq))
             s == Slot(seq)
  <2> HIDE DEF jumped, empty, r, m, s
  <2>1. jumped = [bootId |-> w.bootId, lastSeen |-> w.lastSeen, contiguous |-> r,
                  lost |-> m, bits |-> empty]
    BY <1>6 DEF r, m
  <2>2. [jumped EXCEPT !.lastSeen = seq, !.bits = @ \cup {s}] =
          [bootId |-> w.bootId, lastSeen |-> seq, contiguous |-> r,
           lost |-> m, bits |-> empty \cup {s}]
    <3>1. jumped.bits = empty
      BY <2>1
    <3>2. [jumped EXCEPT !.lastSeen = seq, !.bits = @ \cup {s}] =
          AssignTop(jumped, seq, empty \cup {s})
      BY <3>1 DEF AssignTop
    <3>3. jumped = WindowOf(w.bootId, w.lastSeen, r, m, empty)
      BY <2>1 DEF WindowOf
    <3>4. AssignTop(jumped, seq, empty \cup {s}) = WindowOf(w.bootId, seq, r, m, empty \cup {s})
      BY <3>3, Assigned
    <3> QED
      BY <3>2, <3>4 DEF WindowOf
  <2> QED
    BY <2>2 DEF r, m, s
<1> HIDE DEF v, jumped
<1> QED
  BY <1>3, <1>4, <1>5, <1>7, PullLoopPulls

------------------------------------------------------------------------------
(* The Java loops and SeqDedup of dedup.py.                                *)

\* A record that resets the window is accepted into the new one by both.
LEMMA OpeningAgrees ==
  ASSUME LossInv, NEW b \in Boot, NEW s \in SeqNo, win.bootId # b
  PROVE  /\ Counted(Opened(win, b, s), s) = CounterOf(Judge(win, b, s))
         /\ StateAfter(Opened(win, b, s), s) = WindowAfter(b, s)
<1> USE SeqAssumption, WindowAssumption, BootAssumption
<1> DEFINE r == Reset(b, s)
<1>1. Opened(win, b, s) = r
  BY DEF Opened
<1>2. Judge(win, b, s) \in {"FIRST", "BOOT_RESET"}
  <2>1. CASE win.bootId = NoBoot
    BY <2>1 DEF Judge
  <2>2. CASE win.bootId # NoBoot
    BY <2>2 DEF Judge
  <2> QED
    BY <2>1, <2>2
<1>3. /\ r \in WindowType /\ r.contiguous <= r.lastSeen /\ r.lastSeen - W <= r.contiguous
      /\ s > r.lastSeen /\ ~(s <= r.lastSeen - W)
  BY DEF Reset, WindowType, SeqNo
<1> HIDE DEF r
<1>4. Counted(r, s) = "accepted"
  BY <1>3 DEF Counted
<1>5. AdvanceLoop(r, s) = Advance(r, s)
  BY <1>3, AdvanceLoopAdvances
<1>6. StateAfter(r, s) = Advance(r, s)
  BY <1>4, <1>5 DEF StateAfter
<1>7. CounterOf(Judge(win, b, s)) = "accepted"
  <2> DEFINE v == Judge(win, b, s)
  <2> HIDE DEF v
  <2>1. v \in {"FIRST", "BOOT_RESET"} => CounterOf(v) = "accepted"
    BY DEF CounterOf
  <2> QED
    BY <1>2, <2>1 DEF v
<1>8. WindowAfter(b, s) = Advance(r, s)
  BY <1>2 DEF WindowAfter, r
<1> QED
  BY <1>1, <1>4, <1>6, <1>7, <1>8

\* So is every other record judged alike, with the same effect.
LEMMA JudgingAgrees ==
  ASSUME LossInv, NEW b \in Boot, NEW s \in SeqNo, win.bootId = b
  PROVE  /\ Counted(Opened(win, b, s), s) = CounterOf(Judge(win, b, s))
         /\ StateAfter(Opened(win, b, s), s) = WindowAfter(b, s)
<1> USE SeqAssumption, WindowAssumption, BootAssumption
<1>0. /\ win \in WindowType /\ win.lastSeen \in Int /\ win.contiguous \in Int
      /\ win.contiguous <= win.lastSeen /\ win.lastSeen - W <= win.contiguous
      /\ s \in Int /\ win.bootId # NoBoot
  BY WindowInvFacts DEF LossInv, Judged, SeqNo
<1>1. Opened(win, b, s) = win
  BY DEF Opened
<1>2. CASE s > win.lastSeen
  <2>1. Judge(win, b, s) = "ACCEPT"
    BY <1>0, <1>2 DEF Judge
  <2>2. Counted(win, s) = "accepted"
    <3>1. ~(s <= win.lastSeen - W)
      BY <1>0, <1>2
    <3> QED
      BY <1>2, <3>1 DEF Counted
  <2>3. AdvanceLoop(win, s) = Advance(win, s)
    BY <1>0, <1>2, AdvanceLoopAdvances
  <2> QED
    BY <1>1, <2>1, <2>2, <2>3 DEF CounterOf, StateAfter, WindowAfter
<1>3. CASE s <= win.lastSeen - W
  <2>1. Judge(win, b, s) = "TOO_OLD"
    BY <1>0, <1>3 DEF Judge
  <2>2. Counted(win, s) = "too_old"
    BY <1>0, <1>3 DEF Counted
  <2> QED
    BY <1>1, <2>1, <2>2 DEF CounterOf, StateAfter, WindowAfter
<1>4. CASE s \in (win.lastSeen - W + 1)..win.lastSeen
  <2>1. ~(s > win.lastSeen) /\ ~(s <= win.lastSeen - W)
    BY <1>0, <1>4
  <2>2. CASE Test(win, s)
    <3>1. Judge(win, b, s) = "DUPLICATE"
      BY <1>0, <1>4, <2>1, <2>2 DEF Judge
    <3>2. Counted(win, s) = "duplicate"
      BY <2>1, <2>2 DEF Counted
    <3> QED
      BY <1>1, <3>1, <3>2 DEF CounterOf, StateAfter, WindowAfter
  <2>3. CASE ~Test(win, s)
    <3>1. Judge(win, b, s) = "LATE"
      BY <1>0, <1>4, <2>1, <2>3 DEF Judge
    <3>2. Counted(win, s) = "late"
      BY <2>1, <2>3 DEF Counted
    <3>3. PullLoop([win EXCEPT !.bits = @ \cup {Slot(s)}]) = SetLate(win, s)
      BY <1>0, LateLoopPulls
    <3> QED
      BY <1>1, <3>1, <3>2, <3>3 DEF CounterOf, StateAfter, WindowAfter
  <2> QED
    BY <2>2, <2>3
<1> QED
  BY <1>0, <1>2, <1>3, <1>4

\* What progress() of dedup.py calls pending holes never went downstream.
LEMMA HolesAreExact ==
  ASSUME LossInv
  PROVE  PendingHoles(win) =
           Cardinality({s \in (win.contiguous + 1)..win.lastSeen : passed[s] = 0})
<1> USE SeqAssumption, WindowAssumption
<1> DEFINE open == (win.contiguous + 1)..win.lastSeen
           arrived == {n \in open : Test(win, n)}
           missing == {s \in open : passed[s] = 0}
<1>0. /\ win \in WindowType /\ win.lastSeen \in Int /\ win.contiguous \in Int
      /\ win.contiguous <= win.lastSeen /\ win.lastSeen - W <= win.contiguous
      /\ passed \in [SeqNo -> Nat]
      /\ -1 <= win.contiguous /\ win.lastSeen <= MaxSeq
  BY WindowInvFacts DEF LossInv, Judged, WindowType
<1>1. ASSUME NEW n \in open PROVE Test(win, n) <=> passed[n] # 0
  <2>1. n \in SeqNo /\ n \in (win.lastSeen - W + 1)..win.lastSeen
    <3>1. PICK c \in Int : c = win.contiguous
      BY <1>0
    <3>2. PICK l \in Int : l = win.lastSeen
      BY <1>0
    <3>3. n \in (c + 1)..l /\ l - W <= c /\ -1 <= c /\ l <= MaxSeq
      BY <1>0, <3>1, <3>2
    <3>4. n \in 0..MaxSeq /\ n \in (l - W + 1)..l
      BY <3>3
    <3> QED
      BY <3>2, <3>4 DEF SeqNo
  <2>2. passed[n] \in Nat /\ passed[n] <= 1 /\ (Test(win, n) <=> passed[n] = 1)
    BY <1>0, <2>1 DEF LossInv, WindowInv, Mirror, AtMostOnce
  <2> QED
    BY <2>2
<1>2. Cardinality(open) = win.lastSeen - win.contiguous /\ IsFiniteSet(open)
  <2>1. PICK a \in Int : a = win.contiguous + 1
    BY <1>0
  <2>2. PICK n \in Nat : n = win.lastSeen - win.contiguous
    BY <1>0
  <2>3. PICK l \in Int : l = win.lastSeen
    BY <1>0
  <2>4. l = a + n - 1
    BY <1>0, <2>1, <2>2, <2>3
  <2>5. open = a..(a + n - 1)
    BY <2>1, <2>3, <2>4
  <2> QED
    BY <2>2, <2>5, RunSize
<1> HIDE DEF open
<1>3. /\ arrived \cup missing = open /\ arrived \cap missing = {}
      /\ arrived \subseteq open /\ missing \subseteq open
  BY <1>1
<1> HIDE DEF arrived, missing
<1>4. IsFiniteSet(arrived) /\ IsFiniteSet(missing)
  BY <1>2, <1>3, FS_Subset
<1>5. Cardinality(arrived) \in Nat /\ Cardinality(missing) \in Nat
  BY <1>4, FS_CardinalityType
<1>6. Cardinality(arrived \cup missing) =
        Cardinality(arrived) + Cardinality(missing) - Cardinality(arrived \cap missing)
  BY <1>4, FS_Union
<1>7. Cardinality(missing) = (win.lastSeen - win.contiguous) - Cardinality(arrived)
  <2>1. PICK x \in Nat, y \in Nat : x = Cardinality(arrived) /\ y = Cardinality(missing)
    BY <1>5, Zenon
  <2>2. Cardinality(arrived \cap missing) = 0
    BY <1>3, FS_EmptySet
  <2>3. Cardinality(open) = x + y
    <3>1. Cardinality(open) = Cardinality(arrived \cup missing)
      BY <1>3, Zenon
    <3>2. Cardinality(open) = Cardinality(arrived) + Cardinality(missing) - 0
      BY <1>6, <2>2, <3>1
    <3> QED
      BY <2>1, <3>2
  <2>4. PICK d \in Int : d = win.lastSeen - win.contiguous
    BY <1>0
  <2>5. y = d - x
    BY <1>2, <2>3, <2>4
  <2> QED
    BY <2>1, <2>4, <2>5
<1> QED
  BY <1>7 DEF PendingHoles, arrived, missing, open

\* The two de-duplicators are one.  advance()'s loop over the slots, its jump branch and
\* pullContiguous() of SeqWindow.java end where the closed forms of SeqWindow do, which
\* the other theorems are about; dedup.py judges every record alike and ends in the same
\* state; and its pending_holes are the seqs above contiguous that never went downstream.
THEOREM LoopsComputeTheWindow == WindowSpec => []ImplementationsAgree
<1>1. LossInv => ImplementationsAgree
  <2> SUFFICES ASSUME LossInv PROVE ImplementationsAgree
    OBVIOUS
  <2>1. /\ win \in WindowType /\ win.lastSeen \in Int
        /\ win.contiguous <= win.lastSeen /\ win.lastSeen - W <= win.contiguous
    BY WindowInvFacts, WindowAssumption DEF LossInv, Judged
  <2>2. \A s \in SeqNo : s > win.lastSeen => AdvanceLoop(win, s) = Advance(win, s)
    BY <2>1, AdvanceLoopAdvances
  <2>3. \A s \in (win.lastSeen - W + 1)..win.lastSeen :
          PullLoop([win EXCEPT !.bits = @ \cup {Slot(s)}]) = SetLate(win, s)
    BY <2>1, LateLoopPulls
  <2>4. ASSUME NEW b \in Boot, NEW s \in SeqNo
        PROVE  /\ Counted(Opened(win, b, s), s) = CounterOf(Judge(win, b, s))
               /\ StateAfter(Opened(win, b, s), s) = WindowAfter(b, s)
    BY OpeningAgrees, JudgingAgrees
  <2> QED
    BY <2>2, <2>3, <2>4, HolesAreExact DEF ImplementationsAgree, LoopsAgree
<1> QED
  BY <1>1, LossInvariance, PTL
=============================================================================
