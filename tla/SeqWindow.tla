------------------------------ MODULE SeqWindow ------------------------------
(***************************************************************************)
(* The per-vehicle sliding bitmap of the Flink de-duplicator               *)
(* (SeqWindow.java, driven by DedupFunction.processElement).               *)
(*                                                                         *)
(* One keyed state: the records of one vehicle, in whatever order the      *)
(* telemetry topic delivers them.  A record is a boot id and a seq; the    *)
(* window is a set of used slots, slot n % W.  The two loops of the Java   *)
(* code (advance, pullContiguous) are written in closed form here;         *)
(* SeqWindowLoops has them turn by turn and MCSeqWindow compares the two.  *)
(* Bytes and shifts of the packed array are abstracted to the slot number. *)
(***************************************************************************)
EXTENDS Integers, FiniteSets

CONSTANTS Boot,     \* boot ids, one per life of a WAL directory
          W,        \* width of the window, DEFAULT_WINDOW in the code
          MaxSeq,   \* bound: the largest seq a record carries
          NoBoot    \* bootId == null, before the first record

\* The constructor demands a power of two so that seq & (W-1) is seq % W.
ASSUME WindowAssumption == W \in Nat \ {0}
ASSUME SeqAssumption == MaxSeq \in Nat
ASSUME BootAssumption == NoBoot \notin Boot

VARIABLES
  win,       \* the SeqWindow object in Flink state "seq-window"
  base,      \* history: contiguous as the last reset() left it
  passed     \* history: how often each seq went downstream since that reset()

windowVars == <<win, base, passed>>

SeqNo == 0..MaxSeq

------------------------------------------------------------------------------
(* The bitmap.                                                             *)

\* Mutant: the mask is forgotten.
SlotUnmasked(n) == n

Slot(n) == n % W
Test(w, n) == Slot(n) \in w.bits

\* The object before its first record.
NewWindow == [bootId |-> NoBoot, lastSeen |-> -1, contiguous |-> -1,
              lost |-> 0, bits |-> {}]

Reset(boot, seq) ==
  [bootId |-> boot, lastSeen |-> seq - 1, contiguous |-> seq - 1,
   lost |-> 0, bits |-> {}]

\* pullContiguous(): as far as the bits run on without a hole.
Pulled(w) ==
  [w EXCEPT !.contiguous =
     CHOOSE c \in w.contiguous..w.lastSeen :
       /\ \A n \in (w.contiguous + 1)..c : Test(w, n)
       /\ c < w.lastSeen => ~Test(w, c + 1)]

\* Mutant: what a wide jump leaps over is never counted.
MissedInWindow(w, seq) ==
  {n \in (w.contiguous + 1)..(seq - W) : n <= w.lastSeen /\ ~Test(w, n)}

\* The seqs advance() condemns: those between contiguous and the new lower
\* edge with no bit set.  A seq above lastSeen has not arrived, whatever bit
\* an older seq left in its slot.
Missed(w, seq) ==
  {n \in (w.contiguous + 1)..(seq - W) : n > w.lastSeen \/ ~Test(w, n)}

\* Mutant: only the slot of the new record is emptied, not the skipped ones.
ReusedOne(w, seq) == {Slot(seq)}

\* The slots advance() empties before the new record takes one of them.
Reused(w, seq) == {Slot(n) : n \in (w.lastSeen + 1)..seq}

\* advance(): what falls out of the window is judged before its slot is reused.
Advance(w, seq) ==
  Pulled([w EXCEPT
    !.lastSeen = seq,
    !.contiguous = IF seq - W > @ THEN seq - W ELSE @,
    !.lost = @ + Cardinality(Missed(w, seq)),
    !.bits = (@ \ Reused(w, seq)) \cup {Slot(seq)}])

\* Mutant: a late record leaves no bit behind.
SetLateForgotten(w, seq) == Pulled(w)

\* A late record only fills its hole.
SetLate(w, seq) == Pulled([w EXCEPT !.bits = @ \cup {Slot(seq)}])

------------------------------------------------------------------------------
(* accept(): the verdict, and what it does to the window.                  *)

\* Mutant: the window has no lower edge.
JudgeNoFloor(w, boot, seq) ==
  CASE w.bootId = NoBoot -> "FIRST"
    [] w.bootId \notin {NoBoot, boot} -> "BOOT_RESET"
    [] w.bootId = boot /\ seq > w.lastSeen -> "ACCEPT"
    [] w.bootId = boot /\ seq <= w.lastSeen ->
         IF Test(w, seq) THEN "DUPLICATE" ELSE "LATE"

\* The verdict; FIRST is the ACCEPT that a reset precedes.
Judge(w, boot, seq) ==
  CASE w.bootId = NoBoot -> "FIRST"
    [] w.bootId \notin {NoBoot, boot} -> "BOOT_RESET"
    [] w.bootId = boot /\ seq > w.lastSeen -> "ACCEPT"
    [] w.bootId = boot /\ seq <= w.lastSeen - W -> "TOO_OLD"
    [] w.bootId = boot /\ seq \in (w.lastSeen - W + 1)..w.lastSeen ->
         IF Test(w, seq) THEN "DUPLICATE" ELSE "LATE"

Forwarding == {"FIRST", "ACCEPT", "LATE", "BOOT_RESET"}

\* reset() then advance(); the record is always forwarded.
OpenWindow(boot, seq) ==
  /\ Judge(win, boot, seq) \in {"FIRST", "BOOT_RESET"}
  /\ win' = Advance(Reset(boot, seq), seq)
  /\ base' = seq - 1
  /\ passed' = [s \in SeqNo |-> IF s = seq THEN 1 ELSE 0]

Accept(boot, seq) ==
  /\ Judge(win, boot, seq) = "ACCEPT"
  /\ win' = Advance(win, seq)
  /\ passed' = [passed EXCEPT ![seq] = @ + 1]
  /\ UNCHANGED base

Late(boot, seq) ==
  /\ Judge(win, boot, seq) = "LATE"
  /\ win' = SetLate(win, seq)
  /\ passed' = [passed EXCEPT ![seq] = @ + 1]
  /\ UNCHANGED base

\* DUPLICATE and TOO_OLD: only a metric moves, nothing is collected.
Drop(boot, seq) ==
  /\ Judge(win, boot, seq) \in {"DUPLICATE", "TOO_OLD"}
  /\ UNCHANGED windowVars

WindowInit ==
  /\ win = NewWindow
  /\ base = -1
  /\ passed = [s \in SeqNo |-> 0]

\* processElement() of one record of this vehicle.
ProcessElement(boot, seq) ==
  \/ OpenWindow(boot, seq)
  \/ Accept(boot, seq)
  \/ Late(boot, seq)
  \/ Drop(boot, seq)

WindowNext == \E boot \in Boot, seq \in SeqNo : ProcessElement(boot, seq)

WindowSpec == WindowInit /\ [][WindowNext]_windowVars

------------------------------------------------------------------------------
(* Properties.                                                             *)

\* Types, and the order of the cursors.
WindowTypeOK ==
  /\ win \in [bootId : Boot \cup {NoBoot}, lastSeen : -1..MaxSeq,
               contiguous : -1..MaxSeq, lost : Nat, bits : SUBSET (0..(W - 1))]
  /\ base \in -1..MaxSeq
  /\ passed \in [SeqNo -> Nat]

\* Within one life of the window no seq goes downstream twice, whatever order,
\* repetition or gaps the topic delivers it with (the point of processElement).
AtMostOnce == \A s \in SeqNo : passed[s] <= 1

\* A record is thrown away as a duplicate only if that very seq went downstream
\* before; a stale bit of the seq W back would lose a new record silently.
NoFreshDuplicate ==
  \A b \in Boot, s \in SeqNo :
    Judge(win, b, s) = "DUPLICATE" => passed[s] > 0

\* lost is exact: it counts the seqs at or below contiguous, and above the
\* first record of the window, that never went downstream.
LossIsExact ==
  win.lost =
    Cardinality({s \in (base + 1)..win.contiguous : passed[s] = 0})

\* The verdict "lost" is final: a seq given up by advance() is not forwarded
\* later in the same window, so lost never has to be taken back.
LossIsFinal ==
  [][\A s \in (base + 1)..win.contiguous :
       passed[s] = 0 /\ win'.bootId = win.bootId => passed'[s] = 0]_windowVars
=============================================================================
