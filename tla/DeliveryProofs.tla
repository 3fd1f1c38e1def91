---------------------------- MODULE DeliveryProofs ----------------------------
(***************************************************************************)
(* Proofs about the ingest path, for every window of the vehicle that fits *)
(* the bitmap, every queue, number of streams, range of seqs and budget of *)
(* failures: it implements ExactlyOnce, and the de-duplicator drops only   *)
(* duplicates and what the disk cap dropped.                               *)
(* A seq is Covered once it went downstream or is in DROPPED.  The heart   *)
(* is that COMMIT and the tracker's ack cover all seqs up to them, and     *)
(* that no record on its way is more than a window above what is covered.  *)
(***************************************************************************)
EXTENDS Delivery, SeqWindowProofs

Covered(s) == passed[s] = 1 \/ s < floor

\* No more than the vehicle's window above COMMIT, or above what was dropped.
Near(s) == s <= commit + MaxInflight \/ s < floor + MaxInflight

Records(g) == wire[g] \cup writing[g]

\* The de-duplicator of one boot.
Deduper ==
  /\ WindowInv
  /\ win.bootId \in {NoBoot, ThisBoot}
  /\ win.bootId = NoBoot => win.lastSeen = -1

\* The vehicle has in its queue what it issued, gave out, and has not committed.
Shipping ==
  /\ commit < walNext /\ shipNext <= walNext /\ sentTo < shipNext
  /\ Running => commit < shipNext
  /\ ~Running => queue = {} /\ cur = 0 /\ sentTo = None
  /\ queue \subseteq (commit + 1)..(shipNext - 1)
  /\ PendingCoversUncommitted
  /\ cur = 0 => acks = {}

\* What COMMIT covers went downstream or was dropped.
CommitCovers == \A s \in 0..commit : Covered(s)

\* Whatever is on its way, and what the de-duplicator saw last, is near.
AllNear ==
  /\ Near(win.lastSeen)
  /\ \A s \in queue : Near(s)
  /\ \A g \in Stream : \A s \in Records(g) : Near(s) /\ s < walNext

\* The tracker's ack covers every seq up to it, not only those of its stream.
AckCovers ==
  /\ tracker.start = None => tracker = NoTracker /\ acks = {}
  /\ tracker.start # None => \A s \in 0..tracker.ack : Covered(s)
  /\ \A s \in tracker.done : Covered(s) /\ s > tracker.ack
  /\ \A a \in acks : a <= tracker.ack

\* The present stream: its records are pending, each is in one place, none is known to
\* the tracker, and before the first is received the wire has all that was sent.
Present ==
  cur # 0 =>
    /\ Records(cur) \subseteq queue
    /\ wire[cur] \cap writing[cur] = {}
    /\ \A s \in Records(cur) : s <= sentTo /\ s \notin tracker.done
    /\ tracker.ack <= sentTo /\ \A s \in tracker.done : s <= sentTo
    /\ tracker.start # None => \A s \in Records(cur) : s > tracker.ack
    /\ tracker.start = None =>
         writing[cur] = {} /\ (cur \in open => wire[cur] = {s \in queue : s <= sentTo})

Sizes ==
  /\ Cardinality(queue) <= MaxInflight
  /\ Running => Cardinality(queue) <= shipNext - 1 - commit
  /\ \A g \in Stream : Cardinality(Records(g)) <= MaxInflight

IInv ==
  /\ TypeOK
  /\ \A g \in Stream \ open : wire[g] = {}
  /\ Deduper
  /\ Shipping
  /\ CommitCovers
  /\ AllNear
  /\ AckCovers
  /\ Present
  /\ Sizes

------------------------------------------------------------------------------
(* What the steps of the components do.                                    *)

\* The shape of the numbers the steps compute with.
LEMMA Numbers ==
  ASSUME IInv
  PROVE  /\ walNext \in Nat /\ commit \in Int /\ commit >= -1 /\ floor \in Nat
         /\ shipNext \in Nat /\ sentTo \in Int /\ sentTo >= -1
         /\ MaxInflight \in Nat /\ W \in Nat /\ MaxSeq \in Nat /\ MaxInflight <= W
         /\ walNext <= MaxSeq + 1 /\ floor <= walNext
         /\ commit <= MaxSeq /\ tracker.ack <= MaxSeq
         /\ win.lastSeen \in Int /\ tracker.ack \in Int /\ tracker.ack >= -1
         /\ \A s \in SeqNo : s \in Nat /\ s <= MaxSeq
         /\ queue \subseteq SeqNo /\ acks \subseteq SeqNo /\ tracker.done \subseteq SeqNo
         /\ \A g \in Stream : wire[g] \subseteq SeqNo /\ writing[g] \subseteq SeqNo
<1> USE DeliveryAssumption, SeqAssumption, WindowAssumption DEF SeqNo, None
<1>1. TypeOK /\ WindowInv
  BY DEF IInv, Deduper
<1>2. win.lastSeen \in Int
  BY <1>1, WindowInvFacts
<1>3. /\ queue \subseteq SeqNo /\ acks \subseteq SeqNo
      /\ tracker.done \subseteq SeqNo /\ tracker.ack \in {None} \cup SeqNo
  BY <1>1 DEF TypeOK
<1>4. \A g \in Stream : wire[g] \subseteq SeqNo /\ writing[g] \subseteq SeqNo
  BY <1>1 DEF TypeOK
<1>5. /\ walNext \in 0..(MaxSeq + 1) /\ commit \in {None} \cup SeqNo /\ floor \in 0..walNext
      /\ shipNext \in 0..(MaxSeq + 1) /\ sentTo \in {None} \cup SeqNo
  BY <1>1 DEF TypeOK
<1> QED
  BY <1>2, <1>3, <1>4, <1>5

\* The de-duplicator passes a record on that has not gone downstream, or changes
\* nothing for one that has, or that is below its window.
LEMMA PassesOnce ==
  ASSUME Deduper, NEW s \in SeqNo, ProcessElement(ThisBoot, s)
  PROVE  /\ Deduper'
         /\ win'.lastSeen \in {win.lastSeen, s}
         /\ \/ passed[s] = 0 /\ passed' = [passed EXCEPT ![s] = 1]
            \/ passed' = passed /\ (passed[s] = 1 \/ s <= win.lastSeen - W)
<1> USE WindowAssumption, SeqAssumption
<1>1. ThisBoot \in Boot /\ ThisBoot # NoBoot
  BY DeliveryAssumption, BootAssumption
<1>2. WindowInv'
  BY <1>1, NextWindowInv DEF Deduper, WindowNext
<1>3. /\ WindowInv /\ win \in WindowType /\ passed \in [SeqNo -> Nat]
      /\ win.contiguous <= win.lastSeen /\ win.lastSeen \in Int /\ s \in Int
  BY WindowInvFacts DEF Deduper, SeqNo
<1>4. passed[s] \in {0, 1}
  BY <1>3 DEF WindowInv, AtMostOnce
<1>5. CASE OpenWindow(ThisBoot, s)
  <2>1. win.bootId = NoBoot
    BY <1>1, <1>3, <1>5, Verdicts DEF OpenWindow, Deduper
  <2>2. \A n \in SeqNo : passed[n] = 0
    BY <1>3, <2>1 DEF Deduper, WindowInv, Ahead, SeqNo
  <2>3. passed' = [passed EXCEPT ![s] = 1]
    BY <1>3, <1>5, <2>2 DEF OpenWindow
  <2>4. win'.bootId = ThisBoot /\ win'.lastSeen = s
    <3> DEFINE w == Reset(ThisBoot, s)
    <3>1. w \in WindowType /\ w.contiguous = s - 1 /\ w.lastSeen = s - 1 /\ w.bootId = ThisBoot
      BY <1>1 DEF Reset, WindowType, SeqNo
    <3>2. win' = Advance(w, s)
      BY <1>5 DEF OpenWindow
    <3> HIDE DEF w
    <3> QED
      BY <1>3, <3>1, <3>2, AdvanceMoves
  <2> QED
    BY <1>1, <1>2, <2>2, <2>3, <2>4 DEF Deduper
<1>6. CASE Accept(ThisBoot, s)
  <2>1. s > win.lastSeen
    BY <1>1, <1>3, <1>6, Verdicts DEF Accept
  <2>2. passed[s] = 0
    BY <1>3, <2>1 DEF WindowInv, Ahead
  <2>3. passed' = [passed EXCEPT ![s] = 1]
    BY <1>3, <1>6, <2>2 DEF Accept
  <2>4. win'.bootId = win.bootId /\ win'.lastSeen = s
    BY <1>3, <1>6, <2>1, AdvanceMoves DEF Accept
  <2>5. win.bootId # NoBoot
    BY <1>1, <1>6 DEF Accept, Judge
  <2> QED
    BY <1>2, <2>2, <2>3, <2>4, <2>5 DEF Deduper
<1>7. CASE Late(ThisBoot, s)
  <2>1. s \in (win.lastSeen - W + 1)..win.lastSeen /\ ~Test(win, s)
    BY <1>1, <1>3, <1>7, Verdicts DEF Late
  <2>2. passed[s] = 0
    BY <1>3, <1>4, <2>1 DEF WindowInv, Mirror
  <2>3. passed' = [passed EXCEPT ![s] = 1]
    BY <1>3, <1>7, <2>2 DEF Late
  <2>4. win'.bootId = win.bootId /\ win'.lastSeen = win.lastSeen
    BY <1>3, <1>7, SetLateMoves DEF Late
  <2> QED
    BY <1>2, <2>2, <2>3, <2>4 DEF Deduper
<1>8. CASE Drop(ThisBoot, s)
  <2>1. win' = win /\ passed' = passed
    BY <1>8 DEF Drop, windowVars
  <2>2. CASE Judge(win, ThisBoot, s) = "DUPLICATE"
    <3>1. s \in (win.lastSeen - W + 1)..win.lastSeen /\ Test(win, s)
      BY <1>1, <1>3, <2>2, Verdicts
    <3> QED
      BY <1>2, <1>3, <2>1, <3>1 DEF Deduper, WindowInv, Mirror
  <2>3. CASE Judge(win, ThisBoot, s) = "TOO_OLD"
    <3>1. s <= win.lastSeen - W
      BY <1>1, <1>3, <2>3, Verdicts
    <3> QED
      BY <1>2, <2>1, <3>1 DEF Deduper
  <2> QED
    BY <1>8, <2>2, <2>3 DEF Drop
<1> QED
  BY <1>5, <1>6, <1>7, <1>8 DEF ProcessElement

\* A step that leaves the de-duplicator alone keeps it.
LEMMA DeduperStays ==
  ASSUME Deduper, UNCHANGED downstream
  PROVE  Deduper'
<1>1. WindowInv'
  BY NextWindowInv DEF Deduper, windowVars, downstream
<1> QED
  BY <1>1 DEF Deduper, downstream

\* What is covered stays so: nothing is taken back from downstream, or out of DROPPED.
LEMMA StaysCovered ==
  ASSUME IInv, floor' \in Nat, floor <= floor',
         \A s \in SeqNo : passed[s] = 1 => passed'[s] = 1
  PROVE  \A s \in SeqNo : Covered(s) => Covered(s)'
BY Numbers DEF Covered

LEMMA CommitStays ==
  ASSUME IInv, commit' = commit, \A s \in SeqNo : Covered(s) => Covered(s)'
  PROVE  CommitCovers'
<1>1. \A s \in 0..commit : s \in SeqNo
  BY Numbers DEF SeqNo
<1> QED
  BY <1>1 DEF IInv, CommitCovers

LEMMA AckStays ==
  ASSUME IInv, tracker' = tracker, acks' \subseteq acks, \A s \in SeqNo : Covered(s) => Covered(s)'
  PROVE  AckCovers'
<1>1. \A s \in 0..tracker.ack : s \in SeqNo
  BY Numbers DEF SeqNo
<1>2. \A s \in tracker.done : s \in SeqNo
  BY Numbers
<1> QED
  BY <1>1, <1>2 DEF IInv, AckCovers

\* A part of a set of seqs has no more of them.
LEMMA FewerSeqs ==
  ASSUME SeqAssumption, NEW T \in SUBSET SeqNo, NEW S \in SUBSET T
  PROVE  IsFiniteSet(T) /\ Cardinality(S) <= Cardinality(T) /\ Cardinality(S) \in Nat
<1>1. IsFiniteSet(SeqNo)
  BY FS_Interval DEF SeqAssumption, SeqNo
<1>2. IsFiniteSet(T)
  BY <1>1, FS_Subset
<1>3. IsFiniteSet(S)
  BY <1>2, FS_Subset
<1> QED
  BY <1>2, <1>3, FS_Subset, FS_CardinalityType

------------------------------------------------------------------------------
(* The steps of the vehicle.                                               *)

LEMMA InitInv == Init => IInv
<1> SUFFICES ASSUME Init PROVE IInv
  OBVIOUS
<1> USE DeliveryAssumption, SeqAssumption, WindowAssumption DEF Init, SeqNo, None, NoTracker
<1>1. Deduper
  BY InitWindowInv DEF Deduper, WindowInit, NewWindow
<1>2. TypeOK
  <2>1. WindowTypeOK
    BY <1>1 DEF Deduper, WindowInv
  <2>2. MaxBreaks \in Nat /\ MaxExits \in Nat /\ MaxMishaps \in Nat
    BY DEF DeliveryAssumption
  <2>3. tracker \in [start : {None} \cup SeqNo, ack : {None} \cup SeqNo,
                     last : {None} \cup SeqNo, done : SUBSET SeqNo]
    OBVIOUS
  <2>5. wire \in [Stream -> SUBSET SeqNo] /\ writing \in [Stream -> SUBSET SeqNo]
    OBVIOUS
  <2>6. walNext \in 0..(MaxSeq + 1) /\ shipNext \in 0..(MaxSeq + 1) /\ floor \in 0..walNext
    OBVIOUS
  <2>7. /\ commit \in {None} \cup SeqNo /\ sentTo \in {None} \cup SeqNo
        /\ queue \subseteq SeqNo /\ acks \subseteq SeqNo /\ open \subseteq Stream
    OBVIOUS
  <2>4. 0 \in 0..MaxBreaks /\ 0 \in 0..MaxExits /\ 0 \in 0..MaxMishaps /\ 0 \in 0..(MaxSeq + 1)
    BY <2>2
  <2> QED
    BY <2>1, <2>3, <2>4, <2>5, <2>6, <2>7 DEF TypeOK
<1>3. Shipping
  BY DEF Shipping, PendingCoversUncommitted, Running
<1>4. CommitCovers
  BY DEF CommitCovers
<1>5. AllNear
  BY DEF AllNear, Near, Records, WindowInit, NewWindow
<1>6. AckCovers /\ Present
  BY DEF AckCovers, Present
<1>7. Sizes
  <2>1. queue = {} /\ \A g \in Stream : Records(g) = {}
    BY DEF Records
  <2> QED
    BY <2>1, FS_EmptySet DEF Sizes
<1> QED
  BY <1>1, <1>2, <1>3, <1>4, <1>5, <1>6, <1>7 DEF IInv

\* The log grows, and its oldest records may be dropped.
LEMMA AppendInv ==
  ASSUME IInv, NEW keep \in floor..(walNext + 1), AppendRecord(keep)
  PROVE  IInv'
<1> USE DEF vehicle, disk, shipper, gateway, budget
<1>1. /\ walNext' = walNext + 1 /\ floor' = keep /\ keep \in Nat /\ floor <= keep
      /\ walNext \in SeqNo
  BY Numbers DEF AppendRecord
<1>2. Deduper'
  BY DeduperStays DEF IInv, AppendRecord
<1>3. \A s \in SeqNo : Covered(s) => Covered(s)'
  BY <1>1, StaysCovered DEF AppendRecord, downstream
<1>4. TypeOK'
  BY <1>1, <1>2, Numbers, DeliveryAssumption DEF IInv, TypeOK, Deduper, WindowInv, AppendRecord, SeqNo
<1>5. (\A g \in Stream \ open : wire[g] = {})'
  BY DEF IInv, AppendRecord
<1>6. Shipping'
  BY <1>1, Numbers DEF IInv, Shipping, AppendRecord, PendingCoversUncommitted, Running
<1>7. CommitCovers'
  BY <1>3, CommitStays DEF AppendRecord
<1>8. AllNear'
  BY <1>1, Numbers DEF IInv, AllNear, Near, Records, AppendRecord, downstream
<1>9. AckCovers'
  BY <1>3, AckStays DEF AppendRecord
<1>10. Present'
  BY DEF IInv, Present, Records, AppendRecord
<1>11. Sizes'
  BY DEF IInv, Sizes, Records, AppendRecord, Running
<1> QED
  BY <1>2, <1>4, <1>5, <1>6, <1>7, <1>8, <1>9, <1>10, <1>11 DEF IInv

\* What the cursor comes to lies no further above COMMIT, or above what was dropped,
\* than the room that is left in the window.
LEMMA PumpInv ==
  ASSUME IInv, NEW n \in 1..MaxInflight, Pump(n)
  PROVE  IInv'
<1> USE DEF vehicle, disk, shipper, gateway, budget
<1> DEFINE new == NextHeld..(NextHeld + n - 1)
<1>1. /\ n \in Nat /\ n > 0 /\ Running /\ commit < shipNext /\ NextHeld \in Nat
      /\ NextHeld >= shipNext /\ NextHeld >= floor /\ NextHeld + n <= walNext
      /\ n <= MaxInflight - (shipNext - 1 - commit)
      /\ NextHeld = shipNext \/ NextHeld = floor
  BY Numbers DEF Pump, NextHeld, Allowed, IInv, Shipping
<1>2. queue' = queue \cup new /\ shipNext' = NextHeld + n
  BY DEF Pump
<1>3. new \subseteq SeqNo
  BY <1>1, Numbers DEF SeqNo
<1>4. Deduper'
  BY DeduperStays DEF IInv, Pump
<1>5. \A s \in SeqNo : Covered(s) => Covered(s)'
  BY Numbers, StaysCovered DEF Pump, downstream
<1>6. TypeOK'
  <2>1. WindowTypeOK'
    BY <1>4 DEF Deduper, WindowInv
  <2>2. queue' \subseteq SeqNo /\ shipNext' \in 0..(MaxSeq + 1)
    BY <1>1, <1>2, <1>3, Numbers
  <2> QED
    BY <2>1, <2>2 DEF IInv, TypeOK, Pump
<1>7. (\A g \in Stream \ open : wire[g] = {})'
  BY DEF IInv, Pump
<1>8. Shipping'
  <2>1. queue' \subseteq (commit' + 1)..(shipNext' - 1)
    <3>1. queue \subseteq (commit + 1)..(shipNext - 1) /\ commit' = commit
      BY DEF IInv, Shipping, Pump
    <3>2. commit \in Int /\ shipNext \in Int
      BY Numbers
    <3>3. PICK last \in Int : last = NextHeld + n
      BY <1>1
    <3>4. (commit + 1)..(shipNext - 1) \subseteq (commit + 1)..(last - 1)
      BY <1>1, <3>2, <3>3
    <3>5. new \subseteq (commit + 1)..(last - 1)
      BY <1>1, <3>2, <3>3
    <3> HIDE DEF new
    <3>6. queue' = queue \cup new /\ shipNext' = last
      BY <1>2, <3>3, Zenon
    <3>7. queue' \subseteq (commit + 1)..(last - 1)
      BY <3>1, <3>4, <3>5, <3>6, Zenon
    <3> QED
      BY <3>1, <3>6, <3>7, Zenon
  <2>2. PendingCoversUncommitted'
    <3> SUFFICES ASSUME NEW s \in (commit + 1)..(shipNext' - 1), s >= floor
                 PROVE  s \in queue'
      BY DEF PendingCoversUncommitted, Pump
    <3>1. CASE s < shipNext
      BY <1>1, <1>2, <3>1, Numbers DEF IInv, Shipping, PendingCoversUncommitted
    <3>2. CASE s >= shipNext
      BY <1>1, <1>2, <3>2, Numbers DEF NextHeld
    <3> QED
      BY <3>1, <3>2, Numbers
  <2> QED
    BY <1>1, <1>2, <2>1, <2>2, Numbers DEF IInv, Shipping, Pump, Running
<1>9. CommitCovers'
  BY <1>5, CommitStays DEF Pump
<1>10. AllNear'
  <2>1. \A s \in new : Near(s)
    BY <1>1, Numbers DEF Near
  <2> QED
    BY <1>2, <2>1 DEF IInv, AllNear, Near, Records, Pump, downstream
<1>11. AckCovers'
  BY <1>5, AckStays DEF Pump
<1>12. Present'
  <2>1. \A s \in new : s > sentTo
    BY <1>1, Numbers DEF IInv, Shipping
  <2>2. {s \in queue' : s <= sentTo} = {s \in queue : s <= sentTo}
    BY <1>2, <1>3, <2>1, Numbers
  <2>3. queue \subseteq queue'
    BY <1>2
  <2> QED
    BY <2>2, <2>3 DEF IInv, Present, Records, Pump
<1>13. Sizes'
  <2>1. IsFiniteSet(queue) /\ Cardinality(queue) \in Nat
    BY SeqAssumption, Numbers, FewerSeqs
  <2>2. IsFiniteSet(new) /\ Cardinality(new) = n
    BY <1>1, RunSize
  <2>3. IsFiniteSet(queue \cap new) /\ Cardinality(queue \cap new) \in Nat
    BY <2>1, FS_Subset, FS_CardinalityType
  <2>4. Cardinality(queue') <= Cardinality(queue) + n /\ Cardinality(queue') \in Nat
    <3>1. Cardinality(queue') = Cardinality(queue) + Cardinality(new) - Cardinality(queue \cap new)
      BY <1>2, <2>1, <2>2, FS_Union
    <3>2. Cardinality(queue') \in Nat
      BY <1>2, <2>1, <2>2, FS_Union, FS_CardinalityType
    <3> QED
      BY <1>1, <2>1, <2>2, <2>3, <3>1, <3>2
  <2>5. Cardinality(queue) <= shipNext - 1 - commit
    BY <1>1 DEF IInv, Sizes
  <2> QED
    BY <1>1, <1>2, <2>1, <2>4, <2>5, Numbers DEF IInv, Sizes, Records, Pump, Running
<1> QED
  BY <1>4, <1>6, <1>7, <1>8, <1>9, <1>10, <1>11, <1>12, <1>13 DEF IInv

\* A stream is opened under a name that nothing is left of.
LEMMA OpenStreamInv ==
  ASSUME IInv, OpenStream
  PROVE  IInv'
<1> USE DEF vehicle, disk, shipper, gateway, budget
<1>1. Min(Idle) \in Idle
  <2>1. 1 \in Int /\ MaxStreams \in Int /\ Idle \subseteq 1..MaxStreams /\ Idle # {}
    BY DeliveryAssumption DEF DeliveryAssumption, Idle, Stream, OpenStream
  <2> QED
    BY <2>1, MinIsLeast, Zenon
<1>2. /\ cur' \in Stream /\ cur' \notin open /\ writing[cur'] = {} /\ cur' # 0
      /\ open' = open \cup {cur'} /\ sentTo' = -1 /\ acks' = {} /\ tracker' = NoTracker
  BY <1>1, DeliveryAssumption DEF Idle, OpenStream, Stream, None
<1>3. wire[cur'] = {}
  BY <1>2 DEF IInv
<1>4. Deduper'
  BY DeduperStays DEF IInv, OpenStream
<1>5. NoTracker \in [start : {None} \cup SeqNo, ack : {None} \cup SeqNo,
                      last : {None} \cup SeqNo, done : SUBSET SeqNo]
  BY DEF NoTracker
<1>6. TypeOK'
  BY <1>2, <1>4, <1>5 DEF IInv, TypeOK, Deduper, WindowInv, OpenStream, None
<1>7. (\A g \in Stream \ open : wire[g] = {})'
  BY <1>2 DEF IInv, OpenStream
<1>8. Shipping'
  BY <1>2, Numbers DEF IInv, Shipping, PendingCoversUncommitted, Running, OpenStream
<1>9. CommitCovers' /\ AllNear'
  BY DEF IInv, CommitCovers, Covered, AllNear, Near, Records, OpenStream, downstream
<1>10. AckCovers'
  BY <1>2 DEF AckCovers, NoTracker
<1>11. Present'
  <2>1. {s \in queue' : s <= sentTo'} = {}
    BY <1>2, Numbers DEF OpenStream
  <2>2. (Records(cur))' = {} /\ wire'[cur'] = {} /\ writing'[cur'] = {}
    BY <1>2, <1>3 DEF Records, OpenStream
  <2> QED
    BY <1>2, <2>1, <2>2 DEF Present, NoTracker, None
<1>12. Sizes'
  BY DEF IInv, Sizes, Records, Running, OpenStream
<1> QED
  BY <1>4, <1>6, <1>7, <1>8, <1>9, <1>10, <1>11, <1>12 DEF IInv

\* The records of the present stream are pending ones, so they are no more than those.
LEMMA PresentSize ==
  ASSUME IInv, cur \in Stream, cur' = cur, Records(cur)' \subseteq queue,
         \A g \in Stream \ {cur} : Records(g)' \subseteq Records(g)
  PROVE  \A g \in Stream : Cardinality(Records(g)') <= MaxInflight
<1>1. Cardinality(Records(cur)') <= Cardinality(queue) /\ Cardinality(Records(cur)') \in Nat
      /\ Cardinality(queue) \in Nat
  BY SeqAssumption, Numbers, FewerSeqs
<1>2. Cardinality(Records(cur)') <= MaxInflight
  BY <1>1, Numbers DEF IInv, Sizes
<1>3. ASSUME NEW g \in Stream \ {cur} PROVE Cardinality(Records(g)') <= MaxInflight
  <2>1. Records(g) \subseteq SeqNo
    BY Numbers DEF Records
  <2>2. Cardinality(Records(g)') <= Cardinality(Records(g)) /\ Cardinality(Records(g)') \in Nat
        /\ Cardinality(Records(g)) \in Nat
    BY <2>1, SeqAssumption, FewerSeqs
  <2> QED
    BY <2>2, Numbers DEF IInv, Sizes
<1>4. ASSUME NEW g \in Stream PROVE Cardinality(Records(g)') <= MaxInflight
  <2>1. CASE g = cur
    <3>1. Records(g)' = Records(cur)'
      BY <2>1 DEF Records
    <3> QED
      BY <3>1, <1>2, Zenon
  <2>2. CASE g # cur
    BY <1>3, <2>2, Zenon
  <2> QED
    BY <2>1, <2>2
<1> QED
  BY <1>4, Zenon

\* _drain_pending() sends the lowest record the stream was not given yet.
LEMMA DrainInv ==
  ASSUME IInv, Drain
  PROVE  IInv'
<1> USE DEF vehicle, disk, shipper, gateway, budget
<1> DEFINE s == Min(Unsent)
<1>1. s \in Unsent /\ \A r \in Unsent : s <= r
  <2>1. 0 \in Int /\ MaxSeq \in Int /\ Unsent \subseteq 0..MaxSeq /\ Unsent # {}
    BY Numbers DEF Unsent, Drain, SeqNo
  <2> QED
    BY <2>1, MinIsLeast, Zenon
<1> HIDE DEF s
<1>2. /\ s \in queue /\ s \in SeqNo /\ s \in Nat /\ s > sentTo /\ s < shipNext /\ cur \in Stream /\ cur # 0
      /\ \A r \in queue : r <= s <=> r <= sentTo \/ r = s
  BY <1>1, Numbers DEF Unsent, IInv, Shipping, TypeOK, Drain
<1>3. sentTo' = s /\ wire' = IF cur \in open THEN [wire EXCEPT ![cur] = @ \cup {s}] ELSE wire
  BY DEF Drain, s
<1>4. wire \in [Stream -> SUBSET SeqNo]
  BY DEF IInv, TypeOK
<1>5. Deduper'
  BY DeduperStays DEF IInv, Drain
<1>6. \A r \in SeqNo : Covered(r) => Covered(r)'
  BY Numbers, StaysCovered DEF Drain, downstream
<1>7. TypeOK'
  <2>1. WindowTypeOK'
    BY <1>5 DEF Deduper, WindowInv
  <2>2. wire' \in [Stream -> SUBSET SeqNo]
    BY <1>2, <1>3, <1>4
  <2> QED
    BY <1>2, <1>3, <2>1, <2>2 DEF IInv, TypeOK, Drain
<1>8. (\A g \in Stream \ open : wire[g] = {})'
  BY <1>2, <1>3, <1>4 DEF IInv, Drain
<1>9. Shipping'
  BY <1>2, <1>3 DEF IInv, Shipping, PendingCoversUncommitted, Running, Drain
<1>10. CommitCovers'
  BY <1>6, CommitStays DEF Drain
<1>11. \A g \in Stream \ {cur} : Records(g)' = Records(g)
  BY <1>2, <1>3, <1>4 DEF Records, Drain
<1>12. Records(cur)' \subseteq Records(cur) \cup {s}
  BY <1>2, <1>3, <1>4 DEF Records, Drain
<1>13. AllNear'
  <2>1. \A r \in queue : Near(r) /\ r < walNext
    BY Numbers DEF IInv, AllNear, Shipping
  <2>2. \A r \in SeqNo : Near(r) => Near(r)'
    BY DEF Near, Drain
  <2>3. \A g \in Stream : \A r \in Records(g)' : Near(r)' /\ r < walNext
    BY <1>2, <1>11, <1>12, <2>1 DEF IInv, AllNear, Near, Drain
  <2> QED
    BY <2>1, <2>3 DEF IInv, AllNear, Near, Records, Drain, downstream
<1>14. AckCovers'
  BY <1>6, AckStays DEF Drain
<1>15. Records(cur)' \subseteq queue
  BY <1>2, <1>12 DEF IInv, Present
<1>16. Present'
  <2>1. s \notin Records(cur) /\ s \notin tracker.done /\ s > tracker.ack
    BY <1>2, Numbers DEF IInv, Present
  <2>2. (wire[cur] \cap writing[cur])' = {}
    BY <1>2, <1>3, <1>4, <2>1 DEF IInv, Present, Records, Drain
  <2>3. \A r \in Records(cur)' : r <= s /\ r \notin tracker.done
    BY <1>2, <1>12, <2>1, Numbers DEF IInv, Present
  <2>4. tracker.ack <= s /\ \A r \in tracker.done : r <= s
    <3>1. tracker.ack <= sentTo /\ \A r \in tracker.done : r <= sentTo /\ r \in Nat
      BY <1>2, Numbers DEF IInv, Present
    <3> QED
      BY <1>2, <3>1, Numbers
  <2>5. tracker.start # None => \A r \in Records(cur)' : r > tracker.ack
    BY <1>2, <1>12, <2>1 DEF IInv, Present
  <2>6. tracker.start = None =>
          writing[cur] = {} /\ (cur \in open => wire'[cur] = {r \in queue : r <= s})
    BY <1>2, <1>3, <1>4 DEF IInv, Present
  <2> QED
    BY <1>3, <1>15, <2>2, <2>3, <2>4, <2>5, <2>6 DEF Present, Records, Drain
<1>17. Sizes'
  <2>1. \A g \in Stream : Cardinality(Records(g)') <= MaxInflight
    BY <1>2, <1>11, <1>15, PresentSize DEF Drain
  <2> QED
    BY <2>1 DEF IInv, Sizes, Running, Drain
<1> QED
  BY <1>5, <1>7, <1>8, <1>9, <1>10, <1>13, <1>14, <1>16, <1>17 DEF IInv

\* An ack moves COMMIT up to seqs that are covered, and relieves the queue of them.
LEMMA ReadAckInv ==
  ASSUME IInv, ReadAck
  PROVE  /\ IInv'
         /\ commit' = commit \/ (commit < commit' /\ commit' < walNext /\ commit' \in SeqNo)
         /\ \A s \in 0..commit' : Covered(s)
<1> USE DEF vehicle, disk, shipper, gateway, budget
<1> DEFINE a == Min(acks)
<1>1. a \in acks
  <2>1. 0 \in Int /\ MaxSeq \in Int /\ acks \subseteq 0..MaxSeq /\ acks # {}
    BY Numbers DEF ReadAck, SeqNo
  <2> QED
    BY <2>1, MinIsLeast, Zenon
<1> HIDE DEF a
<1>2. /\ commit' = CommitOf(a) /\ queue' = {s \in queue : s > a} /\ acks' = acks \ {a}
      /\ Running /\ cur \in Stream /\ cur # 0
  BY DEF ReadAck, a, IInv, TypeOK
<1>3. a \in SeqNo /\ a \in Nat /\ a <= tracker.ack /\ tracker.start # None
  BY <1>1, Numbers DEF IInv, AckCovers
<1>4. a < shipNext /\ a < walNext
  BY <1>2, <1>3, Numbers DEF IInv, Present, Shipping
<1>5. commit' \in Int /\ commit <= commit' /\ commit' >= a /\ commit' < shipNext /\ commit' < walNext
      /\ (commit' = commit \/ commit' = a)
  BY <1>2, <1>3, <1>4, Numbers DEF CommitOf, IInv, Shipping
<1>6. \A s \in 0..commit' : Covered(s)
  BY <1>3, <1>5, Numbers DEF IInv, CommitCovers, AckCovers
<1>7. Deduper'
  BY DeduperStays DEF IInv, ReadAck
<1>8. \A s \in SeqNo : Covered(s) => Covered(s)'
  BY Numbers, StaysCovered DEF ReadAck, downstream
<1>9. TypeOK'
  <2>1. WindowTypeOK'
    BY <1>7 DEF Deduper, WindowInv
  <2>2. commit' \in {None} \cup SeqNo /\ queue' \subseteq SeqNo /\ acks' \subseteq SeqNo
    BY <1>2, <1>3, <1>5, Numbers DEF IInv, TypeOK
  <2> QED
    BY <2>1, <2>2 DEF IInv, TypeOK, ReadAck
<1>10. (\A g \in Stream \ open : wire[g] = {})'
  BY DEF IInv, ReadAck
<1>11. \A s \in queue : s > a <=> s > commit'
  <2>1. \A s \in queue : s > commit /\ s \in Int
    BY Numbers DEF IInv, Shipping
  <2> QED
    BY <1>3, <1>5, <2>1, Numbers
<1>12. Shipping'
  <2>1. queue' \subseteq (commit' + 1)..(shipNext - 1)
    <3> SUFFICES ASSUME NEW s \in queue, s > a PROVE s \in (commit' + 1)..(shipNext - 1)
      BY <1>2
    <3>1. s \in (commit + 1)..(shipNext - 1)
      BY DEF IInv, Shipping
    <3>2. PICK c : c = commit'
      OBVIOUS
    <3>3. c \in Int /\ s > c
      BY <1>5, <1>11, <3>2, Zenon
    <3>4. s \in (c + 1)..(shipNext - 1)
      BY <3>1, <3>3, Numbers
    <3> QED
      BY <3>2, <3>4, Zenon
  <2>2. PendingCoversUncommitted'
    BY <1>2, <1>5, <1>11, Numbers DEF IInv, Shipping, PendingCoversUncommitted, ReadAck
  <2> QED
    BY <1>2, <1>5, <2>1, <2>2, Numbers DEF IInv, Shipping, Running, ReadAck
<1>13. CommitCovers'
  BY <1>6, <1>8, <1>5, Numbers DEF CommitCovers, Covered, ReadAck, downstream
<1>14. AllNear'
  <2>1. \A s \in Int : Near(s) => Near(s)'
    BY <1>5, Numbers DEF Near, ReadAck
  <2> QED
    BY <1>2, <2>1, Numbers DEF IInv, AllNear, Records, SeqNo, ReadAck, downstream
<1>15. AckCovers'
  BY <1>2, <1>8, AckStays DEF ReadAck
<1>16. Present'
  <2>1. Records(cur) \subseteq queue'
    BY <1>2, <1>3, Numbers DEF IInv, Present, Records
  <2> QED
    BY <1>3, <2>1 DEF IInv, Present, Records, ReadAck
<1>17. Sizes'
  <2>1. Cardinality(queue') <= Cardinality(queue) /\ Cardinality(queue') \in Nat
        /\ Cardinality(queue) \in Nat
    BY <1>2, SeqAssumption, Numbers, FewerSeqs
  <2>2. Cardinality(queue') <= shipNext - 1 - commit'
    <3> DEFINE room == (commit' + 1)..(shipNext - 1)
    <3>1. commit' + 1 \in Int /\ shipNext - 1 - commit' \in Nat
      BY <1>5, Numbers
    <3>2. room = (commit' + 1)..((commit' + 1) + (shipNext - 1 - commit') - 1)
      <4>1. shipNext - 1 = (commit' + 1) + (shipNext - 1 - commit') - 1
        BY <1>5, Numbers
      <4> QED
        BY <4>1, Zenon
    <3>3. IsFiniteSet(room) /\ Cardinality(room) = shipNext - 1 - commit'
      BY <3>1, <3>2, RunSize
    <3>4. queue' \subseteq room
      BY <1>12 DEF Shipping, ReadAck
    <3> QED
      BY <3>3, <3>4, FS_Subset
  <2> QED
    BY <2>1, <2>2, Numbers DEF IInv, Sizes, Records, Running, ReadAck
<1>18. IInv'
  BY <1>7, <1>9, <1>10, <1>12, <1>13, <1>14, <1>15, <1>16, <1>17 DEF IInv
<1>19. commit' = commit \/ (commit < commit' /\ commit' < walNext /\ commit' \in SeqNo)
  BY <1>3, <1>5, Numbers
<1> QED
  BY <1>6, <1>18, <1>19

\* A stream that is lost stays within the budget of breaks.
LEMMA StreamLostBudget ==
  ASSUME IInv, StreamLost
  PROVE  breaks' \in 0..MaxBreaks
BY DeliveryAssumption DEF DeliveryAssumption, IInv, TypeOK, StreamLost

\* The RPC ends: the handler may go on with what it has.
LEMMA BreakInv ==
  ASSUME IInv, Break
  PROVE  IInv'
<1> USE DEF vehicle, disk, shipper, gateway, budget
<1>1. cur' = 0 /\ acks' = {} /\ Running /\ breaks' \in 0..MaxBreaks
  BY StreamLostBudget DEF Break, StreamLost
<1>2. Deduper'
  BY DeduperStays DEF IInv, Break, StreamLost
<1>3. \A s \in SeqNo : Covered(s) => Covered(s)'
  BY Numbers, StaysCovered DEF Break, StreamLost, downstream
<1>4. TypeOK'
  BY <1>1, <1>2 DEF IInv, TypeOK, Deduper, WindowInv, Break, StreamLost
<1>5. (\A g \in Stream \ open : wire[g] = {})'
  BY DEF IInv, Break, StreamLost
<1>6. Shipping'
  BY <1>1 DEF IInv, Shipping, PendingCoversUncommitted, Running, Break, StreamLost
<1>7. CommitCovers'
  BY <1>3, CommitStays DEF Break, StreamLost
<1>8. AllNear'
  BY DEF IInv, AllNear, Near, Records, Break, StreamLost, downstream
<1>9. AckCovers'
  BY <1>1, <1>3, AckStays DEF Break, StreamLost
<1>10. Present'
  BY <1>1 DEF Present
<1>11. Sizes'
  BY DEF IInv, Sizes, Records, Running, Break, StreamLost
<1> QED
  BY <1>2, <1>4, <1>5, <1>6, <1>7, <1>8, <1>9, <1>10, <1>11 DEF IInv

\* The process ends, in whatever way: its queue and its RPC are gone.
LEMMA EndsInv ==
  ASSUME IInv, NEW how \in {"killed", "failed", "stalled", "finished"}, Ends(how),
         exits' \in 0..MaxExits, breaks' \in 0..MaxBreaks, mishaps' = mishaps
  PROVE  IInv'
<1> USE DEF vehicle, disk, shipper, gateway, budget
<1>1. /\ process' = how /\ ~(Running') /\ shipNext' = 0 /\ queue' = {} /\ sentTo' = None
      /\ skipped' = FALSE /\ cur' = 0 /\ acks' = {}
  BY DEF Ends, Running
<1>2. Deduper'
  BY DeduperStays DEF IInv, Ends
<1>3. \A s \in SeqNo : Covered(s) => Covered(s)'
  BY Numbers, StaysCovered DEF Ends, downstream
<1>4. TypeOK'
  <2>1. WindowTypeOK'
    BY <1>2 DEF Deduper, WindowInv
  <2>2. 0 \in 0..(MaxSeq + 1)
    BY Numbers
  <2> QED
    BY <1>1, <2>1, <2>2 DEF IInv, TypeOK, Ends
<1>5. (\A g \in Stream \ open : wire[g] = {})'
  BY DEF IInv, Ends
<1>6. Shipping'
  BY <1>1, Numbers DEF IInv, Shipping, PendingCoversUncommitted, Running, None, Ends
<1>7. CommitCovers'
  BY <1>3, CommitStays DEF Ends
<1>8. AllNear'
  BY <1>1 DEF IInv, AllNear, Near, Records, Ends, downstream
<1>9. AckCovers'
  BY <1>1, <1>3, AckStays DEF Ends
<1>10. Present'
  BY <1>1 DEF Present
<1>11. Sizes'
  BY <1>1, Numbers, FS_EmptySet DEF IInv, Sizes, Records, Ends
<1> QED
  BY <1>2, <1>4, <1>5, <1>6, <1>7, <1>8, <1>9, <1>10, <1>11 DEF IInv

\* A new process resumes after COMMIT with nothing pending.
LEMMA RestartInv ==
  ASSUME IInv, Restart
  PROVE  IInv'
<1> USE DEF vehicle, disk, shipper, gateway, budget
<1>1. /\ process' = "running" /\ shipNext' = commit + 1 /\ ~Running
      /\ queue = {} /\ queue' = {} /\ cur' = 0 /\ cur = 0 /\ sentTo' = -1
  BY DEF Restart, ResumePoint, IInv, Shipping, None
<1>2. Deduper'
  BY DeduperStays DEF IInv, Restart
<1>3. \A s \in SeqNo : Covered(s) => Covered(s)'
  BY Numbers, StaysCovered DEF Restart, downstream
<1>4. commit + 1 \in 0..walNext /\ commit + 1 \in 0..(MaxSeq + 1)
  BY Numbers DEF IInv, Shipping
<1>5. TypeOK'
  BY <1>1, <1>2, <1>4 DEF IInv, TypeOK, Deduper, WindowInv, Restart
<1>6. (\A g \in Stream \ open : wire[g] = {})'
  BY DEF IInv, Restart
<1>7. Shipping'
  BY <1>1, <1>4, Numbers DEF IInv, Shipping, PendingCoversUncommitted, Running, Restart
<1>8. CommitCovers'
  BY <1>3, CommitStays DEF Restart
<1>9. AllNear'
  BY DEF IInv, AllNear, Near, Records, Restart, downstream
<1>10. AckCovers'
  BY <1>3, AckStays DEF Restart
<1>11. Present'
  BY <1>1 DEF Present
<1>12. Sizes'
  <2>1. Cardinality(queue') = 0 /\ 0 <= shipNext' - 1 - commit
    BY <1>1, Numbers, FS_EmptySet
  <2> QED
    BY <2>1, Numbers DEF IInv, Sizes, Records, Restart
<1> QED
  BY <1>2, <1>5, <1>6, <1>7, <1>8, <1>9, <1>10, <1>11, <1>12 DEF IInv

------------------------------------------------------------------------------
(* The steps of the gateway.                                               *)

TrackerType == [start : {None} \cup SeqNo, ack : {None} \cup SeqNo,
                last : {None} \cup SeqNo, done : SUBSET SeqNo]

\* The first record of a stream is the lowest that is pending, so what lies below it
\* is covered, and the tracker may start there.
LEMMA ReceiveInv ==
  ASSUME IInv, NEW g \in Stream, Receive(g)
  PROVE  IInv'
<1> USE DEF vehicle, disk, shipper, gateway, budget
<1> DEFINE s == Min(wire[g])
<1>1. s \in wire[g] /\ \A r \in wire[g] : s <= r
  <2>1. 0 \in Int /\ MaxSeq \in Int /\ wire[g] \subseteq 0..MaxSeq /\ wire[g] # {}
    BY Numbers DEF Receive, SeqNo
  <2> QED
    BY <2>1, MinIsLeast, Zenon
<1> HIDE DEF s
<1>2. /\ wire' = [wire EXCEPT ![g] = @ \ {s}]
      /\ writing' = [writing EXCEPT ![g] = @ \cup {s}]
      /\ tracker' = IF g = cur /\ tracker = NoTracker THEN NewTracker(s) ELSE tracker
      /\ g \in open /\ cur' = cur /\ open' = open /\ queue' = queue /\ sentTo' = sentTo
      /\ acks' = acks
  BY DEF Receive, s
<1>3. wire \in [Stream -> SUBSET SeqNo] /\ writing \in [Stream -> SUBSET SeqNo]
  BY DEF IInv, TypeOK
<1>4. s \in SeqNo /\ s \in Nat /\ s <= MaxSeq
  BY <1>1, Numbers
<1>5. \A h \in Stream : Records(h)' = Records(h)
  BY <1>1, <1>2, <1>3 DEF Records
<1>6. Deduper'
  BY DeduperStays DEF IInv, Receive
<1>7. \A r \in SeqNo : Covered(r) <=> Covered(r)'
  BY DEF Covered, Receive, downstream
<1>8. NewTracker(s) \in TrackerType
  <2>1. s - 1 \in {None} \cup SeqNo
    BY <1>4, Numbers DEF None, SeqNo
  <2> QED
    BY <1>4, <2>1 DEF NewTracker, TrackerType
<1>9. TypeOK'
  <2>1. WindowTypeOK'
    BY <1>6 DEF Deduper, WindowInv
  <2>2. tracker' \in TrackerType
    BY <1>2, <1>8 DEF IInv, TypeOK, TrackerType
  <2>3. wire' \in [Stream -> SUBSET SeqNo] /\ writing' \in [Stream -> SUBSET SeqNo]
    BY <1>2, <1>3, <1>4
  <2> QED
    BY <2>1, <2>2, <2>3 DEF IInv, TypeOK, TrackerType, Receive
<1>10. (\A h \in Stream \ open : wire[h] = {})'
  BY <1>2, <1>3 DEF IInv
<1>11. Shipping'
  BY DEF IInv, Shipping, PendingCoversUncommitted, Running, Receive
<1>12. CommitCovers'
  BY <1>7, CommitStays DEF Receive
<1>13. AllNear'
  BY <1>5 DEF IInv, AllNear, Near, Receive, downstream
<1>14. ASSUME g = cur, tracker = NoTracker PROVE AckCovers' /\ Present'
  <2>1. /\ tracker'.start = s /\ tracker'.ack = s - 1 /\ tracker'.done = {}
        /\ s # None /\ acks = {} /\ tracker.start = None
        /\ cur # 0 /\ cur \in open /\ Running
    BY <1>2, <1>4, <1>14, Numbers
       DEF NewTracker, NoTracker, None, IInv, AckCovers, Shipping, Stream
  <2>2. writing[cur] = {} /\ wire[cur] = {r \in queue : r <= sentTo}
    BY <2>1 DEF IInv, Present
  <2>3. \A r \in 0..(s - 1) : Covered(r)
    <3> SUFFICES ASSUME NEW r \in 0..(s - 1), r >= floor, r > commit
                 PROVE  FALSE
      BY Numbers DEF IInv, CommitCovers, Covered
    <3>1. s \in queue /\ s <= sentTo
      BY <1>1, <1>14, <2>2
    <3>2. r \in (commit + 1)..(shipNext - 1) /\ r <= sentTo
      BY <1>4, <3>1, Numbers DEF IInv, Shipping
    <3>3. r \in queue
      BY <2>1, <3>2 DEF IInv, Shipping, PendingCoversUncommitted
    <3>4. r \in wire[g]
      BY <1>14, <2>2, <3>2, <3>3
    <3> QED
      BY <1>1, <1>4, <3>4
  <2>4. AckCovers'
    <3>1. \A r \in 0..(s - 1) : r \in SeqNo
      BY <1>4, Numbers DEF SeqNo
    <3> QED
      BY <1>2, <1>7, <2>1, <2>3, <3>1 DEF AckCovers
  <2>5. Present'
    <3>1. Records(cur)' = wire[cur] /\ s \in queue /\ s <= sentTo
      BY <1>1, <1>2, <1>5, <1>14, <2>2 DEF Records
    <3>2. (wire[cur] \cap writing[cur])' = {}
      BY <1>2, <1>3, <1>14, <2>2
    <3>3. \A r \in wire[cur] : r \in queue /\ r <= sentTo /\ r > s - 1
      <4>1. \A r \in wire[cur] : r \in queue /\ r <= sentTo /\ s <= r /\ r \in Int
        BY <1>1, <1>14, <2>2, Numbers
      <4> QED
        BY <1>4, <4>1
    <3>4. s - 1 <= sentTo
      BY <1>4, <3>1, Numbers
    <3> QED
      BY <1>2, <2>1, <3>1, <3>2, <3>3, <3>4 DEF Present, Records
  <2> QED
    BY <2>4, <2>5
<1>15. ASSUME ~(g = cur /\ tracker = NoTracker) PROVE AckCovers' /\ Present'
  <2>1. tracker' = tracker
    BY <1>2, <1>15
  <2>2. AckCovers'
    BY <1>2, <1>7, <2>1, AckStays
  <2>3. Present'
    <3> SUFFICES ASSUME cur # 0 PROVE Present'
      BY <1>2 DEF Present
    <3>0. cur \in Stream
      BY DEF IInv, TypeOK
    <3>1. Records(cur)' = Records(cur)
      BY <1>2, <1>5, <3>0 DEF Records
    <3>2. (wire[cur] \cap writing[cur])' = {}
      BY <1>2, <1>3, <3>0 DEF IInv, Present
    <3>3. tracker.start = None => g # cur
      BY <1>15 DEF IInv, AckCovers
    <3>4. tracker.start = None => (wire[cur])' = wire[cur] /\ (writing[cur])' = writing[cur]
      BY <1>2, <1>3, <3>0, <3>3
    <3> QED
      BY <1>2, <2>1, <3>1, <3>2, <3>4 DEF IInv, Present
  <2> QED
    BY <2>2, <2>3
<1>16. Sizes'
  BY <1>5 DEF IInv, Sizes, Running, Receive
<1> QED
  BY <1>6, <1>9, <1>10, <1>11, <1>12, <1>13, <1>14, <1>15, <1>16 DEF IInv

\* A completed write lets the ack climb over completed writes only.
LEMMA CompleteMoves ==
  ASSUME SeqAssumption, NEW t \in TrackerType, \A d \in t.done : d > t.ack,
         NEW s \in SeqNo
  PROVE  LET u == Complete(t, s)
         IN /\ u \in TrackerType /\ u.start = t.start
            /\ t.ack <= u.ack /\ u.ack \in {t.ack} \cup t.done \cup {s}
            /\ (t.ack + 1)..u.ack \subseteq t.done \cup {s}
            /\ u.done \subseteq t.done \cup {s}
            /\ \A d \in u.done : d > u.ack
<1> USE SeqAssumption DEF SeqNo, None
<1>1. t.ack \in Int /\ t.ack \in {None} \cup SeqNo /\ t.done \subseteq SeqNo /\ s \in Int
  BY DEF TrackerType
<1>2. CASE s <= t.ack
  <2>1. Complete(t, s) = t
    BY <1>2 DEF Complete
  <2>2. (t.ack + 1)..t.ack = {} /\ t.ack <= t.ack
    BY <1>1
  <2> QED
    BY <2>1, <2>2
<1>3. CASE s > t.ack
  <2> DEFINE T == t.done \cup {s}
             RunEnds(a) == (t.ack + 1)..a \subseteq T /\ a + 1 \notin T
             top == CHOOSE a \in {t.ack} \cup T : RunEnds(a)
             u == [t EXCEPT !.ack = top, !.done = {d \in T : d > top}]
  <2>1. Complete(t, s) = u
    BY <1>1, <1>3 DEF Complete
  <2>2. \A d \in T : d \in SeqNo /\ d \in Int /\ d <= MaxSeq /\ d > t.ack
    BY <1>1, <1>3
  <2>3. \E a \in {t.ack} \cup T : RunEnds(a)
    <3>1. MaxSeq \in Int
      OBVIOUS
    <3> HIDE DEF T
    <3> QED
      BY <1>1, <2>2, <3>1, EndOfRun
  <2>4. top \in {t.ack} \cup T /\ RunEnds(top)
    <3> HIDE DEF T, RunEnds
    <3> QED
      BY <2>3
  <2>5. u.start = t.start /\ u.ack = top /\ u.done = {d \in T : d > top}
    BY DEF TrackerType
  <2>6. top \in {None} \cup SeqNo /\ t.ack <= top
    <3> HIDE DEF T, top
    <3>1. CASE top = t.ack
      BY <1>1, <3>1
    <3>2. CASE top \in T
      BY <1>1, <2>2, <3>2
    <3> QED
      BY <2>4, <3>1, <3>2
  <2>7. u \in TrackerType
    <3>1. {d \in T : d > top} \in SUBSET SeqNo
      BY <2>2
    <3> HIDE DEF T, top
    <3> QED
      BY <2>6, <3>1 DEF TrackerType
  <2> HIDE DEF u, top
  <2> QED
    BY <2>1, <2>4, <2>5, <2>6, <2>7
<1> QED
  BY <1>1, <1>2, <1>3

\* Whatever the de-duplicator makes of a record that is on its way, the record is
\* covered: one that it finds too old is a whole bitmap below a record that is near.
LEMMA WrittenCovers ==
  ASSUME IInv, NEW g \in Stream, NEW s \in writing[g], ProcessElement(ThisBoot, s),
         commit' = commit, floor' = floor
  PROVE  /\ Deduper' /\ s \in SeqNo
         /\ \A r \in SeqNo : Covered(r) => Covered(r)'
         /\ Covered(s)' /\ Near(win'.lastSeen)
<1>1. s \in SeqNo /\ s \in Nat /\ Near(s)
  BY Numbers DEF IInv, AllNear, Records
<1>2. /\ Deduper'
      /\ win'.lastSeen \in {win.lastSeen, s}
      /\ \/ passed[s] = 0 /\ passed' = [passed EXCEPT ![s] = 1]
         \/ passed' = passed /\ (passed[s] = 1 \/ s <= win.lastSeen - W)
  BY <1>1, PassesOnce DEF IInv
<1>3. passed \in [SeqNo -> Nat]
  BY WindowInvFacts DEF IInv, Deduper
<1>4. \A r \in SeqNo : passed[r] = 1 => passed'[r] = 1
  BY <1>2, <1>3
<1>5. \A r \in SeqNo : Covered(r) => Covered(r)'
  BY <1>4 DEF Covered
<1>6. Near(win'.lastSeen)
  BY <1>1, <1>2 DEF IInv, AllNear
<1>7. ASSUME s <= win.lastSeen - W PROVE Covered(s)
  <2>1. win.lastSeen <= commit + MaxInflight \/ win.lastSeen < floor + MaxInflight
    BY DEF IInv, AllNear, Near
  <2>2. s <= commit \/ s < floor
    BY <1>1, <1>7, <2>1, Numbers
  <2>3. CASE s <= commit
    <3>1. s \in 0..commit
      BY <1>1, <2>3, Numbers
    <3> QED
      BY <3>1 DEF IInv, CommitCovers
  <2> QED
    BY <2>2, <2>3 DEF Covered
<1>8. Covered(s)'
  <2>1. CASE passed' = [passed EXCEPT ![s] = 1]
    BY <1>1, <1>3, <2>1 DEF Covered
  <2>2. CASE passed' = passed /\ (passed[s] = 1 \/ s <= win.lastSeen - W)
    BY <1>1, <1>5, <1>7, <2>2 DEF Covered
  <2> QED
    BY <1>2, <2>1, <2>2
<1> QED
  BY <1>1, <1>2, <1>5, <1>6, <1>8

\* A record leaves Kafka's hands: what holds of the rest, whatever its fate.
LEMMA LeavesWriting ==
  ASSUME IInv, NEW g \in Stream, NEW s \in writing[g],
         writing' = [writing EXCEPT ![g] = @ \ {s}],
         UNCHANGED <<vehicle, open, wire, acks>>,
         Deduper', \A r \in SeqNo : Covered(r) => Covered(r)', Near(win'.lastSeen)
  PROVE  /\ (\A h \in Stream \ open : wire[h] = {})'
         /\ Shipping' /\ CommitCovers' /\ AllNear' /\ Sizes'
         /\ \A h \in Stream : Records(h)' \subseteq Records(h)
         /\ writing' \in [Stream -> SUBSET SeqNo]
<1> USE DEF vehicle, disk, shipper
<1>1. writing \in [Stream -> SUBSET SeqNo] /\ s \in SeqNo
  BY Numbers DEF IInv, TypeOK
<1>2. \A h \in Stream : writing'[h] \subseteq writing[h]
  BY <1>1
<1>3. \A h \in Stream : Records(h)' \subseteq Records(h)
  BY <1>2 DEF Records
<1>4. (\A h \in Stream \ open : wire[h] = {})'
  BY DEF IInv
<1>5. CommitCovers'
  BY CommitStays
<1>6. AllNear'
  <2>1. Near(win.lastSeen)'
    BY DEF Near
  <2>2. \A r \in queue : Near(r)'
    BY DEF IInv, AllNear, Near
  <2>3. \A h \in Stream : \A r \in Records(h)' : Near(r)' /\ r < walNext
    BY <1>3 DEF IInv, AllNear, Near
  <2> QED
    BY <2>1, <2>2, <2>3 DEF AllNear, Records
<1>7. Shipping'
  BY DEF IInv, Shipping, PendingCoversUncommitted, Running
<1>8. Sizes'
  <2>1. ASSUME NEW h \in Stream PROVE Cardinality(Records(h)') <= MaxInflight
    <3>1. Records(h) \subseteq SeqNo
      BY Numbers DEF Records
    <3>2. Cardinality(Records(h)') <= Cardinality(Records(h)) /\ Cardinality(Records(h)') \in Nat
          /\ Cardinality(Records(h)) \in Nat
      BY <1>3, <3>1, SeqAssumption, FewerSeqs
    <3> QED
      BY <3>2, Numbers DEF IInv, Sizes
  <2>2. Cardinality(queue') <= MaxInflight /\ (Running' => Cardinality(queue') <= shipNext' - 1 - commit')
    BY DEF IInv, Sizes, Running
  <2> QED
    BY <2>1, <2>2 DEF Sizes, Records
<1>9. writing' \in [Stream -> SUBSET SeqNo]
  BY <1>1
<1> QED
  BY <1>3, <1>4, <1>5, <1>6, <1>7, <1>8, <1>9

\* The tracker of the present stream hears of a record that is covered by then.
LEMMA WrittenInv ==
  ASSUME IInv, NEW g \in Stream, NEW s \in SeqNo, Written(g, s)
  PROVE  IInv'
<1> USE DEF vehicle, disk, shipper, gateway, budget
<1>1. /\ s \in writing[g] /\ writing' = [writing EXCEPT ![g] = @ \ {s}]
      /\ tracker' = IF InUse(g) THEN Complete(tracker, s) ELSE tracker
      /\ ProcessElement(ThisBoot, s)
      /\ UNCHANGED <<vehicle, open, wire, acks, budget>>
  BY DEF Written
<1>2. /\ Deduper' /\ \A r \in SeqNo : Covered(r) => Covered(r)'
      /\ Covered(s)' /\ Near(win'.lastSeen)
  BY <1>1, WrittenCovers
<1>3. /\ (\A h \in Stream \ open : wire[h] = {})'
      /\ Shipping' /\ CommitCovers' /\ AllNear' /\ Sizes'
      /\ \A h \in Stream : Records(h)' \subseteq Records(h)
      /\ writing' \in [Stream -> SUBSET SeqNo]
  BY <1>1, <1>2, LeavesWriting, Zenon
<1>4. tracker \in TrackerType /\ \A d \in tracker.done : d > tracker.ack
  BY DEF IInv, TypeOK, TrackerType, AckCovers
<1>5. writing \in [Stream -> SUBSET SeqNo]
  BY DEF IInv, TypeOK
<1>6. ASSUME InUse(g)
      PROVE  tracker' \in TrackerType /\ AckCovers' /\ Present'
  <2> DEFINE u == Complete(tracker, s)
  <2>1. /\ u \in TrackerType /\ u.start = tracker.start
        /\ tracker.ack <= u.ack /\ u.ack \in {tracker.ack} \cup tracker.done \cup {s}
        /\ (tracker.ack + 1)..u.ack \subseteq tracker.done \cup {s}
        /\ u.done \subseteq tracker.done \cup {s}
        /\ \A d \in u.done : d > u.ack
    BY <1>4, SeqAssumption, CompleteMoves
  <2> HIDE DEF u
  <2>2. tracker' = u
    BY <1>1, <1>6 DEF u
  <2>3. g = cur /\ cur \in Stream /\ cur # 0 /\ tracker.start # None /\ cur' = cur
    BY <1>1, <1>6 DEF InUse, IInv, Present, Stream
  <2>4. tracker.ack \in Int /\ u.ack \in Int /\ tracker.ack >= -1 /\ tracker.done \subseteq SeqNo
        /\ tracker.ack <= MaxSeq /\ u.ack <= MaxSeq
    BY <2>1, Numbers DEF TrackerType, SeqNo, None
  <2>5. AckCovers'
    <3>1. \A r \in 0..u.ack : Covered(r)'
      <4> SUFFICES ASSUME NEW r \in 0..u.ack PROVE Covered(r)'
        OBVIOUS
      <4>1. r \in SeqNo
        BY <2>4, Numbers DEF SeqNo
      <4>2. CASE r <= tracker.ack
        <5>1. r \in 0..tracker.ack
          BY <2>4, <4>2
        <5> QED
          BY <1>2, <2>3, <4>1, <5>1 DEF IInv, AckCovers
      <4>3. CASE r > tracker.ack
        <5>1. r \in tracker.done \cup {s}
          BY <2>1, <2>4, <4>3
        <5> QED
          BY <1>2, <4>1, <5>1 DEF IInv, AckCovers
      <4> QED
        BY <2>4, <4>2, <4>3
    <3>2. \A r \in u.done : Covered(r)' /\ r > u.ack
      BY <1>2, <2>1, <2>4 DEF IInv, AckCovers
    <3>3. \A a \in acks : a <= u.ack
      BY <2>1, <2>4, Numbers DEF IInv, AckCovers
    <3> QED
      BY <1>1, <2>1, <2>2, <2>3, <3>1, <3>2, <3>3 DEF AckCovers
  <2>6. Present'
    <3>1. /\ Records(cur) \subseteq queue /\ wire[cur] \cap writing[cur] = {}
          /\ \A r \in Records(cur) : r <= sentTo /\ r \notin tracker.done /\ r > tracker.ack
          /\ tracker.ack <= sentTo /\ \A r \in tracker.done : r <= sentTo
          /\ Records(cur) \subseteq SeqNo
      BY <2>3, Numbers DEF IInv, Present, Records
    <3>2. s \in Records(cur) /\ s <= sentTo
      BY <1>1, <2>3, <3>1 DEF Records
    <3>3. Records(cur)' = Records(cur) \ {s}
      BY <1>1, <1>5, <2>3, <3>1 DEF Records
    <3>4. \A r \in Records(cur) \ {s} : r \notin u.done /\ r > u.ack
      <4> SUFFICES ASSUME NEW r \in Records(cur) \ {s} PROVE r \notin u.done /\ r > u.ack
        OBVIOUS
      <4>1. r \notin tracker.done \cup {s} /\ r > tracker.ack /\ r \in Int
        BY <3>1, Numbers
      <4>2. r \notin (tracker.ack + 1)..u.ack
        BY <2>1, <4>1
      <4> QED
        BY <2>1, <2>4, <4>1, <4>2
    <3>5. u.ack <= sentTo /\ \A r \in u.done : r <= sentTo
      BY <2>1, <3>1, <3>2
    <3>6. (wire[cur] \cap writing[cur])' = {}
      BY <1>1, <1>5, <2>3, <3>1
    <3> QED
      BY <1>1, <2>1, <2>2, <2>3, <3>1, <3>3, <3>4, <3>5, <3>6 DEF Present, Records
  <2> QED
    BY <2>1, <2>2, <2>5, <2>6
<1>7. ASSUME ~InUse(g)
      PROVE  tracker' \in TrackerType /\ AckCovers' /\ Present'
  <2>1. tracker' = tracker
    BY <1>1, <1>7
  <2>2. AckCovers'
    BY <1>1, <1>2, <2>1, AckStays
  <2>3. Present'
    <3> SUFFICES ASSUME cur # 0 PROVE Present'
      BY <1>1 DEF Present
    <3>1. cur \in Stream /\ Records(cur)' \subseteq Records(cur) /\ cur' = cur
      BY <1>1, <1>3 DEF IInv, TypeOK, Records
    <3>2. (wire[cur] \cap writing[cur])' = {}
      BY <1>1, <1>5, <3>1 DEF IInv, Present
    <3>3. tracker.start = None => (writing[cur])' = {} /\ (cur \in open => wire[cur] = {r \in queue : r <= sentTo})
      BY <1>1, <1>5, <3>1 DEF IInv, Present
    <3> QED
      BY <1>1, <2>1, <3>1, <3>2, <3>3 DEF IInv, Present, Records
  <2> QED
    BY <1>4, <2>1, <2>2, <2>3
<1>8. TypeOK'
  <2>1. WindowTypeOK'
    BY <1>2 DEF Deduper, WindowInv
  <2>2. tracker' \in TrackerType
    BY <1>6, <1>7
  <2> QED
    BY <1>1, <1>3, <2>1, <2>2 DEF IInv, TypeOK, TrackerType
<1> QED
  BY <1>2, <1>3, <1>6, <1>7, <1>8 DEF IInv

\* A write that is not heard of leaves the tracker as it was.
LEMMA NotWrittenInv ==
  ASSUME IInv, NEW g \in Stream, NEW s \in SeqNo, NEW taken \in BOOLEAN,
         NotWritten(g, s, taken)
  PROVE  IInv'
<1> USE DEF vehicle, disk, shipper, gateway, budget
<1>1. /\ s \in writing[g] /\ writing' = [writing EXCEPT ![g] = @ \ {s}]
      /\ tracker' = tracker
      /\ UNCHANGED <<vehicle, open, wire, acks, breaks, exits>>
      /\ ProcessElement(ThisBoot, s) \/ UNCHANGED downstream
  BY DEF NotWritten
<1>2. Deduper' /\ (\A r \in SeqNo : Covered(r) => Covered(r)') /\ Near(win'.lastSeen)
  <2>1. CASE ProcessElement(ThisBoot, s)
    BY <1>1, <2>1, WrittenCovers
  <2>2. CASE UNCHANGED downstream
    <3>1. Deduper'
      BY <2>2, DeduperStays DEF IInv
    <3>2. \A r \in SeqNo : Covered(r) => Covered(r)'
      BY <1>1, <2>2 DEF Covered, downstream
    <3>3. Near(win'.lastSeen)
      BY <2>2 DEF IInv, AllNear, downstream
    <3> QED
      BY <3>1, <3>2, <3>3
  <2> QED
    BY <1>1, <2>1, <2>2
<1>3. /\ (\A h \in Stream \ open : wire[h] = {})'
      /\ Shipping' /\ CommitCovers' /\ AllNear' /\ Sizes'
      /\ \A h \in Stream : Records(h)' \subseteq Records(h)
      /\ writing' \in [Stream -> SUBSET SeqNo]
  BY <1>1, <1>2, LeavesWriting, Zenon
<1>4. writing \in [Stream -> SUBSET SeqNo]
  BY DEF IInv, TypeOK
<1>5. AckCovers'
  BY <1>1, <1>2, AckStays
<1>6. Present'
  <2> SUFFICES ASSUME cur # 0 PROVE Present'
    BY <1>1 DEF Present
  <2>1. cur \in Stream /\ Records(cur)' \subseteq Records(cur) /\ cur' = cur
    BY <1>1, <1>3 DEF IInv, TypeOK, Records
  <2>2. (wire[cur] \cap writing[cur])' = {}
    BY <1>1, <1>4, <2>1 DEF IInv, Present
  <2>3. tracker.start = None => (writing[cur])' = {} /\ (cur \in open => wire[cur] = {r \in queue : r <= sentTo})
    BY <1>1, <1>4, <2>1 DEF IInv, Present
  <2> QED
    BY <1>1, <2>1, <2>2, <2>3 DEF IInv, Present, Records
<1>7. TypeOK'
  <2>1. WindowTypeOK'
    BY <1>2 DEF Deduper, WindowInv
  <2>2. mishaps' \in 0..MaxMishaps
    BY DeliveryAssumption DEF DeliveryAssumption, IInv, TypeOK, NotWritten
  <2> QED
    BY <1>1, <1>3, <2>1, <2>2 DEF IInv, TypeOK
<1> QED
  BY <1>2, <1>3, <1>5, <1>6, <1>7 DEF IInv

\* What is acknowledged is the tracker's ack.
LEMMA EmitAckInv ==
  ASSUME IInv, EmitAck
  PROVE  IInv'
<1> USE DEF vehicle, disk, shipper, gateway, budget
<1>1. /\ tracker' = [tracker EXCEPT !.last = tracker.ack] /\ acks' = acks \cup {tracker.ack}
      /\ tracker.ack > tracker.last /\ cur \in open
      /\ UNCHANGED <<vehicle, open, wire, writing, downstream, budget>>
  BY DEF EmitAck, Emitted, HasNews
<1>2. tracker \in TrackerType
  BY DEF IInv, TypeOK, TrackerType
<1>3. tracker.ack \in SeqNo /\ tracker.start # None
  <2>1. tracker.ack # None
    BY <1>1, <1>2, Numbers DEF TrackerType, None
  <2> QED
    BY <1>2, <2>1 DEF TrackerType, IInv, AckCovers, NoTracker
<1>4. /\ tracker' \in TrackerType /\ tracker'.start = tracker.start
      /\ tracker'.ack = tracker.ack /\ tracker'.done = tracker.done
  BY <1>1, <1>2, <1>3 DEF TrackerType
<1>5. cur \in Stream /\ cur # 0
  BY <1>1 DEF IInv, TypeOK, Stream
<1>6. Deduper'
  BY <1>1, DeduperStays DEF IInv
<1>7. \A s \in SeqNo : Covered(s) <=> Covered(s)'
  BY <1>1 DEF Covered, downstream
<1>8. TypeOK'
  <2>1. WindowTypeOK'
    BY <1>6 DEF Deduper, WindowInv
  <2> QED
    BY <1>1, <1>3, <1>4, <2>1 DEF IInv, TypeOK, TrackerType
<1>9. (\A g \in Stream \ open : wire[g] = {})'
  BY <1>1 DEF IInv
<1>10. Shipping'
  BY <1>1, <1>5 DEF IInv, Shipping, PendingCoversUncommitted, Running
<1>11. CommitCovers'
  BY <1>1, <1>7, CommitStays
<1>12. AllNear'
  BY <1>1 DEF IInv, AllNear, Near, Records, downstream
<1>13. AckCovers'
  <2>1. (\A s \in 0..tracker.ack : s \in SeqNo) /\ (\A s \in tracker.done : s \in SeqNo)
    BY Numbers DEF SeqNo
  <2>2. tracker.ack <= tracker.ack
    BY Numbers
  <2> QED
    BY <1>1, <1>3, <1>4, <1>7, <2>1, <2>2 DEF IInv, AckCovers
<1>14. Present'
  BY <1>1, <1>4 DEF IInv, Present, Records
<1>15. Sizes'
  BY <1>1 DEF IInv, Sizes, Running, Records
<1> QED
  BY <1>6, <1>8, <1>9, <1>10, <1>11, <1>12, <1>13, <1>14, <1>15 DEF IInv

\* A handler is closed, and what was on its way to it is gone.
LEMMA CloseStreamInv ==
  ASSUME IInv, NEW g \in Stream, CloseStream(g)
  PROVE  IInv'
<1> USE DEF vehicle, disk, shipper, gateway, budget
<1>1. /\ g \in open /\ open' = open \ {g} /\ wire' = [wire EXCEPT ![g] = {}]
      /\ UNCHANGED <<vehicle, writing, tracker, acks, downstream, exits, mishaps>>
      /\ breaks' \in 0..MaxBreaks
  BY DeliveryAssumption DEF DeliveryAssumption, IInv, TypeOK, CloseStream
<1>2. wire \in [Stream -> SUBSET SeqNo]
  BY DEF IInv, TypeOK
<1>3. wire' \in [Stream -> SUBSET SeqNo] /\ \A h \in Stream : wire'[h] \subseteq wire[h]
  BY <1>1, <1>2
<1>4. \A h \in Stream : Records(h)' \subseteq Records(h)
  BY <1>1, <1>3 DEF Records
<1>5. Deduper'
  BY <1>1, DeduperStays DEF IInv
<1>6. \A s \in SeqNo : Covered(s) <=> Covered(s)'
  BY <1>1 DEF Covered, downstream
<1>7. TypeOK'
  <2>1. WindowTypeOK'
    BY <1>5 DEF Deduper, WindowInv
  <2>2. open' \subseteq Stream
    BY <1>1 DEF IInv, TypeOK
  <2> QED
    BY <1>1, <1>3, <2>1, <2>2 DEF IInv, TypeOK
<1>8. (\A h \in Stream \ open : wire[h] = {})'
  BY <1>1, <1>2 DEF IInv
<1>9. Shipping'
  BY <1>1 DEF IInv, Shipping, PendingCoversUncommitted, Running
<1>10. CommitCovers'
  BY <1>1, <1>6, CommitStays
<1>11. AllNear'
  <2>1. \A h \in Stream : \A r \in Records(h)' : Near(r)' /\ r < walNext
    BY <1>1, <1>4 DEF IInv, AllNear, Near
  <2> QED
    BY <1>1, <2>1 DEF IInv, AllNear, Near, Records, downstream
<1>12. AckCovers'
  BY <1>1, <1>6, AckStays
<1>13. Present'
  <2> SUFFICES ASSUME cur # 0 PROVE Present'
    BY <1>1 DEF Present
  <2>1. cur \in Stream /\ Records(cur)' \subseteq Records(cur) /\ cur' = cur
    BY <1>1, <1>4 DEF IInv, TypeOK, Records
  <2>2. (wire[cur] \cap writing[cur])' = {}
    BY <1>1, <1>3, <2>1 DEF IInv, Present
  <2>3. tracker.start = None =>
          (writing[cur])' = {} /\ (cur \in open' => wire'[cur] = {r \in queue : r <= sentTo})
    BY <1>1, <1>2, <2>1 DEF IInv, Present
  <2> QED
    BY <1>1, <2>1, <2>2, <2>3 DEF IInv, Present, Records
<1>14. Sizes'
  <2>1. ASSUME NEW h \in Stream PROVE Cardinality(Records(h)') <= MaxInflight
    <3>1. Records(h) \subseteq SeqNo
      BY Numbers DEF Records
    <3>2. Cardinality(Records(h)') <= Cardinality(Records(h)) /\ Cardinality(Records(h)') \in Nat
          /\ Cardinality(Records(h)) \in Nat
      BY <1>4, <3>1, SeqAssumption, FewerSeqs
    <3> QED
      BY <3>2, Numbers DEF IInv, Sizes
  <2> QED
    BY <1>1, <2>1 DEF IInv, Sizes, Records, Running
<1> QED
  BY <1>5, <1>7, <1>8, <1>9, <1>10, <1>11, <1>12, <1>13, <1>14 DEF IInv

------------------------------------------------------------------------------
(* The theorems.                                                           *)

LEMMA NextInv ==
  ASSUME IInv, [Next]_vars
  PROVE  IInv'
<1>1. CASE UNCHANGED vars
  <2> USE <1>1 DEF vars, vehicle, disk, shipper, gateway, budget
  <2>1. Deduper'
    BY DeduperStays DEF IInv
  <2>2. TypeOK'
    BY <2>1 DEF IInv, TypeOK, Deduper, WindowInv
  <2>3. Shipping' /\ CommitCovers' /\ AllNear' /\ AckCovers'
    BY DEF IInv, Shipping, PendingCoversUncommitted, Running, CommitCovers, Covered,
           AllNear, Near, Records, AckCovers, downstream
  <2>4. Present' /\ Sizes' /\ (\A g \in Stream \ open : wire[g] = {})'
    BY DEF IInv, Present, Sizes, Records, Running
  <2> QED
    BY <2>1, <2>2, <2>3, <2>4 DEF IInv
<1>2. CASE Kill \/ Fail \/ Stall \/ Finish
  <2>1. exits \in 0..MaxExits /\ MaxExits \in Nat /\ breaks \in 0..MaxBreaks
    BY DeliveryAssumption DEF DeliveryAssumption, IInv, TypeOK
  <2>2. CASE Kill
    BY <2>1, <2>2, EndsInv DEF Kill
  <2>3. CASE Fail
    BY <2>1, <2>3, StreamLostBudget, EndsInv DEF Fail
  <2>4. CASE Stall \/ Finish
    BY <2>1, <2>4, EndsInv DEF Stall, Finish, budget
  <2> QED
    BY <1>2, <2>2, <2>3, <2>4
<1>3. CASE Next
  <2>1. ASSUME NEW keep \in floor..(walNext + 1), AppendRecord(keep) PROVE IInv'
    BY <2>1, AppendInv
  <2>2. ASSUME NEW n \in 1..MaxInflight, Pump(n) PROVE IInv'
    BY <2>2, PumpInv
  <2>3. ASSUME NEW g \in Stream, Receive(g) \/ CloseStream(g) PROVE IInv'
    BY <2>3, ReceiveInv, CloseStreamInv
  <2>4. ASSUME NEW g \in Stream, NEW s \in SeqNo, Written(g, s) PROVE IInv'
    BY <2>4, WrittenInv
  <2>5. ASSUME NEW g \in Stream, NEW s \in SeqNo, NEW taken \in BOOLEAN,
               NotWritten(g, s, taken)
        PROVE  IInv'
    BY <2>5, NotWrittenInv
  <2> QED
    BY <1>2, <1>3, <2>1, <2>2, <2>3, <2>4, <2>5, OpenStreamInv, DrainInv, ReadAckInv,
       BreakInv, RestartInv, EmitAckInv DEF Next
<1> QED
  BY <1>1, <1>3

\* The invariant holds in every state the ingest path can reach.
THEOREM InvariantHolds == Spec => []IInv
<1>1. Init => IInv
  BY InitInv
<1>2. IInv /\ [Next]_vars => IInv'
  BY NextInv
<1> QED
  BY <1>1, <1>2, PTL DEF Spec

\* The state keeps its shape; no stream has more writes outstanding than the vehicle's
\* window, so the gateway's cap on them is never met; and what the process gave out and
\* COMMIT does not cover is still pending.
THEOREM ConsistentHolds == Spec => []Consistent
<1>1. ASSUME IInv PROVE WindowBoundsGateway
  <2>1. \A g \in Stream : writing[g] \cup wire[g] = Records(g)
    BY DEF Records
  <2>2. Cardinality(queue) <= MaxInflight /\ \A g \in Stream : Cardinality(Records(g)) <= MaxInflight
    BY <1>1 DEF IInv, Sizes
  <2> QED
    BY <2>1, <2>2 DEF WindowBoundsGateway
<1>2. IInv => Consistent
  BY <1>1 DEF IInv, Shipping, Consistent
<1> QED
  BY <1>2, InvariantHolds, PTL

\* The de-duplicator throws away only what went downstream before or was dropped by the
\* disk cap, whatever streams, old and new, give it.
THEOREM DropsOnlyDuplicates == Spec => []OnlyDuplicatesDropped
<1>1. ASSUME IInv PROVE OnlyDuplicatesDropped
  <2> SUFFICES ASSUME NEW g \in Stream, NEW s \in writing[g] \cup wire[g],
                      Judge(win, ThisBoot, s) \in {"DUPLICATE", "TOO_OLD"}
               PROVE  passed[s] > 0 \/ s < floor
    BY DEF OnlyDuplicatesDropped
  <2>1. s \in SeqNo /\ s \in Nat /\ ThisBoot \in Boot
    BY <1>1, Numbers, DeliveryAssumption DEF DeliveryAssumption
  <2>2. Deduper /\ WindowInv /\ win \in WindowType
    BY <1>1, WindowInvFacts DEF IInv, Deduper
  <2>3. CASE Judge(win, ThisBoot, s) = "DUPLICATE"
    <3>1. s \in (win.lastSeen - W + 1)..win.lastSeen /\ Test(win, s)
      BY <2>1, <2>2, <2>3, Verdicts
    <3>2. passed[s] = 1
      BY <2>1, <2>2, <3>1 DEF WindowInv, Mirror
    <3> QED
      BY <3>2
  <2>4. CASE Judge(win, ThisBoot, s) = "TOO_OLD"
    <3>1. s <= win.lastSeen - W
      BY <2>1, <2>2, <2>4, Verdicts
    <3>2. win.lastSeen <= commit + MaxInflight \/ win.lastSeen < floor + MaxInflight
      BY <1>1 DEF IInv, AllNear, Near
    <3>3. s \in 0..commit \/ s < floor
      BY <1>1, <2>1, <3>1, <3>2, Numbers
    <3> QED
      BY <1>1, <3>3 DEF IInv, CommitCovers, Covered
  <2> QED
    BY <2>3, <2>4
<1>2. IInv => OnlyDuplicatesDropped
  BY <1>1
<1> QED
  BY <1>2, InvariantHolds, PTL

\* What a step does to the de-duplicator is a delivery of ExactlyOnce or nothing.
LEMMA WriteImplements ==
  ASSUME IInv, NEW g \in Stream, NEW s \in writing[g],
         ProcessElement(ThisBoot, s) \/ UNCHANGED downstream,
         walNext' = walNext, commit' = commit, floor' = floor
  PROVE  [Abstract!Next]_(Abstract!vars)
<1>1. s \in SeqNo /\ s < walNext
  BY Numbers DEF IInv, AllNear, Records
<1>2. CASE ProcessElement(ThisBoot, s)
  <2>1. \/ passed[s] = 0 /\ passed' = [passed EXCEPT ![s] = 1]
        \/ passed' = passed
    BY <1>1, <1>2, PassesOnce DEF IInv
  <2>2. CASE passed[s] = 0 /\ passed' = [passed EXCEPT ![s] = 1]
    <3>1. Abstract!Deliver(s)
      BY <1>1, <2>2 DEF Abstract!Deliver
    <3> QED
      BY <1>1, <3>1 DEF Abstract!Next, Abstract!SeqNo, SeqNo
  <2>3. CASE passed' = passed
    BY <2>3 DEF Abstract!vars
  <2> QED
    BY <2>1, <2>2, <2>3
<1>3. CASE UNCHANGED downstream
  BY <1>3 DEF downstream, Abstract!vars
<1> QED
  BY <1>2, <1>3

\* Every step is one of ExactlyOnce or none: a record passes the de-duplicator once, and
\* COMMIT moves only over seqs that did or that the disk cap dropped.
LEMMA StepImplements ==
  ASSUME IInv, [Next]_vars
  PROVE  [Abstract!Next]_(Abstract!vars)
<1> USE DEF vehicle, disk, shipper, gateway, budget
<1>1. ASSUME UNCHANGED <<walNext, commit, floor, passed>>
      PROVE  [Abstract!Next]_(Abstract!vars)
  BY <1>1 DEF Abstract!vars
<1>2. ASSUME NEW keep \in floor..(walNext + 1), AppendRecord(keep)
      PROVE  [Abstract!Next]_(Abstract!vars)
  <2>1. walNext <= MaxSeq
    BY <1>2, Numbers DEF AppendRecord
  <2>2. Abstract!Issue(keep)
    BY <1>2, <2>1 DEF AppendRecord, downstream, Abstract!Issue
  <2> QED
    BY <2>2 DEF Abstract!Next
<1>3. ASSUME ReadAck PROVE [Abstract!Next]_(Abstract!vars)
  <2>1. /\ commit' = commit \/ (commit < commit' /\ commit' < walNext /\ commit' \in SeqNo)
        /\ \A s \in 0..commit' : Covered(s)
    BY <1>3, ReadAckInv
  <2>2. UNCHANGED <<walNext, floor, passed>>
    BY <1>3 DEF ReadAck, downstream
  <2>3. CASE commit' = commit
    BY <1>1, <2>2, <2>3
  <2>4. CASE commit < commit' /\ commit' < walNext /\ commit' \in SeqNo
    <3>1. \A s \in floor..commit' : passed[s] = 1
      <4> SUFFICES ASSUME NEW s \in floor..commit' PROVE passed[s] = 1
        OBVIOUS
      <4>1. s \in 0..commit' /\ ~(s < floor)
        BY <2>4, Numbers
      <4> QED
        BY <2>1, <4>1 DEF Covered
    <3>2. Abstract!Acknowledge(commit')
      BY <2>2, <2>4, <3>1 DEF Abstract!Acknowledge
    <3> QED
      BY <2>4, <3>2 DEF Abstract!Next, Abstract!SeqNo, SeqNo
  <2> QED
    BY <2>1, <2>3, <2>4
<1>4. ASSUME NEW g \in Stream, NEW s \in SeqNo, Written(g, s)
      PROVE  [Abstract!Next]_(Abstract!vars)
  BY <1>4, WriteImplements DEF Written
<1>5. ASSUME NEW g \in Stream, NEW s \in SeqNo, NEW taken \in BOOLEAN,
             NotWritten(g, s, taken)
      PROVE  [Abstract!Next]_(Abstract!vars)
  BY <1>5, WriteImplements DEF NotWritten
<1>6. CASE UNCHANGED vars
  BY <1>1, <1>6 DEF vars, downstream
<1>7. CASE Next
  <2>1. ASSUME NEW n \in 1..MaxInflight, Pump(n) PROVE [Abstract!Next]_(Abstract!vars)
    BY <1>1, <2>1 DEF Pump, downstream
  <2>2. ASSUME OpenStream \/ Drain \/ Break \/ Restart \/ EmitAck
        PROVE  [Abstract!Next]_(Abstract!vars)
    BY <1>1, <2>2 DEF OpenStream, Drain, Break, StreamLost, Restart, EmitAck, downstream
  <2>3. ASSUME Kill \/ Fail \/ Stall \/ Finish PROVE [Abstract!Next]_(Abstract!vars)
    BY <1>1, <2>3 DEF Kill, Fail, Stall, Finish, Ends, downstream
  <2>4. ASSUME NEW g \in Stream, Receive(g) \/ CloseStream(g)
        PROVE  [Abstract!Next]_(Abstract!vars)
    BY <1>1, <2>4 DEF Receive, CloseStream, downstream
  <2> QED
    BY <1>2, <1>3, <1>4, <1>5, <1>7, <2>1, <2>2, <2>3, <2>4 DEF Next
<1> QED
  BY <1>6, <1>7

\* The ingest path implements ExactlyOnce.
THEOREM DeliversExactlyOnce == Spec => ImplementsExactlyOnce
<1>1. Init => Abstract!Init
  BY DEF Init, Abstract!Init, WindowInit, None, SeqNo, Abstract!SeqNo
<1>2. IInv /\ [Next]_vars => [Abstract!Next]_(Abstract!vars)
  BY StepImplements
<1> QED
  BY <1>1, <1>2, InvariantHolds, PTL DEF Spec, ImplementsExactlyOnce, Abstract!Spec
=============================================================================
