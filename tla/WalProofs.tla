------------------------------ MODULE WalProofs ------------------------------
(***************************************************************************)
(* Proofs about the write-ahead log, for every size of segments, disk cap, *)
(* batch and number of process lives: a seq that was given to a reader     *)
(* names one record for good, no record leaves the log without a trace,    *)
(* the cursor misses nothing but what the cap dropped, and the cap holds.  *)
(* The heart is what recovery would find at any moment: it goes on above   *)
(* every seq that a reader was given, that is acknowledged or dropped, and *)
(* above the start of every segment, even an empty one.                    *)
(***************************************************************************)
EXTENDS Wal, IntervalTheorems

Entry == [next : 0..(MaxSeq + 1), safe : 0..(MaxSeq + 1)]

\* Recovery would go on above s: COMMIT, the journal or a segment tells it to.
Resumes(s) ==
  \/ s <= commit
  \/ \E d \in dropped : s <= d[2]
  \/ \E t \in Held : s <= t

\* Segments follow one another, and each starts where recovery could have opened it:
\* where it would open the next one, if the newest segment has no record.
Chained ==
  /\ files \in [Starts -> Entry]
  /\ \A f, g \in Starts : f < g => files[f].next <= g
  /\ \A f \in Starts : f = 0 \/ Resumes(f - 1)
  /\ \A f \in Starts : f = files[f].next => ~Resumes(f) /\ \A g \in Starts : g <= f

\* What recovery would go on above is held, dropped or acknowledged.
Traced == \A s \in SeqNo : s > commit /\ Resumes(s) => s \in Held \cup Dropped

\* A reader was given the last text of a seq, and recovery would not issue it again.
Told ==
  /\ \A s \in SeqNo : /\ shown[s] \subseteq {text[s]} /\ text[s] <= life
                      /\ shown[s] # {} => IF up THEN s < flushed ELSE Resumes(s)
  /\ \A s \in 0..commit : text[s] \in shown[s] \/ s \in Dropped
  /\ \A s \in Held : text[s] # 0

\* The segment in use is the newest.
ActiveLast ==
  /\ active \in Starts /\ \A f \in Starts : f <= active
  /\ files[active].next = nextSeq /\ files[active].safe <= flushed
  /\ active <= flushed /\ nextSeq - active < SegRecs
  /\ \A d \in dropped : d[2] < active

\* The cursor is past COMMIT, and past all segments below the one it is in.
CursorAhead ==
  /\ commit < cursor.seq /\ cursor.seq <= flushed
  /\ cursor.path # None =>
       /\ cursor.path <= active
       /\ \A f \in Starts : f < cursor.path => files[f].next <= cursor.seq

\* What a method under the lock is in the middle of.
Midway ==
  /\ busy \in {"cap", "unlink"} => \E f \in Starts : f < active
  /\ busy = "unlink" /\ victim < files[victim].next =>
       <<victim, files[victim].next - 1>> \in dropped
  /\ busy = "truncate" => Reclaimable(files, commit) # {}
  /\ busy \in {"idle", "truncate"} /\ AppendedThisLife => DiskUse(files, active) <= MaxDisk

IInv ==
  /\ TypeOK
  /\ Chained
  /\ Traced
  /\ Told
  /\ up => ActiveLast /\ CursorAhead /\ Midway /\ NothingSkipped
  /\ ~up => /\ nextSeq = 0 /\ active = 0 /\ flushed = 0 /\ busy = "idle"
            /\ cursor = [seq |-> 0, path |-> None]

------------------------------------------------------------------------------
(* What the definitions say, in the terms the provers compute with.        *)

\* The shape of the numbers.
LEMMA LogFacts ==
  ASSUME IInv
  PROVE  /\ MaxSeq \in Nat /\ SegRecs \in Nat /\ SegRecs > 0 /\ MaxDisk \in Nat
         /\ Starts \subseteq 0..(MaxSeq + 1)
         /\ \A f \in Starts : /\ f \in Nat /\ files[f].next \in Nat /\ files[f].safe \in Nat
                              /\ f <= files[f].next /\ files[f].next <= MaxSeq + 1
                              /\ f <= files[f].safe /\ files[f].safe <= files[f].next
         /\ commit \in Int /\ commit >= -1 /\ commit <= MaxSeq
         /\ nextSeq \in Nat /\ nextSeq <= MaxSeq + 1 /\ active \in Nat /\ active <= MaxSeq + 1
         /\ flushed \in Nat /\ flushed <= nextSeq
         /\ cursor.seq \in Nat /\ cursor.seq <= MaxSeq + 1
         /\ cursor.path \in {None} \cup 0..(MaxSeq + 1)
         /\ life \in Nat
<1> USE WalAssumption DEF IInv, TypeOK, WalAssumption, None, SeqNo, Life
<1>1. /\ MaxSeq \in Nat /\ SegRecs \in Nat /\ SegRecs > 0 /\ MaxDisk \in Nat
      /\ Starts \subseteq 0..(MaxSeq + 1) /\ MaxLife \in Nat
  OBVIOUS
<1>2. \A f \in Starts : files[f] \in Entry
  BY DEF Chained
<1>3. \A f \in Starts : /\ f \in Nat /\ files[f].next \in Nat /\ files[f].safe \in Nat
                        /\ f <= files[f].next /\ files[f].next <= MaxSeq + 1
                        /\ f <= files[f].safe /\ files[f].safe <= files[f].next
  BY <1>1, <1>2 DEF Entry
<1>4. /\ commit \in Int /\ commit >= -1 /\ commit <= MaxSeq
      /\ nextSeq \in Nat /\ nextSeq <= MaxSeq + 1 /\ active \in Nat /\ active <= MaxSeq + 1
      /\ flushed \in Nat /\ flushed <= nextSeq /\ life \in Nat
  BY <1>1
<1>5. /\ cursor.seq \in Nat /\ cursor.seq <= MaxSeq + 1
      /\ cursor.path \in {None} \cup 0..(MaxSeq + 1)
  BY <1>1
<1> QED
  BY <1>1, <1>3, <1>4, <1>5

LEMMA HeldIs ==
  /\ \A s : s \in Held <=> \E f \in Starts : s \in f..(files[f].next - 1)
  /\ \A s : s \in Held' <=> \E f \in Starts' : s \in f..(files'[f].next - 1)
BY DEF Held, HeldIn, Holds, Starts

LEMMA DroppedIs ==
  /\ \A s : s \in Dropped <=> \E d \in dropped : s \in d[1]..d[2]
  /\ \A s : s \in Dropped' <=> \E d \in dropped' : s \in d[1]..d[2]
BY DEF Dropped

LEMMA JournalFacts ==
  ASSUME IInv
  PROVE  \A d \in dropped : d[1] \in Nat /\ d[2] \in Nat /\ d[2] <= MaxSeq
BY LogFacts DEF IInv, TypeOK, SeqNo

LEMMA HeldFacts ==
  ASSUME IInv
  PROVE  /\ Held \subseteq SeqNo
         /\ \A s \in Held : s \in Nat /\ s <= MaxSeq
<1>1. ASSUME NEW s \in Held PROVE s \in Nat /\ s <= MaxSeq /\ s \in SeqNo
  <2>1. PICK f \in Starts : s \in f..(files[f].next - 1)
    BY HeldIs
  <2> QED
    BY <2>1, LogFacts DEF SeqNo
<1> QED
  BY <1>1

\* The newest and the oldest segment.
LEMMA NewestSegment ==
  ASSUME IInv, up
  PROVE  Max(Starts) = active /\ active \in Starts /\ victim \in Starts
         /\ \A f \in Starts : victim <= f /\ f <= active
<1>1. active \in Starts /\ \A f \in Starts : f <= active
  BY DEF IInv, ActiveLast
<1>2. 0 \in Int /\ MaxSeq + 1 \in Int /\ Starts \subseteq 0..(MaxSeq + 1) /\ Starts # {}
  BY <1>1, LogFacts
<1>3. Max(Starts) \in Starts /\ \A f \in Starts : f <= Max(Starts)
  BY <1>2, MaxIsGreatest, Zenon
<1>4. Min(Starts) \in Starts /\ \A f \in Starts : Min(Starts) <= f
  BY <1>2, MinIsLeast, Zenon
<1>5. Max(Starts) = active
  BY <1>1, <1>3, LogFacts
<1> QED
  BY <1>1, <1>4, <1>5 DEF victim

LEMMA HeldBelow ==
  ASSUME IInv, up
  PROVE  \A s \in Held : s < nextSeq
<1> SUFFICES ASSUME NEW s \in Held PROVE s < nextSeq
  OBVIOUS
<1>1. PICK f \in Starts : s \in f..(files[f].next - 1)
  BY HeldIs
<1>2. f = active \/ f < active
  BY LogFacts DEF IInv, ActiveLast
<1>3. /\ active \in Starts /\ files[active].next = nextSeq /\ active <= nextSeq
      /\ f < active => files[f].next <= active
  BY LogFacts DEF IInv, ActiveLast, Chained
<1> QED
  BY <1>1, <1>2, <1>3, LogFacts

\* All that this life or an earlier one issued is what recovery would go on above.
LEMMA IssuedResumes ==
  ASSUME IInv, up
  PROVE  \A s \in Int : s < nextSeq /\ s >= 0 => Resumes(s)
<1> SUFFICES ASSUME NEW s \in Int, s < nextSeq, s >= 0 PROVE Resumes(s)
  OBVIOUS
<1>1. /\ active \in Starts /\ files[active].next = nextSeq /\ active <= nextSeq
      /\ active \in Nat /\ nextSeq \in Nat
  BY LogFacts DEF IInv, ActiveLast
<1>2. CASE active < nextSeq
  <2>1. nextSeq - 1 \in active..(files[active].next - 1)
    BY <1>1, <1>2
  <2>2. nextSeq - 1 \in Held
    BY <1>1, <2>1, HeldIs
  <2> QED
    BY <1>1, <2>2 DEF Resumes
<1>3. CASE active = nextSeq
  <2>1. active # 0
    BY <1>1, <1>3
  <2>2. Resumes(active - 1)
    BY <1>1, <2>1 DEF IInv, Chained
  <2>3. s <= active - 1 /\ active - 1 \in Int
    BY <1>1, <1>3
  <2> QED
    BY <2>2, <2>3, LogFacts, HeldFacts, JournalFacts DEF Resumes
<1> QED
  BY <1>1, <1>2, <1>3

\* No record leaves the log without a trace.
LEMMA NoGap ==
  ASSUME IInv
  PROVE  NoSilentGap
<1> SUFFICES ASSUME up, NEW s \in (commit + 1)..(nextSeq - 1) PROVE s \in Held \cup Dropped
  BY DEF NoSilentGap
<1>1. s \in SeqNo /\ s > commit /\ s \in Int /\ s < nextSeq /\ s >= 0
  BY LogFacts DEF SeqNo
<1> QED
  BY <1>1, IssuedResumes DEF IInv, Traced

\* What recovery would go on above only grows while nothing is taken back.
LEMMA StaysResumed ==
  ASSUME IInv, commit' \in Int, commit <= commit', dropped \subseteq dropped', Held \subseteq Held'
  PROVE  \A s \in Int : Resumes(s) => Resumes(s)'
BY LogFacts DEF Resumes

LEMMA StaysDropped ==
  ASSUME dropped \subseteq dropped'
  PROVE  Dropped \subseteq Dropped'
BY DroppedIs

LEMMA MoreThanOne ==
  ASSUME NEW S, NEW x \in S, Cardinality(S) > 1
  PROVE  \E y \in S : y # x
<1> SUFFICES ASSUME S = {x} PROVE FALSE
  OBVIOUS
<1> QED
  BY FS_Singleton

\* Seqs are finitely many.
LEMMA FewerSeqs ==
  ASSUME NEW T \in SUBSET SeqNo, NEW S \in SUBSET T
  PROVE  /\ IsFiniteSet(T) /\ Cardinality(T) \in Nat
         /\ Cardinality(S) \in Nat /\ Cardinality(S) <= Cardinality(T)
<1>1. IsFiniteSet(SeqNo)
  BY WalAssumption, FS_Interval DEF WalAssumption, SeqNo
<1>2. IsFiniteSet(T)
  BY <1>1, FS_Subset
<1>3. IsFiniteSet(S)
  BY <1>2, FS_Subset
<1> QED
  BY <1>2, <1>3, FS_Subset, FS_CardinalityType

\* Where the cap asks for nothing, all segments but the newest are within it.
LEMMA UnderCap ==
  ASSUME NEW fs, DOMAIN fs \subseteq 0..(MaxSeq + 1), HeldIn(fs) \subseteq SeqNo,
         NEW a \in DOMAIN fs, \A f \in DOMAIN fs : f <= a,
         NEW b \in Int, a <= b, ~OverCap(fs, b)
  PROVE  DiskUse(fs, a) <= MaxDisk
<1> DEFINE Below(c) == {s \in HeldIn(fs) : s < c}
<1> USE WalAssumption DEF WalAssumption
<1>1. a \in Int /\ \A s \in HeldIn(fs) : s \in Int
  BY DEF SeqNo
<1>2. Cardinality(Below(a)) <= Cardinality(Below(b)) /\ Cardinality(Below(a)) \in Nat
      /\ Cardinality(Below(b)) \in Nat
  <2>1. Below(b) \in SUBSET SeqNo /\ Below(a) \in SUBSET Below(b)
    BY <1>1
  <2> HIDE DEF Below
  <2> QED
    BY <2>1, FewerSeqs
<1>3. CASE DiskUse(fs, b) <= MaxDisk
  BY <1>2, <1>3 DEF DiskUse
<1>4. CASE ~(Cardinality(DOMAIN fs) > 1)
  <2>1. IsFiniteSet(0..(MaxSeq + 1))
    BY FS_Interval
  <2>2. IsFiniteSet(DOMAIN fs)
    BY <2>1, FS_Subset
  <2>3. IsFiniteSet({a}) /\ Cardinality({a}) = 1 /\ {a} \subseteq DOMAIN fs
    BY FS_Singleton
  <2>4. Cardinality(DOMAIN fs) \in Nat
    BY <2>2, FS_CardinalityType
  <2>5. {a} = DOMAIN fs
    BY <1>4, <2>2, <2>3, <2>4, FS_Subset
  <2>6. Below(a) = {}
    BY <1>1, <2>5 DEF HeldIn, Holds
  <2>7. Cardinality(Below(a)) = 0
    BY <2>6, FS_EmptySet
  <2> QED
    BY <2>7 DEF DiskUse
<1> QED
  BY <1>2, <1>3, <1>4 DEF OverCap, DiskUse

------------------------------------------------------------------------------
(* The steps.                                                              *)

LEMMA InitInv == Init => IInv
<1> SUFFICES ASSUME Init PROVE IInv
  OBVIOUS
<1> USE WalAssumption DEF WalAssumption, Init, NewFile, SeqNo, None
<1>1. Starts = {0} /\ files[0] = [next |-> 0, safe |-> 0]
  BY DEF Starts
<1>2. Held = {} /\ Dropped = {}
  <2>1. \A f \in Starts : f..(files[f].next - 1) = {}
    BY <1>1
  <2> QED
    BY <2>1, HeldIs, DroppedIs
<1>3. TypeOK
  <2>1. text \in [SeqNo -> {0} \cup Life] /\ shown \in [SeqNo -> SUBSET Life] /\ life \in Life
    BY DEF Life
  <2>2. cursor \in [seq : 0..(MaxSeq + 1), path : {None} \cup 0..(MaxSeq + 1)]
    OBVIOUS
  <2>3. nextSeq \in 0..(MaxSeq + 1) /\ active \in 0..(MaxSeq + 1) /\ flushed \in 0..nextSeq
    OBVIOUS
  <2>4. \A f \in Starts : /\ f \in 0..(MaxSeq + 1)
                          /\ f <= files[f].next /\ files[f].next <= MaxSeq + 1
                          /\ files[f].safe \in f..files[f].next
    BY <1>1
  <2> QED
    BY <2>1, <2>2, <2>3, <2>4 DEF TypeOK
<1>4. Chained
  <2>1. ~Resumes(0)
    BY <1>2 DEF Resumes
  <2> QED
    BY <1>1, <2>1 DEF Chained, Starts, Entry
<1>5. Traced /\ Told
  BY <1>2 DEF Traced, Told, Resumes
<1>6. ActiveLast /\ CursorAhead
  BY <1>1 DEF ActiveLast, CursorAhead
<1>7. Midway
  BY DEF Midway, AppendedThisLife
<1>8. NothingSkipped
  BY DEF NothingSkipped
<1> QED
  BY <1>3, <1>4, <1>5, <1>6, <1>7, <1>8 DEF IInv

\* The log and what readers know of it, when a record was added above all others.
LEMMA AppendInv ==
  ASSUME IInv, NEW due \in BOOLEAN, NEW out \in 0..(MaxSeq + 1), Append(due, out)
  PROVE  IInv'
<1> DEFINE n == nextSeq + 1
           full == n - active >= SegRecs
           written == [f \in Starts |->
                         IF f # active THEN files[f]
                         ELSE [next |-> n,
                               safe |-> IF full \/ due THEN n ELSE files[f].safe]]
<1>1. /\ up /\ busy = "idle" /\ nextSeq \in SeqNo /\ out \in flushed..n
      /\ nextSeq' = n
      /\ files' = IF full THEN Opened(written, n) ELSE written
      /\ active' = IF full THEN n ELSE active
      /\ flushed' = IF full \/ due THEN n ELSE out
      /\ busy' = IF OverCap(files', flushed') THEN "cap" ELSE "idle"
      /\ text' = [text EXCEPT ![nextSeq] = life]
      /\ UNCHANGED <<commit, dropped, up, life, cursor, shown>>
  BY DEF Append, Idle
<1>2. ActiveLast /\ CursorAhead /\ Midway /\ NothingSkipped /\ Chained /\ Traced /\ Told /\ TypeOK
  BY <1>1 DEF IInv
<1>3. /\ n \in Nat /\ n = nextSeq + 1 /\ active <= nextSeq /\ nextSeq < n /\ n <= MaxSeq + 1
      /\ active \in Starts /\ n \notin Starts /\ files[active].next = nextSeq
      /\ \A f \in Starts : f <= active /\ f < n
  BY <1>1, <1>2, LogFacts DEF ActiveLast, SeqNo
<1>4. /\ Starts' = IF full THEN Starts \cup {n} ELSE Starts
      /\ \A f \in Starts \ {active} : files'[f] = files[f]
      /\ files'[active] = [next |-> n, safe |-> IF full \/ due THEN n ELSE files[active].safe]
      /\ full => files'[n] = [next |-> n, safe |-> n]
      /\ files' \in [Starts' -> Entry]
  <2>1. DOMAIN written = Starts
    OBVIOUS
  <2>2. \A f \in Starts \ {active} : written[f] = files[f]
    OBVIOUS
  <2>3. written[active] = [next |-> n, safe |-> IF full \/ due THEN n ELSE files[active].safe]
    BY <1>3
  <2>4. written[active] \in Entry /\ [next |-> n, safe |-> n] \in Entry
    BY <1>3, <2>3, LogFacts DEF Entry
  <2>5. \A f \in Starts : written[f] \in Entry
    BY <1>2, <2>2, <2>4 DEF Chained
  <2>6. written \in [Starts -> Entry]
    BY <2>5
  <2> HIDE DEF written, full
  <2>7. CASE ~full
    BY <1>1, <2>1, <2>2, <2>3, <2>6, <2>7 DEF Starts
  <2>8. CASE full
    <3>1. files' = Opened(written, n)
      BY <1>1, <2>8
    <3>2. /\ DOMAIN files' = Starts \cup {n} /\ \A f \in Starts : files'[f] = written[f]
          /\ files'[n] = [next |-> n, safe |-> n]
      BY <1>3, <2>1, <3>1 DEF Opened, NewFile
    <3>3. files' \in [Starts \cup {n} -> Entry]
      BY <2>1, <2>4, <2>5, <3>1, <3>2 DEF Opened
    <3> QED
      BY <1>3, <2>2, <2>3, <2>8, <3>2, <3>3 DEF Starts
  <2> QED
    BY <2>7, <2>8
<1> HIDE DEF written
<1>5. full \in BOOLEAN /\ (~full => n - active < SegRecs)
  BY <1>3, LogFacts
<1> HIDE DEF full
<1>6. Held' = Held \cup {nextSeq}
  <2>1. ASSUME NEW s \in Held' PROVE s \in Held \cup {nextSeq}
    <3>1. PICK f \in Starts' : s \in f..(files'[f].next - 1)
      BY HeldIs
    <3>2. f # n
      BY <1>3, <1>4, <3>1
    <3>3. f \in Starts
      BY <1>4, <3>1, <3>2
    <3>4. CASE f = active
      BY <1>3, <1>4, <3>1, <3>4, HeldIs, LogFacts
    <3>5. CASE f # active
      BY <1>4, <3>1, <3>3, <3>5, HeldIs
    <3> QED
      BY <3>4, <3>5
  <2>2. ASSUME NEW s \in Held PROVE s \in Held'
    <3>1. PICK f \in Starts : s \in f..(files[f].next - 1)
      BY HeldIs
    <3>2. s \in f..(files'[f].next - 1) /\ f \in Starts'
      BY <1>3, <1>4, <3>1, LogFacts
    <3> QED
      BY <3>2, HeldIs
  <2>3. nextSeq \in Held'
    <3>1. nextSeq \in active..(files'[active].next - 1) /\ active \in Starts'
      BY <1>3, <1>4, LogFacts
    <3> QED
      BY <3>1, HeldIs
  <2> QED
    BY <2>1, <2>2, <2>3
<1>7. \A s \in Int : Resumes(s) => Resumes(s)'
  BY <1>1, <1>6, StaysResumed, LogFacts
<1>8. Chained'
  <2>1. \A f, g \in Starts' : f < g => files'[f].next <= g
    <3> SUFFICES ASSUME NEW f \in Starts', NEW g \in Starts', f < g
                 PROVE  files'[f].next <= g
      OBVIOUS
    <3>1. CASE g = n
      BY <1>2, <1>3, <1>4, <3>1, LogFacts DEF Chained
    <3>2. CASE g # n
      <4>1. g \in Starts /\ f \in Starts /\ f # active
        BY <1>3, <1>4, <3>2, LogFacts
      <4> QED
        BY <1>2, <1>4, <4>1 DEF Chained
    <3> QED
      BY <3>1, <3>2
  <2>2. \A f \in Starts' : f = 0 \/ Resumes(f - 1)'
    <3>1. \A s \in Int : s <= nextSeq => Resumes(s)'
      BY <1>6 DEF Resumes
    <3>2. \A f \in Starts : f = 0 \/ Resumes(f - 1)'
      BY <1>2, <1>7, LogFacts DEF Chained
    <3>3. \A f \in Starts' : f \in Starts \/ f = n
      BY <1>4
    <3>4. \A f \in Starts' : f = n => f - 1 \in Int /\ f - 1 <= nextSeq
      BY <1>3, LogFacts
    <3> QED
      BY <3>1, <3>2, <3>3, <3>4
  <2>3. ASSUME NEW f \in Starts', f = files'[f].next
        PROVE  ~Resumes(f)' /\ \A g \in Starts' : g <= f
    <3>1. CASE f \in Starts
      <4>1. f # active
        BY <1>3, <1>4, <2>3, LogFacts
      <4>2. f = files[f].next
        BY <1>4, <2>3, <3>1, <4>1
      <4> QED
        BY <1>2, <1>3, <3>1, <4>1, <4>2, LogFacts DEF Chained
    <3>2. CASE f = n
      <4>1. \A t \in Held' : ~(f <= t)
        BY <1>1, <1>3, <1>6, <3>2, HeldBelow, LogFacts, HeldFacts
      <4>2. ~Resumes(f)'
        BY <1>1, <1>2, <1>3, <3>2, <4>1, LogFacts, JournalFacts DEF Resumes, ActiveLast, CursorAhead
      <4> QED
        <5>1. \A g \in Starts' : g \in Starts \/ g = n
          BY <1>4
        <5>2. \A g \in Starts' : g <= n
          BY <1>3, <5>1, LogFacts
        <5> QED
          BY <3>2, <4>2, <5>2
    <3> QED
      BY <1>4, <3>1, <3>2
  <2> QED
    BY <1>4, <2>1, <2>2, <2>3 DEF Chained
<1>9. Dropped' = Dropped
  BY <1>1 DEF Dropped
<1>10. Traced'
  <2> SUFFICES ASSUME NEW s \in SeqNo, s > commit, Resumes(s)' PROVE s \in Held \cup Dropped \cup {nextSeq}
    BY <1>1, <1>6, <1>9 DEF Traced
  <2>1. s \in Nat
    BY LogFacts DEF SeqNo
  <2>2. CASE s <= nextSeq
    BY <1>1, <1>2, <2>1, <2>2, IssuedResumes, LogFacts DEF Traced
  <2>3. CASE s > nextSeq
    <3>1. Resumes(s)
      BY <1>1, <1>6, <2>1, <2>3, LogFacts DEF Resumes
    <3> QED
      BY <1>2, <3>1 DEF Traced
  <2> QED
    BY <2>1, <2>2, <2>3, LogFacts
<1>11. flushed \in Nat /\ flushed' \in Nat /\ flushed <= flushed' /\ flushed' <= n
  BY <1>1, <1>3, LogFacts
<1>12. \A s \in SeqNo : text'[s] = IF s = nextSeq THEN life ELSE text[s]
  BY <1>1, <1>2 DEF TypeOK
<1>13. \A s \in SeqNo : shown[s] # {} => s < nextSeq /\ s < flushed
  BY <1>1, <1>2, LogFacts DEF Told, SeqNo
<1>14. Told'
  <2>1. ASSUME NEW s \in SeqNo
        PROVE  /\ shown[s] \subseteq {text'[s]} /\ text'[s] <= life
               /\ shown[s] # {} => s < flushed'
    <3>1. shown[s] \subseteq {text[s]} /\ text[s] <= life /\ s \in Nat
      BY <1>2, LogFacts DEF Told, SeqNo
    <3>2. life <= life
      BY LogFacts
    <3> QED
      BY <1>11, <1>12, <1>13, <3>1, <3>2
  <2>2. \A s \in 0..commit : text'[s] \in shown[s] \/ s \in Dropped
    <3>1. \A s \in 0..commit : s \in SeqNo /\ s < nextSeq
      BY <1>2, LogFacts DEF CursorAhead, SeqNo
    <3> QED
      BY <1>2, <1>12, <3>1 DEF Told
  <2>3. \A s \in Held \cup {nextSeq} : text'[s] # 0
    <3>1. life # 0 /\ \A s \in Held \cup {nextSeq} : s \in SeqNo
      BY <1>1, <1>2, HeldFacts DEF TypeOK, Life
    <3> QED
      BY <1>2, <1>12, <3>1 DEF Told
  <2> QED
    BY <1>1, <1>6, <1>9, <2>1, <2>2, <2>3 DEF Told
<1>15. ActiveLast'
  <2>1. active' \in Starts' /\ files'[active'].next = n /\ \A f \in Starts' : f <= active'
    BY <1>1, <1>3, <1>4, LogFacts
  <2>2. files'[active'].safe <= flushed' /\ active' <= flushed'
    BY <1>1, <1>2, <1>3, <1>4, <1>11, LogFacts DEF ActiveLast
  <2>3. n - active' < SegRecs
    BY <1>1, <1>3, <1>5, LogFacts
  <2>4. \A d \in dropped : d[2] < active'
    BY <1>1, <1>2, <1>3, LogFacts, JournalFacts DEF ActiveLast
  <2> QED
    BY <1>1, <2>1, <2>2, <2>3, <2>4 DEF ActiveLast
<1>16. CursorAhead'
  <2>1. active <= active'
    BY <1>1, <1>3, LogFacts
  <2>2. cursor.path # None =>
          cursor.path <= active' /\ \A f \in Starts' : f < cursor.path => files'[f].next <= cursor.seq
    <3> SUFFICES ASSUME cursor.path # None
                 PROVE  cursor.path <= active' /\ \A f \in Starts' : f < cursor.path => files'[f].next <= cursor.seq
      OBVIOUS
    <3>1. cursor.path \in Nat /\ cursor.path <= active
      BY <1>2, LogFacts DEF CursorAhead
    <3>2. ASSUME NEW f \in Starts', f < cursor.path PROVE files'[f].next <= cursor.seq
      <4>1. f \in Starts /\ f # active
        BY <1>3, <1>4, <3>1, <3>2, LogFacts
      <4> QED
        BY <1>2, <1>4, <3>2, <4>1 DEF CursorAhead
    <3> QED
      BY <1>1, <1>3, <2>1, <3>1, <3>2, LogFacts
  <2> QED
    BY <1>1, <1>2, <1>11, <2>2, LogFacts DEF CursorAhead
<1>17. NothingSkipped'
  <2>1. \A s \in 0..(cursor.seq - 1) : s \in SeqNo /\ s < nextSeq
    BY <1>2, LogFacts DEF CursorAhead, SeqNo
  <2> QED
    BY <1>1, <1>2, <1>9, <1>12, <2>1 DEF NothingSkipped
<1>18. Held' \subseteq SeqNo /\ Starts' \subseteq 0..(MaxSeq + 1)
  BY <1>1, <1>3, <1>4, <1>6, HeldFacts, LogFacts
<1>19. Midway'
  <2>1. busy' = "cap" => \E f \in Starts' : f < active'
    <3> SUFFICES ASSUME busy' = "cap" PROVE \E f \in Starts' : f < active'
      OBVIOUS
    <3>1. Cardinality(Starts') > 1
      BY <1>1 DEF OverCap, Starts
    <3>2. PICK f \in Starts' : f # active'
      BY <1>15, <3>1, MoreThanOne DEF ActiveLast
    <3> QED
      BY <1>15, <1>18, <3>2, LogFacts DEF ActiveLast
  <2>2. busy' = "idle" => DiskUse(files', active') <= MaxDisk
    <3>1. ~OverCap(files', flushed') => DiskUse(files', active') <= MaxDisk
      BY <1>11, <1>15, <1>18, UnderCap DEF ActiveLast, Starts, Held
    <3> QED
      BY <1>1, <3>1
  <2>3. busy' \in {"cap", "idle"}
    BY <1>1
  <2> QED
    BY <2>1, <2>2, <2>3 DEF Midway
<1>20. TypeOK'
  <2>1. \A f \in Starts' : /\ f \in 0..(MaxSeq + 1)
                           /\ f <= files'[f].next /\ files'[f].next <= MaxSeq + 1
                           /\ files'[f].safe \in f..files'[f].next
    <3> SUFFICES ASSUME NEW f \in Starts'
                 PROVE  /\ f <= files'[f].next /\ files'[f].next <= MaxSeq + 1
                        /\ files'[f].safe \in f..files'[f].next
      BY <1>18
    <3>1. CASE f = n
      BY <1>3, <1>4, <3>1
    <3>2. CASE f = active
      BY <1>3, <1>4, <3>2, LogFacts
    <3>3. CASE f # n /\ f # active
      BY <1>4, <3>3, LogFacts
    <3> QED
      BY <3>1, <3>2, <3>3
  <2>2. nextSeq' \in 0..(MaxSeq + 1) /\ active' \in 0..(MaxSeq + 1) /\ flushed' \in 0..nextSeq'
    BY <1>1, <1>3, <1>11, LogFacts
  <2>3. text' \in [SeqNo -> {0} \cup Life]
    BY <1>1, <1>2 DEF TypeOK
  <2>4. busy' \in {"idle", "cap", "unlink", "truncate"}
    BY <1>1
  <2> QED
    BY <1>1, <1>2, <2>1, <2>2, <2>3, <2>4 DEF TypeOK
<1> QED
  BY <1>1, <1>8, <1>10, <1>14, <1>15, <1>16, <1>17, <1>19, <1>20 DEF IInv

\* A step that leaves every record, the journal and the issued seqs where they are.
LEMMA RecordsStay ==
  ASSUME IInv, up, Starts' = Starts, files' \in [Starts -> Entry],
         \A f \in Starts : files'[f].next = files[f].next,
         dropped' = dropped, commit' \in commit..(cursor.seq - 1)
  PROVE  /\ Held' = Held /\ Dropped' = Dropped
         /\ Chained' /\ Traced'
         /\ DiskUse(files', active) = DiskUse(files, active)
<1>1. Held' = Held
  <2>1. \A s : s \in Held' <=> s \in Held
    BY HeldIs
  <2> QED
    BY <2>1
<1>2. Dropped' = Dropped
  BY DEF Dropped
<1>3. commit' \in Int /\ commit <= commit' /\ commit' < nextSeq
  BY LogFacts DEF IInv, CursorAhead
<1>4. \A s \in Int : Resumes(s) => Resumes(s)'
  BY <1>1, <1>3, StaysResumed
<1>5. \A s \in Int : s >= nextSeq => ~Resumes(s)'
  <2>1. \A d \in dropped : d[2] < nextSeq /\ d[2] \in Int
    BY LogFacts, JournalFacts DEF IInv, ActiveLast
  <2>2. \A s \in Held : s < nextSeq /\ s \in Int
    BY HeldBelow, HeldFacts
  <2> QED
    BY <1>1, <1>3, <2>1, <2>2, LogFacts DEF Resumes
<1>6. Chained'
  <2>1. \A f \in Starts : f = 0 \/ Resumes(f - 1)'
    BY <1>4, LogFacts DEF IInv, Chained
  <2>2. ASSUME NEW f \in Starts, f = files[f].next
        PROVE  ~Resumes(f)' /\ \A g \in Starts : g <= f
    <3>1. \A g \in Starts : g <= f
      BY <2>2 DEF IInv, Chained
    <3>2. f = active
      BY <3>1, LogFacts DEF IInv, ActiveLast
    <3>3. f \in Int /\ f >= nextSeq
      BY <2>2, <3>2, LogFacts DEF IInv, ActiveLast
    <3> QED
      BY <1>5, <3>1, <3>3
  <2> QED
    BY <2>1, <2>2 DEF IInv, Chained
<1>7. Traced'
  <2> SUFFICES ASSUME NEW s \in SeqNo, s > commit', Resumes(s)' PROVE s \in Held \cup Dropped
    BY <1>1, <1>2 DEF Traced
  <2>1. s \in Int /\ s > commit
    BY <1>3, LogFacts DEF SeqNo
  <2>2. Resumes(s)
    BY <1>1, <1>3, <2>1 DEF Resumes
  <2> QED
    BY <2>1, <2>2 DEF IInv, Traced
<1>8. DiskUse(files', active) = DiskUse(files, active)
  BY <1>1 DEF DiskUse, Held
<1> QED
  BY <1>1, <1>2, <1>6, <1>7, <1>8

\* flush() takes nothing from a reader.
LEMMA SyncInv ==
  ASSUME IInv, Sync
  PROVE  IInv'
<1>1. /\ up /\ busy = "idle" /\ files' = Synced /\ flushed' = nextSeq
      /\ UNCHANGED <<commit, dropped, up, life, nextSeq, active, cursor, busy, history>>
  BY DEF Sync, Idle
<1>2. ActiveLast /\ CursorAhead /\ Midway /\ NothingSkipped /\ Chained /\ Told /\ TypeOK
  BY <1>1 DEF IInv
<1>3. /\ Starts' = Starts /\ files' \in [Starts -> Entry]
      /\ \A f \in Starts : files'[f].next = files[f].next
      /\ \A f \in Starts : files'[f].safe = IF f = active THEN nextSeq ELSE files[f].safe
  <2>1. \A f \in Starts : files[f] \in Entry /\ nextSeq \in 0..(MaxSeq + 1)
    BY <1>2, LogFacts DEF Chained
  <2>2. \A f \in Starts : files'[f] = IF f = active THEN [files[f] EXCEPT !.safe = nextSeq] ELSE files[f]
    BY <1>1 DEF Synced
  <2>3. DOMAIN files' = Starts /\ files' = [f \in Starts |-> files'[f]]
    BY <1>1 DEF Synced
  <2> QED
    BY <2>1, <2>2, <2>3 DEF Entry, Starts
<1>4. commit' \in commit..(cursor.seq - 1)
  BY <1>1, <1>2, LogFacts DEF CursorAhead
<1>5. /\ Held' = Held /\ Dropped' = Dropped /\ Chained' /\ Traced'
      /\ DiskUse(files', active) = DiskUse(files, active)
  BY <1>1, <1>3, <1>4, RecordsStay
<1>6. Told'
  BY <1>1, <1>2, <1>5, LogFacts DEF Told, history, SeqNo
<1>7. ActiveLast'
  BY <1>1, <1>2, <1>3, LogFacts DEF ActiveLast
<1>8. CursorAhead'
  BY <1>1, <1>2, <1>3, LogFacts DEF CursorAhead
<1>9. Midway'
  BY <1>1, <1>2, <1>5 DEF Midway, AppendedThisLife, history
<1>10. NothingSkipped'
  BY <1>1, <1>2, <1>5 DEF NothingSkipped, history
<1>11. TypeOK'
  <2>1. \A f \in Starts' : /\ f \in 0..(MaxSeq + 1)
                           /\ f <= files'[f].next /\ files'[f].next <= MaxSeq + 1
                           /\ files'[f].safe \in f..files'[f].next
    BY <1>2, <1>3, LogFacts DEF ActiveLast
  <2>2. flushed' \in 0..nextSeq'
    BY <1>1, LogFacts
  <2> QED
    BY <1>1, <1>2, <2>1, <2>2 DEF TypeOK, history
<1> QED
  BY <1>1, <1>5, <1>6, <1>7, <1>8, <1>9, <1>10, <1>11 DEF IInv

\* The segment the cursor reads from: there is nothing below it left to read.
LEMMA PathIs ==
  ASSUME IInv, up
  PROVE  /\ Path \in Nat /\ Path <= active
         /\ \A f \in Starts : f < Path => files[f].next <= cursor.seq
<1>1. active \in Starts /\ \A f \in Starts : f <= active /\ f \in Nat
  BY LogFacts DEF IInv, ActiveLast
<1>2. CASE cursor.path # None
  BY <1>2, LogFacts DEF IInv, CursorAhead, Path
<1>3. CASE cursor.path = None
  <2> DEFINE below == {f \in Starts : f <= cursor.seq}
  <2>1. 0 \in Int /\ MaxSeq + 1 \in Int /\ Starts \subseteq 0..(MaxSeq + 1) /\ Starts # {}
        /\ below \subseteq 0..(MaxSeq + 1)
    BY <1>1, LogFacts
  <2>2. Path = IF below # {} THEN Max(below) ELSE Min(Starts)
    BY <1>3 DEF Path, Locate
  <2>3. CASE below # {}
    <3> HIDE DEF below
    <3>1. Max(below) \in below /\ \A f \in below : f <= Max(below)
      BY <2>1, <2>3, MaxIsGreatest, Zenon
    <3> USE DEF below
    <3>2. \A f \in Starts : f < Max(below) => files[f].next <= Max(below)
      BY <3>1 DEF IInv, Chained
    <3>3. Path = Max(below) /\ Path \in Starts /\ Path <= cursor.seq
      BY <2>2, <2>3, <3>1
    <3>4. \A f \in Starts : f < Path => files[f].next <= Path /\ files[f].next \in Nat
      BY <3>2, <3>3, LogFacts
    <3>5. Path \in Nat /\ Path <= active
      BY <1>1, <3>3
    <3> HIDE DEF below
    <3> QED
      BY <3>3, <3>4, <3>5, LogFacts
  <2>4. CASE below = {}
    <3>1. Min(Starts) \in Starts /\ \A f \in Starts : Min(Starts) <= f
      BY <2>1, MinIsLeast, Zenon
    <3> QED
      BY <1>1, <2>2, <2>4, <3>1
  <2> QED
    BY <2>3, <2>4
<1> QED
  BY <1>2, <1>3

\* What is left to read is within reach.
LEMMA Reaches ==
  ASSUME IInv
  PROVE  ReachesTheRest
<1> SUFFICES ASSUME up, NEW s \in Held, s >= cursor.seq PROVE s \in Ahead
  BY DEF ReachesTheRest
<1>1. PICK f \in Starts : s \in f..(files[f].next - 1)
  BY HeldIs
<1>2. f >= Path
  BY <1>1, PathIs, LogFacts
<1> QED
  BY <1>1, <1>2, HeldFacts DEF Ahead, Holds

\* A batch is what comes first of it, and all of it if it is not full.
LEMMA BatchIs ==
  ASSUME IInv, up, NEW k \in Nat, k > 0
  PROVE  /\ Batch(k) \subseteq Ahead /\ Ahead \subseteq Held /\ Ahead \subseteq SeqNo
         /\ \A s \in Ahead : s >= cursor.seq
         /\ \A s \in Batch(k), r \in Ahead : r < s => r \in Batch(k)
         /\ Cardinality(Batch(k)) < k => Batch(k) = Ahead
         /\ ~(Cardinality(Batch(k)) < k) => Batch(k) # {}
<1> DEFINE Before(s) == {r \in Ahead : r < s}
<1>1. Ahead \subseteq SeqNo /\ (\A s \in Ahead : s >= cursor.seq /\ s \in Int) /\ Ahead \subseteq Held
  BY HeldIs, LogFacts DEF Ahead, Holds, SeqNo
<1>2. Batch(k) = {s \in Ahead : Cardinality(Before(s)) < k}
  BY DEF Batch
<1>3. Batch(k) \subseteq Ahead /\ Batch(k) \in SUBSET SeqNo
  BY <1>1, <1>2
<1>4. ASSUME NEW s \in Batch(k), NEW r \in Ahead, r < s PROVE r \in Batch(k)
  <2>1. Before(s) \in SUBSET SeqNo /\ Before(r) \in SUBSET Before(s)
    BY <1>1, <1>3, <1>4
  <2>2. Cardinality(Before(s)) < k
    BY <1>2
  <2> HIDE DEF Before
  <2>3. Cardinality(Before(r)) < k
    BY <2>1, <2>2, FewerSeqs
  <2> QED
    BY <1>2, <2>3
<1>5. ASSUME Cardinality(Batch(k)) < k, Batch(k) # Ahead PROVE FALSE
  <2> DEFINE rest == Ahead \ Batch(k)
  <2>1. 0 \in Int /\ MaxSeq \in Int /\ rest \subseteq 0..MaxSeq /\ rest # {}
    <3>1. rest \subseteq SeqNo /\ rest # {}
      BY <1>1, <1>3, <1>5
    <3> QED
      BY <3>1, LogFacts DEF SeqNo
  <2> HIDE DEF rest
  <2>2. PICK s \in rest : \A r \in rest : s <= r
    BY <2>1, LeastElement
  <2>3. s \in Ahead /\ ~(Cardinality(Before(s)) < k)
    BY <1>2, <2>2 DEF rest
  <2>4. Before(s) \subseteq Batch(k)
    BY <1>1, <2>2, <2>3 DEF rest
  <2>5. Cardinality(Before(s)) <= Cardinality(Batch(k)) /\ Cardinality(Before(s)) \in Nat
        /\ Cardinality(Batch(k)) \in Nat
    BY <1>3, <2>4, FewerSeqs
  <2> HIDE DEF Before
  <2> QED
    BY <1>5, <2>3, <2>5
<1>6. Batch(k) = {} => Cardinality(Batch(k)) < k
  BY FS_EmptySet
<1> QED
  BY <1>1, <1>3, <1>4, <1>5, <1>6

\* Where the cursor goes: past its batch, and past every segment it leaves behind.
LEMMA PositionIs ==
  ASSUME IInv, up, NEW k \in Nat, k > 0
  PROVE  LET c == PositionAfter(k)
         IN /\ c.seq \in Nat /\ cursor.seq <= c.seq /\ c.seq <= nextSeq
            /\ \A s \in Batch(k) : s < c.seq
            /\ \A s \in Held : s >= cursor.seq /\ s < c.seq => s \in Batch(k)
            /\ c.path \in Nat /\ c.path <= active
            /\ \A f \in Starts : f < c.path => files[f].next <= c.seq
            /\ c = [seq |-> c.seq, path |-> c.path]
<1> DEFINE last == Max({cursor.seq - 1} \cup Batch(k))
           c == PositionAfter(k)
<1>1. c = [seq |-> last + 1, path |-> StopsIn(k)]
  BY DEF PositionAfter
<1>2. /\ Batch(k) \subseteq Ahead /\ Ahead \subseteq Held /\ Ahead \subseteq SeqNo
      /\ \A s \in Ahead : s >= cursor.seq
      /\ \A s \in Batch(k), r \in Ahead : r < s => r \in Batch(k)
      /\ Cardinality(Batch(k)) < k => Batch(k) = Ahead
      /\ ~(Cardinality(Batch(k)) < k) => Batch(k) # {}
  BY BatchIs
<1>3. \A s \in Batch(k) : s \in Nat /\ s <= MaxSeq /\ s < nextSeq /\ s >= cursor.seq
  BY <1>2, HeldBelow, HeldFacts
<1>4. last \in {cursor.seq - 1} \cup Batch(k) /\ \A s \in {cursor.seq - 1} \cup Batch(k) : s <= last
  <2> DEFINE T == {cursor.seq - 1} \cup Batch(k)
  <2>1. -1 \in Int /\ MaxSeq + 1 \in Int /\ T \subseteq -1..(MaxSeq + 1) /\ T # {}
    BY <1>3, LogFacts
  <2> HIDE DEF T
  <2>2. Max(T) \in T /\ \A s \in T : s <= Max(T)
    BY <2>1, MaxIsGreatest, Zenon
  <2> QED
    BY <2>2 DEF T
<1> HIDE DEF last
<1>5. cursor.seq \in Nat /\ cursor.seq <= nextSeq
  BY LogFacts DEF IInv, CursorAhead
<1>6. last \in Int /\ last >= cursor.seq - 1 /\ last < nextSeq
  BY <1>3, <1>4, <1>5, LogFacts
<1>7. \A s \in Batch(k) : s < last + 1
  BY <1>3, <1>4, <1>6
<1>8. ASSUME NEW s \in Held, s >= cursor.seq, s < last + 1 PROVE s \in Batch(k)
  <2>1. s \in Ahead /\ s \in Int
    BY <1>8, Reaches, HeldFacts DEF ReachesTheRest
  <2>2. last \in Batch(k)
    BY <1>4, <1>5, <1>8, <2>1
  <2> QED
    BY <1>2, <1>6, <1>8, <2>1, <2>2
<1>9. Path \in Nat /\ Path <= active /\ \A f \in Starts : f < Path => files[f].next <= cursor.seq
  BY PathIs
<1>10. active \in Starts /\ (\A f \in Starts : f <= active /\ f \in Nat) /\ active \in Nat
  BY LogFacts DEF IInv, ActiveLast
<1>11. /\ StopsIn(k) \in Nat /\ StopsIn(k) <= active
       /\ \A f \in Starts : f < StopsIn(k) => files[f].next <= last + 1
  <2>1. CASE Cardinality(Batch(k)) < k
    <3> DEFINE T == Starts \cup {Path}
    <3>1. 0 \in Int /\ MaxSeq + 1 \in Int /\ T \subseteq 0..(MaxSeq + 1) /\ T # {}
      BY <1>9, <1>10, LogFacts
    <3>2. active \in T /\ \A f \in T : f <= active
      BY <1>9, <1>10
    <3> HIDE DEF T
    <3>3. Max(T) \in T /\ \A f \in T : f <= Max(T)
      BY <3>1, MaxIsGreatest, Zenon
    <3>4. Max(T) = active
      <4>1. Max(T) \in 0..(MaxSeq + 1)
        BY <3>1, <3>3, Zenon
      <4>2. Max(T) <= active /\ active <= Max(T)
        BY <3>2, <3>3, Zenon
      <4> QED
        BY <1>10, <4>1, <4>2
    <3>5. StopsIn(k) = active
      BY <2>1, <3>4 DEF StopsIn, T
    <3>6. ASSUME NEW f \in Starts, f < active PROVE files[f].next <= last + 1
      <4>1. CASE f < Path
        BY <1>5, <1>6, <1>9, <4>1, LogFacts
      <4>2. CASE f >= Path
        <5>1. f < files[f].next
          BY <1>10, <3>6, LogFacts DEF IInv, Chained
        <5>2. files[f].next - 1 \in f..(files[f].next - 1)
          BY <5>1, LogFacts
        <5>3. files[f].next - 1 \in Held
          BY <5>2, HeldIs
        <5>4. CASE files[f].next - 1 >= cursor.seq
          <6>1. files[f].next - 1 \in Ahead
            BY <5>3, <5>4, Reaches DEF ReachesTheRest
          <6>2. files[f].next - 1 < last + 1
            BY <1>2, <1>7, <2>1, <6>1
          <6> QED
            BY <1>6, <6>2, LogFacts
        <5>5. CASE files[f].next - 1 < cursor.seq
          BY <1>5, <1>6, <5>5, LogFacts
        <5> QED
          BY <1>5, <5>4, <5>5, LogFacts
      <4> QED
        BY <1>9, <4>1, <4>2, LogFacts
    <3> QED
      BY <1>10, <3>5, <3>6
  <2>2. CASE ~(Cardinality(Batch(k)) < k)
    <3> DEFINE b == Max(Batch(k))
    <3>1. 0 \in Int /\ MaxSeq \in Int /\ Batch(k) \subseteq 0..MaxSeq /\ Batch(k) # {}
      BY <1>2, <1>3, <2>2, LogFacts
    <3>2. b \in Batch(k)
      BY <3>1, MaxIsGreatest, Zenon
    <3> HIDE DEF b
    <3>3. \E f \in Starts : b \in Holds(files, f)
      BY <1>2, <3>2, HeldIs DEF Holds
    <3>4. StopsIn(k) = CHOOSE f \in Starts : b \in Holds(files, f)
      BY <2>2 DEF StopsIn, b
    <3>5. StopsIn(k) \in Starts /\ b \in StopsIn(k)..(files[StopsIn(k)].next - 1)
      BY <3>3, <3>4 DEF Holds
    <3>6. ASSUME NEW f \in Starts, f < StopsIn(k) PROVE files[f].next <= last + 1
      <4>1. files[f].next <= StopsIn(k)
        BY <3>5, <3>6 DEF IInv, Chained
      <4>2. StopsIn(k) <= b /\ b < last + 1 /\ b \in Int
        BY <1>3, <1>7, <3>2, <3>5
      <4> QED
        <5>1. files[f].next \in Nat /\ StopsIn(k) \in Nat
          BY <1>10, <3>5, LogFacts
        <5> QED
          BY <1>6, <4>1, <4>2, <5>1
    <3> QED
      BY <1>10, <3>5, <3>6
  <2> QED
    BY <2>1, <2>2
<1>12. c.seq = last + 1 /\ c.path = StopsIn(k)
  BY <1>1
<1> HIDE DEF c
<1>13. /\ c.seq \in Nat /\ cursor.seq <= c.seq /\ c.seq <= nextSeq
       /\ (\A s \in Batch(k) : s < c.seq)
       /\ \A s \in Held : s >= cursor.seq /\ s < c.seq => s \in Batch(k)
  BY <1>5, <1>6, <1>7, <1>8, <1>12, LogFacts
<1>14. /\ c.path \in Nat /\ c.path <= active
       /\ \A f \in Starts : f < c.path => files[f].next <= c.seq
  BY <1>11, <1>12
<1>15. c = [seq |-> c.seq, path |-> c.path]
  BY <1>1, <1>12
<1> QED
  BY <1>13, <1>14, <1>15 DEF c

\* A read gives all that it leaves behind, but for what the cap dropped.
LEMMA ReadInv ==
  ASSUME IInv, NEW k \in 1..MaxRead, Read(k)
  PROVE  IInv'
<1>1. /\ up /\ busy = "idle" /\ flushed' = nextSeq /\ cursor' = PositionAfter(k)
      /\ shown' = [s \in SeqNo |-> IF s \in Batch(k) THEN shown[s] \cup {text[s]} ELSE shown[s]]
      /\ UNCHANGED <<files, commit, dropped, up, life, nextSeq, active, busy, text>>
  BY DEF Read, Idle, disk
<1>2. ActiveLast /\ CursorAhead /\ Midway /\ NothingSkipped /\ Chained /\ Traced /\ Told /\ TypeOK
  BY <1>1 DEF IInv
<1>3. /\ cursor'.seq \in Nat /\ cursor.seq <= cursor'.seq /\ cursor'.seq <= nextSeq
      /\ \A s \in Batch(k) : s < cursor'.seq
      /\ \A s \in Held : s >= cursor.seq /\ s < cursor'.seq => s \in Batch(k)
      /\ cursor'.path \in Nat /\ cursor'.path <= active
      /\ \A f \in Starts : f < cursor'.path => files[f].next <= cursor'.seq
      /\ cursor' = [seq |-> cursor'.seq, path |-> cursor'.path]
  <2>1. k \in Nat /\ k > 0
    OBVIOUS
  <2> QED
    BY <1>1, <2>1, PositionIs
<1>4. Starts' = Starts /\ Held' = Held /\ Dropped' = Dropped
  BY <1>1 DEF Starts, Held, Dropped
<1>5. commit' \in commit..(cursor.seq - 1) /\ files' \in [Starts -> Entry]
  BY <1>1, <1>2, LogFacts DEF CursorAhead, Chained
<1>6. Chained' /\ Traced'
  BY <1>1, <1>4, <1>5, RecordsStay
<1>7. \A s \in Batch(k) : s \in SeqNo /\ s < nextSeq
  <2>1. k \in Nat /\ k > 0
    OBVIOUS
  <2> QED
    BY <1>1, <2>1, BatchIs, HeldBelow
<1>8. \A s \in SeqNo : /\ shown[s] \subseteq shown'[s] /\ shown'[s] \subseteq shown[s] \cup {text[s]}
                       /\ s \in Batch(k) => text[s] \in shown'[s]
                       /\ s \notin Batch(k) => shown'[s] = shown[s]
  BY <1>1
<1>9. Told'
  <2>1. ASSUME NEW s \in SeqNo
        PROVE  shown'[s] \subseteq {text[s]} /\ text[s] <= life /\ (shown'[s] # {} => s < nextSeq)
    <3>1. shown[s] \subseteq {text[s]} /\ text[s] <= life /\ (shown[s] # {} => s < flushed) /\ s \in Nat
      BY <1>1, <1>2, LogFacts DEF Told, SeqNo
    <3>2. shown'[s] \subseteq {text[s]}
      BY <1>8, <3>1
    <3>3. shown'[s] # {} => s < nextSeq
      BY <1>7, <1>8, <3>1, LogFacts
    <3> QED
      BY <3>1, <3>2, <3>3
  <2>2. \A s \in 0..commit : text[s] \in shown'[s] \/ s \in Dropped
    <3>1. \A s \in 0..commit : s \in SeqNo
      BY LogFacts DEF SeqNo
    <3> QED
      BY <1>2, <1>8, <3>1 DEF Told
  <2>3. \A s \in Held : text[s] # 0
    BY <1>2 DEF Told
  <2> QED
    BY <1>1, <1>4, <2>1, <2>2, <2>3 DEF Told
<1>10. ActiveLast'
  BY <1>1, <1>2, <1>4, LogFacts DEF ActiveLast
<1>11. CursorAhead'
  BY <1>1, <1>2, <1>3, <1>4, LogFacts DEF CursorAhead
<1>12. Midway'
  BY <1>1, <1>2 DEF Midway, AppendedThisLife
<1>13. NothingSkipped'
  <2> SUFFICES ASSUME NEW s \in 0..(cursor'.seq - 1)
               PROVE  text[s] \in shown'[s] \/ s \in Dropped
    BY <1>1, <1>4 DEF NothingSkipped
  <2>1. s \in SeqNo /\ s \in Nat /\ s < cursor'.seq
    BY <1>3, LogFacts DEF SeqNo
  <2>2. CASE s < cursor.seq
    <3>1. s \in 0..(cursor.seq - 1)
      BY <2>1, <2>2, LogFacts
    <3> QED
      BY <1>1, <1>2, <1>8, <2>1, <3>1 DEF NothingSkipped
  <2>3. CASE s >= cursor.seq
    <3>1. s \in (commit + 1)..(nextSeq - 1)
      BY <1>2, <1>3, <2>1, <2>3, LogFacts DEF CursorAhead
    <3>2. s \in Held \cup Dropped
      BY <1>1, <3>1, NoGap DEF NoSilentGap
    <3> QED
      BY <1>3, <1>8, <2>1, <2>3, <3>2
  <2> QED
    BY <2>1, <2>2, <2>3, LogFacts
<1>14. TypeOK'
  <2>1. cursor' \in [seq : 0..(MaxSeq + 1), path : {None} \cup 0..(MaxSeq + 1)]
    <3>1. cursor'.seq \in 0..(MaxSeq + 1) /\ cursor'.path \in 0..(MaxSeq + 1)
      BY <1>3, LogFacts
    <3> QED
      BY <1>3, <3>1
  <2>2. shown' \in [SeqNo -> SUBSET Life]
    <3>1. \A s \in Batch(k) : text[s] \in Life
      <4> SUFFICES ASSUME NEW s \in Batch(k), text[s] = 0 PROVE FALSE
        BY <1>2, <1>7 DEF TypeOK
      <4>1. s \in Held
        BY <1>1, BatchIs
      <4> QED
        BY <1>2, <4>1 DEF Told
    <3> QED
      BY <1>1, <1>2, <3>1 DEF TypeOK
  <2>3. flushed' \in 0..nextSeq'
    BY <1>1, LogFacts
  <2> QED
    BY <1>1, <1>2, <1>4, <2>1, <2>2, <2>3 DEF TypeOK
<1> QED
  BY <1>1, <1>6, <1>9, <1>10, <1>11, <1>12, <1>13, <1>14 DEF IInv

\* Only what the cursor is past is acknowledged.
LEMMA CommitInv ==
  ASSUME IInv, NEW a \in SeqNo, Commit(a)
  PROVE  IInv'
<1>1. /\ up /\ busy = "idle" /\ a \in commit..(cursor.seq - 1) /\ commit' = a
      /\ busy' = IF Reclaimable(files, a) # {} THEN "truncate" ELSE "idle"
      /\ UNCHANGED <<files, dropped, up, life, nextSeq, active, flushed, cursor, history>>
  BY DEF Commit, Idle
<1>2. ActiveLast /\ CursorAhead /\ Midway /\ NothingSkipped /\ Chained /\ Told /\ TypeOK
  BY <1>1 DEF IInv
<1>3. Starts' = Starts /\ Held' = Held /\ Dropped' = Dropped
  BY <1>1 DEF Starts, Held, Dropped
<1>4. files' \in [Starts -> Entry]
  BY <1>1, <1>2 DEF Chained
<1>5. Chained' /\ Traced'
  BY <1>1, <1>3, <1>4, RecordsStay
<1>6. Told'
  <2>1. \A s \in 0..a : s \in 0..(cursor.seq - 1)
    BY <1>1, LogFacts
  <2>2. \A s \in 0..a : text[s] \in shown[s] \/ s \in Dropped
    BY <1>1, <1>2, <2>1 DEF NothingSkipped
  <2> QED
    BY <1>1, <1>2, <1>3, <2>2 DEF Told, history
<1>7. ActiveLast' /\ NothingSkipped'
  BY <1>1, <1>2, <1>3 DEF ActiveLast, NothingSkipped, history
<1>8. CursorAhead'
  BY <1>1, <1>2, <1>3, LogFacts DEF CursorAhead
<1>9. Midway'
  <2>1. busy' = "truncate" => Reclaimable(files, a) # {}
    BY <1>1
  <2>2. busy' \in {"idle", "truncate"}
    BY <1>1
  <2>3. AppendedThisLife => DiskUse(files, active) <= MaxDisk
    BY <1>1, <1>2 DEF Midway
  <2> QED
    BY <1>1, <2>1, <2>2, <2>3 DEF Midway, AppendedThisLife, history
<1>10. TypeOK'
  BY <1>1, <1>2, <1>3 DEF TypeOK, history
<1> QED
  BY <1>1, <1>5, <1>6, <1>7, <1>8, <1>9, <1>10 DEF IInv

\* The journal has the records of the oldest segment before it goes.
LEMMA CapJournalInv ==
  ASSUME IInv, CapJournal
  PROVE  IInv'
<1> DEFINE hi == files[victim].next - 1
<1>1. /\ up /\ busy = "cap" /\ busy' = "unlink"
      /\ dropped' = dropped \cup {d \in {<<victim, hi>>} : d[1] <= d[2]}
      /\ UNCHANGED <<files, commit, up, life, nextSeq, active, flushed, cursor, history>>
  BY DEF CapJournal
<1>2. ActiveLast /\ CursorAhead /\ Midway /\ NothingSkipped /\ Chained /\ Told /\ TypeOK /\ Traced
  BY <1>1 DEF IInv
<1>3. /\ victim \in Starts /\ (\A f \in Starts : victim <= f) /\ \E f \in Starts : f < active
      /\ active \in Starts
  BY <1>1, <1>2, NewestSegment DEF Midway
<1>4. victim < active /\ victim \in Nat /\ files[victim].next \in Nat /\ hi \in Int
      /\ files[victim].next <= active
  <2>1. victim < active
    BY <1>3, LogFacts
  <2> QED
    BY <1>2, <1>3, <2>1, LogFacts DEF Chained
<1>5. victim <= hi => hi \in Held
  <2>1. victim <= hi => hi \in victim..(files[victim].next - 1)
    BY <1>4
  <2> QED
    BY <1>3, <2>1, HeldIs
<1>6. Starts' = Starts /\ Held' = Held
  BY <1>1 DEF Starts, Held
<1>7. \A d \in dropped' : d \in dropped \/ (d = <<victim, hi>> /\ victim <= hi /\ hi \in Held)
  BY <1>1, <1>5
<1> HIDE DEF hi
<1>8. dropped \subseteq dropped' /\ Dropped \subseteq Dropped'
  BY <1>1, StaysDropped
<1>9. \A s \in Int : Resumes(s)' <=> Resumes(s)
  <2>1. ASSUME NEW s \in Int, Resumes(s)' PROVE Resumes(s)
    BY <1>1, <1>6, <1>7, <2>1 DEF Resumes
  <2>2. ASSUME NEW s \in Int, Resumes(s) PROVE Resumes(s)'
    BY <1>1, <1>6, <1>8, <2>2 DEF Resumes
  <2> QED
    BY <2>1, <2>2
<1>10. Chained'
  <2>1. \A f \in Starts : (Resumes(f - 1)' <=> Resumes(f - 1)) /\ (Resumes(f)' <=> Resumes(f))
    BY <1>9, LogFacts
  <2> QED
    BY <1>1, <1>2, <1>6, <2>1 DEF Chained
<1>11. Traced'
  <2>1. \A s \in SeqNo : s \in Int
    BY DEF SeqNo
  <2> QED
    BY <1>1, <1>2, <1>6, <1>8, <1>9, <2>1 DEF Traced
<1>12. Told'
  BY <1>1, <1>2, <1>6, <1>8 DEF Told, history
<1>13. ActiveLast'
  <2>1. \A d \in dropped' : d[2] < active
    <3> SUFFICES ASSUME NEW d \in dropped', d \notin dropped PROVE d[2] < active
      BY <1>2 DEF ActiveLast
    <3>1. d[2] = hi
      BY <1>7
    <3> QED
      BY <1>4, <3>1, LogFacts DEF hi
  <2> QED
    BY <1>1, <1>2, <1>6, <2>1 DEF ActiveLast
<1>14. CursorAhead' /\ NothingSkipped'
  BY <1>1, <1>2, <1>6, <1>8 DEF CursorAhead, NothingSkipped, history
<1>15. Midway'
  <2>1. victim < files[victim].next => <<victim, hi>> \in dropped'
    BY <1>1, <1>4 DEF hi
  <2> QED
    BY <1>1, <1>3, <1>6, <2>1 DEF Midway, victim, hi
<1>16. TypeOK'
  <2>1. \A d \in dropped' : d \in SeqNo \X SeqNo
    <3> SUFFICES ASSUME NEW d \in dropped', d \notin dropped PROVE d \in SeqNo \X SeqNo
      BY <1>2 DEF TypeOK
    <3>1. d = <<victim, hi>> /\ victim <= hi /\ hi \in SeqNo
      BY <1>7, HeldFacts
    <3>2. victim \in SeqNo
      BY <1>4, <3>1, LogFacts DEF SeqNo
    <3> QED
      BY <3>1, <3>2
  <2> QED
    BY <1>1, <1>2, <1>6, <2>1 DEF TypeOK, history
<1> QED
  BY <1>1, <1>10, <1>11, <1>12, <1>13, <1>14, <1>15, <1>16 DEF IInv

\* A segment that is not the newest is unlinked; its records are acknowledged or in
\* the journal.
LEMMA Unlinked ==
  ASSUME IInv, up, NEW v \in Starts, v < active, files' = Without({v}),
         \A s \in v..(files[v].next - 1) : s <= commit \/ s \in Dropped,
         UNCHANGED <<commit, dropped, up, life, nextSeq, active, flushed, cursor, history>>,
         busy' \in {"idle", "cap", "truncate"}
  PROVE  /\ Chained' /\ Traced' /\ Told' /\ ActiveLast' /\ CursorAhead' /\ NothingSkipped'
         /\ TypeOK'
         /\ Starts' = Starts \ {v} /\ Held' \subseteq Held
         /\ \A f \in Starts' : files'[f] = files[f]
<1>1. ActiveLast /\ CursorAhead /\ Midway /\ NothingSkipped /\ Chained /\ Told /\ TypeOK /\ Traced
  BY DEF IInv
<1>2. /\ Starts' = Starts \ {v} /\ \A f \in Starts' : files'[f] = files[f]
      /\ files' \in [Starts' -> Entry]
  BY <1>1 DEF Without, Starts, Chained
<1>3. ASSUME NEW s \in Held PROVE s \in Held' \/ s <= commit \/ s \in Dropped
  <2>1. PICK f \in Starts : s \in f..(files[f].next - 1)
    BY HeldIs
  <2>2. CASE f = v
    BY <2>1, <2>2
  <2>3. CASE f # v
    BY <1>2, <2>1, <2>3, HeldIs
  <2> QED
    BY <2>2, <2>3
<1>4. Held' \subseteq Held
  BY <1>2, HeldIs
<1>5. Dropped' = Dropped
  BY DEF Dropped
<1>6. \A s \in Int : Resumes(s)' <=> Resumes(s)
  <2>1. ASSUME NEW s \in Int, Resumes(s)' PROVE Resumes(s)
    BY <1>4, <2>1 DEF Resumes
  <2>2. ASSUME NEW s \in Int, Resumes(s) PROVE Resumes(s)'
    <3> SUFFICES ASSUME NEW r \in Held, s <= r, r \notin Held' PROVE Resumes(s)'
      BY <2>2 DEF Resumes
    <3>1. r \in Int
      BY HeldFacts
    <3>2. CASE r <= commit
      BY <3>1, <3>2, LogFacts DEF Resumes
    <3>3. CASE r \in Dropped
      <4>1. PICK d \in dropped : r \in d[1]..d[2]
        BY <3>3, DroppedIs
      <4>2. s <= d[2]
        BY <3>1, <4>1, JournalFacts
      <4> QED
        BY <4>2 DEF Resumes
    <3> QED
      BY <1>3, <3>2, <3>3
  <2> QED
    BY <2>1, <2>2
<1>7. Chained'
  <2>1. \A f \in Starts : (Resumes(f - 1)' <=> Resumes(f - 1)) /\ (Resumes(f)' <=> Resumes(f))
    BY <1>6, LogFacts
  <2> QED
    BY <1>1, <1>2, <2>1 DEF Chained
<1>8. Traced'
  <2> SUFFICES ASSUME NEW s \in SeqNo, s > commit, Resumes(s)' PROVE s \in Held' \cup Dropped
    BY <1>5 DEF Traced
  <2>1. s \in Int /\ ~(s <= commit)
    BY LogFacts DEF SeqNo
  <2> QED
    BY <1>1, <1>3, <1>6, <2>1 DEF Traced
<1>9. Told'
  BY <1>1, <1>4, <1>5 DEF Told, history
<1>10. ActiveLast'
  <2>1. active \in Starts' /\ Starts' \subseteq Starts
    BY <1>1, <1>2, LogFacts DEF ActiveLast
  <2>2. files'[active] = files[active]
    BY <1>2, <2>1
  <2> QED
    BY <1>1, <2>1, <2>2 DEF ActiveLast
<1>11. CursorAhead' /\ NothingSkipped'
  BY <1>1, <1>2, <1>5 DEF CursorAhead, NothingSkipped, history
<1>12. TypeOK'
  BY <1>1, <1>2 DEF TypeOK, history
<1> QED
  BY <1>2, <1>4, <1>7, <1>8, <1>9, <1>10, <1>11, <1>12

LEMMA TruncateInv ==
  ASSUME IInv, Truncate
  PROVE  IInv'
<1> DEFINE v == Min(Reclaimable(files, commit))
<1>1. /\ up /\ busy = "truncate" /\ files' = Without({v})
      /\ busy' = IF Reclaimable(files', commit) # {} THEN "truncate" ELSE "idle"
      /\ UNCHANGED <<commit, dropped, up, life, nextSeq, active, flushed, cursor, history>>
  BY DEF Truncate
<1>2. Midway
  BY <1>1 DEF IInv
<1>3. v \in Reclaimable(files, commit)
  <2>1. 0 \in Int /\ MaxSeq + 1 \in Int
    BY LogFacts
  <2>2. Reclaimable(files, commit) \subseteq 0..(MaxSeq + 1) /\ Reclaimable(files, commit) # {}
    BY <1>1, <1>2, LogFacts DEF Reclaimable, Midway, Starts
  <2> QED
    BY <2>1, <2>2, MinIsLeast, Zenon
<1> HIDE DEF v
<1>4. v \in Starts /\ v < active /\ files[v].next - 1 <= commit
  <2>1. v \in Starts /\ v # active /\ files[v].next - 1 <= commit
    BY <1>1, <1>3, NewestSegment DEF Reclaimable, Starts
  <2> QED
    BY <1>1, <2>1, NewestSegment, LogFacts
<1>5. \A s \in v..(files[v].next - 1) : s <= commit
  BY <1>4, LogFacts
<1>6. /\ Chained' /\ Traced' /\ Told' /\ ActiveLast' /\ CursorAhead' /\ NothingSkipped'
      /\ TypeOK' /\ Held' \subseteq Held
  <2>1. busy' \in {"idle", "cap", "truncate"}
    BY <1>1
  <2> QED
    BY <1>1, <1>4, <1>5, <2>1, Unlinked
<1>7. Midway'
  <2>1. DiskUse(files', active) <= DiskUse(files, active) /\ DiskUse(files', active) \in Nat
        /\ DiskUse(files, active) \in Nat
    <3> DEFINE T == {s \in Held : s < active}
               S == {s \in Held' : s < active}
    <3>1. T \in SUBSET SeqNo /\ S \in SUBSET T
      BY <1>6, HeldFacts
    <3>2. DiskUse(files, active) = Cardinality(T) /\ DiskUse(files', active) = Cardinality(S)
      BY DEF DiskUse, Held
    <3> HIDE DEF S, T
    <3> QED
      BY <3>1, <3>2, FewerSeqs
  <2>2. AppendedThisLife => DiskUse(files', active) <= MaxDisk
    BY <1>1, <1>2, <2>1, LogFacts DEF Midway
  <2>3. busy' \in {"idle", "truncate"} /\ (busy' = "truncate" => Reclaimable(files', commit) # {})
    BY <1>1
  <2> QED
    BY <1>1, <2>2, <2>3 DEF Midway, AppendedThisLife, history
<1> QED
  BY <1>1, <1>6, <1>7 DEF IInv

LEMMA CapUnlinkInv ==
  ASSUME IInv, CapUnlink
  PROVE  IInv'
<1>1. /\ up /\ busy = "unlink" /\ files' = Without({victim})
      /\ busy' = IF OverCap(files', flushed) THEN "cap" ELSE "idle"
      /\ UNCHANGED <<commit, dropped, up, life, nextSeq, active, flushed, cursor, history>>
  BY DEF CapUnlink, UnlinkVictim
<1>2. Midway /\ ActiveLast
  BY <1>1 DEF IInv
<1>3. victim \in Starts /\ victim < active
  <2>1. victim \in Starts /\ (\A f \in Starts : victim <= f) /\ \E f \in Starts : f < active
    BY <1>1, <1>2, NewestSegment DEF Midway
  <2> QED
    BY <2>1, LogFacts
<1>4. \A s \in victim..(files[victim].next - 1) : s \in Dropped
  <2> SUFFICES ASSUME NEW s \in victim..(files[victim].next - 1) PROVE s \in Dropped
    OBVIOUS
  <2>1. victim < files[victim].next
    BY <1>3, LogFacts
  <2>2. <<victim, files[victim].next - 1>> \in dropped
    BY <1>1, <1>2, <2>1 DEF Midway
  <2> QED
    BY <2>2, DroppedIs
<1>5. /\ Chained' /\ Traced' /\ Told' /\ ActiveLast' /\ CursorAhead' /\ NothingSkipped'
      /\ TypeOK' /\ Held' \subseteq Held /\ Starts' = Starts \ {victim}
  <2>1. busy' \in {"idle", "cap", "truncate"}
    BY <1>1
  <2> QED
    BY <1>1, <1>3, <1>4, <2>1, Unlinked
<1>6. Starts' \subseteq 0..(MaxSeq + 1) /\ Held' \subseteq SeqNo /\ flushed \in Int
  BY <1>5, HeldFacts, LogFacts
<1>7. Midway'
  <2>1. busy' = "cap" => \E f \in Starts' : f < active
    <3> SUFFICES ASSUME busy' = "cap" PROVE \E f \in Starts' : f < active
      OBVIOUS
    <3>1. Cardinality(Starts') > 1
      BY <1>1 DEF OverCap, Starts
    <3>2. active \in Starts' /\ \A f \in Starts' : f <= active
      BY <1>1, <1>5 DEF ActiveLast
    <3>3. PICK f \in Starts' : f # active
      BY <3>1, <3>2, MoreThanOne
    <3> QED
      BY <1>6, <3>2, <3>3, LogFacts
  <2>2. ~OverCap(files', flushed) => DiskUse(files', active) <= MaxDisk
    <3>1. active \in Starts' /\ (\A f \in Starts' : f <= active) /\ active <= flushed
      BY <1>1, <1>2, <1>5 DEF ActiveLast
    <3> QED
      BY <1>6, <3>1, UnderCap DEF Starts, Held
  <2>3. busy' \in {"idle", "cap"}
    BY <1>1
  <2> QED
    BY <1>1, <2>1, <2>2, <2>3 DEF Midway
<1> QED
  BY <1>1, <1>5, <1>7 DEF IInv

\* The process is gone, and with it the records at the end of the newest segment that
\* no reader was given: what had left the buffer when it last was looked at is there.
LEMMA CutInv ==
  ASSUME IInv, up, NEW c \in flushed..nextSeq, Down, files' \in [Starts -> Entry],
         \A f \in Starts : files'[f].next = IF f = active THEN c ELSE files[f].next,
         \A f \in Starts : files'[f].safe \in f..files'[f].next
  PROVE  IInv'
<1>1. /\ up' = FALSE /\ nextSeq' = 0 /\ active' = 0 /\ flushed' = 0 /\ busy' = "idle"
      /\ cursor' = [seq |-> 0, path |-> None]
      /\ UNCHANGED <<commit, dropped, life, history>>
  BY DEF Down
<1>2. ActiveLast /\ CursorAhead /\ Chained /\ Told /\ TypeOK /\ Traced
  BY DEF IInv
<1>3. /\ active \in Starts /\ c \in Nat /\ flushed <= c /\ c <= nextSeq /\ active <= c
      /\ files[active].next = nextSeq
      /\ \A f \in Starts : f # active => f < active /\ files[f].next <= active
  BY <1>2, LogFacts DEF ActiveLast, Chained
<1>4. Starts' = Starts /\ Dropped' = Dropped
  BY <1>1 DEF Starts, Dropped
<1>5. \A s : s \in Held' <=> s \in Held /\ s < c
  <2>1. ASSUME NEW s \in Held' PROVE s \in Held /\ s < c
    <3>1. PICK f \in Starts : s \in f..(files'[f].next - 1)
      BY <1>4, HeldIs
    <3>2. s \in f..(files[f].next - 1) /\ s < c
      BY <1>3, <3>1, LogFacts
    <3> QED
      BY <3>2, HeldIs
  <2>2. ASSUME NEW s \in Held, s < c PROVE s \in Held'
    <3>1. PICK f \in Starts : s \in f..(files[f].next - 1)
      BY HeldIs
    <3>2. s \in f..(files'[f].next - 1)
      BY <1>3, <2>2, <3>1, LogFacts
    <3> QED
      BY <1>4, <3>2, HeldIs
  <2> QED
    BY <2>1, <2>2
<1>6. \A s \in Int : s >= c => ~Resumes(s)'
  <2>1. commit < c /\ (\A d \in dropped : d[2] < c /\ d[2] \in Int) /\ \A t \in Held' : t < c /\ t \in Int
    BY <1>2, <1>3, <1>5, LogFacts, JournalFacts, HeldFacts DEF CursorAhead, ActiveLast
  <2> QED
    BY <1>1, <1>3, <2>1, LogFacts DEF Resumes
<1>7. \A s \in Int : s >= 0 /\ s < c => Resumes(s)'
  <2> SUFFICES ASSUME NEW s \in Int, s >= 0, s < c PROVE Resumes(s)'
    OBVIOUS
  <2>1. CASE active < c
    <3>1. c - 1 \in active..(files'[active].next - 1)
      BY <1>3, <2>1, LogFacts
    <3>2. c - 1 \in Held' /\ s <= c - 1
      BY <1>3, <1>4, <3>1, HeldIs
    <3> QED
      BY <3>2 DEF Resumes
  <2>2. CASE active = c
    <3>1. active # 0 /\ s <= active - 1 /\ active - 1 \in SeqNo /\ active - 1 \in Int
      BY <2>2, LogFacts DEF SeqNo
    <3>2. Resumes(active - 1)
      BY <1>2, <1>3, <3>1 DEF Chained
    <3>3. CASE active - 1 <= commit
      BY <1>1, <3>1, <3>3, LogFacts DEF Resumes
    <3>4. CASE active - 1 \in Held
      <4>1. active - 1 \in Held'
        BY <1>3, <1>5, <3>4, LogFacts
      <4> QED
        BY <3>1, <4>1 DEF Resumes
    <3>5. CASE active - 1 \in Dropped
      <4>1. PICK d \in dropped : active - 1 \in d[1]..d[2]
        BY <3>5, DroppedIs
      <4>2. s <= d[2]
        BY <3>1, <4>1, JournalFacts
      <4> QED
        BY <1>1, <4>2 DEF Resumes
    <3>6. active - 1 > commit => active - 1 \in Held \cup Dropped
      BY <1>2, <3>1, <3>2 DEF Traced
    <3> QED
      BY <3>1, <3>3, <3>4, <3>5, <3>6, LogFacts
  <2> QED
    BY <1>3, <2>1, <2>2, LogFacts
<1>8. Chained'
  <2>1. \A f, g \in Starts : f < g => files'[f].next <= g
    BY <1>2, <1>3, LogFacts DEF Chained
  <2>2. \A f \in Starts : f = 0 \/ Resumes(f - 1)'
    BY <1>3, <1>7, LogFacts
  <2>3. ASSUME NEW f \in Starts, f = files'[f].next
        PROVE  ~Resumes(f)' /\ \A g \in Starts : g <= f
    <3>1. f = active
      <4> SUFFICES ASSUME f # active PROVE FALSE
        OBVIOUS
      <4>1. f = files[f].next
        BY <2>3
      <4>2. active <= f
        BY <1>2, <1>3, <4>1 DEF Chained
      <4> QED
        BY <1>3, <4>2, LogFacts
    <3>2. f \in Int /\ f >= c
      BY <1>3, <2>3, <3>1
    <3> QED
      BY <1>2, <1>6, <3>1, <3>2 DEF ActiveLast
  <2> QED
    BY <1>4, <2>1, <2>2, <2>3 DEF Chained
<1>9. Traced'
  <2> SUFFICES ASSUME NEW s \in SeqNo, s > commit, Resumes(s)' PROVE s \in Held' \cup Dropped
    BY <1>1, <1>4 DEF Traced
  <2>1. s < c /\ s \in Int
    BY <1>3, <1>6 DEF SeqNo
  <2>2. Resumes(s)
    BY <1>1, <1>5 DEF Resumes
  <2> QED
    BY <1>2, <1>5, <2>1, <2>2 DEF Traced
<1>10. Told'
  <2>1. ASSUME NEW s \in SeqNo, shown[s] # {} PROVE Resumes(s)'
    <3>1. s < flushed /\ s \in Int /\ s >= 0
      BY <1>2, <2>1 DEF Told, SeqNo
    <3> QED
      BY <1>3, <1>7, <3>1, LogFacts
  <2> QED
    BY <1>1, <1>2, <1>4, <1>5, <2>1 DEF Told, history
<1>11. TypeOK'
  <2>1. \A f \in Starts : /\ f \in 0..(MaxSeq + 1) /\ f <= files'[f].next
                          /\ files'[f].next <= MaxSeq + 1 /\ files'[f].safe \in f..files'[f].next
    BY <1>3, LogFacts
  <2>2. cursor' \in [seq : 0..(MaxSeq + 1), path : {None} \cup 0..(MaxSeq + 1)]
    BY <1>1, LogFacts
  <2>3. 0 \in 0..(MaxSeq + 1) /\ 0 \in 0..0
    BY LogFacts
  <2> QED
    BY <1>1, <1>2, <1>4, <2>1, <2>2, <2>3 DEF TypeOK, history
<1> QED
  BY <1>1, <1>8, <1>9, <1>10, <1>11 DEF IInv

LEMMA CloseInv ==
  ASSUME IInv, Close
  PROVE  IInv'
<1>1. up /\ files' = Synced /\ Down
  BY DEF Close, Idle
<1>2. Chained /\ ActiveLast
  BY <1>1 DEF IInv
<1>3. \A f \in Starts : /\ files'[f] \in Entry
                        /\ files'[f].next = files[f].next
                        /\ files'[f].safe \in f..files'[f].next
  <2> SUFFICES ASSUME NEW f \in Starts PROVE /\ files'[f] \in Entry
                                             /\ files'[f].next = files[f].next
                                             /\ files'[f].safe \in f..files'[f].next
    OBVIOUS
  <2>1. files[f] \in Entry /\ files'[f] = IF f = active THEN [files[f] EXCEPT !.safe = nextSeq] ELSE files[f]
    BY <1>1, <1>2 DEF Chained, Synced
  <2>2. CASE f # active
    BY <2>1, <2>2, LogFacts
  <2>3. CASE f = active
    <3>1. /\ files'[f] \in Entry /\ files'[f].next = files[f].next
          /\ files'[f].safe = nextSeq
      BY <2>1, <2>3, LogFacts DEF Entry
    <3> QED
      BY <1>2, <2>3, <3>1, LogFacts DEF ActiveLast
  <2> QED
    BY <2>2, <2>3
<1>4. files' \in [Starts -> Entry]
  BY <1>1, <1>3 DEF Synced
<1>5. nextSeq \in flushed..nextSeq /\ files[active].next = nextSeq
  BY <1>2, LogFacts DEF ActiveLast
<1> QED
  BY <1>1, <1>3, <1>4, <1>5, CutInv

LEMMA KillInv ==
  ASSUME IInv, Kill
  PROVE  IInv'
<1>1. up /\ Down /\ files' = [f \in Starts |->
         IF f = active THEN [files[f] EXCEPT !.next = flushed] ELSE files[f]]
  BY DEF Kill
<1>2. Chained /\ ActiveLast
  BY <1>1 DEF IInv
<1>3. \A f \in Starts : /\ files'[f] \in Entry
                        /\ files'[f].next = IF f = active THEN flushed ELSE files[f].next
                        /\ files'[f].safe \in f..files'[f].next
  <2> SUFFICES ASSUME NEW f \in Starts
               PROVE /\ files'[f] \in Entry
                     /\ files'[f].next = IF f = active THEN flushed ELSE files[f].next
                     /\ files'[f].safe \in f..files'[f].next
    OBVIOUS
  <2>1. files[f] \in Entry /\ files'[f] = IF f = active THEN [files[f] EXCEPT !.next = flushed] ELSE files[f]
    BY <1>1, <1>2 DEF Chained
  <2>2. CASE f # active
    BY <2>1, <2>2, LogFacts
  <2>3. CASE f = active
    <3>1. /\ files'[f] \in Entry /\ files'[f].next = flushed
          /\ files'[f].safe = files[f].safe
      BY <2>1, <2>3, LogFacts DEF Entry
    <3> QED
      BY <1>2, <2>3, <3>1, LogFacts DEF ActiveLast
  <2> QED
    BY <2>2, <2>3
<1>4. files' \in [Starts -> Entry]
  BY <1>1, <1>3
<1>5. flushed \in flushed..nextSeq
  BY LogFacts
<1> QED
  BY <1>1, <1>3, <1>4, <1>5, CutInv

\* Recovery goes on above all that was given, acknowledged or dropped.
LEMMA RecoverInv ==
  ASSUME IInv, NEW torn \in BOOLEAN, Recover(torn)
  PROVE  IInv'
<1> DEFINE redo == {f \in Starts : f < files[f].next /\
                      \E d \in dropped : d[1] <= f /\ files[f].next - 1 <= d[2]}
           left == Without(redo)
           next == Max({Floor, EndOf(left)})
           repaired == [f \in DOMAIN left |->
                          IF torn /\ f = Max(DOMAIN left)
                          THEN [left[f] EXCEPT !.safe = left[f].next] ELSE left[f]]
<1>1. /\ ~up /\ up' = TRUE /\ life < MaxLife /\ life' = life + 1 /\ files' = Opened(repaired, next)
      /\ nextSeq' = next /\ active' = next /\ flushed' = next
      /\ cursor' = [seq |-> commit + 1, path |-> None]
      /\ UNCHANGED <<commit, dropped, busy, history>>
  BY DEF Recover
<1>2. Chained /\ Traced /\ Told /\ TypeOK /\ busy = "idle"
  BY <1>1 DEF IInv
<1>3. DOMAIN left = Starts \ redo /\ \A f \in DOMAIN left : left[f] = files[f] /\ f \in Starts
  BY DEF Without
<1>4. ASSUME NEW f \in redo
      PROVE  \E d \in dropped : \A s \in f..(files[f].next - 1) : s \in d[1]..d[2]
  <2>1. PICK d \in dropped : d[1] <= f /\ files[f].next - 1 <= d[2]
    OBVIOUS
  <2>2. f \in Starts
    OBVIOUS
  <2> QED
    BY <2>1, <2>2, LogFacts, JournalFacts
<1>5. \A f \in redo : f < files[f].next
  OBVIOUS
<1> HIDE DEF redo, left
<1>6. /\ HeldIn(left) \subseteq Held
      /\ \A s \in Held : s \in HeldIn(left) \/ \E d \in dropped : s \in d[1]..d[2]
  <2>1. \A s : s \in HeldIn(left) <=> \E f \in DOMAIN left : s \in f..(left[f].next - 1)
    BY DEF HeldIn, Holds
  <2>2. HeldIn(left) \subseteq Held
    BY <1>3, <2>1, HeldIs
  <2>3. ASSUME NEW s \in Held PROVE s \in HeldIn(left) \/ \E d \in dropped : s \in d[1]..d[2]
    <3>1. PICK f \in Starts : s \in f..(files[f].next - 1)
      BY HeldIs
    <3> QED
      BY <1>3, <1>4, <2>1, <3>1
  <2> QED
    BY <2>2, <2>3
<1>7. /\ next \in Nat /\ next <= MaxSeq + 1
      /\ \A s \in Int : s >= 0 => (s < next <=> Resumes(s))
  <2> DEFINE F == {commit + 1} \cup {d[2] + 1 : d \in dropped}
             E == {0} \cup {s + 1 : s \in HeldIn(left)}
             B == {Max(F), Max(E)}
  <2>1. 0 \in Int /\ MaxSeq + 1 \in Int /\ MaxSeq \in Nat
    BY LogFacts
  <2>2. F \subseteq 0..(MaxSeq + 1) /\ F # {}
    <3>1. commit + 1 \in 0..(MaxSeq + 1)
      BY LogFacts
    <3>2. \A d \in dropped : d[2] + 1 \in 0..(MaxSeq + 1)
      BY <2>1, JournalFacts
    <3> QED
      BY <3>1, <3>2
  <2>3. E \subseteq 0..(MaxSeq + 1) /\ E # {}
    <3>1. \A s \in HeldIn(left) : s + 1 \in 0..(MaxSeq + 1)
      BY <1>6, <2>1, HeldFacts
    <3> QED
      BY <2>1, <3>1
  <2>4. Floor = Max(F) /\ EndOf(left) = Max(E)
    BY DEF Floor, EndOf
  <2>5. /\ commit + 1 \in F /\ \A d \in dropped : d[2] + 1 \in F
        /\ \A x \in F : x = commit + 1 \/ \E d \in dropped : x = d[2] + 1
    OBVIOUS
  <2>6. /\ 0 \in E /\ \A s \in HeldIn(left) : s + 1 \in E
        /\ \A x \in E : x = 0 \/ \E s \in HeldIn(left) : x = s + 1
    OBVIOUS
  <2> HIDE DEF F, E
  <2>7. Max(F) \in F /\ \A x \in F : x <= Max(F)
    BY <2>1, <2>2, MaxIsGreatest, Zenon
  <2>8. Max(E) \in E /\ \A x \in E : x <= Max(E)
    BY <2>1, <2>3, MaxIsGreatest, Zenon
  <2>9. B \subseteq 0..(MaxSeq + 1) /\ B # {}
    BY <2>2, <2>3, <2>7, <2>8
  <2>10. next = Max(B)
    BY <2>4
  <2>11. Max(F) \in B /\ Max(E) \in B /\ \A x \in B : x = Max(F) \/ x = Max(E)
    OBVIOUS
  <2> HIDE DEF B
  <2>12. Max(B) \in B /\ \A x \in B : x <= Max(B)
    BY <2>1, <2>9, MaxIsGreatest, Zenon
  <2> HIDE DEF next
  <2>13. /\ next \in Nat /\ next <= MaxSeq + 1
         /\ Max(F) \in Nat /\ Max(E) \in Nat /\ Max(F) <= next /\ Max(E) <= next
         /\ next = Max(F) \/ next = Max(E)
    <3>1. Max(F) \in 0..(MaxSeq + 1) /\ Max(E) \in 0..(MaxSeq + 1)
      BY <2>2, <2>3, <2>7, <2>8
    <3>2. next \in B /\ \A x \in B : x <= next
      BY <2>10, <2>12
    <3>3. next \in 0..(MaxSeq + 1) /\ Max(F) <= next /\ Max(E) <= next
      BY <2>9, <2>11, <3>2
    <3>4. next = Max(F) \/ next = Max(E)
      BY <2>11, <3>2
    <3> QED
      BY <2>1, <3>1, <3>3, <3>4
  <2>14. /\ commit + 1 <= next /\ (\A d \in dropped : d[2] + 1 <= next)
         /\ \A s \in HeldIn(left) : s + 1 <= next
    <3>1. ASSUME NEW x \in F PROVE x <= next
      BY <2>2, <2>7, <2>13
    <3>2. ASSUME NEW x \in E PROVE x <= next
      BY <2>3, <2>8, <2>13
    <3> QED
      BY <2>5, <2>6, <3>1, <3>2
  <2>15. \/ next = 0 \/ next = commit + 1
         \/ \E d \in dropped : next = d[2] + 1
         \/ \E s \in HeldIn(left) : next = s + 1
    BY <2>5, <2>6, <2>7, <2>8, <2>13
  <2>16. ASSUME NEW s \in Int, s >= 0, s < next PROVE Resumes(s)
    <3>1. CASE next = commit + 1
      BY <2>16, <3>1, LogFacts DEF Resumes
    <3>2. ASSUME NEW d \in dropped, next = d[2] + 1 PROVE Resumes(s)
      <4>1. s <= d[2]
        BY <2>16, <3>2, JournalFacts
      <4> QED
        BY <4>1 DEF Resumes
    <3>3. ASSUME NEW t \in HeldIn(left), next = t + 1 PROVE Resumes(s)
      <4>1. t \in Held /\ s <= t
        BY <1>6, <2>16, <3>3, HeldFacts
      <4> QED
        BY <4>1 DEF Resumes
    <3> QED
      BY <2>15, <2>16, <3>1, <3>2, <3>3
  <2>17. ASSUME NEW s \in Int, s >= 0, Resumes(s) PROVE s < next
    <3>1. CASE s <= commit
      BY <2>13, <2>14, <3>1, LogFacts
    <3>2. ASSUME NEW d \in dropped, s <= d[2] PROVE s < next
      BY <2>13, <2>14, <3>2, JournalFacts
    <3>3. ASSUME NEW t \in Held, s <= t PROVE s < next
      <4>1. t \in Int
        BY HeldFacts
      <4>2. CASE t \in HeldIn(left)
        BY <2>13, <2>14, <3>3, <4>1, <4>2
      <4>3. ASSUME NEW d \in dropped, t \in d[1]..d[2] PROVE s < next
        BY <2>13, <2>14, <3>3, <4>1, <4>3, JournalFacts
      <4> QED
        BY <1>6, <4>2, <4>3
    <3> QED
      BY <2>17, <3>1, <3>2, <3>3 DEF Resumes
  <2> QED
    BY <2>13, <2>16, <2>17
<1> HIDE DEF next
<1>8. \A f \in Starts : /\ f <= next
                        /\ f = next \/ f = files[f].next => f = next /\ f = files[f].next
                        /\ f \notin redo => files[f].next <= next
  <2> SUFFICES ASSUME NEW f \in Starts
               PROVE /\ f <= next
                     /\ f = next \/ f = files[f].next => f = next /\ f = files[f].next
                     /\ f \notin redo => files[f].next <= next
    OBVIOUS
  <2>1. f \in Nat /\ files[f].next \in Nat /\ f <= files[f].next
    BY LogFacts
  <2>2. f <= next
    <3> SUFFICES ASSUME f # 0 PROVE f <= next
      BY <1>7
    <3>1. Resumes(f - 1) /\ f - 1 \in Int /\ f - 1 >= 0
      BY <1>2, <2>1 DEF Chained
    <3>2. f - 1 < next
      BY <1>7, <3>1
    <3> QED
      BY <1>7, <2>1, <3>2
  <2>3. ASSUME f = next PROVE f = files[f].next
    <3>1. ~Resumes(f)
      BY <1>7, <2>1, <2>3
    <3>2. f \notin Held
      BY <2>1, <3>1 DEF Resumes
    <3> QED
      BY <2>1, <3>2, HeldIs
  <2>4. ASSUME f = files[f].next PROVE f = next
    <3>1. ~Resumes(f)
      BY <1>2, <2>4 DEF Chained
    <3> QED
      BY <1>7, <2>1, <2>2, <3>1
  <2>5. ASSUME f < files[f].next PROVE files[f].next <= next
    <3>1. files[f].next - 1 \in Held
      BY <2>1, <2>5, HeldIs
    <3>2. files[f].next - 1 < next
      BY <1>7, <2>1, <2>5, <3>1 DEF Resumes
    <3> QED
      BY <1>7, <2>1, <3>2
  <2> QED
    BY <1>7, <2>1, <2>2, <2>3, <2>4, <2>5
<1>9. /\ Starts' = (Starts \ redo) \cup {next}
      /\ \A f \in Starts \ redo : files'[f].next = files[f].next
      /\ files'[next].next = next
      /\ \A f \in Starts' : files'[f].safe \in f..files'[f].next
      /\ files' \in [Starts' -> Entry]
  <2>1. DOMAIN repaired = Starts \ redo
    BY <1>3
  <2>2. ASSUME NEW f \in Starts \ redo
        PROVE  /\ repaired[f] \in Entry /\ repaired[f].next = files[f].next
               /\ repaired[f].safe \in f..files[f].next
    <3>1. files[f] \in Entry /\ left[f] = files[f] /\ f \in DOMAIN left
      BY <1>2, <1>3 DEF Chained
    <3>2. repaired[f] = files[f] \/ repaired[f] = [files[f] EXCEPT !.safe = files[f].next]
      BY <3>1
    <3> HIDE DEF repaired
    <3>3. [files[f] EXCEPT !.safe = files[f].next] = [next |-> files[f].next, safe |-> files[f].next]
      BY <3>1 DEF Entry
    <3>4. repaired[f] \in Entry /\ repaired[f].next = files[f].next
          /\ (repaired[f].safe = files[f].safe \/ repaired[f].safe = files[f].next)
      BY <3>1, <3>2, <3>3 DEF Entry
    <3> QED
      BY <3>4, LogFacts
  <2> HIDE DEF repaired
  <2>3. /\ Starts' = (Starts \ redo) \cup {next}
        /\ \A f \in Starts' : files'[f] = IF f \in Starts \ redo THEN repaired[f] ELSE NewFile(f)
        /\ files' = [f \in Starts' |-> files'[f]]
    BY <1>1, <2>1 DEF Opened, Starts
  <2>4. \A f \in Starts \ redo : files'[f] = repaired[f] /\ f \in Starts'
    BY <2>3
  <2>5. next \notin Starts \ redo => files'[next] = [next |-> next, safe |-> next]
    BY <2>3 DEF NewFile
  <2>6. next \in Starts \ redo => files'[next] = repaired[next] /\ files[next].next = next
    BY <1>8, <2>4
  <2>7. files'[next].next = next /\ files'[next].safe \in next..next /\ files'[next] \in Entry
    BY <1>7, <2>2, <2>5, <2>6, LogFacts DEF Entry
  <2>8. \A f \in Starts' : files'[f] \in Entry /\ files'[f].safe \in f..files'[f].next
    BY <2>2, <2>3, <2>4, <2>7
  <2>9. files' \in [Starts' -> Entry]
    BY <2>3, <2>8
  <2> QED
    BY <2>2, <2>3, <2>4, <2>7, <2>8, <2>9
<1>10. Dropped' = Dropped /\ Held' \subseteq Held /\ \A s \in Held : s \in Held' \/ s \in Dropped
  <2>1. Dropped' = Dropped
    BY <1>1 DEF Dropped
  <2>2. ASSUME NEW s \in Held' PROVE s \in Held
    <3>1. PICK f \in Starts' : s \in f..(files'[f].next - 1)
      BY HeldIs
    <3>2. f # next
      BY <1>7, <1>9, <3>1
    <3> QED
      BY <1>9, <3>1, <3>2, HeldIs
  <2>3. ASSUME NEW s \in Held PROVE s \in Held' \/ s \in Dropped
    <3>1. PICK f \in Starts : s \in f..(files[f].next - 1)
      BY HeldIs
    <3>2. CASE f \in redo
      BY <1>4, <3>1, <3>2, DroppedIs
    <3>3. CASE f \notin redo
      BY <1>9, <3>1, <3>3, HeldIs
    <3> QED
      BY <3>2, <3>3
  <2> QED
    BY <2>1, <2>2, <2>3
<1>11. \A s \in Int : Resumes(s)' <=> Resumes(s)
  <2>1. ASSUME NEW s \in Int, Resumes(s)' PROVE Resumes(s)
    BY <1>1, <1>10, <2>1 DEF Resumes
  <2>2. ASSUME NEW s \in Int, Resumes(s) PROVE Resumes(s)'
    <3>1. ASSUME NEW r \in Held, s <= r, r \in Dropped PROVE Resumes(s)'
      <4>1. PICK d \in dropped : r \in d[1]..d[2]
        BY <3>1, DroppedIs
      <4>2. s <= d[2]
        BY <3>1, <4>1, HeldFacts, JournalFacts
      <4> QED
        BY <1>1, <4>2 DEF Resumes
    <3> QED
      BY <1>1, <1>10, <2>2, <3>1 DEF Resumes
  <2> QED
    BY <2>1, <2>2
<1>12. Chained'
  <2>1. \A f, g \in Starts' : f < g => files'[f].next <= g
    <3> SUFFICES ASSUME NEW f \in Starts', NEW g \in Starts', f < g PROVE files'[f].next <= g
      OBVIOUS
    <3>1. f \in Starts \ redo /\ files'[f].next = files[f].next
      BY <1>7, <1>8, <1>9, LogFacts
    <3>2. CASE g = next
      BY <1>8, <3>1, <3>2
    <3>3. CASE g # next
      BY <1>2, <1>9, <3>1, <3>3 DEF Chained
    <3> QED
      BY <3>2, <3>3
  <2>2. ASSUME NEW f \in Starts' PROVE f = 0 \/ Resumes(f - 1)'
    <3>1. CASE f \in Starts
      BY <1>2, <1>11, <3>1, LogFacts DEF Chained
    <3>2. CASE f = next
      BY <1>7, <1>11, <3>2
    <3> QED
      BY <1>9, <3>1, <3>2
  <2>3. ASSUME NEW f \in Starts', f = files'[f].next
        PROVE  ~Resumes(f)' /\ \A g \in Starts' : g <= f
    <3>1. f = next
      BY <1>8, <1>9, <2>3
    <3>2. ~Resumes(f)'
      BY <1>7, <1>11, <3>1
    <3>3. \A g \in Starts' : g <= f
      BY <1>7, <1>8, <1>9, <3>1
    <3> QED
      BY <3>2, <3>3
  <2> QED
    BY <1>9, <2>1, <2>2, <2>3 DEF Chained
<1>13. Traced'
  <2>1. \A s \in SeqNo : s \in Int
    BY DEF SeqNo
  <2> QED
    BY <1>1, <1>2, <1>10, <1>11, <2>1 DEF Traced
<1>14. Told'
  <2>1. ASSUME NEW s \in SeqNo
        PROVE  shown[s] \subseteq {text[s]} /\ text[s] <= life' /\ (shown[s] # {} => s < next)
    <3>1. shown[s] \subseteq {text[s]} /\ text[s] <= life /\ (shown[s] # {} => Resumes(s))
          /\ s \in Int /\ s >= 0 /\ text[s] \in Int
      BY <1>1, <1>2 DEF Told, SeqNo, TypeOK, Life
    <3> QED
      BY <1>1, <1>7, <3>1, LogFacts
  <2> QED
    BY <1>1, <1>2, <1>10, <2>1 DEF Told, history
<1>15. ActiveLast'
  <2>1. \A d \in dropped : d[2] < next
    <3> SUFFICES ASSUME NEW d \in dropped PROVE d[2] < next
      OBVIOUS
    <3>1. d[2] \in Int /\ d[2] >= 0 /\ Resumes(d[2])
      BY JournalFacts DEF Resumes
    <3> QED
      BY <1>7, <3>1
  <2>2. files'[next].safe \in next..next /\ next \in Starts'
    BY <1>9
  <2>3. \A f \in Starts' : f <= next
    BY <1>7, <1>8, <1>9
  <2>4. files'[next].safe <= next /\ next - next < SegRecs
    BY <1>7, <2>2, LogFacts
  <2> QED
    BY <1>1, <1>7, <1>9, <2>1, <2>2, <2>3, <2>4 DEF ActiveLast
<1>16. commit < commit + 1 /\ commit + 1 <= next
  <2>1. commit >= 0 => Resumes(commit)
    BY LogFacts DEF Resumes
  <2> QED
    BY <1>7, <2>1, LogFacts
<1>17. CursorAhead'
  BY <1>1, <1>16 DEF CursorAhead
<1>18. Midway'
  <2>1. ~AppendedThisLife'
    <3>1. \A s \in SeqNo : text[s] # life + 1
      BY <1>2, LogFacts DEF Told, TypeOK, Life
    <3> QED
      BY <1>1, <3>1 DEF AppendedThisLife, history
  <2> QED
    BY <1>1, <1>2, <2>1 DEF Midway
<1>19. NothingSkipped'
  <2>1. (commit + 1) - 1 = commit
    BY LogFacts
  <2> QED
    BY <1>1, <1>2, <1>10, <2>1 DEF NothingSkipped, Told, history
<1>20. TypeOK'
  <2>1. \A f \in Starts' : /\ f \in 0..(MaxSeq + 1) /\ f <= files'[f].next
                           /\ files'[f].next <= MaxSeq + 1 /\ files'[f].safe \in f..files'[f].next
    BY <1>7, <1>9, LogFacts
  <2>2. cursor' \in [seq : 0..(MaxSeq + 1), path : {None} \cup 0..(MaxSeq + 1)]
    BY <1>1, LogFacts
  <2>3. nextSeq' \in 0..(MaxSeq + 1) /\ active' \in 0..(MaxSeq + 1) /\ flushed' \in 0..nextSeq'
    BY <1>1, <1>7, LogFacts
  <2>4. life' \in Life
    BY <1>1, <1>2, WalAssumption DEF TypeOK, Life, WalAssumption
  <2> QED
    BY <1>1, <1>2, <2>1, <2>2, <2>3, <2>4 DEF TypeOK, history
<1> QED
  BY <1>1, <1>12, <1>13, <1>14, <1>15, <1>17, <1>18, <1>19, <1>20 DEF IInv

------------------------------------------------------------------------------
(* The theorems.                                                           *)

LEMMA NextInv ==
  ASSUME IInv, [Next]_vars
  PROVE  IInv'
<1>1. ASSUME NEW due \in BOOLEAN, NEW out \in 0..(MaxSeq + 1), Append(due, out) PROVE IInv'
  BY <1>1, AppendInv
<1>2. CASE Sync
  BY <1>2, SyncInv
<1>3. ASSUME NEW k \in 1..MaxRead, Read(k) PROVE IInv'
  BY <1>3, ReadInv
<1>4. ASSUME NEW a \in SeqNo, Commit(a) PROVE IInv'
  BY <1>4, CommitInv
<1>5. CASE Truncate
  BY <1>5, TruncateInv
<1>6. CASE CapJournal
  BY <1>6, CapJournalInv
<1>7. CASE CapUnlink
  BY <1>7, CapUnlinkInv
<1>8. CASE Close
  BY <1>8, CloseInv
<1>9. CASE Kill
  BY <1>9, KillInv
<1>10. ASSUME NEW torn \in BOOLEAN, Recover(torn) PROVE IInv'
  BY <1>10, RecoverInv
<1>11. CASE UNCHANGED vars
  BY <1>11 DEF vars, disk, process, history, IInv, TypeOK, Chained, Traced, Told, ActiveLast,
       CursorAhead, Midway, NothingSkipped, Resumes, Held, HeldIn, Holds, Dropped, Starts,
       victim, Reclaimable, AppendedThisLife, DiskUse
<1> QED
  BY <1>1, <1>2, <1>3, <1>4, <1>5, <1>6, <1>7, <1>8, <1>9, <1>10, <1>11 DEF Next

\* The inductive invariant holds whatever the sizes, the cap and the number of lives.
THEOREM InvariantHolds == Spec => []IInv
<1>1. IInv /\ [Next]_vars => IInv'
  BY NextInv
<1> QED
  BY <1>1, InitInv, PTL DEF Spec

\* The cap bounds all segments but the newest, and the newest holds less than a segment.
LEMMA Bounded ==
  ASSUME IInv
  PROVE  DiskBounded
<1> SUFFICES ASSUME up, busy = "idle", AppendedThisLife
             PROVE  DiskUse(files, flushed) <= MaxDisk + SegRecs - 1
  BY DEF DiskBounded, Idle
<1> DEFINE Old == {s \in Held : s < active}
           All == {s \in Held : s < flushed}
           New == active..(active + (nextSeq - active) - 1)
<1>1. ActiveLast /\ Midway
  BY DEF IInv
<1>2. DiskUse(files, active) = Cardinality(Old) /\ DiskUse(files, flushed) = Cardinality(All)
  BY DEF DiskUse, Held
<1>3. Cardinality(Old) <= MaxDisk
  BY <1>1, <1>2 DEF Midway
<1>4. nextSeq - active \in Nat /\ nextSeq - active <= SegRecs - 1 /\ active \in Int
  BY <1>1, LogFacts DEF ActiveLast
<1>5. IsFiniteSet(New) /\ Cardinality(New) = nextSeq - active
  BY <1>4, RunSize
<1>6. All \subseteq Old \cup New
  <2>1. \A s \in Held : s \in Int /\ s < nextSeq
    BY HeldBelow, HeldFacts
  <2> QED
    BY <2>1, LogFacts
<1>7. IsFiniteSet(Old) /\ Cardinality(Old) \in Nat
  <2>1. Old \in SUBSET SeqNo
    BY HeldFacts
  <2> HIDE DEF Old
  <2> QED
    BY <2>1, FewerSeqs
<1> HIDE DEF Old, All, New
<1>8. /\ IsFiniteSet(Old \cup New)
      /\ Cardinality(Old \cup New) = Cardinality(Old) + Cardinality(New) - Cardinality(Old \cap New)
  BY <1>5, <1>7, FS_Union
<1>9. Cardinality(Old \cap New) \in Nat
  BY <1>7, FS_Intersection, FS_CardinalityType
<1>10. Cardinality(All) <= Cardinality(Old \cup New) /\ Cardinality(All) \in Nat
  BY <1>6, <1>8, FS_Subset, FS_CardinalityType
<1> QED
  BY <1>2, <1>3, <1>4, <1>5, <1>7, <1>8, <1>9, <1>10, LogFacts

\* All readers that were ever given a record of a seq were given the same one, across
\* any number of kills and recoveries: the process alone never re-issues a seq that
\* was seen (__init__ starts above COMMIT, the journal and every segment).
THEOREM SeqsNameOneRecord == Spec => []SeqIdentity
<1>1. IInv => SeqIdentity
  <2> SUFFICES ASSUME IInv, NEW s \in SeqNo PROVE Cardinality(shown[s]) <= 1
    BY DEF SeqIdentity
  <2>1. shown[s] \subseteq {text[s]}
    BY DEF IInv, Told
  <2>2. IsFiniteSet({text[s]}) /\ Cardinality({text[s]}) = 1
    BY FS_Singleton
  <2>3. Cardinality(shown[s]) <= Cardinality({text[s]})
    BY <2>1, <2>2, FS_Subset
  <2> QED
    BY <2>2, <2>3
<1> QED
  BY <1>1, InvariantHolds, PTL

\* A seq that was issued is acknowledged, held, or in the journal of the cap.
THEOREM NothingLeavesSilently == Spec => []NoSilentGap
<1>1. IInv => NoSilentGap
  BY NoGap
<1> QED
  BY <1>1, InvariantHolds, PTL

\* The cursor has given every record behind it that the cap did not drop, and can
\* reach every record before it, whatever was reclaimed or dropped under it.
THEOREM CursorMissesNothing == Spec => []CursorComplete
<1>1. IInv => CursorComplete
  BY Reaches DEF CursorComplete, IInv, NothingSkipped
<1> QED
  BY <1>1, InvariantHolds, PTL

\* The files have the shape recovery reads, the segment in use is never unlinked, and
\* the disk holds at most the cap and what is short of one more segment.
THEOREM ConsistentHolds == Spec => []Consistent
<1>1. IInv => Consistent
  BY Bounded DEF IInv, Consistent, ActiveUntouched, ActiveLast
<1> QED
  BY <1>1, InvariantHolds, PTL
=============================================================================
