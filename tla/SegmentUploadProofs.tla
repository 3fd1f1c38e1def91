------------------------- MODULE SegmentUploadProofs -------------------------
(***************************************************************************)
(* Proofs about the heavy path, for any clips, parts, segments and any     *)
(* number of deaths, rewrites and aborts: a reference names an object that *)
(* is whole, no whole object is forgotten, and no reference is repeated.   *)
(* The heart is that an upload which is finished never comes back: a call  *)
(* of a dead run can delete an object only if it was never whole, and can  *)
(* make one only where the vehicle still has its state file.               *)
(***************************************************************************)
EXTENDS SegmentUpload, IntervalTheorems

Call == [seg : Segment, etags : SUBSET (Part \X Version),
         at : {"finish", "verify", "delete"}, asked : BOOLEAN]

\* The shape of what TypeOK leaves open; whatever has a number was issued.
Shape ==
  /\ handlers \subseteq Call /\ stray \subseteq Segment \X Part \X Version
  /\ \A s \in Known : intent[s].seg = s /\ intent[s].meta = NoPart
  /\ committed \in Nat /\ committed < opened /\ opened \in Nat /\ NextSeq \in Nat
  /\ rewrites \in Version

Numbered ==
  /\ Known \cup DOMAIN uploads \cup DOMAIN object \cup References \subseteq 1..issued
  /\ \A h \in handlers : h.seg <= issued
  /\ issued + Cardinality(clips) <= MaxSegs

\* What the run is at, and what it has left to do.
AtWork ==
  /\ pc = "down" => todo = {} /\ clips = {}
  /\ pc \in {"down", "next"} <=> job = NoJob
  /\ pc = "save" => /\ job.seg \in 1..issued \ (Known \cup References)
                    /\ \A h \in handlers : h.seg # job.seg
                    /\ ~job.verified
  /\ pc \in {"put", "asked", "append", "flush", "discard"} =>
       job.seg \in Known \ todo /\ intent[job.seg] = Saved(job)
  /\ pc # "down" => Known \subseteq todo \cup {job.seg}

\* A call outlives its run, but not the upload it is about.
Served ==
  /\ \A g, h \in handlers : g.asked /\ h.asked => g = h
  /\ \A h \in handlers :
       /\ h.seg \in DOMAIN uploads => h.seg \in Known /\ h.at = "finish"
       /\ h.seg \in DOMAIN object /\ h.at = "delete" => ~Whole(h.seg)

\* What the vehicle was told is so, and stays so.
Stored ==
  /\ \A s \in Known : intent[s].verified => s \in DOMAIN object /\ Whole(s)
  /\ pc \in {"append", "flush"} => job.verified
  /\ pc = "flush" => job.seg \in References
  /\ pc = "discard" => /\ job.seg \notin DOMAIN uploads
                       /\ job.seg \in DOMAIN object => Durable(job.seg)

\* A reference whose state file is there still has not been acknowledged.
Unacknowledged == \A i \in Seqs : wal[i].seg \in Known => i > committed

IInv ==
  /\ TypeOK /\ Shape /\ Numbered
  /\ AtWork /\ Served /\ Stored /\ Unacknowledged
  /\ AnnouncedIsWhole /\ NoOrphanObject /\ NoReferenceTwice

------------------------------------------------------------------------------
(* What the definitions say, in the terms the provers compute with.        *)

LEMMA WithoutIs ==
  ASSUME NEW f, NEW s
  PROVE  /\ DOMAIN Without(f, s) = DOMAIN f \ {s}
         /\ \A x \in DOMAIN f \ {s} : Without(f, s)[x] = f[x]
BY DEF Without

\* The shape of the numbers.
LEMMA Numbers ==
  ASSUME IInv
  PROVE  /\ PartCount \in Nat /\ MaxSegs \in Nat /\ MaxRewrites \in Nat
         /\ issued \in Nat /\ issued <= MaxSegs
         /\ NextSeq \in Nat /\ opened \in Nat /\ committed \in Nat
         /\ opened <= NextSeq /\ committed < opened
         /\ Seqs = 1..(NextSeq - 1)
BY UploadAssumption DEF IInv, TypeOK, Shape, UploadAssumption

\* The log ends where it is said to.
LEMMA LogEnds ==
  ASSUME NEW S, NEW n \in Nat, S = 1..(n - 1), NEW c \in Nat, c < n
  PROVE  Max({c} \cup S) + 1 = n
<1> DEFINE T == {c} \cup S
<1>1. 0 \in Int /\ n - 1 \in Int
  OBVIOUS
<1>2. T \subseteq 0..(n - 1) /\ T # {}
  OBVIOUS
<1>3. n - 1 \in T
  OBVIOUS
<1> HIDE DEF T
<1>4. Max(T) \in T /\ \A d \in T : d <= Max(T)
  BY <1>1, <1>2, MaxIsGreatest, Zenon
<1>5. Max(T) \in 0..(n - 1) /\ n - 1 <= Max(T)
  BY <1>2, <1>3, <1>4
<1>6. Max(T) + 1 = n
  BY <1>5
<1> QED
  BY <1>6 DEF T

\* What is said of the log holds while it is left alone.
LEMMA SameLog ==
  ASSUME UNCHANGED log
  PROVE  /\ Seqs' = Seqs /\ NextSeq' = NextSeq /\ References' = References
         /\ \A s : Durable(s)' <=> Durable(s)
BY DEF log, Seqs, NextSeq, References, Durable

\* The upload the run is at, and the ones it has left.
LEMMA Working ==
  ASSUME IInv
  PROVE  /\ todo \subseteq Known /\ Known \subseteq Segment /\ DOMAIN intent = Known
         /\ \A s \in Known : /\ intent[s] \in UploadState /\ intent[s] # NoJob
                             /\ intent[s].seg = s /\ intent[s].meta = NoPart
         /\ pc \notin {"down", "next"} =>
              job \in UploadState /\ job # NoJob /\ job.seg \in Segment /\ job.seg \in 1..issued
         /\ pc \in {"down", "next"} => job.seg = 0 /\ job.seg \notin Known
<1>1. \A j \in UploadState : j # NoJob /\ j.seg \in Segment
  BY DEF UploadState, NoJob, Segment
<1>2. NoJob.seg = 0 /\ 0 \notin Segment
  BY Numbers DEF NoJob, Segment
<1>3. pc \notin {"down", "next"} => job \in UploadState
  BY <1>1 DEF IInv, TypeOK, AtWork
<1>4. pc \notin {"down", "next"} => job.seg \in 1..issued
  <2>1. pc \in {"save", "put", "asked", "append", "flush", "discard"} \cup {"down", "next"}
    BY DEF IInv, TypeOK
  <2> QED
    BY <2>1 DEF IInv, AtWork, Numbered
<1> QED
  BY <1>1, <1>2, <1>3, <1>4 DEF IInv, TypeOK, Shape, Known, AtWork

------------------------------------------------------------------------------
(* A run ends, or the gateway goes on without one.                         *)

\* What the store may do meanwhile: lose an object that is not whole, or make one
\* of an upload that is open and whose state file is there.
Kept(handlers2, uploads2, object2) ==
  /\ handlers2 \subseteq Call
  /\ \A h \in handlers2 : \E g \in handlers : g.seg = h.seg /\ (h.asked => g.asked)
  /\ \A g, h \in handlers2 : g.asked /\ h.asked => g = h
  /\ DOMAIN uploads2 \subseteq DOMAIN uploads
  /\ DOMAIN object2 \subseteq DOMAIN object \cup (DOMAIN uploads \cap Known)
  /\ DOMAIN uploads2 \cap DOMAIN object2 = {}
  /\ \A s \in DOMAIN uploads2 : uploads2[s] \in [Part -> {NoPart} \cup Version]
  /\ \A s \in DOMAIN object2 : object2[s] \in [Part -> Version]
  /\ \A s \in DOMAIN object : s \in DOMAIN object2 => object2[s] = object[s]
  /\ \A s \in DOMAIN object : Whole(s) => s \in DOMAIN object2

\* The store and the gateway do something while the vehicle does nothing.
LEMMA StoreInv ==
  ASSUME IInv, UNCHANGED <<disk, run, issued, sum, rewrites>>,
         stray' \subseteq Segment \X Part \X Version,
         Kept(handlers', uploads', object'),
         \A h \in handlers' : h.seg \in DOMAIN uploads' => h.at = "finish",
         \A h \in handlers' : h.seg \in DOMAIN object' /\ h.at = "delete" => ~Whole(h.seg)'
  PROVE  IInv'
<1>1. /\ clip' = clip /\ intent' = intent /\ UNCHANGED log /\ pc' = pc /\ todo' = todo
      /\ clips' = clips /\ job' = job /\ issued' = issued /\ sum' = sum /\ rewrites' = rewrites
  BY DEF disk, run
<1>2. /\ TypeOK /\ Shape /\ Numbered /\ AtWork /\ Served /\ Stored /\ Unacknowledged
      /\ AnnouncedIsWhole /\ NoOrphanObject /\ NoReferenceTwice
  BY DEF IInv
<1>3. /\ Seqs' = Seqs /\ NextSeq' = NextSeq /\ References' = References
      /\ \A s : Durable(s)' <=> Durable(s)
  BY <1>1, SameLog
<1>4. Known' = Known
  BY <1>1 DEF Known
<1>5. \A s \in DOMAIN object : Whole(s) => s \in DOMAIN object' /\ Whole(s)'
  BY <1>1 DEF Kept, Whole
<1>6. TypeOK'
  <2>1. \A h \in handlers' : h.asked => pc' = "asked" /\ h.seg = job'.seg
    BY <1>1, <1>2 DEF TypeOK, Kept
  <2>2. /\ DOMAIN uploads' \cap DOMAIN object' = {}
        /\ \A s \in DOMAIN uploads' : uploads'[s] \in [Part -> {NoPart} \cup Version]
        /\ \A s \in DOMAIN object' : object'[s] \in [Part -> Version]
    BY DEF Kept
  <2>3. \A i \in Seqs' : wal'[i] \in [seg : Segment, meta : Version]
    BY <1>1, <1>2, <1>3 DEF TypeOK, log
  <2>4. /\ Seqs' = 1..(NextSeq' - 1) /\ safe' \subseteq Seqs'
        /\ opened' \in 1..NextSeq' /\ committed' < NextSeq'
    BY <1>1, <1>2, <1>3 DEF TypeOK, log
  <2> QED
    BY <1>1, <1>2, <1>4, <2>1, <2>2, <2>3, <2>4 DEF TypeOK
<1>7. Shape' /\ Numbered'
  <2>1. Shape'
    BY <1>1, <1>2, <1>3, <1>4 DEF Shape, Kept, log
  <2>2. \A h \in handlers' : h.seg <= issued
    BY <1>2 DEF Kept, Numbered
  <2>3. DOMAIN uploads' \cup DOMAIN object' \subseteq 1..issued
    BY <1>2 DEF Kept, Numbered
  <2> QED
    BY <1>1, <1>2, <1>3, <1>4, <2>1, <2>2, <2>3 DEF Numbered
<1>8. AtWork'
  <2>1. pc = "save" => \A h \in handlers' : h.seg # job.seg
    BY <1>2 DEF AtWork, Kept
  <2> QED
    BY <1>1, <1>2, <1>3, <1>4, <2>1 DEF AtWork
<1>9. Served'
  <2>1. \A h \in handlers' : h.seg \in DOMAIN uploads' => h.seg \in Known
    BY <1>2 DEF Served, Kept
  <2>2. \A h \in handlers' : h.seg \in DOMAIN object' /\ h.at = "delete" => ~Whole(h.seg)'
    OBVIOUS
  <2> QED
    BY <1>4, <2>1, <2>2 DEF Served, Kept
<1>10. Stored'
  <2>1. \A s \in Known : intent[s].verified => s \in DOMAIN object' /\ Whole(s)'
    BY <1>2, <1>5 DEF Stored
  <2>2. pc = "discard" => /\ job.seg \notin DOMAIN uploads'
                          /\ job.seg \in DOMAIN object' => Durable(job.seg)
    BY <1>2 DEF Stored, Kept
  <2>3. pc = "discard" => (job.seg \in DOMAIN object' => Durable(job.seg)')
    BY <1>1, <1>3, <2>2 DEF Durable, log
  <2> QED
    BY <1>1, <1>2, <1>3, <1>4, <2>1, <2>2, <2>3 DEF Stored
<1>11. Unacknowledged' /\ NoReferenceTwice'
  BY <1>1, <1>2, <1>3, <1>4 DEF Unacknowledged, NoReferenceTwice, log
<1>12. AnnouncedIsWhole'
  <2>1. \A s \in References : s \in DOMAIN object /\ Whole(s)
    BY <1>2 DEF AnnouncedIsWhole, Whole
  <2> QED
    BY <1>3, <1>5, <2>1 DEF AnnouncedIsWhole, Whole
<1>13. NoOrphanObject'
  <2>1. \A s \in DOMAIN object' : s \in Known \/ Durable(s)
    BY <1>2 DEF NoOrphanObject, Durable, Kept
  <2> QED
    BY <1>3, <1>4, <2>1 DEF NoOrphanObject, Durable
<1> QED
  BY <1>6, <1>7, <1>8, <1>9, <1>10, <1>11, <1>12, <1>13 DEF IInv

\* The same, where the run is gone.  What it appended and did not sync may be gone too.
LEMMA StopInv ==
  ASSUME IInv, Stop, UNCHANGED <<issued, sum, rewrites>>,
         stray' \subseteq Segment \X Part \X Version,
         Kept(handlers', uploads', object'),
         \A h \in handlers' : ~h.asked,
         \A h \in handlers' : h.seg \in DOMAIN uploads' => h.at = "finish",
         \A h \in handlers' : h.seg \in DOMAIN object' /\ h.at = "delete" => ~Whole(h.seg)'
  PROVE  IInv'
<1>1. /\ pc' = "down" /\ todo' = {} /\ clips' = {} /\ job' = NoJob
      /\ clip' = clip /\ intent' = intent /\ safe' = safe /\ committed' = committed
      /\ issued' = issued /\ sum' = sum /\ rewrites' = rewrites
  BY DEF Stop
<1>2. /\ TypeOK /\ Shape /\ Numbered /\ AtWork /\ Served /\ Stored /\ Unacknowledged
      /\ AnnouncedIsWhole /\ NoOrphanObject /\ NoReferenceTwice
  BY DEF IInv
<1>3. PICK n \in opened..NextSeq :
        /\ \A i \in Seqs \cap safe : i < n
        /\ wal' = Restrict(wal, Seqs \cap 1..(n - 1)) /\ opened' = n
  BY DEF Stop
<1>4. n \in Nat /\ opened <= n /\ committed < n /\ n <= NextSeq /\ n >= 1
  BY <1>3, Numbers
<1>5. /\ Seqs' = 1..(n - 1) /\ Seqs' \subseteq Seqs /\ \A i \in Seqs' : wal'[i] = wal[i]
      /\ NextSeq' = n
  <2>1. Seqs' = Seqs \cap 1..(n - 1) /\ \A i \in Seqs' : wal'[i] = wal[i]
    BY <1>3 DEF Restrict, Seqs
  <2>2. Seqs' = 1..(n - 1)
    BY <1>4, <2>1, Numbers
  <2>3. NextSeq' = n
    BY <1>1, <1>4, <2>2, Numbers, LogEnds DEF NextSeq
  <2> QED
    BY <2>1, <2>2, <2>3
<1>6. References' \subseteq References
  BY <1>5 DEF References
<1>7. \A s : Durable(s) => Durable(s)'
  <2> SUFFICES ASSUME NEW s, NEW i \in Seqs, wal[i].seg = s, i < opened \/ i \in safe
               PROVE Durable(s)'
    BY DEF Durable
  <2>1. i \in Seqs' /\ (i < n \/ i \in safe)
    BY <1>3, <1>4, <1>5, Numbers
  <2> QED
    BY <1>1, <1>3, <1>5, <2>1 DEF Durable
<1>8. Known' = Known
  BY <1>1 DEF Known
<1>9. \A s \in DOMAIN object : Whole(s) => s \in DOMAIN object' /\ Whole(s)'
  BY <1>1 DEF Kept, Whole
<1>10. TypeOK'
  <2>2. /\ DOMAIN uploads' \cap DOMAIN object' = {}
        /\ \A s \in DOMAIN uploads' : uploads'[s] \in [Part -> {NoPart} \cup Version]
        /\ \A s \in DOMAIN object' : object'[s] \in [Part -> Version]
    BY DEF Kept
  <2>3. \A i \in Seqs' : wal'[i] \in [seg : Segment, meta : Version]
    BY <1>2, <1>5 DEF TypeOK
  <2>4. safe' \subseteq Seqs'
    BY <1>1, <1>2, <1>3, <1>4, <1>5, Numbers DEF TypeOK
  <2>5. /\ Seqs' = 1..(NextSeq' - 1) /\ opened' \in 1..NextSeq' /\ committed' < NextSeq'
    BY <1>1, <1>3, <1>4, <1>5
  <2> QED
    BY <1>1, <1>2, <1>8, <2>2, <2>3, <2>4, <2>5 DEF TypeOK
<1>11. Shape' /\ Numbered'
  <2>1. Shape'
    BY <1>1, <1>2, <1>3, <1>4, <1>5, <1>8 DEF Shape, Kept
  <2>2. \A h \in handlers' : h.seg <= issued
    BY <1>2 DEF Kept, Numbered
  <2>3. DOMAIN uploads' \cup DOMAIN object' \subseteq 1..issued
    BY <1>2 DEF Kept, Numbered
  <2>4. issued + Cardinality(clips') <= MaxSegs
    BY <1>1, FS_EmptySet, Numbers
  <2> QED
    BY <1>1, <1>2, <1>6, <1>8, <2>1, <2>2, <2>3, <2>4 DEF Numbered
<1>12. AtWork' /\ Stored'
  <2>1. \A s \in Known : intent[s].verified => s \in DOMAIN object' /\ Whole(s)'
    BY <1>2, <1>9 DEF Stored
  <2> QED
    BY <1>1, <1>8, <2>1 DEF AtWork, Stored
<1>13. Served'
  <2>1. \A h \in handlers' : h.seg \in DOMAIN uploads' => h.seg \in Known
    BY <1>2 DEF Served, Kept
  <2>2. \A h \in handlers' : h.seg \in DOMAIN object' /\ h.at = "delete" => ~Whole(h.seg)'
    OBVIOUS
  <2> QED
    BY <1>8, <2>1, <2>2 DEF Served, Kept
<1>14. Unacknowledged' /\ NoReferenceTwice'
  BY <1>1, <1>2, <1>5, <1>8 DEF Unacknowledged, NoReferenceTwice
<1>15. AnnouncedIsWhole'
  <2>1. \A s \in References : s \in DOMAIN object /\ Whole(s)
    BY <1>2 DEF AnnouncedIsWhole, Whole
  <2> QED
    BY <1>6, <1>9, <2>1 DEF AnnouncedIsWhole, Whole
<1>16. NoOrphanObject'
  <2>1. \A s \in DOMAIN object' : s \in Known \/ Durable(s)
    BY <1>2 DEF NoOrphanObject, Durable, Kept
  <2> QED
    BY <1>7, <1>8, <2>1 DEF NoOrphanObject, Durable
<1> QED
  BY <1>10, <1>11, <1>12, <1>13, <1>14, <1>15, <1>16 DEF IInv

------------------------------------------------------------------------------
(* The steps of the gateway, and the ends of a run.                        *)

\* A call that goes on is the same call.
LEMMA MovedIs ==
  ASSUME IInv, NEW h \in handlers, NEW at \in {"verify", "delete"}, Moved(h, at)
  PROVE  /\ handlers' \subseteq Call
         /\ \A g \in handlers' : \/ g \in handlers /\ g # h
                                 \/ g.seg = h.seg /\ g.asked = h.asked /\ g.at = at
         /\ \A g \in handlers' : \E k \in handlers : k.seg = g.seg /\ (g.asked => k.asked)
         /\ \A f, g \in handlers' : f.asked /\ g.asked => f = g
<1> DEFINE moved == [h EXCEPT !.at = at]
<1>1. handlers' = (handlers \ {h}) \cup {moved}
  BY DEF Moved
<1>2. h \in Call /\ handlers \subseteq Call
  BY DEF IInv, Shape
<1>3. moved \in Call /\ moved.seg = h.seg /\ moved.asked = h.asked /\ moved.at = at
  BY <1>2 DEF Call
<1> HIDE DEF moved
<1>4. \A f, g \in handlers : f.asked /\ g.asked => f = g
  BY DEF IInv, Served
<1>5. ASSUME NEW f \in handlers', NEW g \in handlers', f.asked, g.asked PROVE f = g
  BY <1>1, <1>3, <1>4, <1>5
<1> QED
  BY <1>1, <1>2, <1>3, <1>5

\* Nothing but calls went.
LEMMA CallsEnd ==
  ASSUME IInv, handlers' \subseteq handlers, uploads' = uploads, object' = object, sum' = sum
  PROVE  /\ Kept(handlers', uploads', object')
         /\ \A h \in handlers' : h.seg \in DOMAIN uploads' => h.at = "finish"
         /\ \A h \in handlers' : h.seg \in DOMAIN object' /\ h.at = "delete" => ~Whole(h.seg)'
<1>1. Kept(handlers', uploads', object')
  BY DEF IInv, Shape, Served, TypeOK, Kept
<1>2. \A s : Whole(s)' <=> Whole(s)
  BY DEF Whole
<1> QED
  BY <1>1, <1>2 DEF IInv, Served

\* A call is answered with an error, which ends the run that waits for it; before
\* that the gateway deleted an object that is not whole, or nothing.
LEMMA RefuseInv ==
  ASSUME IInv, NEW h \in handlers, Refuse(h),
         UNCHANGED <<issued, uploads, sum, stray, rewrites>>,
         \/ object' = object
         \/ h.at = "delete" /\ object' = Without(object, h.seg)
  PROVE  IInv'
<1>1. handlers' = handlers \ {h}
  BY DEF Refuse, Gone
<1>2. stray' \subseteq Segment \X Part \X Version
  BY DEF IInv, Shape
<1>3. Served /\ TypeOK /\ Shape
  BY DEF IInv
<1>4. /\ DOMAIN object' \subseteq DOMAIN object
      /\ \A s \in DOMAIN object' : object'[s] = object[s]
      /\ \A s \in DOMAIN object : Whole(s) => s \in DOMAIN object'
  <2>1. CASE object' = object
    BY <2>1
  <2>2. CASE h.at = "delete" /\ object' = Without(object, h.seg)
    <3>1. h.seg \in DOMAIN object => ~Whole(h.seg)
      BY <1>3, <2>2 DEF Served
    <3>2. /\ DOMAIN object' = DOMAIN object \ {h.seg}
          /\ \A s \in DOMAIN object \ {h.seg} : object'[s] = object[s]
      BY <2>2, WithoutIs, Zenon
    <3> QED
      BY <3>1, <3>2
  <2> QED
    BY <2>1, <2>2
<1>5. Kept(handlers', uploads', object')
  <2>1. /\ handlers' \subseteq Call
        /\ \A g \in handlers' : \E k \in handlers : k.seg = g.seg /\ (g.asked => k.asked)
        /\ \A f, g \in handlers' : f.asked /\ g.asked => f = g
    BY <1>1, <1>3 DEF Shape, Served
  <2>2. /\ DOMAIN uploads' \cap DOMAIN object' = {}
        /\ \A s \in DOMAIN uploads' : uploads'[s] \in [Part -> {NoPart} \cup Version]
        /\ \A s \in DOMAIN object' : object'[s] \in [Part -> Version]
    BY <1>3, <1>4 DEF TypeOK
  <2> QED
    BY <1>4, <2>1, <2>2 DEF Kept
<1>6. \A g \in handlers' : g.seg \in DOMAIN uploads' => g.at = "finish"
  BY <1>1, <1>3 DEF Served
<1>7. \A g \in handlers' : g.seg \in DOMAIN object' /\ g.at = "delete" => ~Whole(g.seg)'
  <2>1. \A s \in DOMAIN object' : Whole(s)' => Whole(s)
    BY <1>4 DEF Whole
  <2> QED
    BY <1>1, <1>3, <1>4, <2>1 DEF Served
<1>8. CASE h.asked
  <2>1. \A g \in handlers' : ~g.asked
    BY <1>1, <1>3, <1>8 DEF Served
  <2>2. Stop
    BY <1>8 DEF Refuse
  <2> QED
    BY <1>2, <1>5, <1>6, <1>7, <2>1, <2>2, StopInv
<1>9. CASE ~h.asked
  <2>1. UNCHANGED <<disk, run>>
    BY <1>9 DEF Refuse
  <2> QED
    BY <1>2, <1>5, <1>6, <1>7, <2>1, StoreInv
<1> QED
  BY <1>8, <1>9

LEMMA FinishUploadInv ==
  ASSUME IInv, NEW h \in handlers, FinishUpload(h)
  PROVE  IInv'
<1>1. h.at = "finish" /\ UNCHANGED <<issued, sum, stray>> /\ rewrites' = rewrites
  BY DEF FinishUpload, budget
<1>2. Served /\ TypeOK /\ Shape /\ Numbered
  BY DEF IInv
<1>3. stray' \subseteq Segment \X Part \X Version
  BY <1>1, <1>2 DEF Shape
<1>4. CASE h.seg \notin DOMAIN uploads
  <2>1. Moved(h, "verify") /\ UNCHANGED <<disk, run, uploads, object>>
    BY <1>4 DEF FinishUpload
  <2>2. /\ handlers' \subseteq Call
        /\ \A g \in handlers' : \/ g \in handlers /\ g # h
                                \/ g.seg = h.seg /\ g.asked = h.asked /\ g.at = "verify"
        /\ \A g \in handlers' : \E k \in handlers : k.seg = g.seg /\ (g.asked => k.asked)
        /\ \A f, g \in handlers' : f.asked /\ g.asked => f = g
    BY <2>1, MovedIs
  <2>3. Kept(handlers', uploads', object')
    BY <1>2, <2>1, <2>2 DEF Kept, TypeOK
  <2>4. \A g \in handlers' : g.seg \in DOMAIN uploads' => g.at = "finish"
    BY <1>2, <1>4, <2>1, <2>2 DEF Served
  <2>5. \A s : Whole(s)' <=> Whole(s)
    BY <1>1, <2>1 DEF Whole
  <2>6. \A g \in handlers' : g.seg \in DOMAIN object' /\ g.at = "delete" => ~Whole(g.seg)'
    BY <1>2, <2>1, <2>2, <2>5 DEF Served
  <2> QED
    BY <1>1, <1>3, <2>1, <2>3, <2>4, <2>6, StoreInv
<1>5. CASE h.seg \in DOMAIN uploads /\ Matches(h)
  <2>1. /\ object' = With(object, h.seg, uploads[h.seg])
        /\ uploads' = Without(uploads, h.seg)
        /\ Moved(h, "verify") /\ UNCHANGED <<disk, run>>
    BY <1>5 DEF FinishUpload
  <2>2. /\ handlers' \subseteq Call
        /\ \A g \in handlers' : \/ g \in handlers /\ g # h
                                \/ g.seg = h.seg /\ g.asked = h.asked /\ g.at = "verify"
        /\ \A g \in handlers' : \E k \in handlers : k.seg = g.seg /\ (g.asked => k.asked)
        /\ \A f, g \in handlers' : f.asked /\ g.asked => f = g
    BY <2>1, MovedIs
  <2>3. h.seg \in Known /\ h.seg \notin DOMAIN object
    BY <1>2, <1>5 DEF Served, TypeOK
  <2>4. /\ DOMAIN object' = DOMAIN object \cup {h.seg} /\ object'[h.seg] = uploads[h.seg]
        /\ \A s \in DOMAIN object : object'[s] = object[s]
        /\ DOMAIN uploads' = DOMAIN uploads \ {h.seg}
        /\ \A s \in DOMAIN uploads' : uploads'[s] = uploads[s]
    <3>1. /\ DOMAIN object' = DOMAIN object \cup {h.seg} /\ object'[h.seg] = uploads[h.seg]
          /\ \A s \in DOMAIN object : s # h.seg => object'[s] = object[s]
      <4> DEFINE o == With(object, h.seg, uploads[h.seg])
      <4>1. /\ DOMAIN o = DOMAIN object \cup {h.seg} /\ o[h.seg] = uploads[h.seg]
            /\ \A s \in DOMAIN object : s # h.seg => o[s] = object[s]
        BY DEF With
      <4>2. object' = o
        BY <2>1
      <4> HIDE DEF o
      <4> QED
        BY <4>1, <4>2
    <3>2. /\ DOMAIN uploads' = DOMAIN uploads \ {h.seg}
          /\ \A s \in DOMAIN uploads \ {h.seg} : uploads'[s] = uploads[s]
      BY <2>1, WithoutIs, Zenon
    <3> QED
      BY <2>3, <3>1, <3>2
  <2>5. uploads[h.seg] \in [Part -> Version]
    <3>1. h.etags \subseteq Part \X Version
      BY <1>2 DEF Shape, Call
    <3>2. \A n \in Part : <<n, uploads[h.seg][n]>> \in h.etags
      BY <1>5 DEF Matches
    <3>3. \A n \in Part : uploads[h.seg][n] \in Version
      BY <3>1, <3>2
    <3>4. uploads[h.seg] \in [Part -> {NoPart} \cup Version]
      BY <1>2, <1>5 DEF TypeOK
    <3> QED
      BY <3>3, <3>4
  <2>6. Kept(handlers', uploads', object')
    <3>1. /\ DOMAIN uploads' \subseteq DOMAIN uploads
          /\ DOMAIN object' \subseteq DOMAIN object \cup (DOMAIN uploads \cap Known)
          /\ DOMAIN uploads' \cap DOMAIN object' = {}
      BY <1>2, <1>5, <2>3, <2>4 DEF TypeOK
    <3>2. \A s \in DOMAIN uploads' : uploads'[s] \in [Part -> {NoPart} \cup Version]
      BY <1>2, <2>4 DEF TypeOK
    <3>3. \A s \in DOMAIN object' : object'[s] \in [Part -> Version]
      BY <1>2, <2>4, <2>5 DEF TypeOK
    <3> QED
      BY <2>2, <2>4, <3>1, <3>2, <3>3 DEF Kept
  <2>7. \A g \in handlers' : g.seg \in DOMAIN uploads' => g.at = "finish"
    BY <1>2, <2>2, <2>4 DEF Served
  <2>8. \A g \in handlers' : g.seg \in DOMAIN object' /\ g.at = "delete" => ~Whole(g.seg)'
    <3> SUFFICES ASSUME NEW g \in handlers', g.seg \in DOMAIN object', g.at = "delete"
                 PROVE ~Whole(g.seg)'
      OBVIOUS
    <3>1. g \in handlers
      BY <2>2
    <3>2. g.seg # h.seg
      BY <1>2, <1>5, <3>1 DEF Served
    <3>3. g.seg \in DOMAIN object /\ ~Whole(g.seg)
      BY <1>2, <2>4, <3>1, <3>2 DEF Served
    <3> QED
      BY <1>1, <2>4, <3>3 DEF Whole
  <2> QED
    BY <1>1, <1>3, <2>1, <2>6, <2>7, <2>8, StoreInv
<1>6. CASE h.seg \in DOMAIN uploads /\ ~Matches(h)
  <2>1. UNCHANGED <<uploads, object>> /\ Refuse(h)
    BY <1>6 DEF FinishUpload
  <2> QED
    BY <1>1, <2>1, RefuseInv
<1> QED
  BY <1>4, <1>5, <1>6

LEMMA DeleteBrokenInv ==
  ASSUME IInv, NEW h \in handlers, DeleteBroken(h)
  PROVE  IInv'
BY RefuseInv DEF DeleteBroken, budget

LEMMA HandlerFailsInv ==
  ASSUME IInv, NEW h \in handlers, HandlerFails(h)
  PROVE  IInv'
BY RefuseInv DEF HandlerFails, Fault

\* While no call is waited for, none is asked.
LEMMA NoneAsked ==
  ASSUME IInv, pc # "asked"
  PROVE  \A h \in handlers : ~h.asked
BY DEF IInv, TypeOK

LEMMA DieInv ==
  ASSUME IInv, Die
  PROVE  IInv'
<1>1. /\ Stop /\ handlers' = Orphaned(handlers)
      /\ UNCHANGED <<issued, uploads, object, sum, stray, rewrites>>
  BY DEF Die, Fault
<1>2. Served /\ TypeOK /\ Shape
  BY DEF IInv
<1>3. \A h \in handlers' : h \in Call /\ ~h.asked /\ \E g \in handlers : g.seg = h.seg /\ g.at = h.at
  <2> SUFFICES ASSUME NEW g \in handlers, NEW h, h = [g EXCEPT !.asked = FALSE]
               PROVE  h \in Call /\ ~h.asked /\ g.seg = h.seg /\ g.at = h.at
    BY <1>1 DEF Orphaned
  <2>1. g \in Call
    BY <1>2 DEF Shape
  <2> QED
    BY <2>1 DEF Call
<1>4. \A s : Whole(s)' <=> Whole(s)
  BY <1>1 DEF Whole
<1>5. Kept(handlers', uploads', object')
  BY <1>1, <1>2, <1>3 DEF Kept, TypeOK
<1>6. /\ \A h \in handlers' : h.seg \in DOMAIN uploads' => h.at = "finish"
      /\ \A h \in handlers' : h.seg \in DOMAIN object' /\ h.at = "delete" => ~Whole(h.seg)'
  BY <1>1, <1>2, <1>3, <1>4 DEF Served
<1>7. stray' \subseteq Segment \X Part \X Version
  BY <1>1, <1>2 DEF Shape
<1> QED
  BY <1>1, <1>3, <1>5, <1>6, <1>7, StopInv

\* The lowest part that is missing.
LEMMA NextPart ==
  ASSUME IInv, Missing(job) # {}
  PROVE  Min(Missing(job)) \in Missing(job) /\ Min(Missing(job)) \in Part
<1>1. 1 \in Int /\ PartCount \in Int
  BY Numbers
<1>2. Missing(job) \subseteq 1..PartCount
  BY DEF Missing, Part
<1>3. Min(Missing(job)) \in Missing(job)
  BY <1>1, <1>2, MinIsLeast, Zenon
<1> QED
  BY <1>3 DEF Missing

LEMMA PutLostInv ==
  ASSUME IInv, PutLost
  PROVE  IInv'
<1>1. /\ pc = "put" /\ Missing(job) # {} /\ Stop
      /\ stray' = stray \cup {<<job.seg, Min(Missing(job)), clip[job.clip]>>}
      /\ UNCHANGED <<issued, uploads, object, sum, handlers, rewrites>>
  BY DEF PutLost, Fault
<1>2. job.seg \in Segment /\ job.clip \in Clip /\ clip[job.clip] \in Version
  BY <1>1, Working DEF UploadState, IInv, TypeOK
<1>3. stray' \subseteq Segment \X Part \X Version
  BY <1>1, <1>2, NextPart DEF IInv, Shape
<1>4. \A h \in handlers' : ~h.asked
  BY <1>1, NoneAsked
<1> QED
  BY <1>1, <1>3, <1>4, CallsEnd, StopInv

LEMMA PutRefusedInv ==
  ASSUME IInv, PutRefused
  PROVE  IInv'
<1>1. pc = "put" /\ Stop /\ UNCHANGED <<issued, uploads, object, sum, handlers, stray, rewrites>>
  BY DEF PutRefused, store, budget
<1>2. \A h \in handlers' : ~h.asked
  BY <1>1, NoneAsked
<1>3. stray' \subseteq Segment \X Part \X Version
  BY <1>1 DEF IInv, Shape
<1> QED
  BY <1>1, <1>2, <1>3, CallsEnd, StopInv

LEMMA StrayLandsInv ==
  ASSUME IInv, NEW p \in stray, StrayLands(p)
  PROVE  IInv'
<1>1. /\ stray' = stray \ {p}
      /\ uploads' = IF p[1] \in DOMAIN uploads
                    THEN [uploads EXCEPT ![p[1]][p[2]] = p[3]] ELSE uploads
      /\ UNCHANGED <<disk, run, issued, object, sum, handlers, rewrites>>
  BY DEF StrayLands, budget
<1>2. Served /\ TypeOK /\ Shape
  BY DEF IInv
<1>3. stray' \subseteq Segment \X Part \X Version /\ p[2] \in Part /\ p[3] \in Version
  BY <1>1, <1>2 DEF Shape
<1>4. /\ DOMAIN uploads' = DOMAIN uploads
      /\ \A s \in DOMAIN uploads' : uploads'[s] \in [Part -> {NoPart} \cup Version]
  BY <1>1, <1>2, <1>3 DEF TypeOK
<1>5. Kept(handlers', uploads', object')
  BY <1>1, <1>2, <1>4 DEF Kept, TypeOK, Shape, Served
<1>6. \A s : Whole(s)' <=> Whole(s)
  BY <1>1 DEF Whole
<1>7. /\ \A h \in handlers' : h.seg \in DOMAIN uploads' => h.at = "finish"
      /\ \A h \in handlers' : h.seg \in DOMAIN object' /\ h.at = "delete" => ~Whole(h.seg)'
  BY <1>1, <1>2, <1>4, <1>6 DEF Served
<1> QED
  BY <1>1, <1>3, <1>5, <1>7, StoreInv

------------------------------------------------------------------------------
(* The steps of the vehicle.                                               *)

\* A log that is left alone keeps its shape.
LEMMA QuietLog ==
  ASSUME IInv, UNCHANGED log
  PROVE  /\ \A i \in Seqs' : wal'[i] \in [seg : Segment, meta : Version]
         /\ Seqs' = 1..(NextSeq' - 1) /\ safe' \subseteq Seqs'
         /\ opened' \in 1..NextSeq' /\ committed' < NextSeq'
         /\ committed' \in Nat /\ committed' < opened' /\ opened' \in Nat /\ NextSeq' \in Nat
         /\ NoReferenceTwice'
<1>1. Seqs' = Seqs /\ NextSeq' = NextSeq
  BY SameLog
<1> QED
  BY <1>1 DEF log, IInv, TypeOK, Shape, NoReferenceTwice

\* A store that is left alone keeps its objects.
LEMMA QuietStore ==
  ASSUME IInv, object' = object, sum' = sum, References' = References
  PROVE  (\A s : Whole(s)' <=> Whole(s)) /\ AnnouncedIsWhole'
BY DEF IInv, Whole, AnnouncedIsWhole

LEMMA StartInv ==
  ASSUME IInv, NEW resumeOnly \in BOOLEAN, Start(resumeOnly)
  PROVE  IInv'
<1>1. /\ pc = "down"
      /\ todo' = Known /\ pc' = "next"
      /\ clips' = {} \/ (clips' = Clip /\ issued + Cardinality(Clip) <= MaxSegs)
      /\ UNCHANGED log
      /\ UNCHANGED <<clip, intent, job, issued, uploads, object, sum, handlers, stray, rewrites>>
  <2>1. Start(TRUE) \/ Start(FALSE)
    BY Zenon
  <2>2. CASE Start(TRUE)
    BY <2>2 DEF Start, disk, store, budget
  <2>3. CASE Start(FALSE)
    BY <2>3 DEF Start, disk, store, budget
  <2> QED
    BY <2>1, <2>2, <2>3
<1>2. /\ TypeOK /\ Shape /\ Numbered /\ AtWork /\ Served /\ Stored /\ Unacknowledged
      /\ AnnouncedIsWhole /\ NoOrphanObject /\ NoReferenceTwice
  BY DEF IInv
<1>3. /\ Seqs' = Seqs /\ NextSeq' = NextSeq /\ References' = References
      /\ \A s : Durable(s)' <=> Durable(s)
  BY <1>1, SameLog
<1>4. Known' = Known
  BY <1>1 DEF Known
<1>5. (\A s : Whole(s)' <=> Whole(s)) /\ AnnouncedIsWhole'
  BY <1>1, <1>3, QuietStore
<1>6. TypeOK' /\ Shape'
  BY <1>1, <1>2, <1>4, QuietLog DEF TypeOK, Shape
<1>7. Numbered'
  <2>1. issued + Cardinality(clips') <= MaxSegs
    BY <1>1, FS_EmptySet, Numbers
  <2> QED
    BY <1>1, <1>2, <1>3, <1>4, <2>1 DEF Numbered
<1>8. AtWork' /\ Served' /\ Stored'
  BY <1>1, <1>2, <1>3, <1>4, <1>5 DEF AtWork, Served, Stored
<1>9. Unacknowledged' /\ NoOrphanObject'
  BY <1>1, <1>2, <1>3, <1>4 DEF Unacknowledged, NoOrphanObject, log
<1> QED
  BY <1>1, <1>5, <1>6, <1>7, <1>8, <1>9, QuietLog DEF IInv

\* The first upload that is left to do.
LEMMA NextTodo ==
  ASSUME IInv, todo # {}
  PROVE  /\ Min(todo) \in todo /\ Min(todo) \in Known
         /\ intent[Min(todo)] \in UploadState /\ intent[Min(todo)] # NoJob
         /\ intent[Min(todo)].seg = Min(todo)
         /\ Saved(intent[Min(todo)]) = intent[Min(todo)]
<1>1. 1 \in Int /\ MaxSegs \in Int
  BY Numbers
<1>2. todo \subseteq 1..MaxSegs
  BY Working DEF Segment
<1>3. Min(todo) \in todo
  BY <1>1, <1>2, MinIsLeast, Zenon
<1>4. /\ Min(todo) \in Known /\ intent[Min(todo)] \in UploadState /\ intent[Min(todo)] # NoJob
      /\ intent[Min(todo)].seg = Min(todo) /\ intent[Min(todo)].meta = NoPart
  BY <1>3, Working
<1>5. \A j \in UploadState : j.meta = NoPart => Saved(j) = j
  BY DEF UploadState, Saved
<1> QED
  BY <1>3, <1>4, <1>5

LEMMA ResumeInv ==
  ASSUME IInv, Resume
  PROVE  IInv'
<1> DEFINE st == intent[Min(todo)]
<1>1. /\ pc = "next" /\ todo # {} /\ job' = st /\ todo' = todo \ {st.seg}
      /\ pc' = IF st.verified THEN "append" ELSE "put"
      /\ UNCHANGED log
      /\ UNCHANGED <<clip, intent, clips, issued, uploads, object, sum, handlers, stray, rewrites>>
  BY DEF Resume, disk, store, budget
<1>2. /\ TypeOK /\ Shape /\ Numbered /\ AtWork /\ Served /\ Stored /\ Unacknowledged
      /\ AnnouncedIsWhole /\ NoOrphanObject /\ NoReferenceTwice
  BY DEF IInv
<1>3. /\ Seqs' = Seqs /\ NextSeq' = NextSeq /\ References' = References
      /\ \A s : Durable(s)' <=> Durable(s)
  BY <1>1, SameLog
<1>4. Known' = Known
  BY <1>1 DEF Known
<1>5. (\A s : Whole(s)' <=> Whole(s)) /\ AnnouncedIsWhole'
  BY <1>1, <1>3, QuietStore
<1>6. /\ st \in UploadState /\ st # NoJob /\ st.seg \in todo /\ st.seg \in Known
      /\ intent[st.seg] = st /\ Saved(st) = st
  BY <1>1, NextTodo
<1>7. \A h \in handlers : ~h.asked
  BY <1>1, NoneAsked
<1> HIDE DEF st
<1>8. TypeOK' /\ Shape'
  BY <1>1, <1>2, <1>4, <1>6, <1>7, QuietLog DEF TypeOK, Shape
<1>9. Numbered'
  BY <1>1, <1>2, <1>3, <1>4 DEF Numbered
<1>10. AtWork'
  <2>1. Known \subseteq todo' \cup {st.seg}
    BY <1>1, <1>2, <1>6, Working DEF AtWork
  <2>2. pc' # "save" /\ pc' \notin {"down", "next"}
    BY <1>1
  <2> QED
    BY <1>1, <1>4, <1>6, <2>1, <2>2 DEF AtWork
<1>11. Served'
  BY <1>1, <1>2, <1>4, <1>5 DEF Served
<1>12. Stored'
  BY <1>1, <1>2, <1>4, <1>5 DEF Stored
<1>13. Unacknowledged' /\ NoOrphanObject'
  BY <1>1, <1>2, <1>3, <1>4 DEF Unacknowledged, NoOrphanObject, log
<1> QED
  BY <1>1, <1>5, <1>8, <1>9, <1>10, <1>11, <1>12, <1>13, QuietLog DEF IInv

LEMMA BeginInv ==
  ASSUME IInv, NEW c \in Clip, Begin(c)
  PROVE  IInv'
<1> DEFINE n == issued + 1
           fresh == [NoJob EXCEPT !.seg = n, !.clip = c, !.meta = clip[c]]
<1>1. /\ pc = "next" /\ todo = {} /\ c \in clips /\ issued' = n
      /\ uploads' = With(uploads, n, [m \in Part |-> NoPart])
      /\ sum' = With(sum, n, clip[c])
      /\ clips' = clips \ {c} /\ job' = fresh /\ pc' = "save"
      /\ UNCHANGED log
      /\ UNCHANGED <<clip, intent, todo, object, handlers, stray, rewrites>>
  BY DEF Begin, disk, budget
<1>2. /\ TypeOK /\ Shape /\ Numbered /\ AtWork /\ Served /\ Stored /\ Unacknowledged
      /\ AnnouncedIsWhole /\ NoOrphanObject /\ NoReferenceTwice
  BY DEF IInv
<1>3. /\ Seqs' = Seqs /\ NextSeq' = NextSeq /\ References' = References
      /\ \A s : Durable(s)' <=> Durable(s)
  BY <1>1, SameLog
<1>4. Known' = Known
  BY <1>1 DEF Known
<1>5. /\ n \in Nat /\ n \in Segment /\ n \in 1..n /\ 1..issued \subseteq 1..n
      /\ issued + 1 + Cardinality(clips') <= MaxSegs
      /\ \A s \in 1..issued : s # n
  <2>1. IsFiniteSet(clips)
    BY <1>2, UploadAssumption, FS_Subset DEF TypeOK, UploadAssumption
  <2>2. Cardinality(clips') = Cardinality(clips) - 1 /\ Cardinality(clips') \in Nat
        /\ Cardinality(clips) \in Nat
    BY <1>1, <2>1, FS_RemoveElement, FS_CardinalityType
  <2>3. issued \in Nat /\ MaxSegs \in Nat /\ issued + Cardinality(clips) <= MaxSegs
    BY <1>2, Numbers DEF Numbered
  <2>4. issued + 1 + Cardinality(clips') <= MaxSegs /\ n \in Nat /\ n \in 1..MaxSegs
    BY <2>2, <2>3
  <2>5. n \in 1..n /\ 1..issued \subseteq 1..n /\ \A s \in 1..issued : s # n
    BY <2>3
  <2> QED
    BY <2>4, <2>5 DEF Segment
<1>6. clip[c] \in Version /\ c \in Clip
  BY <1>2 DEF TypeOK
<1>7. /\ fresh \in UploadState /\ fresh # NoJob /\ fresh.seg = n /\ ~fresh.verified
  <2>1. n \in Segment /\ n # 0
    BY <1>5
  <2> HIDE DEF n
  <2>2. fresh \in UploadState
    BY <1>6, <2>1 DEF NoJob, UploadState
  <2>3. fresh.seg = n /\ ~fresh.verified /\ NoJob.seg = 0
    BY DEF NoJob
  <2> QED
    BY <2>1, <2>2, <2>3
<1>8. \A h \in handlers : ~h.asked
  BY <1>1, NoneAsked
<1>9. /\ n \notin Known /\ n \notin References /\ n \notin DOMAIN object /\ n \notin DOMAIN uploads
      /\ \A h \in handlers : h.seg # n
  <2>1. \A h \in handlers : h.seg \in Nat
    BY <1>2 DEF Shape, Call, Segment
  <2> QED
    BY <1>2, <1>5, <2>1, Numbers DEF Numbered
<1>10. /\ DOMAIN uploads' = DOMAIN uploads \cup {n}
       /\ \A s \in DOMAIN uploads' : uploads'[s] \in [Part -> {NoPart} \cup Version]
       /\ DOMAIN sum' = 1..n /\ \A s \in 1..issued : sum'[s] = sum[s]
  <2>1. \A s \in DOMAIN uploads : uploads[s] \in [Part -> {NoPart} \cup Version]
    BY <1>2 DEF TypeOK
  <2>2. [m \in Part |-> NoPart] \in [Part -> {NoPart} \cup Version]
    OBVIOUS
  <2>3. /\ DOMAIN uploads' = DOMAIN uploads \cup {n} /\ uploads'[n] = [m \in Part |-> NoPart]
        /\ \A s \in DOMAIN uploads : s # n => uploads'[s] = uploads[s]
    BY <1>1 DEF With
  <2>4. DOMAIN sum = 1..issued
    BY <1>2 DEF TypeOK
  <2>5. DOMAIN sum' = DOMAIN sum \cup {n} /\ \A s \in DOMAIN sum : s # n => sum'[s] = sum[s]
    BY <1>1 DEF With
  <2>6. (1..issued) \cup {n} = 1..n
    BY Numbers
  <2> QED
    BY <1>5, <2>1, <2>2, <2>3, <2>4, <2>5, <2>6
<1>11. \A s \in DOMAIN object : Whole(s)' <=> Whole(s)
  BY <1>1, <1>2, <1>10 DEF Whole, Numbered
<1> HIDE DEF n, fresh
<1>12. TypeOK'
  <2>1. DOMAIN uploads' \cap DOMAIN object' = {}
    BY <1>1, <1>2, <1>9, <1>10 DEF TypeOK
  <2>2. \A h \in handlers' : ~h.asked
    BY <1>1, <1>8
  <2>3. issued' \in 0..MaxSegs
    BY <1>1, <1>5 DEF Segment
  <2>4. clips' \subseteq Clip
    BY <1>1, <1>2 DEF TypeOK
  <2> QED
    BY <1>1, <1>2, <1>4, <1>7, <1>10, <2>1, <2>2, <2>3, <2>4, QuietLog DEF TypeOK
<1>13. Shape'
  BY <1>1, <1>2, <1>4, QuietLog DEF Shape
<1>14. Numbered'
  <2>1. \A h \in handlers : h.seg <= n
    BY <1>2, <1>5, Numbers DEF Numbered, n, Shape, Call, Segment
  <2>2. Known \cup DOMAIN uploads' \cup DOMAIN object \cup References \subseteq 1..n
    BY <1>2, <1>5, <1>10 DEF Numbered
  <2>3. n + Cardinality(clips') <= MaxSegs
    BY <1>5 DEF n
  <2> QED
    BY <1>1, <1>3, <1>4, <2>1, <2>2, <2>3 DEF Numbered
<1>15. AtWork'
  <2>1. Known = {}
    BY <1>1, <1>2, Working DEF AtWork
  <2> QED
    BY <1>1, <1>3, <1>4, <1>5, <1>7, <1>9, <2>1 DEF AtWork
<1>16. Served'
  BY <1>1, <1>2, <1>4, <1>9, <1>10, <1>11 DEF Served
<1>17. Stored'
  BY <1>1, <1>2, <1>4, <1>11 DEF Stored
<1>18. Unacknowledged' /\ NoOrphanObject'
  BY <1>1, <1>2, <1>3, <1>4 DEF Unacknowledged, NoOrphanObject, log
<1>19. AnnouncedIsWhole'
  <2>1. \A s \in References : s \in DOMAIN object /\ Whole(s)
    BY <1>2 DEF AnnouncedIsWhole, Whole
  <2> QED
    BY <1>1, <1>3, <1>11, <2>1 DEF AnnouncedIsWhole, Whole
<1> QED
  BY <1>1, <1>12, <1>13, <1>14, <1>15, <1>16, <1>17, <1>18, <1>19, QuietLog DEF IInv

\* What the state file holds of the job.
LEMMA SavedIs ==
  ASSUME NEW j \in UploadState
  PROVE  /\ Saved(j) \in UploadState /\ Saved(j).seg = j.seg /\ Saved(j).meta = NoPart
         /\ Saved(j).verified = j.verified
BY DEF UploadState, Saved

LEMMA SaveIntentInv ==
  ASSUME IInv, SaveIntent
  PROVE  IInv'
<1>1. /\ pc = "save" /\ intent' = With(intent, job.seg, Saved(job)) /\ pc' = "put"
      /\ UNCHANGED log
      /\ UNCHANGED <<clip, todo, clips, job, issued, uploads, object, sum, handlers, stray, rewrites>>
  BY DEF SaveIntent, store, budget
<1>2. /\ TypeOK /\ Shape /\ Numbered /\ AtWork /\ Served /\ Stored /\ Unacknowledged
      /\ AnnouncedIsWhole /\ NoOrphanObject /\ NoReferenceTwice
  BY DEF IInv
<1>3. /\ Seqs' = Seqs /\ NextSeq' = NextSeq /\ References' = References
      /\ \A s : Durable(s)' <=> Durable(s)
  BY <1>1, SameLog
<1>4. /\ job \in UploadState /\ job # NoJob /\ job.seg \in Segment /\ job.seg \in 1..issued
      /\ job.seg \notin Known /\ job.seg \notin References /\ ~job.verified
      /\ todo \subseteq Known
  BY <1>1, <1>2, Working DEF AtWork
<1>5. /\ Known' = Known \cup {job.seg} /\ intent'[job.seg] = Saved(job)
      /\ \A s \in Known : intent'[s] = intent[s]
  BY <1>1, <1>4 DEF Known, With
<1>6. \A s \in Known' : intent'[s] \in UploadState /\ intent'[s].seg = s /\ intent'[s].meta = NoPart
  BY <1>4, <1>5, Working, SavedIs
<1>7. (\A s : Whole(s)' <=> Whole(s)) /\ AnnouncedIsWhole'
  BY <1>1, <1>3, QuietStore
<1>8. \A h \in handlers : ~h.asked
  BY <1>1, NoneAsked
<1>9. TypeOK'
  <2>1. Known' \subseteq Segment /\ todo' \subseteq Known'
    BY <1>1, <1>4, <1>5, Working
  <2> QED
    BY <1>1, <1>2, <1>6, <1>8, <2>1, QuietLog DEF TypeOK
<1>10. Shape'
  BY <1>1, <1>2, <1>6, QuietLog DEF Shape
<1>11. Numbered'
  BY <1>1, <1>2, <1>3, <1>4, <1>5 DEF Numbered
<1>12. AtWork'
  <2>1. job.seg \in Known' \ todo
    BY <1>4, <1>5
  <2>2. Known' \subseteq todo \cup {job.seg}
    BY <1>1, <1>2, <1>5 DEF AtWork
  <2> QED
    BY <1>1, <1>4, <1>5, <2>1, <2>2 DEF AtWork
<1>13. Served'
  BY <1>1, <1>2, <1>5, <1>7 DEF Served
<1>14. Stored'
  <2>1. \A s \in Known' : intent'[s].verified => s \in DOMAIN object /\ Whole(s)
    BY <1>2, <1>4, <1>5, SavedIs DEF Stored
  <2> QED
    BY <1>1, <1>7, <2>1 DEF Stored
<1>15. Unacknowledged'
  <2>1. \A i \in Seqs : wal[i].seg # job.seg
    BY <1>4 DEF References
  <2> QED
    BY <1>1, <1>2, <1>3, <1>5, <2>1 DEF Unacknowledged, log
<1>16. NoOrphanObject'
  BY <1>1, <1>2, <1>3, <1>5 DEF NoOrphanObject, log
<1> QED
  BY <1>7, <1>9, <1>10, <1>11, <1>12, <1>13, <1>14, <1>15, <1>16, <1>1, QuietLog DEF IInv

\* A part is stored, with the version the file has now.
LEMMA PutPartInv ==
  ASSUME IInv, PutPart
  PROVE  IInv'
<1> DEFINE n == Min(Missing(job))
           version == clip[job.clip]
<1>1. /\ pc = "put" /\ Missing(job) # {} /\ job.seg \in DOMAIN uploads
      /\ uploads' = [uploads EXCEPT ![job.seg][n] = version]
      /\ job' = [job EXCEPT !.parts = @ \cup {<<n, version>>}]
      /\ intent' = With(intent, job.seg, Saved(job'))
      /\ UNCHANGED log
      /\ UNCHANGED <<clip, pc, todo, clips, issued, object, sum, handlers, stray, rewrites>>
  BY DEF PutPart, budget
<1>2. /\ TypeOK /\ Shape /\ Numbered /\ AtWork /\ Served /\ Stored /\ Unacknowledged
      /\ AnnouncedIsWhole /\ NoOrphanObject /\ NoReferenceTwice
  BY DEF IInv
<1>3. /\ Seqs' = Seqs /\ NextSeq' = NextSeq /\ References' = References
      /\ \A s : Durable(s)' <=> Durable(s)
  BY <1>1, SameLog
<1>4. /\ job \in UploadState /\ job # NoJob /\ job.seg \in Segment /\ job.seg \in 1..issued
      /\ job.seg \in Known \ todo /\ intent[job.seg] = Saved(job) /\ todo \subseteq Known
  BY <1>1, <1>2, Working DEF AtWork
<1>5. n \in Part /\ version \in Version
  BY <1>1, <1>2, <1>4, NextPart DEF TypeOK, UploadState
<1> HIDE DEF n, version
<1>6. /\ job' \in UploadState /\ job' # NoJob /\ job'.seg = job.seg /\ job'.verified = job.verified
  <2>1. job' \in UploadState
    BY <1>1, <1>4, <1>5 DEF UploadState
  <2>2. job'.seg = job.seg /\ job'.verified = job.verified
    BY <1>1, <1>4 DEF UploadState
  <2>3. NoJob.seg = 0 /\ 0 \notin Segment
    BY Numbers DEF NoJob, Segment
  <2> QED
    BY <1>4, <2>1, <2>2, <2>3
<1>7. /\ Known' = Known /\ intent'[job.seg] = Saved(job')
      /\ \A s \in Known : s # job.seg => intent'[s] = intent[s]
  BY <1>1, <1>4 DEF Known, With
<1>8. \A s \in Known : intent'[s] \in UploadState /\ intent'[s].seg = s /\ intent'[s].meta = NoPart
  BY <1>4, <1>6, <1>7, Working, SavedIs
<1>9. \A s \in Known : intent'[s].verified <=> intent[s].verified
  BY <1>4, <1>6, <1>7, SavedIs
<1>10. (\A s : Whole(s)' <=> Whole(s)) /\ AnnouncedIsWhole'
  BY <1>1, <1>3, QuietStore
<1>11. \A h \in handlers : ~h.asked
  BY <1>1, NoneAsked
<1>12. /\ DOMAIN uploads' = DOMAIN uploads
       /\ \A s \in DOMAIN uploads : uploads'[s] \in [Part -> {NoPart} \cup Version]
  BY <1>1, <1>2, <1>5 DEF TypeOK
<1>13. TypeOK'
  BY <1>1, <1>2, <1>6, <1>7, <1>8, <1>11, <1>12, QuietLog DEF TypeOK
<1>14. Shape'
  BY <1>1, <1>2, <1>7, <1>8, QuietLog DEF Shape
<1>15. Numbered'
  BY <1>1, <1>2, <1>3, <1>7, <1>12 DEF Numbered
<1>16. AtWork'
  BY <1>1, <1>2, <1>4, <1>6, <1>7 DEF AtWork
<1>17. Served'
  BY <1>1, <1>2, <1>7, <1>10, <1>12 DEF Served
<1>18. Stored'
  BY <1>1, <1>2, <1>7, <1>9, <1>10 DEF Stored
<1>19. Unacknowledged' /\ NoOrphanObject'
  BY <1>1, <1>2, <1>3, <1>7 DEF Unacknowledged, NoOrphanObject, log
<1> QED
  BY <1>1, <1>10, <1>13, <1>14, <1>15, <1>16, <1>17, <1>18, <1>19, QuietLog DEF IInv

LEMMA AskCompleteInv ==
  ASSUME IInv, AskComplete
  PROVE  IInv'
<1> DEFINE call == [seg |-> job.seg, etags |-> job.parts, at |-> "finish", asked |-> TRUE]
<1>1. /\ pc = "put" /\ pc' = "asked" /\ handlers' = handlers \cup {call}
      /\ UNCHANGED log
      /\ UNCHANGED <<clip, intent, todo, clips, job, issued, uploads, object, sum, stray, rewrites>>
  BY DEF AskComplete, disk, budget
<1>2. /\ TypeOK /\ Shape /\ Numbered /\ AtWork /\ Served /\ Stored /\ Unacknowledged
      /\ AnnouncedIsWhole /\ NoOrphanObject /\ NoReferenceTwice
  BY DEF IInv
<1>3. /\ Seqs' = Seqs /\ NextSeq' = NextSeq /\ References' = References
      /\ \A s : Durable(s)' <=> Durable(s)
  BY <1>1, SameLog
<1>4. /\ job \in UploadState /\ job # NoJob /\ job.seg \in Segment /\ job.seg \in 1..issued
      /\ job.seg \in Known \ todo /\ intent[job.seg] = Saved(job)
  BY <1>1, <1>2, Working DEF AtWork
<1>5. call \in Call /\ call.seg = job.seg /\ call.at = "finish" /\ call.asked
  BY <1>4 DEF Call, UploadState
<1> HIDE DEF call
<1>6. Known' = Known
  BY <1>1 DEF Known
<1>7. (\A s : Whole(s)' <=> Whole(s)) /\ AnnouncedIsWhole'
  BY <1>1, <1>3, QuietStore
<1>8. \A h \in handlers : ~h.asked
  BY <1>1, NoneAsked
<1>9. TypeOK'
  <2>1. \A h \in handlers' : h.asked => pc' = "asked" /\ h.seg = job'.seg
    BY <1>1, <1>5, <1>8
  <2> QED
    BY <1>1, <1>2, <1>6, <2>1, QuietLog DEF TypeOK
<1>10. Shape'
  BY <1>1, <1>2, <1>5, <1>6, QuietLog DEF Shape
<1>11. Numbered'
  <2>1. \A h \in handlers' : h.seg <= issued
    BY <1>1, <1>2, <1>4, <1>5, Numbers DEF Numbered
  <2> QED
    BY <1>1, <1>2, <1>3, <1>6, <2>1 DEF Numbered
<1>12. AtWork'
  BY <1>1, <1>2, <1>4, <1>6 DEF AtWork
<1>13. Served'
  <2>1. \A g, h \in handlers' : g.asked /\ h.asked => g = h
    BY <1>1, <1>8
  <2>2. \A h \in handlers' : /\ h.seg \in DOMAIN uploads => h.seg \in Known /\ h.at = "finish"
                             /\ h.seg \in DOMAIN object /\ h.at = "delete" => ~Whole(h.seg)
    BY <1>1, <1>2, <1>4, <1>5 DEF Served
  <2> QED
    BY <1>1, <1>6, <1>7, <2>1, <2>2 DEF Served
<1>14. Stored'
  BY <1>1, <1>2, <1>6, <1>7 DEF Stored
<1>15. Unacknowledged' /\ NoOrphanObject'
  BY <1>1, <1>2, <1>3, <1>6 DEF Unacknowledged, NoOrphanObject, log
<1> QED
  BY <1>1, <1>7, <1>9, <1>10, <1>11, <1>12, <1>13, <1>14, <1>15, QuietLog DEF IInv

\* The object is read back: it is gone, broken, or whole, and then the run that waits
\* has its answer on disk.
LEMMA VerifyInv ==
  ASSUME IInv, NEW h \in handlers, Verify(h)
  PROVE  IInv'
<1>1. /\ h.at = "verify"
      /\ UNCHANGED <<issued, uploads, object, sum, stray, rewrites>>
  BY DEF Verify, budget
<1>2. /\ TypeOK /\ Shape /\ Numbered /\ AtWork /\ Served /\ Stored /\ Unacknowledged
      /\ AnnouncedIsWhole /\ NoOrphanObject /\ NoReferenceTwice
  BY DEF IInv
<1>3. stray' \subseteq Segment \X Part \X Version
  BY <1>1, <1>2 DEF Shape
<1>4. CASE h.seg \notin DOMAIN object
  <2>1. Refuse(h)
    BY <1>4 DEF Verify
  <2> QED
    BY <1>1, <2>1, RefuseInv
<1>5. CASE h.seg \in DOMAIN object /\ ~Whole(h.seg)
  <2>1. Moved(h, "delete") /\ UNCHANGED <<disk, run>>
    BY <1>5 DEF Verify
  <2>2. /\ handlers' \subseteq Call
        /\ \A g \in handlers' : \/ g \in handlers /\ g # h
                                \/ g.seg = h.seg /\ g.asked = h.asked /\ g.at = "delete"
        /\ \A g \in handlers' : \E k \in handlers : k.seg = g.seg /\ (g.asked => k.asked)
        /\ \A f, g \in handlers' : f.asked /\ g.asked => f = g
    BY <2>1, MovedIs
  <2>3. Kept(handlers', uploads', object')
    BY <1>1, <1>2, <2>2 DEF Kept, TypeOK
  <2>4. h.seg \notin DOMAIN uploads
    BY <1>1, <1>2 DEF Served
  <2>5. \A g \in handlers' : g.seg \in DOMAIN uploads' => g.at = "finish"
    BY <1>1, <1>2, <2>2, <2>4 DEF Served
  <2>6. \A s : Whole(s)' <=> Whole(s)
    BY <1>1 DEF Whole
  <2>7. \A g \in handlers' : g.seg \in DOMAIN object' /\ g.at = "delete" => ~Whole(g.seg)'
    BY <1>1, <1>2, <1>5, <2>2, <2>6 DEF Served
  <2> QED
    BY <1>1, <1>3, <2>1, <2>3, <2>5, <2>7, StoreInv
<1>6. CASE h.seg \in DOMAIN object /\ Whole(h.seg) /\ ~h.asked
  <2>1. Gone(h) /\ UNCHANGED <<disk, run>>
    BY <1>6 DEF Verify
  <2>2. handlers' \subseteq handlers
    BY <2>1 DEF Gone
  <2> QED
    BY <1>1, <1>3, <2>1, <2>2, CallsEnd, StoreInv
<1>7. CASE h.seg \in DOMAIN object /\ Whole(h.seg) /\ h.asked
  <2>1. /\ handlers' = handlers \ {h}
        /\ job' = [job EXCEPT !.verified = TRUE]
        /\ intent' = With(intent, h.seg, Saved(job'))
        /\ pc' = "append" /\ UNCHANGED log /\ UNCHANGED <<clip, todo, clips>>
    BY <1>7 DEF Verify, Gone
  <2>2. /\ Seqs' = Seqs /\ NextSeq' = NextSeq /\ References' = References
        /\ \A s : Durable(s)' <=> Durable(s)
    BY <2>1, SameLog
  <2>3. pc = "asked" /\ h.seg = job.seg
    BY <1>2, <1>7 DEF TypeOK
  <2>4. /\ job \in UploadState /\ job # NoJob /\ job.seg \in Segment
        /\ job.seg \in Known \ todo /\ intent[job.seg] = Saved(job) /\ todo \subseteq Known
    BY <1>2, <2>3, Working DEF AtWork
  <2>5. job' \in UploadState /\ job' # NoJob /\ job'.seg = job.seg /\ job'.verified
    <3>1. job' \in UploadState
      BY <2>1, <2>4 DEF UploadState
    <3>2. job'.seg = job.seg /\ job'.verified
      BY <2>1, <2>4 DEF UploadState
    <3>3. NoJob.seg = 0 /\ 0 \notin Segment
      BY Numbers DEF NoJob, Segment
    <3> QED
      BY <2>4, <3>1, <3>2, <3>3
  <2>6. /\ Known' = Known /\ intent'[job.seg] = Saved(job')
        /\ \A s \in Known : s # job.seg => intent'[s] = intent[s]
    BY <2>1, <2>3, <2>4 DEF Known, With
  <2>7. \A s \in Known : intent'[s] \in UploadState /\ intent'[s].seg = s /\ intent'[s].meta = NoPart
    BY <2>4, <2>5, <2>6, Working, SavedIs
  <2>8. (\A s : Whole(s)' <=> Whole(s)) /\ AnnouncedIsWhole'
    BY <1>1, <2>2, QuietStore
  <2>9. \A g \in handlers' : ~g.asked
    BY <1>2, <1>7, <2>1 DEF Served
  <2>10. TypeOK'
    BY <1>1, <1>2, <2>1, <2>5, <2>6, <2>7, <2>9, QuietLog DEF TypeOK
  <2>11. Shape' /\ Numbered'
    BY <1>1, <1>2, <2>1, <2>2, <2>6, <2>7, QuietLog DEF Shape, Numbered
  <2>12. AtWork'
    BY <1>2, <2>1, <2>3, <2>4, <2>5, <2>6 DEF AtWork
  <2>13. Served'
    BY <1>1, <1>2, <2>1, <2>6, <2>8 DEF Served
  <2>14. Stored'
    <3>1. \A s \in Known : intent'[s].verified => s \in DOMAIN object /\ Whole(s)
      BY <1>2, <1>7, <2>3, <2>6 DEF Stored
    <3> QED
      BY <1>1, <2>1, <2>5, <2>6, <2>8, <3>1 DEF Stored
  <2>15. Unacknowledged' /\ NoOrphanObject'
    BY <1>1, <1>2, <2>1, <2>2, <2>6 DEF Unacknowledged, NoOrphanObject, log
  <2> QED
    BY <2>1, <2>8, <2>10, <2>11, <2>12, <2>13, <2>14, <2>15, QuietLog DEF IInv
<1> QED
  BY <1>4, <1>5, <1>6, <1>7

\* The reference is the same as one in the log, or goes to its end.
LEMMA AppendReferenceInv ==
  ASSUME IInv, AppendReference
  PROVE  IInv'
<1>1. /\ pc = "append" /\ pc' = "flush"
      /\ wal' = IF InLog THEN wal ELSE With(wal, NextSeq, Reference)
      /\ UNCHANGED <<clip, intent, safe, opened, committed, todo, clips, job, issued, uploads,
                     object, sum, handlers, stray, rewrites>>
  BY DEF AppendReference, store, budget
<1>2. /\ TypeOK /\ Shape /\ Numbered /\ AtWork /\ Served /\ Stored /\ Unacknowledged
      /\ AnnouncedIsWhole /\ NoOrphanObject /\ NoReferenceTwice
  BY DEF IInv
<1>3. /\ job \in UploadState /\ job # NoJob /\ job.seg \in Segment /\ job.seg \in 1..issued
      /\ job.seg \in Known \ todo /\ intent[job.seg] = Saved(job) /\ job.verified
      /\ intent[job.seg].verified
  BY <1>1, <1>2, Working, SavedIs DEF AtWork, Stored
<1>4. Known' = Known
  BY <1>1 DEF Known
<1>5. Reference \in [seg : Segment, meta : Version] /\ Reference.seg = job.seg
  <2>1. clip[job.clip] \in Version /\ job.meta \in {NoPart} \cup Version
    BY <1>2, <1>3 DEF TypeOK, UploadState
  <2> QED
    BY <1>3, <2>1 DEF Reference
<1>6. /\ Seqs' = 1..(NextSeq' - 1) /\ Seqs \subseteq Seqs' /\ NextSeq' \in Nat
      /\ NextSeq <= NextSeq'
      /\ \A i \in Seqs : wal'[i] = wal[i]
      /\ \E i \in Seqs' : wal'[i] = Reference
      /\ \A i \in Seqs' : i \in Seqs \/ (i = NextSeq /\ wal'[i] = Reference /\ ~InLog)
  <2>1. CASE InLog
    <3>1. wal' = wal /\ Seqs' = Seqs /\ NextSeq' = NextSeq
      BY <1>1, <2>1 DEF Seqs, NextSeq
    <3> QED
      BY <2>1, <3>1, Numbers DEF InLog
  <2>2. CASE ~InLog
    <3>1. /\ Seqs' = Seqs \cup {NextSeq} /\ wal'[NextSeq] = Reference
          /\ \A i \in Seqs : i # NextSeq => wal'[i] = wal[i]
      BY <1>1, <2>2 DEF With, Seqs
    <3> DEFINE n == NextSeq + 1
    <3>2. Seqs' = 1..(n - 1) /\ \A i \in Seqs : i # NextSeq
      BY <3>1, Numbers
    <3>3. committed' \in Nat /\ committed' < n /\ n \in Nat /\ NextSeq <= n
      BY <1>1, Numbers
    <3> HIDE DEF n
    <3>4. Max({committed'} \cup Seqs') + 1 = n
      BY <3>2, <3>3, LogEnds
    <3>5. NextSeq' = n
      BY <3>4 DEF NextSeq
    <3>6. Seqs' = 1..(NextSeq' - 1) /\ NextSeq' \in Nat /\ NextSeq <= NextSeq'
      BY <3>2, <3>3, <3>5
    <3> QED
      BY <2>2, <3>1, <3>2, <3>6
  <2> QED
    BY <2>1, <2>2
<1>7. References' = References \cup {job.seg}
  <2>1. \A i \in Seqs' : wal'[i].seg \in References \cup {job.seg}
    BY <1>5, <1>6 DEF References
  <2>2. \A i \in Seqs : wal[i].seg \in References'
    BY <1>6 DEF References
  <2>3. job.seg \in References'
    BY <1>5, <1>6 DEF References
  <2> QED
    BY <2>1, <2>2, <2>3 DEF References
<1>8. \A s : Durable(s) => Durable(s)'
  BY <1>1, <1>6 DEF Durable
<1>9. \A s : Whole(s)' <=> Whole(s)
  BY <1>1 DEF Whole
<1>10. \A h \in handlers : ~h.asked
  BY <1>1, NoneAsked
<1>11. TypeOK'
  <2>1. \A i \in Seqs' : wal'[i] \in [seg : Segment, meta : Version]
    BY <1>2, <1>5, <1>6 DEF TypeOK
  <2>2. safe' \subseteq Seqs' /\ opened' \in 1..NextSeq' /\ committed' < NextSeq'
    <3>1. safe' \subseteq Seqs'
      BY <1>1, <1>2, <1>6 DEF TypeOK
    <3>2. opened \in 1..NextSeq
      BY <1>2 DEF TypeOK
    <3>3. opened \in 1..NextSeq' /\ committed < NextSeq'
      BY <1>6, <3>2, Numbers
    <3> QED
      BY <1>1, <3>1, <3>3
  <2> QED
    BY <1>1, <1>2, <1>4, <1>6, <1>10, <2>1, <2>2 DEF TypeOK
<1>12. Shape'
  BY <1>1, <1>2, <1>4, <1>6 DEF Shape
<1>13. Numbered'
  BY <1>1, <1>2, <1>3, <1>4, <1>7 DEF Numbered
<1>14. AtWork' /\ Served'
  BY <1>1, <1>2, <1>3, <1>4, <1>9 DEF AtWork, Served
<1>15. Stored'
  BY <1>1, <1>2, <1>3, <1>4, <1>7, <1>9 DEF Stored
<1>16. Unacknowledged'
  <2>1. NextSeq > committed
    BY Numbers
  <2> QED
    BY <1>1, <1>2, <1>4, <1>6, <2>1 DEF Unacknowledged
<1>17. AnnouncedIsWhole'
  <2>1. \A s \in References' : s \in DOMAIN object /\ Whole(s)
    BY <1>2, <1>3, <1>7 DEF AnnouncedIsWhole, Whole, Stored
  <2> QED
    BY <1>1, <1>9, <2>1 DEF AnnouncedIsWhole, Whole
<1>18. NoOrphanObject'
  <2>1. \A s \in DOMAIN object : s \in Known \/ Durable(s)
    BY <1>2 DEF NoOrphanObject, Durable
  <2> QED
    BY <1>1, <1>4, <1>8, <2>1 DEF NoOrphanObject, Durable
<1>19. NoReferenceTwice'
  <2> SUFFICES ASSUME NEW i \in Seqs', NEW j \in Seqs', wal'[i] = wal'[j] PROVE i = j
    BY DEF NoReferenceTwice
  <2>1. ASSUME NEW k \in Seqs, wal[k] = Reference PROVE InLog
    BY <1>2, <1>3, <1>5, <2>1 DEF Unacknowledged, InLog
  <2> QED
    BY <1>2, <1>6, <2>1 DEF NoReferenceTwice
<1> QED
  BY <1>11, <1>12, <1>13, <1>14, <1>15, <1>16, <1>17, <1>18, <1>19 DEF IInv

LEMMA FlushInv ==
  ASSUME IInv, Flush
  PROVE  IInv'
<1>1. /\ pc = "flush" /\ pc' = "discard" /\ safe' = safe \cup {i \in Seqs : i >= opened}
      /\ UNCHANGED <<clip, intent, wal, opened, committed, todo, clips, job, issued, uploads,
                     object, sum, handlers, stray, rewrites>>
  BY DEF Flush, store, budget
<1>2. /\ TypeOK /\ Shape /\ Numbered /\ AtWork /\ Served /\ Stored /\ Unacknowledged
      /\ AnnouncedIsWhole /\ NoOrphanObject /\ NoReferenceTwice
  BY DEF IInv
<1>3. /\ job.seg \in Known \ todo /\ job # NoJob /\ intent[job.seg] = Saved(job) /\ job.verified
      /\ intent[job.seg].verified /\ job.seg \in References /\ job.seg \in DOMAIN object
      /\ job.seg \notin DOMAIN uploads
  <2>1. job.seg \in Known \ todo /\ job # NoJob /\ intent[job.seg] = Saved(job) /\ job.verified
        /\ job.seg \in References
    BY <1>1, <1>2, Working DEF AtWork, Stored
  <2>2. intent[job.seg].verified
    BY <1>1, <2>1, Working, SavedIs
  <2> QED
    BY <1>2, <2>1, <2>2 DEF Stored, TypeOK
<1>4. Known' = Known /\ Seqs' = Seqs /\ NextSeq' = NextSeq /\ References' = References
  BY <1>1 DEF Known, Seqs, NextSeq, References
<1>5. \A s : Durable(s) => Durable(s)'
  BY <1>1, <1>4 DEF Durable
<1>6. (\A s : Whole(s)' <=> Whole(s)) /\ AnnouncedIsWhole'
  BY <1>1, <1>4, QuietStore
<1>7. Durable(job.seg)'
  <2>1. PICK i \in Seqs : wal[i].seg = job.seg
    BY <1>3 DEF References
  <2>2. i < opened \/ i \in safe'
    BY <1>1, <2>1, Numbers
  <2> QED
    BY <1>1, <1>4, <2>1, <2>2 DEF Durable
<1>8. \A h \in handlers : ~h.asked
  BY <1>1, NoneAsked
<1>9. TypeOK'
  BY <1>1, <1>2, <1>4, <1>8 DEF TypeOK
<1>10. Shape' /\ Numbered'
  BY <1>1, <1>2, <1>4 DEF Shape, Numbered
<1>11. AtWork' /\ Served'
  BY <1>1, <1>2, <1>3, <1>4, <1>6 DEF AtWork, Served
<1>12. Stored'
  <2>1. \A s \in Known : intent[s].verified => s \in DOMAIN object /\ Whole(s)'
    BY <1>2, <1>6 DEF Stored
  <2>2. pc' = "discard" => (job'.seg \notin DOMAIN uploads' /\ Durable(job.seg)')
    BY <1>1, <1>3, <1>7
  <2> QED
    BY <1>1, <1>4, <2>1, <2>2 DEF Stored
<1>13. Unacknowledged' /\ NoReferenceTwice'
  BY <1>1, <1>2, <1>4 DEF Unacknowledged, NoReferenceTwice
<1>14. NoOrphanObject'
  <2>1. \A s \in DOMAIN object : s \in Known \/ Durable(s)
    BY <1>2 DEF NoOrphanObject, Durable
  <2> QED
    BY <1>1, <1>4, <1>5, <2>1 DEF NoOrphanObject, Durable
<1> QED
  BY <1>6, <1>9, <1>10, <1>11, <1>12, <1>13, <1>14 DEF IInv

\* The state file goes last: the object has its reference, or there is none to forget.
LEMMA DiscardInv ==
  ASSUME IInv, Discard
  PROVE  IInv'
<1>1. /\ pc = "discard" /\ intent' = Without(intent, job.seg) /\ pc' = "next" /\ job' = NoJob
      /\ UNCHANGED log
      /\ UNCHANGED <<clip, todo, clips, issued, uploads, object, sum, handlers, stray, rewrites>>
  BY DEF Discard, store, budget
<1>2. /\ TypeOK /\ Shape /\ Numbered /\ AtWork /\ Served /\ Stored /\ Unacknowledged
      /\ AnnouncedIsWhole /\ NoOrphanObject /\ NoReferenceTwice
  BY DEF IInv
<1>3. /\ Seqs' = Seqs /\ NextSeq' = NextSeq /\ References' = References
      /\ \A s : Durable(s)' <=> Durable(s)
  BY <1>1, SameLog
<1>4. /\ job.seg \in Known \ todo /\ job.seg \notin DOMAIN uploads /\ todo \subseteq Known
      /\ job.seg \in DOMAIN object => Durable(job.seg)
  BY <1>1, <1>2, Working DEF AtWork, Stored
<1>5. Known' = Known \ {job.seg} /\ \A s \in Known' : intent'[s] = intent[s]
  BY <1>1 DEF Known, Without
<1>6. (\A s : Whole(s)' <=> Whole(s)) /\ AnnouncedIsWhole'
  BY <1>1, <1>3, QuietStore
<1>7. \A h \in handlers : ~h.asked
  BY <1>1, NoneAsked
<1>8. TypeOK'
  <2>1. todo' \subseteq Known'
    BY <1>1, <1>4, <1>5
  <2> QED
    BY <1>1, <1>2, <1>5, <1>7, <2>1, QuietLog DEF TypeOK
<1>9. Shape' /\ Numbered'
  BY <1>1, <1>2, <1>3, <1>5, QuietLog DEF Shape, Numbered
<1>10. AtWork'
  <2>1. Known' \subseteq todo
    BY <1>1, <1>2, <1>5 DEF AtWork
  <2> QED
    BY <1>1, <2>1 DEF AtWork
<1>11. Served'
  <2>1. \A h \in handlers : h.seg \in DOMAIN uploads => h.seg \in Known'
    BY <1>2, <1>4, <1>5 DEF Served
  <2> QED
    BY <1>1, <1>2, <1>6, <2>1 DEF Served
<1>12. Stored'
  BY <1>1, <1>2, <1>5, <1>6 DEF Stored
<1>13. Unacknowledged'
  BY <1>1, <1>2, <1>3, <1>5 DEF Unacknowledged, log
<1>14. NoOrphanObject'
  <2>1. \A s \in DOMAIN object : s \in Known' \/ Durable(s)
    BY <1>2, <1>4, <1>5 DEF NoOrphanObject, Durable
  <2> QED
    BY <1>1, <1>3, <2>1 DEF NoOrphanObject, Durable
<1> QED
  BY <1>1, <1>6, <1>8, <1>9, <1>10, <1>11, <1>12, <1>13, <1>14, QuietLog DEF IInv

\* A run publishes when no state file is left, so that no reference that is
\* acknowledged is ever looked for again.
LEMMA PublishInv ==
  ASSUME IInv, Publish
  PROVE  IInv'
<1>0. PICK n \in committed..(NextSeq - 1) : committed' = n
  BY DEF Publish
<1>1. /\ pc = "next" /\ todo = {} /\ clips = {} /\ committed' = n /\ opened' = NextSeq
      /\ pc' = "down"
      /\ UNCHANGED <<clip, intent, wal, safe, todo, clips, job, issued, uploads, object, sum,
                     handlers, stray, rewrites>>
  BY <1>0 DEF Publish, store, budget
<1>2. /\ TypeOK /\ Shape /\ Numbered /\ AtWork /\ Served /\ Stored /\ Unacknowledged
      /\ AnnouncedIsWhole /\ NoOrphanObject /\ NoReferenceTwice
  BY DEF IInv
<1>3. n \in Nat /\ n < NextSeq /\ Known = {}
  BY <1>1, <1>2, Working, Numbers DEF AtWork
<1>4. /\ Known' = Known /\ Seqs' = Seqs /\ References' = References
  BY <1>1 DEF Known, Seqs, References
<1>5. NextSeq' = NextSeq
  <2>1. Max({n} \cup Seqs) + 1 = NextSeq
    BY <1>3, Numbers, LogEnds
  <2> QED
    BY <1>1, <1>4, <2>1 DEF NextSeq
<1>6. \A s : Durable(s) => Durable(s)'
  <2> SUFFICES ASSUME NEW s, NEW i \in Seqs, wal[i].seg = s PROVE Durable(s)'
    BY DEF Durable
  <2>1. i < NextSeq
    BY Numbers
  <2> QED
    BY <1>1, <1>4, <2>1 DEF Durable
<1>7. (\A s : Whole(s)' <=> Whole(s)) /\ AnnouncedIsWhole'
  BY <1>1, <1>4, QuietStore
<1>8. \A h \in handlers : ~h.asked
  BY <1>1, NoneAsked
<1>9. TypeOK'
  <2>1. opened' \in 1..NextSeq' /\ committed' < NextSeq'
    BY <1>1, <1>3, <1>5, Numbers
  <2> QED
    BY <1>1, <1>2, <1>4, <1>5, <1>8, <2>1 DEF TypeOK
<1>10. Shape' /\ Numbered'
  BY <1>1, <1>2, <1>3, <1>4, <1>5 DEF Shape, Numbered
<1>11. AtWork' /\ Served' /\ Stored'
  BY <1>1, <1>2, <1>3, <1>4, <1>7 DEF AtWork, Served, Stored
<1>12. Unacknowledged' /\ NoReferenceTwice'
  BY <1>1, <1>2, <1>3, <1>4 DEF Unacknowledged, NoReferenceTwice
<1>13. NoOrphanObject'
  <2>1. \A s \in DOMAIN object : s \in Known \/ Durable(s)
    BY <1>2 DEF NoOrphanObject, Durable
  <2> QED
    BY <1>1, <1>4, <1>6, <2>1 DEF NoOrphanObject, Durable
<1> QED
  BY <1>7, <1>9, <1>10, <1>11, <1>12, <1>13 DEF IInv

LEMMA AbortInv ==
  ASSUME IInv, Abort
  PROVE  IInv'
<1> DEFINE s == Min(todo)
<1>1. /\ pc = "next" /\ todo # {}
      /\ UNCHANGED <<issued, object, sum, handlers, stray, rewrites>>
  BY DEF Abort
<1>2. /\ TypeOK /\ Shape /\ Numbered /\ AtWork /\ Served /\ Stored /\ Unacknowledged
      /\ AnnouncedIsWhole /\ NoOrphanObject /\ NoReferenceTwice
  BY DEF IInv
<1>3. \A h \in handlers : ~h.asked
  BY <1>1, NoneAsked
<1>4. CASE s \notin DOMAIN uploads
  <2>1. uploads' = uploads /\ Stop
    BY <1>4 DEF Abort
  <2>2. stray' \subseteq Segment \X Part \X Version
    BY <1>1, <1>2 DEF Shape
  <2> QED
    BY <1>1, <1>3, <2>1, <2>2, CallsEnd, StopInv
<1>5. CASE s \in DOMAIN uploads
  <2>1. /\ uploads' = Without(uploads, s) /\ job' = intent[s] /\ todo' = todo \ {s}
        /\ pc' = "discard" /\ UNCHANGED log /\ UNCHANGED <<clip, intent, clips>>
    BY <1>5 DEF Abort, disk
  <2>2. /\ s \in todo /\ s \in Known /\ intent[s] \in UploadState /\ intent[s] # NoJob
        /\ intent[s].seg = s /\ Saved(intent[s]) = intent[s]
    BY <1>1, NextTodo
  <2> HIDE DEF s
  <2>3. /\ Seqs' = Seqs /\ NextSeq' = NextSeq /\ References' = References
        /\ \A x : Durable(x)' <=> Durable(x)
    BY <2>1, SameLog
  <2>4. Known' = Known
    BY <2>1 DEF Known
  <2>5. /\ DOMAIN uploads' = DOMAIN uploads \ {s} /\ s \notin DOMAIN object
        /\ \A x \in DOMAIN uploads' : uploads'[x] = uploads[x]
    BY <1>2, <1>5, <2>1 DEF Without, TypeOK
  <2>6. (\A x : Whole(x)' <=> Whole(x)) /\ AnnouncedIsWhole'
    BY <1>1, <2>3, QuietStore
  <2>7. TypeOK'
    BY <1>1, <1>2, <1>3, <2>1, <2>2, <2>4, <2>5, QuietLog DEF TypeOK
  <2>8. Shape' /\ Numbered'
    BY <1>1, <1>2, <2>1, <2>3, <2>4, <2>5, QuietLog DEF Shape, Numbered
  <2>9. AtWork'
    <3>1. Known \subseteq todo' \cup {s} /\ s \notin todo'
      BY <1>1, <1>2, <2>1, Working DEF AtWork
    <3> QED
      BY <2>1, <2>2, <2>4, <3>1 DEF AtWork
  <2>10. Served'
    BY <1>1, <1>2, <2>4, <2>5, <2>6 DEF Served
  <2>11. Stored'
    BY <1>1, <1>2, <2>1, <2>2, <2>4, <2>5, <2>6 DEF Stored
  <2>12. Unacknowledged' /\ NoOrphanObject'
    BY <1>1, <1>2, <2>1, <2>3, <2>4 DEF Unacknowledged, NoOrphanObject, log
  <2> QED
    BY <2>1, <2>6, <2>7, <2>8, <2>9, <2>10, <2>11, <2>12, QuietLog DEF IInv
<1> QED
  BY <1>4, <1>5

LEMMA RewriteInv ==
  ASSUME IInv, NEW c \in Clip, Rewrite(c)
  PROVE  IInv'
<1>1. /\ rewrites < MaxRewrites /\ rewrites' = rewrites + 1
      /\ clip' = [clip EXCEPT ![c] = rewrites']
      /\ UNCHANGED log
      /\ UNCHANGED <<intent, pc, todo, clips, job, issued, uploads, object, sum, handlers, stray>>
  BY DEF Rewrite, run, store
<1>2. /\ TypeOK /\ Shape /\ Numbered /\ AtWork /\ Served /\ Stored /\ Unacknowledged
      /\ AnnouncedIsWhole /\ NoOrphanObject /\ NoReferenceTwice
  BY DEF IInv
<1>3. /\ Seqs' = Seqs /\ NextSeq' = NextSeq /\ References' = References
      /\ \A s : Durable(s)' <=> Durable(s)
  BY <1>1, SameLog
<1>4. rewrites' \in Version /\ clip' \in [Clip -> Version]
  <2>1. rewrites' \in Version
    BY <1>1, <1>2, Numbers DEF Shape, Version
  <2> QED
    BY <1>1, <1>2, <2>1 DEF TypeOK
<1>5. Known' = Known
  BY <1>1 DEF Known
<1>6. (\A s : Whole(s)' <=> Whole(s)) /\ AnnouncedIsWhole'
  BY <1>1, <1>3, QuietStore
<1>7. TypeOK'
  BY <1>1, <1>2, <1>4, <1>5, QuietLog DEF TypeOK
<1>8. Shape' /\ Numbered'
  BY <1>1, <1>2, <1>3, <1>4, <1>5, QuietLog DEF Shape, Numbered
<1>9. AtWork' /\ Served'
  BY <1>1, <1>2, <1>3, <1>5, <1>6 DEF AtWork, Served
<1>10. Stored'
  <2>1. pc = "discard" => (job.seg \in DOMAIN object => Durable(job.seg)')
    BY <1>1, <1>2, <1>3 DEF Stored, Durable, log
  <2> QED
    BY <1>1, <1>2, <1>3, <1>5, <1>6, <2>1 DEF Stored
<1>11. Unacknowledged' /\ NoOrphanObject'
  BY <1>1, <1>2, <1>3, <1>5 DEF Unacknowledged, NoOrphanObject, log
<1> QED
  BY <1>1, <1>6, <1>7, <1>8, <1>9, <1>10, <1>11, QuietLog DEF IInv

------------------------------------------------------------------------------
(* The theorems.                                                           *)

LEMMA InitInv == Init => IInv
<1> SUFFICES ASSUME Init PROVE IInv
  OBVIOUS
<1> USE DEF Init
<1>1. /\ Known = {} /\ DOMAIN uploads = {} /\ DOMAIN object = {} /\ DOMAIN sum = {} /\ Seqs = {}
      /\ References = {}
  BY DEF Known, Seqs, References
<1>2. MaxSegs \in Nat /\ MaxRewrites \in Nat
  BY UploadAssumption DEF UploadAssumption
<1>3. NextSeq = 1
  <2>1. Seqs = 1..(1 - 1)
    BY <1>1
  <2>2. Max({committed} \cup Seqs) + 1 = 1
    BY <2>1, LogEnds
  <2> QED
    BY <2>2 DEF NextSeq
<1>4. TypeOK
  <2>1. clip \in [Clip -> Version]
    BY <1>2 DEF Version
  <2>2. Seqs = 1..(NextSeq - 1) /\ opened \in 1..NextSeq /\ committed < NextSeq
    BY <1>1, <1>3
  <2>3. issued \in 0..MaxSegs /\ DOMAIN sum = 1..issued
    BY <1>1, <1>2
  <2> QED
    BY <1>1, <2>1, <2>2, <2>3 DEF TypeOK
<1>5. Shape
  BY <1>1, <1>2, <1>3 DEF Shape, Version
<1>6. Numbered
  BY <1>1, <1>2, FS_EmptySet DEF Numbered
<1>7. AtWork /\ Served /\ Stored
  BY <1>1 DEF AtWork, Served, Stored
<1>8. Unacknowledged /\ AnnouncedIsWhole /\ NoOrphanObject /\ NoReferenceTwice
  BY <1>1 DEF Unacknowledged, AnnouncedIsWhole, NoOrphanObject, NoReferenceTwice
<1> QED
  BY <1>4, <1>5, <1>6, <1>7, <1>8 DEF IInv

LEMMA VehicleInv ==
  ASSUME IInv, Vehicle
  PROVE  IInv'
<1>1. CASE Resume
  BY <1>1, ResumeInv
<1>2. ASSUME NEW c \in Clip, Begin(c) PROVE IInv'
  BY <1>2, BeginInv
<1>3. CASE SaveIntent
  BY <1>3, SaveIntentInv
<1>4. CASE PutPart
  BY <1>4, PutPartInv
<1>5. CASE PutRefused
  BY <1>5, PutRefusedInv
<1>6. CASE AskComplete
  BY <1>6, AskCompleteInv
<1>7. CASE AppendReference
  BY <1>7, AppendReferenceInv
<1>8. CASE Flush
  BY <1>8, FlushInv
<1>9. CASE Discard
  BY <1>9, DiscardInv
<1>10. CASE Publish
  BY <1>10, PublishInv
<1> QED
  BY <1>1, <1>2, <1>3, <1>4, <1>5, <1>6, <1>7, <1>8, <1>9, <1>10 DEF Vehicle

LEMMA NextInv ==
  ASSUME IInv, [Next]_vars
  PROVE  IInv'
<1>1. ASSUME NEW resumeOnly \in BOOLEAN, Start(resumeOnly) PROVE IInv'
  BY <1>1, StartInv
<1>2. CASE Vehicle
  BY <1>2, VehicleInv
<1>3. ASSUME NEW h \in handlers, Gateway(h) \/ HandlerFails(h) PROVE IInv'
  BY <1>3, FinishUploadInv, VerifyInv, DeleteBrokenInv, HandlerFailsInv DEF Gateway
<1>4. CASE Die
  BY <1>4, DieInv
<1>5. CASE PutLost
  BY <1>5, PutLostInv
<1>6. ASSUME NEW p \in stray, StrayLands(p) PROVE IInv'
  BY <1>6, StrayLandsInv
<1>7. ASSUME NEW c \in Clip, Rewrite(c) PROVE IInv'
  BY <1>7, RewriteInv
<1>8. CASE Abort
  BY <1>8, AbortInv
<1>9. CASE UNCHANGED vars
  <2>1. /\ UNCHANGED log
        /\ UNCHANGED <<clip, intent, pc, todo, clips, job, issued, uploads, object, sum,
                       handlers, stray, rewrites>>
    BY <1>9 DEF vars, disk, run, store, budget
  <2>2. stray' \subseteq Segment \X Part \X Version
    BY <2>1 DEF IInv, Shape
  <2> QED
    BY <2>1, <2>2, CallsEnd, StoreInv DEF disk, run
<1> QED
  BY <1>1, <1>2, <1>3, <1>4, <1>5, <1>6, <1>7, <1>8, <1>9 DEF Next

\* The inductive invariant holds for any clips, parts, segments, deaths and rewrites.
THEOREM InvariantHolds == Spec => []IInv
<1>1. IInv /\ [Next]_vars => IInv'
  BY NextInv
<1> QED
  BY <1>1, InitInv, PTL DEF Spec

\* A reference names an object that is in the store and has the checksum the vehicle
\* gave, whatever calls of dead runs and late PUTs do (complete() deletes only what it
\* has just read back and found broken).
THEOREM AnnouncedStaysWhole == Spec => []AnnouncedIsWhole
<1>1. IInv => AnnouncedIsWhole
  BY DEF IInv
<1> QED
  BY <1>1, InvariantHolds, PTL

\* A whole object has a state file, or a reference that no kill can take away
\* (_discard() comes after the fsync of the reference).
THEOREM NoObjectForgotten == Spec => []NoOrphanObject
<1>1. IInv => NoOrphanObject
  BY DEF IInv
<1> QED
  BY <1>1, InvariantHolds, PTL

\* The state has its shape, and no reference is in the log twice, though a run may die
\* between the append and the end of the state file.
THEOREM ConsistentHolds == Spec => []Consistent
<1>1. IInv => Consistent
  BY DEF IInv, Consistent
<1> QED
  BY <1>1, InvariantHolds, PTL
=============================================================================
