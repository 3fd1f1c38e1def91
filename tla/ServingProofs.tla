---------------------------- MODULE ServingProofs ----------------------------
(***************************************************************************)
(* Proofs about the services of MCServing, for every bound: a stream in    *)
(* the gateway, the sink into ClickHouse, the replay, and live alerts.  A  *)
(* behaviour is one of one of them, so each is proved to keep an invariant *)
(* of its own, first under its own specification; the last section says    *)
(* what follows for the services together.                                 *)
(*                                                                         *)
(* The gateway stream.  Acks cover written records only, rise, and are     *)
(* complete when the stream is; the in-flight count is exact.  The heart   *)
(* is Accounted: on an open stream a record that has not failed is on its  *)
(* way to Kafka or known to the tracker.                                   *)
(***************************************************************************)
EXTENDS MCServing, IntervalTheorems


TrackerType == [start : {None} \cup SeqNo, ack : {None} \cup SeqNo,
                last : {None} \cup SeqNo, done : SUBSET SeqNo]

HandlerType == [tracker : TrackerType, inflight : Int, clientDone : BOOLEAN,
                closed : BOOLEAN, end : End, acked : {None} \cup SeqNo, acks : Nat]

\* From the first seq to the ack everything is written, and the ack stops at a hole.
Tracked(t, w) ==
  /\ t.start = None => t = NoTracker
  /\ t.start # None =>
       /\ t.start - 1 <= t.last /\ t.last <= t.ack
       /\ t.start..t.ack \subseteq w
       /\ t.done \subseteq w
       /\ \A d \in t.done : d > t.ack + 1

\* The last ack that was sent is the last one that was taken from the tracker, unless
\* the sending of it ended the stream.
AckSent(h) ==
  /\ h.acked <= h.tracker.last
  /\ h.acks <= h.acked + 1
  /\ h.acked # None => h.tracker.start # None
  /\ h.end # "lost" =>
       h.acked = h.tracker.last \/ (h.acked = None /\ h.tracker.last = h.tracker.start - 1)

Sound(h, w) ==
  /\ h \in HandlerType
  /\ Tracked(h.tracker, w)
  /\ AckSent(h)
  /\ h.closed <=> h.end # "open"

\* Every record that was received and did not fail is in Kafka's hands, in the hands
\* of onNext(), or known to the tracker.
Accounted(h, p, d, r, f) ==
  /\ \A s \in r \ f : s \in p \/ s = d.seq \/ s <= h.tracker.ack \/ s \in h.tracker.done
  /\ \A s \in r : h.tracker.start # None /\ s >= h.tracker.start

\* What acks do between two states of the handler.
Later(h, g) ==
  /\ g.acked >= h.acked /\ g.acks >= h.acks
  /\ g.acks # h.acks => g.acked > h.acked /\ ~h.closed
  /\ h.closed => g.closed

\* Where the records are.
Places ==
  /\ hand \in [seq : {None} \cup SeqNo, kind : Kind]
  /\ hand = Nothing <=> hand.seq = None
  /\ pending \subseteq SeqNo /\ nextSeq \in 0..(MaxSeq + 1) /\ sending \in BOOLEAN
  /\ written \subseteq SeqNo /\ received \subseteq SeqNo /\ failed \subseteq SeqNo
  /\ handler.tracker.start < nextSeq
  /\ \A s \in pending : s < nextSeq
  /\ hand # Nothing => hand.seq = nextSeq - 1 /\ hand.seq \notin pending
  /\ pending # {} \/ hand # Nothing => handler.tracker.start # None
  /\ handler.clientDone => ~sending /\ hand = Nothing

IngestInv ==
  /\ Sound(handler, written)
  /\ Places
  /\ InflightIsExact
  /\ ~handler.closed => Accounted(handler, pending, hand, received, failed)
  /\ handler.end = "completed" => pending = {} /\ hand = Nothing /\ ~sending
  /\ CompletedMeansAcked

------------------------------------------------------------------------------
(* The tracker and the methods that hold the lock.                         *)

\* A completed write is known to the tracker, whose ack climbs to the next hole.
LEMMA CompleteTracked ==
  ASSUME IngestAssumption, NEW t \in TrackerType, NEW w, Tracked(t, w), t.start # None,
         NEW s \in SeqNo
  PROVE  /\ Complete(t, s) \in TrackerType
         /\ Tracked(Complete(t, s), w \cup {s})
         /\ Complete(t, s).start = t.start /\ Complete(t, s).last = t.last
         /\ t.ack <= Complete(t, s).ack
         /\ \A r \in SeqNo : r <= t.ack \/ r \in t.done \/ r = s =>
                               r <= Complete(t, s).ack \/ r \in Complete(t, s).done
<1> USE IngestAssumption DEF IngestAssumption, SeqNo, None
<1>1. /\ t.start \in SeqNo /\ t.ack \in Int /\ t.last \in Int /\ s \in Int
      /\ t.start \in Int /\ t.done \subseteq SeqNo /\ t.ack \in {None} \cup SeqNo
  BY DEF TrackerType
<1>2. CASE s <= t.ack
  <2>1. Complete(t, s) = t
    BY <1>2 DEF Complete
  <2>2. Tracked(t, w \cup {s})
    BY <1>1 DEF Tracked
  <2>3. s \in SeqNo /\ t.ack <= t.ack
    BY <1>1
  <2> QED
    BY <1>2, <2>1, <2>2, <2>3
<1>3. CASE s > t.ack
  <2> DEFINE T == t.done \cup {s}
             Ends(a) == (t.ack + 1)..a \subseteq T /\ a + 1 \notin T
             top == CHOOSE a \in {t.ack} \cup T : Ends(a)
             u == [t EXCEPT !.ack = top, !.done = {d \in T : d > top}]
  <2>1. Complete(t, s) = u
    BY <1>1, <1>3 DEF Complete
  <2>2. \A d \in T : d \in SeqNo /\ d \in Int /\ d <= MaxSeq /\ d > t.ack
    BY <1>1, <1>3 DEF Tracked
  <2>3. \E a \in {t.ack} \cup T : Ends(a)
    <3>1. MaxSeq \in Int
      OBVIOUS
    <3> HIDE DEF T
    <3> QED
      BY <1>1, <2>2, <3>1, EndOfRun
  <2>4. top \in {t.ack} \cup T /\ Ends(top)
    <3> HIDE DEF T, Ends
    <3> QED
      BY <2>3
  <2>5. /\ u.start = t.start /\ u.last = t.last /\ u.ack = top
        /\ u.done = {d \in T : d > top}
    BY DEF TrackerType
  <2>6. top \in Int /\ top \in {None} \cup SeqNo /\ t.ack <= top
    BY <1>1, <2>2, <2>4
  <2>7. u \in TrackerType
    <3>1. {d \in T : d > top} \in SUBSET SeqNo
      BY <2>2
    <3> HIDE DEF T, top
    <3> QED
      BY <2>6, <3>1 DEF TrackerType
  <2>8. Tracked(u, w \cup {s})
    <3>1. t.start - 1 <= t.last /\ t.last <= t.ack /\ t.start..t.ack \subseteq w
          /\ t.done \subseteq w
      BY DEF Tracked
    <3>2. T \subseteq w \cup {s}
      BY <3>1
    <3>3. (t.ack + 1)..top \subseteq w \cup {s}
      BY <2>4, <3>2
    <3>4. t.start..top \subseteq w \cup {s}
      <4>1. \A n \in t.start..top : n \in t.start..t.ack \/ n \in (t.ack + 1)..top
        BY <1>1, <2>6
      <4> QED
        BY <3>1, <3>3, <4>1
    <3>5. \A d \in {e \in T : e > top} : d > top + 1
      BY <2>2, <2>4, <2>6
    <3> HIDE DEF T, top, u
    <3> QED
      BY <1>1, <2>5, <2>6, <3>1, <3>2, <3>4, <3>5 DEF Tracked
  <2>9. \A r \in SeqNo : r <= t.ack \/ r \in t.done \/ r = s =>
                           r <= top \/ r \in {d \in T : d > top}
    BY <1>1, <2>6
  <2> HIDE DEF T, top, u
  <2> QED
    BY <2>1, <2>5, <2>6, <2>7, <2>8, <2>9
<1> QED
  BY <1>1, <1>2, <1>3

\* emit() keeps the handler sound, and sends higher acks only.
LEMMA EmitSound ==
  ASSUME IngestAssumption, NEW w, NEW h, Sound(h, w), NEW wanted \in BOOLEAN,
         wanted => HasNews(h.tracker), NEW ok \in BOOLEAN
  PROVE  LET g == Emit(h, wanted, ok)
         IN /\ Sound(g, w)
            /\ g.inflight = h.inflight /\ g.clientDone = h.clientDone
            /\ g.tracker.start = h.tracker.start /\ g.tracker.ack = h.tracker.ack
            /\ g.tracker.done = h.tracker.done
            /\ Later(h, g)
            /\ h.closed => g = h
            /\ g.end = "completed" => h.end = "completed"
            /\ (wanted <=> HasNews(h.tracker)) /\ ~g.closed => g.tracker.last = g.tracker.ack
<1> USE IngestAssumption DEF IngestAssumption, SeqNo, None
<1>1. /\ h \in HandlerType /\ h.tracker \in TrackerType
      /\ h.tracker.ack \in Int /\ h.tracker.last \in Int /\ h.acked \in Int /\ h.acks \in Nat
      /\ h.tracker.start \in Int
  BY DEF Sound, HandlerType, TrackerType
<1>2. h.tracker.last <= h.tracker.ack
  BY <1>1 DEF Sound, Tracked, NoTracker
<1>3. CASE ~wanted \/ h.closed
  <2>1. Emit(h, wanted, ok) = h
    BY <1>3 DEF Emit
  <2>2. Later(h, h)
    BY <1>1 DEF Later
  <2> QED
    BY <1>1, <1>2, <1>3, <2>1, <2>2 DEF HasNews
<1>4. CASE wanted /\ ~h.closed
  <2> DEFINE e == Emitted(h.tracker)
  <2>1. /\ e \in TrackerType /\ e.last = h.tracker.ack /\ e.ack = h.tracker.ack
        /\ e.start = h.tracker.start /\ e.done = h.tracker.done
    BY <1>1 DEF Emitted, TrackerType
  <2>2. h.tracker.ack > h.tracker.last /\ h.tracker.start # None
    BY <1>4 DEF HasNews, Sound, Tracked, NoTracker
  <2>3. Tracked(e, w)
    BY <1>1, <1>2, <2>1, <2>2 DEF Sound, Tracked
  <2>4. h.acked < h.tracker.ack /\ h.tracker.ack >= 0 /\ h.acks <= h.acked + 1
    BY <1>1, <2>2 DEF Sound, AckSent, Tracked
  <2>5. h.end = "open"
    BY <1>4 DEF Sound
  <2> HIDE DEF e
  <2>6. CASE ok
    <3> DEFINE g == [h EXCEPT !.tracker = e, !.acked = h.tracker.ack, !.acks = @ + 1]
    <3>1. Emit(h, wanted, ok) = g
      BY <1>4, <2>6 DEF Emit, e
    <3>2. /\ g.tracker = e /\ g.acked = h.tracker.ack /\ g.acks = h.acks + 1
          /\ g.inflight = h.inflight /\ g.clientDone = h.clientDone
          /\ g.closed = h.closed /\ g.end = h.end
      BY <1>1 DEF HandlerType
    <3>3. g \in HandlerType
      <4>1. h.tracker.ack \in {None} \cup SeqNo /\ h.acks + 1 \in Nat
        BY <1>1 DEF TrackerType
      <4> QED
        BY <1>1, <2>1, <4>1 DEF HandlerType
    <3> HIDE DEF g
    <3>4. AckSent(g)
      BY <1>1, <2>1, <2>2, <2>4, <3>2 DEF AckSent
    <3>5. Sound(g, w)
      BY <1>4, <2>3, <2>5, <3>2, <3>3, <3>4 DEF Sound
    <3>6. Later(h, g)
      BY <1>1, <1>4, <2>4, <3>2 DEF Later
    <3> QED
      BY <1>4, <2>1, <3>1, <3>2, <3>5, <3>6
  <2>7. CASE ~ok
    <3> DEFINE g == [h EXCEPT !.tracker = e, !.closed = TRUE, !.end = "lost"]
    <3>1. Emit(h, wanted, ok) = g
      BY <1>4, <2>7 DEF Emit, e
    <3>2. /\ g.tracker = e /\ g.acked = h.acked /\ g.acks = h.acks
          /\ g.inflight = h.inflight /\ g.clientDone = h.clientDone
          /\ g.closed = TRUE /\ g.end = "lost"
      BY <1>1 DEF HandlerType
    <3>3. g \in HandlerType
      BY <1>1, <2>1 DEF HandlerType, End
    <3> HIDE DEF g
    <3>4. AckSent(g)
      BY <1>1, <2>1, <2>2, <2>4, <3>2 DEF AckSent
    <3>5. Sound(g, w)
      BY <2>3, <3>2, <3>3, <3>4 DEF Sound
    <3>6. Later(h, g)
      BY <1>1, <1>4, <3>2 DEF Later
    <3> QED
      BY <1>4, <2>1, <3>1, <3>2, <3>5, <3>6
  <2> QED
    BY <2>6, <2>7
<1> QED
  BY <1>3, <1>4

\* finishIfDone() keeps it sound, and completes the call only when nothing is in
\* flight and the last ack is out.
LEMMA FinishSound ==
  ASSUME IngestAssumption, NEW w, NEW h, Sound(h, w), NEW ok \in BOOLEAN
  PROVE  LET g == FinishIfDone(h, ok)
         IN /\ Sound(g, w)
            /\ g.inflight = h.inflight /\ g.clientDone = h.clientDone
            /\ g.tracker.start = h.tracker.start /\ g.tracker.ack = h.tracker.ack
            /\ g.tracker.done = h.tracker.done
            /\ Later(h, g)
            /\ h.closed => g = h
            /\ g.end = "completed" /\ h.end # "completed" =>
                 /\ h.clientDone /\ h.inflight <= 0
                 /\ g.tracker.last = g.tracker.ack
<1> USE IngestAssumption
<1> DEFINE wanted == HasNews(h.tracker)
           d == Emit(h, wanted, ok)
           g == [d EXCEPT !.closed = TRUE, !.end = "completed"]
<1>0. wanted \in BOOLEAN /\ h \in HandlerType /\ h.inflight \in Int
  BY DEF HasNews, Sound, HandlerType
<1>1. /\ Sound(d, w)
      /\ d.inflight = h.inflight /\ d.clientDone = h.clientDone
      /\ d.tracker.start = h.tracker.start /\ d.tracker.ack = h.tracker.ack
      /\ d.tracker.done = h.tracker.done
      /\ Later(h, d)
      /\ d.end = "completed" => h.end = "completed"
      /\ ~d.closed => d.tracker.last = d.tracker.ack
  <2>1. wanted => HasNews(h.tracker)
    OBVIOUS
  <2> HIDE DEF wanted
  <2>2. wanted <=> HasNews(h.tracker)
    BY DEF wanted
  <2> QED
    BY <1>0, <2>1, <2>2, EmitSound
<1>2. CASE ~h.clientDone \/ h.inflight > 0 \/ h.closed
  <2>1. FinishIfDone(h, ok) = h
    BY <1>2 DEF FinishIfDone
  <2>2. Later(h, h)
    BY <1>0 DEF Later, HandlerType, None, SeqNo
  <2> QED
    BY <2>1, <2>2
<1>3. CASE h.clientDone /\ ~(h.inflight > 0) /\ ~h.closed /\ d.closed
  <2>1. FinishIfDone(h, ok) = d
    BY <1>3 DEF FinishIfDone
  <2> HIDE DEF d
  <2> QED
    BY <1>0, <1>1, <1>3, <2>1
<1>4. CASE h.clientDone /\ ~(h.inflight > 0) /\ ~h.closed /\ ~d.closed
  <2>1. FinishIfDone(h, ok) = g
    BY <1>4 DEF FinishIfDone
  <2> HIDE DEF d
  <2>2. d \in HandlerType
    BY <1>1 DEF Sound
  <2>3. /\ g.tracker = d.tracker /\ g.acked = d.acked /\ g.acks = d.acks
        /\ g.inflight = d.inflight /\ g.clientDone = d.clientDone
        /\ g.closed = TRUE /\ g.end = "completed"
    BY <2>2 DEF HandlerType
  <2>4. g \in HandlerType
    BY <2>2 DEF HandlerType, End
  <2> HIDE DEF g
  <2>5. d.end = "open"
    BY <1>1, <1>4 DEF Sound
  <2>6. Sound(g, w)
    BY <1>1, <2>3, <2>4, <2>5 DEF Sound, AckSent
  <2>7. Later(h, g)
    BY <1>1, <1>4, <2>3 DEF Later
  <2>8. g.tracker.last = g.tracker.ack /\ h.inflight <= 0 /\ h.clientDone
    BY <1>0, <1>1, <1>4, <2>3
  <2>9. /\ g.inflight = h.inflight /\ g.clientDone = h.clientDone
        /\ g.tracker.start = h.tracker.start /\ g.tracker.ack = h.tracker.ack
        /\ g.tracker.done = h.tracker.done
    BY <1>1, <2>3
  <2> QED
    BY <1>4, <2>1, <2>6, <2>7, <2>8, <2>9
<1> QED
  BY <1>0, <1>2, <1>3, <1>4

\* What fail() and the cancel handler leave.
LEMMA FailSound ==
  ASSUME IngestAssumption, NEW w, NEW h, Sound(h, w),
         NEW status \in {"exhausted", "invalid", "unavailable", "cancelled"}
  PROVE  LET g == Fail(h, status)
         IN /\ Sound(g, w) /\ g.closed
            /\ g.inflight = h.inflight /\ g.clientDone = h.clientDone
            /\ g.tracker = h.tracker
            /\ Later(h, g)
            /\ g.end = "completed" => g = h
<1> DEFINE g == [h EXCEPT !.closed = TRUE, !.end = status]
<1>1. h \in HandlerType /\ h.acked \in Int /\ h.acks \in Nat
  BY DEF Sound, HandlerType, None, SeqNo
<1>2. CASE h.closed
  <2>1. Fail(h, status) = h
    BY <1>2 DEF Fail
  <2> QED
    BY <1>1, <1>2, <2>1 DEF Later
<1>3. CASE ~h.closed
  <2>1. Fail(h, status) = g
    BY <1>3 DEF Fail
  <2>2. /\ g.tracker = h.tracker /\ g.acked = h.acked /\ g.acks = h.acks
        /\ g.inflight = h.inflight /\ g.clientDone = h.clientDone
        /\ g.closed = TRUE /\ g.end = status
    BY <1>1 DEF HandlerType
  <2>3. g \in HandlerType
    BY <1>1 DEF HandlerType, End
  <2> HIDE DEF g
  <2>4. h.end = "open"
    BY <1>3 DEF Sound
  <2> QED
    BY <1>1, <1>3, <2>1, <2>2, <2>3, <2>4 DEF Later, Sound, AckSent
<1> QED
  BY <1>2, <1>3

\* Bookkeeping of what is in flight and of the half-close changes nothing else.
Recount(h, n, c) == [h EXCEPT !.inflight = n, !.clientDone = c]

LEMMA CountSound ==
  ASSUME NEW w, NEW h, Sound(h, w), NEW n \in Int, NEW c \in BOOLEAN
  PROVE  LET g == Recount(h, n, c)
         IN /\ Sound(g, w)
            /\ g.inflight = n /\ g.clientDone = c /\ g.tracker = h.tracker
            /\ g.closed = h.closed /\ g.end = h.end /\ g.acked = h.acked /\ g.acks = h.acks
<1> USE DEF Recount
<1> DEFINE g == Recount(h, n, c)
<1>1. h \in HandlerType
  BY DEF Sound
<1>2. /\ g.inflight = n /\ g.clientDone = c /\ g.tracker = h.tracker
      /\ g.closed = h.closed /\ g.end = h.end /\ g.acked = h.acked /\ g.acks = h.acks
  BY <1>1 DEF HandlerType
<1>3. g \in HandlerType
  BY <1>1 DEF HandlerType
<1> HIDE DEF g
<1>4. Sound(g, w)
  BY <1>2, <1>3 DEF Sound, AckSent
<1> QED
  BY <1>2, <1>4 DEF g

\* More is written than before.
LEMMA MoreWritten ==
  ASSUME NEW w, NEW v, w \subseteq v, NEW h, Sound(h, w)
  PROVE  Sound(h, v)
BY DEF Sound, Tracked

\* A stream with nothing on its way whose last ack is out has acknowledged everything
\* up to the first record that failed or was never sent.
LEMMA Acknowledged ==
  ASSUME IngestAssumption, NEW w, NEW g, Sound(g, w), g.end = "completed",
         g.tracker.last = g.tracker.ack,
         NEW r \in SUBSET SeqNo, NEW f, Accounted(g, {}, Nothing, r, f)
  PROVE  \A s \in r : (\A q \in g.tracker.start..s : q \in r \ f) => s <= g.acked
<1> USE IngestAssumption DEF IngestAssumption, SeqNo, None, Nothing
<1>0. /\ g.tracker.ack \in Int /\ g.acked \in Int
      /\ g.tracker.start \in Int /\ g.tracker.last \in Int
  BY DEF Sound, HandlerType, TrackerType
<1>a. \A s \in SeqNo : s \in Int
  OBVIOUS
<1>b. \A s \in r : s \in Int
  BY <1>a, Zenon
<1> SUFFICES ASSUME NEW s \in r, \A q \in g.tracker.start..s : q \in r \ f, s > g.acked
               PROVE  FALSE
  BY <1>0, <1>b
<1>1. s \in Int
  BY <1>b, Zenon
<1>2. g.tracker.start # None /\ s >= g.tracker.start /\ g.tracker.start >= 0
  BY DEF Accounted, Sound, HandlerType, TrackerType
<1>3. g.tracker.start - 1 <= g.tracker.ack /\ \A d \in g.tracker.done : d > g.tracker.ack + 1
  BY <1>0, <1>1, <1>2 DEF Sound, Tracked
<1>4. g.acked = g.tracker.ack \/ g.tracker.ack = g.tracker.start - 1
  BY DEF Sound, AckSent
<1> DEFINE n == g.tracker.ack + 1
<1>5. n \in g.tracker.start..s
  BY <1>0, <1>1, <1>2, <1>3, <1>4
<1>6. n \in r \ f
  BY <1>5
<1>7. n = -1 \/ n <= g.tracker.ack \/ n \in g.tracker.done
  BY <1>6 DEF Accounted
<1>8. g.tracker.done \subseteq Int
  BY DEF Sound, HandlerType, TrackerType
<1> QED
  BY <1>0, <1>1, <1>2, <1>3, <1>7, <1>8

\* The state finishIfDone() is called in, with the records r received and the ones that
\* did not fail (f) in the places p and d.
Ready(h, w, p, d, r, f) ==
  /\ Sound(h, w) /\ h.end # "completed"
  /\ IsFiniteSet(p) /\ r \subseteq SeqNo
  /\ h.inflight = Cardinality(p) + (IF d = Nothing THEN 0 ELSE 1)
  /\ h.clientDone => d = Nothing
  /\ ~h.closed => Accounted(h, p, d, r, f)

\* The state it leaves: the call is complete only with both places empty, and has
\* acknowledged then what there is to acknowledge.
Finished(h, g, w, p, d, r, f) ==
  /\ Sound(g, w)
  /\ g.inflight = h.inflight /\ g.clientDone = h.clientDone
  /\ g.tracker.start = h.tracker.start
  /\ Later(h, g)
  /\ ~g.closed => Accounted(g, p, d, r, f)
  /\ g.end = "completed" =>
       /\ p = {} /\ d = Nothing /\ h.clientDone
       /\ \A s \in r : (\A q \in g.tracker.start..s : q \in r \ f) => s <= g.acked

LEMMA FinishAccounted ==
  ASSUME IngestAssumption, NEW h, NEW w, NEW p, NEW d, NEW r, NEW f,
         Ready(h, w, p, d, r, f), NEW ok \in BOOLEAN
  PROVE  Finished(h, FinishIfDone(h, ok), w, p, d, r, f)
<1> USE DEF Ready
<1> DEFINE g == FinishIfDone(h, ok)
<1>1. /\ Sound(g, w)
      /\ g.inflight = h.inflight /\ g.clientDone = h.clientDone
      /\ g.tracker.start = h.tracker.start /\ g.tracker.ack = h.tracker.ack
      /\ g.tracker.done = h.tracker.done
      /\ Later(h, g) /\ (h.closed => g = h)
      /\ g.end = "completed" => h.clientDone /\ h.inflight <= 0 /\ g.tracker.last = g.tracker.ack
  BY FinishSound
<1> HIDE DEF g
<1>2. ~h.closed => Accounted(g, p, d, r, f)
  BY <1>1 DEF Accounted
<1>3. ~g.closed => ~h.closed
  BY <1>1 DEF Later
<1>4. ASSUME g.end = "completed"
      PROVE  /\ p = {} /\ d = Nothing /\ h.clientDone
             /\ \A s \in r : (\A q \in g.tracker.start..s : q \in r \ f) => s <= g.acked
  <2>1. ~h.closed /\ h.clientDone /\ h.inflight <= 0 /\ d = Nothing
    BY <1>1, <1>4
  <2>2. Cardinality(p) \in Nat /\ Cardinality(p) <= 0
    BY <2>1, FS_CardinalityType
  <2>3. p = {}
    BY <2>2, FS_EmptySet
  <2>4. Accounted(g, {}, Nothing, r, f)
    BY <1>2, <2>1, <2>3
  <2> QED
    BY <1>1, <1>4, <2>1, <2>3, <2>4, Acknowledged
<1> QED
  BY <1>1, <1>2, <1>3, <1>4 DEF g, Finished

LEMMA LaterTransitive ==
  ASSUME NEW a \in HandlerType, NEW b \in HandlerType, NEW c \in HandlerType,
         Later(a, b), Later(b, c), IngestAssumption
  PROVE  Later(a, c)
BY DEF Later, HandlerType, None, SeqNo, IngestAssumption

------------------------------------------------------------------------------
(* The invariant.                                                          *)

LEMMA IngestInitially == IngestAssumption /\ Init => IngestInv
<1> SUFFICES ASSUME IngestAssumption, Init PROVE IngestInv
  OBVIOUS
<1> USE DEF Init, IngestAssumption, SeqNo, None
<1>1. handler.tracker \in TrackerType
  BY DEF NoTracker, TrackerType
<1>2. handler \in HandlerType
  BY <1>1 DEF HandlerType, End
<1>3. Sound(handler, written)
  BY <1>2 DEF Sound, Tracked, AckSent, NoTracker
<1>4. Places
  <2>1. handler.tracker.start = -1
    BY DEF NoTracker
  <2> QED
    BY <2>1 DEF Places, Nothing, Kind
<1>5. InflightIsExact
  BY FS_EmptySet DEF InflightIsExact
<1> QED
  BY <1>3, <1>4, <1>5 DEF IngestInv, Accounted, CompletedMeansAcked

\* Facts about the current state the steps start from.
LEMMA IngestFacts ==
  ASSUME IngestAssumption, IngestInv
  PROVE  /\ handler \in HandlerType /\ handler.inflight \in Int
         /\ handler.clientDone \in BOOLEAN /\ handler.closed \in BOOLEAN
         /\ IsFiniteSet(pending) /\ Cardinality(pending) \in Nat
<1>1. pending \subseteq 0..MaxSeq /\ IsFiniteSet(0..MaxSeq)
  BY FS_Interval DEF IngestInv, Places, SeqNo, IngestAssumption
<1>2. IsFiniteSet(pending)
  BY <1>1, FS_Subset
<1> QED
  BY <1>2, FS_CardinalityType DEF IngestInv, Sound, HandlerType

\* onNext() admits a record, or ends the stream.
LEMMA ReceiveIngestInv ==
  ASSUME IngestAssumption, IngestInv, NEW s \in SeqNo, NEW kind \in Kind, Receive(s, kind)
  PROVE  IngestInv' /\ Later(handler, handler')
<1> USE IngestAssumption
<1> DEFINE h == IF handler.tracker = NoTracker
                THEN [handler EXCEPT !.tracker = NewTracker(s)] ELSE handler
           g == [h EXCEPT !.inflight = @ + 1]
<1>0. /\ Sound(handler, written) /\ Places /\ InflightIsExact
      /\ ~handler.closed => Accounted(handler, pending, hand, received, failed)
      /\ handler.end = "completed" => ~sending
      /\ handler.closed <=> handler.end # "open"
  BY DEF IngestInv, Sound
<1>1. /\ sending /\ hand = Nothing /\ s >= nextSeq
      /\ nextSeq' = s + 1 /\ received' = received \cup {s}
      /\ UNCHANGED <<pending, sending, written, failed>>
  BY DEF Receive
<1>2. /\ handler \in HandlerType /\ handler.tracker \in TrackerType
      /\ s \in Int /\ s >= 0 /\ s <= MaxSeq /\ nextSeq \in Int
  BY <1>0 DEF Sound, HandlerType, Places, SeqNo, IngestAssumption
<1>3. handler.end # "completed" /\ hand.seq = None
  BY <1>0, <1>1 DEF Nothing
<1>4. handler.tracker = NoTracker <=> handler.tracker.start = None
  BY <1>0 DEF Sound, Tracked, NoTracker
<1>5. /\ Sound(h, written) /\ h.closed = handler.closed /\ h.end = handler.end
      /\ h.inflight = handler.inflight /\ h.clientDone = handler.clientDone
      /\ h.acked = handler.acked /\ h.acks = handler.acks
      /\ h.tracker.start # None
      /\ handler.tracker.start # None => h.tracker = handler.tracker
      /\ handler.tracker.start = None => h.tracker.start = s
  <2>1. CASE handler.tracker # NoTracker
    BY <1>0, <1>4, <2>1
  <2>2. CASE handler.tracker = NoTracker
    <3> DEFINE t == NewTracker(s)
    <3>0. s - 1 \in {None} \cup SeqNo /\ s \in {None} \cup SeqNo
      BY <1>2 DEF None, SeqNo, IngestAssumption
    <3>1. /\ t \in TrackerType /\ t.start = s /\ t.ack = s - 1 /\ t.last = s - 1 /\ t.done = {}
      <4> HIDE DEF g, h
      <4> QED
        BY <3>0 DEF NewTracker, TrackerType
    <3> HIDE DEF t
    <3>2. Tracked(t, written)
      BY <1>2, <3>1 DEF Tracked, None
    <3>3. h = [handler EXCEPT !.tracker = t]
      BY <2>2 DEF t
    <3>4. /\ h.tracker = t /\ h.closed = handler.closed /\ h.end = handler.end
          /\ h.inflight = handler.inflight /\ h.clientDone = handler.clientDone
          /\ h.acked = handler.acked /\ h.acks = handler.acks
      BY <1>2, <3>3 DEF HandlerType
    <3>5. h \in HandlerType
      BY <1>2, <3>1, <3>3 DEF HandlerType
    <3> HIDE DEF h
    <3>6. handler.acked = None /\ handler.acks <= 0
      BY <1>0, <1>2, <1>4, <2>2 DEF Sound, AckSent, HandlerType, None, SeqNo
    <3>7. AckSent(h)
      BY <1>2, <3>1, <3>4, <3>6 DEF AckSent, None, HandlerType
    <3>8. Sound(h, written)
      BY <1>0, <3>2, <3>4, <3>5, <3>7 DEF Sound
    <3> QED
      BY <1>2, <1>4, <2>2, <3>1, <3>4, <3>8 DEF None
  <2> QED
    BY <2>1, <2>2
<1> HIDE DEF h
<1>6. /\ nextSeq' \in 0..(MaxSeq + 1) /\ received' \subseteq SeqNo
      /\ \A q \in pending : q < nextSeq' /\ q # s
      /\ handler.tracker.start < nextSeq' /\ h.tracker.start < nextSeq'
  <2>1. \A q \in SeqNo : q \in Int
    BY DEF SeqNo, IngestAssumption
  <2>2. \A q \in pending : q \in Int /\ q < nextSeq
    BY <1>0, <2>1 DEF Places
  <2>3. handler.tracker.start < nextSeq /\ handler.tracker.start \in Int
    <3>1. handler.tracker.start \in {None} \cup SeqNo
      BY <1>2 DEF TrackerType
    <3> QED
      BY <1>0, <2>1, <3>1 DEF Places, None
  <2>4. nextSeq' \in 0..(MaxSeq + 1)
    BY <1>1, <1>2 DEF IngestAssumption
  <2>5. h.tracker.start < nextSeq' /\ handler.tracker.start < nextSeq'
    BY <1>1, <1>2, <1>5, <2>3
  <2>6. \A q \in pending : q < nextSeq' /\ q # s
    BY <1>1, <1>2, <2>2
  <2>7. received' \subseteq SeqNo
    BY <1>0, <1>1 DEF Places
  <2> QED
    BY <2>4, <2>5, <2>6, <2>7
<1>7. CASE handler.closed
  <2>1. UNCHANGED <<handler, hand>>
    BY <1>7 DEF Receive
  <2>2. Later(handler, handler')
    BY <1>2, <2>1 DEF Later, HandlerType, None, SeqNo
  <2>3. Places'
    BY <1>0, <1>1, <1>6, <2>1 DEF Places, SeqNo
  <2>4. IngestInv'
    BY <1>0, <1>1, <1>3, <1>7, <2>1, <2>3 DEF IngestInv, InflightIsExact, CompletedMeansAcked
  <2> QED
    BY <2>2, <2>4
<1>8. CASE ~handler.closed /\ h.inflight >= MaxInflight
  <2>1. handler' = Fail(h, "exhausted") /\ UNCHANGED hand
    BY <1>8 DEF Receive, h
  <2>2. /\ Sound(handler', written) /\ handler'.closed
        /\ handler'.inflight = h.inflight /\ handler'.clientDone = h.clientDone
        /\ handler'.tracker = h.tracker /\ Later(h, handler')
        /\ handler'.end = "completed" => handler' = h
    BY <1>5, <2>1, FailSound
  <2>3. Later(handler, handler')
    BY <1>5, <1>8, <2>2 DEF Later
  <2>4. Places'
    BY <1>0, <1>1, <1>5, <1>6, <2>1, <2>2 DEF Places, SeqNo
  <2>5. IngestInv'
    BY <1>0, <1>1, <1>3, <1>5, <2>1, <2>2, <2>4 DEF IngestInv, InflightIsExact, CompletedMeansAcked
  <2> QED
    BY <2>3, <2>5
<1>9. CASE ~handler.closed /\ ~(h.inflight >= MaxInflight)
  <2>1. handler' = g /\ hand' = [seq |-> s, kind |-> kind]
    BY <1>9 DEF Receive, h
  <2>2. h \in HandlerType
    BY <1>5 DEF Sound
  <2>3. handler' = Recount(h, h.inflight + 1, h.clientDone)
    BY <2>1, <2>2 DEF HandlerType, Recount
  <2>4. h.inflight + 1 \in Int /\ h.clientDone \in BOOLEAN
    BY <2>2 DEF HandlerType
  <2>5. /\ Sound(handler', written)
        /\ handler'.inflight = h.inflight + 1 /\ handler'.clientDone = h.clientDone
        /\ handler'.tracker = h.tracker /\ handler'.closed = h.closed
        /\ handler'.end = h.end /\ handler'.acked = h.acked /\ handler'.acks = h.acks
    BY <1>5, <2>3, <2>4, CountSound
  <2>6. Later(handler, handler')
    BY <1>2, <1>5, <1>9, <2>5 DEF Later, HandlerType, None, SeqNo
  <2>7. hand' # Nothing /\ hand'.seq = s /\ hand' \in [seq : {None} \cup SeqNo, kind : Kind]
    BY <1>2, <2>1 DEF Nothing, None
  <2>8. Places'
    <3>1. ~handler'.clientDone
      BY <1>0, <1>1, <1>5, <2>5 DEF Places
    <3> QED
      BY <1>0, <1>1, <1>2, <1>5, <1>6, <2>5, <2>7, <3>1 DEF Places, None, SeqNo
  <2>9. InflightIsExact'
    BY <1>0, <1>1, <1>5, <2>5, <2>7, IngestFacts DEF InflightIsExact
  <2>10. Accounted(handler', pending', hand', received', failed')
    <3>1. handler.tracker.start = None => received = {}
      BY <1>0, <1>9 DEF Accounted
    <3>2. \A q \in received : q \in SeqNo /\ q # None
      BY <1>0, <1>2 DEF Places, SeqNo, None
    <3>3. handler.tracker.start # None => s >= handler.tracker.start
      BY <1>0, <1>1, <1>2 DEF Places, TrackerType, None, SeqNo, IngestAssumption
    <3>4. h.tracker.start # None /\ s >= h.tracker.start
      BY <1>2, <1>5, <3>3
    <3>5. \A q \in received : q >= h.tracker.start
      BY <1>0, <1>5, <1>9, <3>1 DEF Accounted
    <3>6. \A q \in received \ failed :
             q \in pending \/ q <= h.tracker.ack \/ q \in h.tracker.done
      BY <1>0, <1>3, <1>5, <1>9, <3>1, <3>2 DEF Accounted
    <3>7. handler'.tracker = h.tracker /\ hand'.seq = s /\ received' = received \cup {s}
          /\ pending' = pending /\ failed' = failed
      BY <1>1, <2>5, <2>7
    <3> QED
      BY <3>4, <3>5, <3>6, <3>7 DEF Accounted
  <2>11. IngestInv'
    BY <1>1, <1>3, <1>5, <2>5, <2>8, <2>9, <2>10 DEF IngestInv, CompletedMeansAcked
  <2> QED
    BY <2>6, <2>11
<1> QED
  BY <1>7, <1>8, <1>9

\* The record is with Kafka now.
LEMMA PublishIngestInv ==
  ASSUME IngestAssumption, IngestInv, Publish
  PROVE  IngestInv' /\ Later(handler, handler')
<1> USE IngestAssumption
<1>1. /\ hand # Nothing /\ pending' = pending \cup {hand.seq} /\ hand' = Nothing
      /\ UNCHANGED <<handler, nextSeq, sending, written, received, failed>>
  BY DEF Publish
<1>2. Sound(handler, written) /\ Places /\ InflightIsExact
  BY DEF IngestInv
<1>3. hand.seq \in SeqNo /\ hand.seq = nextSeq - 1 /\ hand.seq \notin pending
      /\ nextSeq \in Int
  BY <1>1, <1>2 DEF Places
<1>4. Later(handler, handler')
  BY <1>1, <1>2 DEF Later, Sound, HandlerType, None, SeqNo
<1>5. Places'
  BY <1>1, <1>2, <1>3 DEF Places, Nothing, None, Kind
<1>6. InflightIsExact'
  <2>1. Cardinality(pending \cup {hand.seq}) = Cardinality(pending) + 1
    BY <1>3, IngestFacts, FS_AddElement
  <2> QED
    BY <1>1, <1>2, <2>1, IngestFacts DEF InflightIsExact
<1>7. handler.end # "completed"
  BY <1>1 DEF IngestInv
<1>8. ~handler.closed => Accounted(handler, pending', hand', received, failed)
  BY <1>1 DEF IngestInv, Accounted
<1> QED
  BY <1>1, <1>2, <1>4, <1>5, <1>6, <1>7, <1>8 DEF IngestInv, CompletedMeansAcked

\* The record is refused: the stream ends, and the record is no longer in flight.
LEMMA RefuseIngestInv ==
  ASSUME IngestAssumption, IngestInv, Refuse
  PROVE  IngestInv' /\ Later(handler, handler')
<1> USE IngestAssumption
<1> DEFINE h == Recount(handler, handler.inflight - 1, handler.clientDone)
           status == IF hand.kind = "unroutable" THEN "invalid" ELSE "unavailable"
<1>1. /\ hand # Nothing /\ failed' = failed \cup {hand.seq} /\ hand' = Nothing
      /\ handler' = Fail(OneLess(handler), status)
      /\ UNCHANGED <<pending, nextSeq, sending, written, received>>
  BY DEF Refuse
<1>2. Sound(handler, written) /\ Places /\ InflightIsExact /\ handler \in HandlerType
  BY DEF IngestInv, Sound
<1>3. h = OneLess(handler)
  BY <1>2 DEF Recount, OneLess, HandlerType
<1>4. handler.inflight - 1 \in Int /\ handler.clientDone \in BOOLEAN
  BY <1>2 DEF HandlerType
<1>5. /\ Sound(h, written)
      /\ h.inflight = handler.inflight - 1 /\ h.clientDone = handler.clientDone
      /\ h.tracker = handler.tracker /\ h.closed = handler.closed
      /\ h.end = handler.end /\ h.acked = handler.acked /\ h.acks = handler.acks
  BY <1>2, <1>4, CountSound
<1> HIDE DEF h
<1>6. status \in {"exhausted", "invalid", "unavailable", "cancelled"}
  OBVIOUS
<1> HIDE DEF status
<1>7. /\ Sound(handler', written) /\ handler'.closed
      /\ handler'.inflight = h.inflight /\ handler'.clientDone = h.clientDone
      /\ handler'.tracker = h.tracker /\ Later(h, handler')
      /\ handler'.end = "completed" => handler' = h
  BY <1>1, <1>3, <1>5, <1>6, FailSound
<1>8. Later(handler, handler')
  BY <1>5, <1>7 DEF Later
<1>9. ~handler.clientDone /\ handler.end # "completed" /\ hand.seq \in SeqNo
  BY <1>1, <1>2 DEF Places, IngestInv
<1>10. Places'
  BY <1>1, <1>2, <1>5, <1>7, <1>9 DEF Places, Nothing, None, Kind
<1>11. InflightIsExact'
  BY <1>1, <1>2, <1>5, <1>7, IngestFacts DEF InflightIsExact
<1> QED
  BY <1>1, <1>5, <1>7, <1>8, <1>9, <1>10, <1>11 DEF IngestInv, CompletedMeansAcked

\* One record fewer is on its way to Kafka.
LEMMA OneFewer ==
  ASSUME IngestAssumption, IngestInv, NEW s \in pending
  PROVE  /\ IsFiniteSet(pending \ {s})
         /\ handler.inflight - 1
              = Cardinality(pending \ {s}) + (IF hand = Nothing THEN 0 ELSE 1)
         /\ Sound(OneLess(handler), written)
         /\ LET h == OneLess(handler)
            IN /\ h.inflight = handler.inflight - 1 /\ h.clientDone = handler.clientDone
               /\ h.tracker = handler.tracker /\ h.closed = handler.closed
               /\ h.end = handler.end /\ h.acked = handler.acked /\ h.acks = handler.acks
         /\ Later(handler, OneLess(handler))
         /\ handler.end # "completed" /\ handler.tracker.start # None
         /\ s \in SeqNo
<1>1. Sound(handler, written) /\ Places /\ InflightIsExact /\ handler \in HandlerType
  BY DEF IngestInv, Sound
<1>2. handler.inflight - 1 \in Int /\ handler.clientDone \in BOOLEAN
  BY <1>1 DEF HandlerType
<1> DEFINE h == OneLess(handler)
<1>3. h = Recount(handler, handler.inflight - 1, handler.clientDone)
  BY <1>1 DEF Recount, OneLess, HandlerType
<1> HIDE DEF h
<1>4. /\ Sound(h, written)
      /\ h.inflight = handler.inflight - 1 /\ h.clientDone = handler.clientDone
      /\ h.tracker = handler.tracker /\ h.closed = handler.closed
      /\ h.end = handler.end /\ h.acked = handler.acked /\ h.acks = handler.acks
  BY <1>1, <1>2, <1>3, CountSound
<1>5. Later(handler, h)
  BY <1>1, <1>4 DEF Later, HandlerType, None, SeqNo, IngestAssumption
<1>6. IsFiniteSet(pending \ {s}) /\ Cardinality(pending \ {s}) = Cardinality(pending) - 1
  BY IngestFacts, FS_RemoveElement
<1>7. handler.inflight - 1 = Cardinality(pending \ {s}) + (IF hand = Nothing THEN 0 ELSE 1)
  BY <1>1, <1>6, IngestFacts DEF InflightIsExact
<1>8. handler.end # "completed" /\ handler.tracker.start # None /\ s \in SeqNo
  BY <1>1 DEF IngestInv, Places
<1> QED
  BY <1>4, <1>5, <1>6, <1>7, <1>8 DEF h

\* The places of the records after the callback of the Kafka future: one fewer is
\* pending, and the handler has changed only in what the lock protects.
LEMMA PlacesAfterAnswer ==
  ASSUME Places, NEW s \in SeqNo,
         pending' = pending \ {s}, written' \in SUBSET SeqNo, failed' \in SUBSET SeqNo,
         UNCHANGED <<hand, nextSeq, sending, received>>,
         handler'.tracker.start = handler.tracker.start,
         handler'.clientDone = handler.clientDone
  PROVE  Places'
BY DEF Places, Nothing

\* The write failed: the stream may have waited for it.
LEMMA NotWrittenIngestInv ==
  ASSUME IngestAssumption, IngestInv, NEW s \in SeqNo, NEW v \in SUBSET {s}, NEW ok \in BOOLEAN,
         NotWritten(s, v, ok)
  PROVE  IngestInv' /\ Later(handler, handler')
<1> USE IngestAssumption
<1> DEFINE h == OneLess(handler)
<1>1. /\ s \in pending /\ pending' = pending \ {s} /\ written' = written \cup v
      /\ failed' = failed \cup {s} /\ handler' = FinishIfDone(h, ok)
      /\ UNCHANGED <<hand, nextSeq, sending, received>>
  BY DEF NotWritten
<1>2. Places /\ handler \in HandlerType /\ received \in SUBSET SeqNo
  BY DEF IngestInv, Sound, Places
<1>3. /\ IsFiniteSet(pending') /\ Sound(h, written) /\ Later(handler, h)
      /\ h.inflight = Cardinality(pending') + (IF hand = Nothing THEN 0 ELSE 1)
      /\ h.clientDone = handler.clientDone /\ h.tracker = handler.tracker
      /\ h.closed = handler.closed /\ h.end = handler.end
      /\ handler.end # "completed"
  BY <1>1, OneFewer
<1> HIDE DEF h
<1>4. Sound(h, written') /\ h \in HandlerType
  BY <1>1, <1>3, MoreWritten DEF Sound
<1>5. ~h.closed => Accounted(h, pending', hand, received, failed')
  BY <1>1, <1>3 DEF IngestInv, Accounted
<1>6. h.end # "completed" /\ (h.clientDone => hand = Nothing /\ ~sending)
  BY <1>2, <1>3 DEF Places
<1>7. Finished(h, handler', written', pending', hand, received, failed')
  <2>1. Ready(h, written', pending', hand, received, failed')
    BY <1>2, <1>3, <1>4, <1>5, <1>6 DEF Ready
  <2> QED
    BY <1>1, <2>1, FinishAccounted DEF h
<1>8. Later(handler, handler')
  BY <1>2, <1>3, <1>4, <1>7, LaterTransitive DEF Sound, Finished
<1>9. Places'
  BY <1>1, <1>2, <1>3, <1>7, PlacesAfterAnswer DEF Places, Finished
<1> QED
  BY <1>1, <1>3, <1>6, <1>7, <1>8, <1>9
     DEF IngestInv, InflightIsExact, CompletedMeansAcked, Finished

\* The broker has the record: the tracker climbs, an ack may be due, and the stream
\* may have waited for it.
LEMMA WrittenIngestInv ==
  ASSUME IngestAssumption, IngestInv, NEW s \in SeqNo, NEW late \in BOOLEAN, NEW ok \in BOOLEAN,
         Written(s, late, ok)
  PROVE  IngestInv' /\ Later(handler, handler')
<1> USE IngestAssumption
<1> DEFINE h == OneLess(handler)
           t == Complete(h.tracker, s)
           c == [h EXCEPT !.tracker = t]
           due == Due(c.tracker, late)
           e == Emit(c, due, ok)
<1>1. /\ s \in pending /\ pending' = pending \ {s} /\ written' = written \cup {s}
      /\ handler' = IF h.closed THEN h ELSE FinishIfDone(e, ok)
      /\ UNCHANGED <<hand, nextSeq, sending, received, failed>>
  BY DEF Written
<1>2. Places /\ handler \in HandlerType /\ received \in SUBSET SeqNo
  BY DEF IngestInv, Sound, Places
<1>3. /\ IsFiniteSet(pending') /\ Sound(h, written) /\ Later(handler, h)
      /\ h.inflight = Cardinality(pending') + (IF hand = Nothing THEN 0 ELSE 1)
      /\ h.clientDone = handler.clientDone /\ h.tracker = handler.tracker
      /\ h.closed = handler.closed /\ h.end = handler.end
      /\ handler.end # "completed" /\ handler.tracker.start # None
  BY <1>1, OneFewer
<1> HIDE DEF h
<1>4. Sound(h, written') /\ h \in HandlerType /\ h.tracker \in TrackerType
  BY <1>1, <1>3, MoreWritten DEF Sound, HandlerType
<1>5. h.clientDone => hand = Nothing /\ ~sending
  BY <1>2, <1>3 DEF Places
<1>6. written' \in SUBSET SeqNo
  BY <1>1, <1>2 DEF Places
<1>7. CASE h.closed
  <2>1. handler' = h
    BY <1>1, <1>7
  <2>2. Places'
    BY <1>1, <1>2, <1>3, <1>6, <2>1, PlacesAfterAnswer DEF Places
  <2> QED
    BY <1>1, <1>3, <1>4, <1>7, <2>1, <2>2 DEF IngestInv, InflightIsExact, CompletedMeansAcked
<1>8. CASE ~h.closed
  <2>1. /\ t \in TrackerType /\ Tracked(t, written')
        /\ t.start = h.tracker.start /\ t.last = h.tracker.last
        /\ \A q \in SeqNo : q <= h.tracker.ack \/ q \in h.tracker.done \/ q = s =>
                              q <= t.ack \/ q \in t.done
    <3>1. Tracked(h.tracker, written)
      BY <1>3 DEF Sound
    <3> QED
      BY <1>1, <1>3, <1>4, <3>1, CompleteTracked
  <2> HIDE DEF t
  <2>2. /\ c.tracker = t /\ c.inflight = h.inflight /\ c.clientDone = h.clientDone
        /\ c.closed = h.closed /\ c.end = h.end /\ c.acked = h.acked /\ c.acks = h.acks
        /\ c \in HandlerType
    BY <1>4, <2>1 DEF HandlerType
  <2> HIDE DEF c
  <2>3. Sound(c, written')
    BY <1>4, <2>1, <2>2 DEF Sound, AckSent
  <2>4. Accounted(c, pending', hand, received, failed)
    <3>1. Accounted(handler, pending, hand, received, failed)
      BY <1>3, <1>8 DEF IngestInv
    <3>2. \A q \in received \ failed : q \in SeqNo
      BY <1>2
    <3> QED
      BY <1>1, <1>3, <2>1, <2>2, <3>1, <3>2 DEF Accounted
  <2>5. due \in BOOLEAN /\ (due => HasNews(c.tracker))
    BY DEF Due, HasNews
  <2> HIDE DEF due
  <2>6. /\ Sound(e, written')
        /\ e.inflight = c.inflight /\ e.clientDone = c.clientDone
        /\ e.tracker.start = c.tracker.start /\ e.tracker.ack = c.tracker.ack
        /\ e.tracker.done = c.tracker.done
        /\ Later(c, e)
        /\ e.end = "completed" => c.end = "completed"
    BY <2>3, <2>5, EmitSound
  <2> HIDE DEF e
  <2>7. Accounted(e, pending', hand, received, failed)
    BY <2>4, <2>6 DEF Accounted
  <2>8. e.end # "completed" /\ (e.clientDone => hand = Nothing)
        /\ e.inflight = Cardinality(pending') + (IF hand = Nothing THEN 0 ELSE 1)
    BY <1>3, <1>5, <2>2, <2>6
  <2>9. handler' = FinishIfDone(e, ok)
    BY <1>1, <1>8
  <2>10. Finished(e, handler', written', pending', hand, received, failed)
    <3>1. Ready(e, written', pending', hand, received, failed)
      BY <1>2, <1>3, <2>6, <2>7, <2>8 DEF Ready
    <3> QED
      BY <2>9, <3>1, FinishAccounted
  <2>11. Later(handler, handler')
    <3>1. e \in HandlerType /\ handler' \in HandlerType
      BY <2>6, <2>10 DEF Sound, Finished
    <3>2. Later(h, c)
      BY <1>4, <2>2 DEF Later, HandlerType, None, SeqNo, IngestAssumption
    <3> QED
      BY <1>2, <1>3, <1>4, <2>2, <2>6, <2>10, <3>1, <3>2, LaterTransitive DEF Finished
  <2>12. Places'
    BY <1>1, <1>2, <1>3, <1>6, <2>1, <2>2, <2>6, <2>10, PlacesAfterAnswer
       DEF Places, Finished
  <2> QED
    BY <1>1, <1>3, <1>5, <2>2, <2>6, <2>8, <2>10, <2>11, <2>12
       DEF IngestInv, InflightIsExact, CompletedMeansAcked, Finished
<1> QED
  BY <1>7, <1>8

\* The timer sends the ack that the count has not sent yet.
LEMMA FlushTickIngestInv ==
  ASSUME IngestAssumption, IngestInv, NEW late \in BOOLEAN, NEW ok \in BOOLEAN, FlushTick(late, ok)
  PROVE  IngestInv' /\ Later(handler, handler')
<1> USE IngestAssumption
<1>1. /\ ~handler.closed /\ HasNews(handler.tracker) /\ handler' = Emit(handler, TRUE, ok)
      /\ UNCHANGED <<hand, pending, nextSeq, sending, written, received, failed>>
  BY DEF FlushTick, Due
<1>2. Sound(handler, written) /\ Places /\ Accounted(handler, pending, hand, received, failed)
  BY <1>1 DEF IngestInv
<1>3. /\ Sound(handler', written)
      /\ handler'.inflight = handler.inflight /\ handler'.clientDone = handler.clientDone
      /\ handler'.tracker.start = handler.tracker.start
      /\ handler'.tracker.ack = handler.tracker.ack
      /\ handler'.tracker.done = handler.tracker.done
      /\ Later(handler, handler')
      /\ handler'.end = "completed" => handler.end = "completed"
  <2> DEFINE wanted == TRUE
  <2>1. handler' = Emit(handler, wanted, ok) /\ wanted \in BOOLEAN
    BY <1>1
  <2>2. wanted => HasNews(handler.tracker)
    BY <1>1
  <2> HIDE DEF wanted
  <2> QED
    BY <1>2, <2>1, <2>2, EmitSound
<1>4. Accounted(handler', pending, hand, received, failed)
  BY <1>2, <1>3 DEF Accounted
<1>5. handler.end # "completed"
  BY <1>1, <1>2 DEF Sound
<1>6. Places'
  BY <1>1, <1>2, <1>3 DEF Places, Nothing
<1> QED
  BY <1>1, <1>3, <1>4, <1>5, <1>6 DEF IngestInv, InflightIsExact, CompletedMeansAcked

\* The vehicle half-closes: with nothing in flight the stream completes at once.
LEMMA HalfCloseIngestInv ==
  ASSUME IngestAssumption, IngestInv, NEW ok \in BOOLEAN, HalfClose(ok)
  PROVE  IngestInv' /\ Later(handler, handler')
<1> USE IngestAssumption
<1> DEFINE h == [handler EXCEPT !.clientDone = TRUE]
<1>1. /\ sending /\ hand = Nothing /\ sending' = FALSE /\ handler' = FinishIfDone(h, ok)
      /\ UNCHANGED <<hand, pending, nextSeq, written, received, failed>>
  BY DEF HalfClose
<1>2. /\ Sound(handler, written) /\ Places /\ InflightIsExact
      /\ handler \in HandlerType /\ received \in SUBSET SeqNo
      /\ handler.inflight \in Int /\ IsFiniteSet(pending)
  BY IngestFacts DEF IngestInv, Places
<1> DEFINE yes == TRUE
<1>3. h = Recount(handler, handler.inflight, yes) /\ yes \in BOOLEAN
  BY <1>2 DEF Recount, HandlerType
<1> HIDE DEF yes
<1> HIDE DEF h
<1>4. /\ Sound(h, written)
      /\ h.inflight = handler.inflight /\ h.clientDone = yes
      /\ h.tracker = handler.tracker /\ h.closed = handler.closed
      /\ h.end = handler.end /\ h.acked = handler.acked /\ h.acks = handler.acks
  BY <1>2, <1>3, CountSound
<1>5. Later(handler, h) /\ h \in HandlerType
  BY <1>2, <1>4 DEF Later, Sound, HandlerType, None, SeqNo, IngestAssumption
<1>6. h.end # "completed"
  BY <1>1, <1>4 DEF IngestInv
<1>7. ~h.closed => Accounted(h, pending, hand, received, failed)
  BY <1>4 DEF IngestInv, Accounted
<1>8. h.inflight = Cardinality(pending) + (IF hand = Nothing THEN 0 ELSE 1)
  BY <1>2, <1>4 DEF InflightIsExact
<1>9. Finished(h, handler', written, pending, hand, received, failed)
  <2>1. Ready(h, written, pending, hand, received, failed)
    BY <1>1, <1>2, <1>4, <1>6, <1>7, <1>8 DEF Ready
  <2> QED
    BY <1>1, <2>1, FinishAccounted DEF h
<1>10. Later(handler, handler')
  BY <1>2, <1>5, <1>9, LaterTransitive DEF Sound, Finished
<1>11. Places'
  BY <1>1, <1>2, <1>4, <1>9 DEF Places, Nothing, Finished
<1> QED
  BY <1>1, <1>4, <1>8, <1>9, <1>10, <1>11
     DEF IngestInv, InflightIsExact, CompletedMeansAcked, Finished

\* The call is cancelled.
LEMMA CancelIngestInv ==
  ASSUME IngestAssumption, IngestInv, Cancel
  PROVE  IngestInv' /\ Later(handler, handler')
<1> USE IngestAssumption
<1>1. /\ hand = Nothing /\ ~handler.closed /\ sending' = FALSE
      /\ UNCHANGED <<hand, pending, nextSeq, written, received, failed>>
      /\ handler' = Fail(handler, "cancelled")
  BY DEF Cancel, Fail
<1>2. Sound(handler, written) /\ Places /\ InflightIsExact
  BY DEF IngestInv
<1>3. /\ Sound(handler', written) /\ handler'.closed
      /\ handler'.inflight = handler.inflight /\ handler'.clientDone = handler.clientDone
      /\ handler'.tracker = handler.tracker
      /\ Later(handler, handler')
      /\ handler'.end = "completed" => handler' = handler
  BY <1>1, <1>2, FailSound
<1>4. handler.end # "completed"
  BY <1>1, <1>2 DEF Sound
<1>5. Places'
  BY <1>1, <1>2, <1>3 DEF Places, Nothing
<1> QED
  BY <1>1, <1>2, <1>3, <1>4, <1>5 DEF IngestInv, InflightIsExact, CompletedMeansAcked

\* Every step, and no step at all.
LEMMA IngestStep ==
  IngestAssumption /\ IngestInv /\ [Next]_vars => IngestInv' /\ Later(handler, handler')
<1> SUFFICES ASSUME IngestAssumption, IngestInv, [Next]_vars
             PROVE  IngestInv' /\ Later(handler, handler')
  OBVIOUS
<1>1. ASSUME NEW s \in SeqNo, NEW kind \in Kind, Receive(s, kind)
      PROVE  IngestInv' /\ Later(handler, handler')
  BY <1>1, ReceiveIngestInv
<1>2. CASE Publish
  BY <1>2, PublishIngestInv
<1>3. CASE Refuse
  BY <1>3, RefuseIngestInv
<1>4. ASSUME NEW s \in SeqNo, KafkaAnswers(s)
      PROVE  IngestInv' /\ Later(handler, handler')
  BY <1>4, WrittenIngestInv, NotWrittenIngestInv DEF KafkaAnswers
<1>5. ASSUME NEW late \in BOOLEAN, NEW ok \in BOOLEAN, FlushTick(late, ok)
      PROVE  IngestInv' /\ Later(handler, handler')
  BY <1>5, FlushTickIngestInv
<1>6. ASSUME NEW ok \in BOOLEAN, HalfClose(ok)
      PROVE  IngestInv' /\ Later(handler, handler')
  BY <1>6, HalfCloseIngestInv
<1>7. CASE Cancel
  BY <1>7, CancelIngestInv
<1>8. CASE UNCHANGED vars
  <2>1. Later(handler, handler')
    BY <1>8, IngestFacts DEF Later, vars, HandlerType, None, SeqNo, IngestAssumption
  <2>2. IngestInv'
    BY <1>8 DEF IngestInv, vars, Sound, AckSent, Tracked, Accounted, Places, InflightIsExact,
                CompletedMeansAcked
  <2> QED
    BY <2>1, <2>2
<1> QED
  BY <1>1, <1>2, <1>3, <1>4, <1>5, <1>6, <1>7, <1>8 DEF Next

------------------------------------------------------------------------------
(* The theorems.                                                           *)

\* The inductive invariant, of which the safety properties are consequences.
THEOREM IngestInvariant == ASSUME IngestAssumption PROVE Spec => []IngestInv
<1>1. Init => IngestInv
  BY IngestInitially
<1>2. IngestInv /\ [Next]_vars => IngestInv'
  BY IngestStep
<1> QED
  BY <1>1, <1>2, PTL DEF Spec

\* What an ack says is true (everything from the first seq of the stream to it is in the
\* Kafka log), and a stream that completes has acknowledged all there was to.
THEOREM AcksExact == ASSUME IngestAssumption PROVE Spec => []AcksAreExact
<1>1. IngestInv => AcksAreExact
  <2> SUFFICES ASSUME IngestInv PROVE AcksAreExact
    OBVIOUS
  <2>1. Sound(handler, written) /\ CompletedMeansAcked
    BY DEF IngestInv
  <2>2. /\ handler.tracker.ack \in Int /\ handler.tracker.last \in Int
        /\ handler.tracker.start \in Int /\ handler.acked \in Int
    BY <2>1 DEF Sound, HandlerType, TrackerType, None, SeqNo, IngestAssumption
  <2>3. ASSUME handler.acked # None
        PROVE  handler.tracker.start..handler.acked \subseteq written
    <3>1. /\ handler.acked <= handler.tracker.ack
          /\ handler.tracker.start..handler.tracker.ack \subseteq written
      BY <2>1, <2>2, <2>3 DEF Sound, AckSent, Tracked
    <3> QED
      BY <2>2, <3>1
  <2> QED
    BY <2>1, <2>3 DEF AcksAreExact, AckedAreWritten
<1> QED
  BY <1>1, IngestInvariant, PTL

\* Every ack message is higher than the one before it, and none is sent on a stream
\* that is closed.
THEOREM AcksRise == ASSUME IngestAssumption PROVE Spec => AcksAdvance
<1>1. IngestInv /\ [Next]_vars =>
        [handler'.acks # handler.acks => handler'.acked > handler.acked /\ ~handler.closed]_vars
  BY IngestStep DEF Later
<1> QED
  BY <1>1, IngestInvariant, PTL DEF Spec, AcksAdvance

\* The in-flight count is the number of records that are being published or written, on
\* every path out of onNext() and of the callback: it neither leaks nor goes below zero.
THEOREM CountExact == ASSUME IngestAssumption PROVE Spec => []InflightIsExact
<1>1. IngestInv => InflightIsExact
  BY DEF IngestInv
<1> QED
  BY <1>1, IngestInvariant, PTL

------------------------------------------------------------------------------
(* The sink.  What a checkpoint covers is stored, and a row is inserted    *)
(* again at most twice for each failure: a record read is in the tables or *)
(* still in the buffer at every moment, and it has rows from before this   *)
(* batch only if something failed.                                         *)

SinkTypes ==
  /\ read \in 0..MaxRecord /\ saved \in 0..read /\ attempts \in Nat
  /\ ready \in {NoAnswer} \cup 0..read
  /\ buffer \in Seq(1..read)
  /\ rows \in [Record -> Nat]
  /\ todo \in {Kinds, <<0>>, <<>>}
  /\ at \in {"idle", "run", "checkpoint", "close"} /\ (at = "idle" => todo = <<>>)

\* The flush under way is past the table of record i.
PastTable(i) == at \in {"run", "checkpoint"} /\ i % 2 \notin Range(todo)

\* i is still to be inserted, by this flush or by the next.
StillDue(i) == i \in Range(buffer) /\ (at = "idle" \/ i % 2 \in Range(todo))

\* What was read is in the tables or in the buffer, and what the flush is past and
\* what a checkpoint covers is in the tables.
Stored ==
  /\ \A i \in 1..read : rows[i] > 0 \/ i \in Range(buffer)
  /\ \A i \in Range(buffer) : PastTable(i) => rows[i] > 0
  /\ \A i \in 1..saved : rows[i] > 0
  /\ ready # NoAnswer => \A i \in 1..ready : rows[i] > 0

\* A failure allows two rows more.  What is to be inserted keeps one in reserve, as does
\* all that may be read again.
Spared ==
  IF at = "close"
  THEN \A i \in Record : rows[i] <= 2 * attempts /\ (StillDue(i) => rows[i] < 2 * attempts)
  ELSE \A i \in Record : /\ rows[i] <= 1 + 2 * attempts
                         /\ StillDue(i) \/ i > read => rows[i] <= 2 * attempts

SinkInv == SinkTypes /\ Stored /\ Spared

------------------------------------------------------------------------------
(* Lemmas.                                                                 *)

\* The tables that a flush has before it.
LEMMA TodoIs ==
  /\ Range(<<>>) = {} /\ Range(<<0>>) = {0} /\ Range(Kinds) = {0, 1}
  /\ Head(Kinds) = 1 /\ Tail(Kinds) = <<0>> /\ Head(<<0>>) = 0 /\ Tail(<<0>>) = <<>>
BY DEF Range, Kinds

\* The buffer has what it had and what is appended.
LEMMA AppendedIs ==
  ASSUME NEW S, NEW b \in Seq(S), NEW x \in S
  PROVE  /\ Append(b, x) \in Seq(S) /\ Append(b, x) # <<>>
         /\ Range(Append(b, x)) = Range(b) \cup {x}
BY DEF Range

\* Every record is of one of the kinds that a flush inserts.
LEMMA KindsCover == \A i \in Int : i % 2 \in {0, 1}
OBVIOUS

\* A buffer holds records that were read.
LEMMA BufferIs ==
  ASSUME SinkAssumption, SinkTypes
  PROVE  Range(buffer) \subseteq 1..read /\ 1..read \subseteq Record
<1>1. Range(buffer) \subseteq 1..read
  BY DEF SinkTypes, Range
<1>2. 1..read \subseteq Record
  BY DEF SinkAssumption, SinkTypes, Record
<1> QED BY <1>1, <1>2

LEMMA SinkInitially == SinkAssumption /\ SinkInit => SinkInv
<1> SUFFICES ASSUME SinkAssumption, SinkInit PROVE SinkInv
  OBVIOUS
<1>1. Range(buffer) = {}
  BY DEF SinkInit, Range
<1> QED BY <1>1 DEF SinkAssumption, SinkInit, SinkInv, SinkTypes, Stored, Spared, StillDue, Record, NoAnswer

LEMMA InvokeSinkInv == SinkAssumption /\ SinkInv /\ Invoke => SinkInv'
<1> SUFFICES ASSUME SinkAssumption, SinkInv, Invoke PROVE SinkInv'
  OBVIOUS
<1> USE DEF SinkAssumption, SinkInv, Invoke, Flush
<1>1. read + 1 \in Record /\ buffer \in Seq(1..(read + 1))
  BY DEF SinkTypes, Record
<1>2. /\ buffer' \in Seq(1..(read + 1)) /\ buffer' # <<>>
      /\ Range(buffer') = Range(buffer) \cup {read + 1}
  BY <1>1, AppendedIs DEF SinkTypes
<1>3. SinkTypes'
  BY <1>2 DEF SinkTypes, Kinds
<1>4. (todo' = <<>> /\ at' = "idle") \/ (todo' = Kinds /\ at' = "run")
  <2>1. at = "idle" /\ todo = <<>>
    BY DEF SinkTypes
  <2>2. (at' = "run" /\ todo' = Kinds) \/ (at' = at /\ todo' = todo)
    BY <1>2
  <2> QED BY <2>1, <2>2, Zenon
<1>5. \A i \in Range(buffer') : i % 2 \in {0, 1} /\ ~PastTable(i)'
  <2>1. Range(buffer') \subseteq Int
    BY <1>2, BufferIs DEF SinkTypes
  <2>2. \A i \in Int : ~PastTable(i)'
    <3>1. CASE todo' = <<>> /\ at' = "idle"
      BY <3>1 DEF PastTable
    <3>2. CASE todo' = Kinds /\ at' = "run"
      BY <3>2, TodoIs, KindsCover DEF PastTable
    <3> QED BY <1>4, <3>1, <3>2
  <2> QED BY <2>1, <2>2, KindsCover
<1>6. Stored'
  BY <1>2, <1>5 DEF SinkTypes, Stored
<1>7. Spared'
  <2>1. \A i \in Record : StillDue(i)' => i > read \/ StillDue(i)
    BY <1>2, BufferIs DEF StillDue, SinkTypes
  <2>2. \A i \in Record : i \in Int /\ rows'[i] = rows[i] /\ rows[i] \in Nat
    BY DEF SinkTypes, Record
  <2>3. /\ attempts' = attempts /\ attempts \in Nat /\ read \in Int /\ read' = read + 1
        /\ at = "idle" /\ at' # "close"
    BY <1>4 DEF SinkTypes
  <2>4. \A i \in Record : i > read' => i > read
    BY <2>2, <2>3
  <2> QED BY <2>1, <2>2, <2>3, <2>4 DEF Spared
<1> QED BY <1>3, <1>6, <1>7

LEMMA InsertSinkInv == SinkAssumption /\ SinkInv /\ Insert => SinkInv'
<1> SUFFICES ASSUME SinkAssumption, SinkInv, Insert PROVE SinkInv'
  OBVIOUS
<1> USE DEF SinkInv, Insert
<1>1. /\ at # "idle"
      /\ (todo = Kinds /\ todo' = <<0>>) \/ (todo = <<0>> /\ todo' = <<>>)
  <2>1. todo = Kinds \/ todo = <<0>>
    BY Zenon DEF SinkTypes
  <2>2. todo' = Tail(todo) /\ todo # <<>> /\ (at = "idle" => todo = <<>>)
    BY DEF SinkTypes
  <2> QED BY <2>1, <2>2, TodoIs, Zenon
<1>2. Range(todo) = {Head(todo)} \cup Range(todo') /\ Head(todo) \notin Range(todo')
  <2>1. CASE todo = Kinds /\ todo' = <<0>>
    <3>1. Range(todo) = {0, 1} /\ Head(todo) = 1 /\ Range(todo') = {0}
      BY <2>1, TodoIs, Zenon
    <3> QED BY <3>1
  <2>2. CASE todo = <<0>> /\ todo' = <<>>
    <3>1. Range(todo) = {0} /\ Head(todo) = 0 /\ Range(todo') = {}
      BY <2>2, TodoIs, Zenon
    <3> QED BY <3>1
  <2> QED BY <1>1, <2>1, <2>2
<1>3. \A i \in Record : rows[i] \in Nat /\ rows'[i] =
        IF i \in Range(buffer) /\ i % 2 = Head(todo) THEN rows[i] + 1 ELSE rows[i]
  BY DEF SinkTypes, OfKind
<1>4. SinkTypes'
  <2>1. rows' \in [Record -> Nat]
    BY DEF SinkTypes
  <2> QED BY <1>1, <2>1 DEF SinkTypes
<1>5. Stored'
  BY <1>2, <1>3, BufferIs DEF SinkTypes, Stored, PastTable
<1>6. Spared'
  <2>1. \A i \in Record : StillDue(i)' => StillDue(i) /\ rows'[i] = rows[i]
    BY <1>1, <1>2, <1>3 DEF StillDue
  <2>2. \A i \in Record : rows'[i] # rows[i] => StillDue(i) /\ rows'[i] = rows[i] + 1
    BY <1>2, <1>3 DEF StillDue
  <2>3. \A i \in Record : StillDue(i) => i <= read
    BY BufferIs DEF StillDue
  <2>4. /\ attempts' = attempts /\ read' = read /\ at' = at
        /\ attempts \in Nat /\ read \in Int
    BY DEF SinkTypes
  <2>5. \A i \in Record : i \in Int /\ rows'[i] \in Nat
    BY <1>3 DEF Record
  <2>6. CASE at = "close"
    BY <1>3, <2>1, <2>2, <2>4, <2>5, <2>6 DEF Spared
  <2>7. CASE at # "close"
    BY <1>3, <2>1, <2>2, <2>3, <2>4, <2>5, <2>7 DEF Spared
  <2> QED BY <2>6, <2>7
<1> QED BY <1>4, <1>5, <1>6

LEMMA FlushedSinkInv == SinkAssumption /\ SinkInv /\ Flushed => SinkInv'
<1> SUFFICES ASSUME SinkAssumption, SinkInv, Flushed PROVE SinkInv'
  OBVIOUS
<1> USE DEF SinkInv, Flushed, Cleared
<1>1. Range(buffer') = {} /\ Range(todo) = {}
  BY TodoIs
<1>2. SinkTypes'
  BY DEF SinkTypes
<1>3. \A i \in 1..read : rows[i] > 0
  BY <1>1 DEF Stored, PastTable
<1>4. Stored'
  BY <1>1, <1>3 DEF SinkTypes, Stored
<1>5. Spared'
  BY <1>1 DEF Spared, StillDue
<1> QED BY <1>2, <1>4, <1>5

LEMMA BarrierSinkInv == SinkAssumption /\ SinkInv /\ Barrier => SinkInv'
<1> SUFFICES ASSUME SinkAssumption, SinkInv, Barrier PROVE SinkInv'
  OBVIOUS
<1> USE DEF SinkInv, Barrier, Snapshot, Flush
<1>1. SinkTypes'
  BY DEF SinkTypes
<1>2. \A i \in Range(buffer) : i % 2 \in {0, 1} /\ buffer # <<>>
  BY KindsCover, BufferIs DEF Range
<1>3. \A i \in Range(buffer) : i % 2 \in Range(todo')
  BY <1>2, TodoIs
<1>4. Stored'
  BY <1>3 DEF Stored, PastTable
<1>5. Spared'
  BY DEF Spared, StillDue
<1> QED BY <1>1, <1>4, <1>5

LEMMA CompleteSinkInv == SinkInv /\ (CompleteCheckpoint \/ GiveUp) => SinkInv'
BY DEF SinkInv, CompleteCheckpoint, GiveUp, SinkTypes, Stored, Spared, StillDue, PastTable, NoAnswer

LEMMA FailSinkInv == ASSUME NEW inserted \in BOOLEAN PROVE SinkAssumption /\ SinkInv /\ TaskFails(inserted) => SinkInv'
<1> SUFFICES ASSUME SinkAssumption, SinkInv, TaskFails(inserted) PROVE SinkInv'
  OBVIOUS
<1> USE DEF SinkInv, TaskFails, Flush
<1>1. \A i \in Record : rows[i] \in Nat /\ rows'[i] \in Nat
  BY DEF SinkTypes
<1>2. SinkTypes'
  BY DEF SinkTypes
<1>3. \A i \in Record : rows'[i] >= rows[i]
  BY <1>1
<1>4. Stored'
  BY <1>1, <1>3, BufferIs DEF SinkTypes, Stored, PastTable, NoAnswer
<1>5. \A i \in Record : rows'[i] <= 1 + 2 * attempts
  <2>1. inserted => Head(todo) \in Range(todo)
    BY TodoIs DEF SinkTypes
  <2>2. \A i \in Record : rows'[i] # rows[i] => StillDue(i) /\ rows'[i] = rows[i] + 1
    BY <1>1, <2>1 DEF StillDue, OfKind
  <2> QED BY <1>1, <2>2 DEF SinkTypes, Spared
<1>6. Spared'
  BY <1>1, <1>5 DEF SinkTypes, Spared
<1> QED BY <1>2, <1>4, <1>6

LEMMA RestoreSinkInv == SinkAssumption /\ SinkInv /\ Restore => SinkInv'
<1> SUFFICES ASSUME SinkAssumption, SinkInv, Restore PROVE SinkInv'
  OBVIOUS
<1> USE DEF SinkInv, Restore
<1>1. Range(buffer') = {}
  BY TodoIs
<1>2. SinkTypes'
  <2>1. buffer' \in Seq(1..read') /\ todo' = <<>>
    OBVIOUS
  <2> QED BY <2>1 DEF SinkAssumption, SinkTypes
<1>3. Stored'
  BY <1>1 DEF SinkTypes, Stored, NoAnswer
<1>4. Spared'
  BY <1>1 DEF SinkTypes, Spared, StillDue
<1> QED BY <1>2, <1>3, <1>4

\* Every step keeps the invariant.
LEMMA SinkStep == SinkAssumption /\ SinkInv /\ [SinkNext]_sinkVars => SinkInv'
<1> SUFFICES ASSUME SinkAssumption, SinkInv, [SinkNext]_sinkVars PROVE SinkInv'
  OBVIOUS
<1>1. CASE UNCHANGED sinkVars
  BY <1>1 DEF sinkVars, SinkInv, SinkTypes, Stored, Spared, StillDue, PastTable
<1>2. CASE SinkNext
  BY <1>2, InvokeSinkInv, InsertSinkInv, FlushedSinkInv, BarrierSinkInv, CompleteSinkInv, FailSinkInv, RestoreSinkInv
  DEF SinkNext
<1> QED BY <1>1, <1>2

------------------------------------------------------------------------------
(* Theorems.                                                               *)

\* The inductive invariant holds at every moment.
THEOREM SinkInvariant == ASSUME SinkAssumption PROVE SinkSpec => []SinkInv
<1>1. SinkInit => SinkInv
  BY SinkInitially
<1>2. SinkInv /\ [SinkNext]_sinkVars => SinkInv'
  BY SinkStep
<1> QED BY <1>1, <1>2, PTL DEF SinkSpec

\* ClickHouseSink.snapshotState() answers only when all the rows before the barrier are
\* inserted, so that a checkpoint never covers a record that is nowhere; and the rows
\* that a failure repeats are two of each record at most.
THEOREM StoresExactly == ASSUME SinkAssumption PROVE SinkSpec => []StoredExactly
<1>1. SinkInv => StoredExactly
  BY DEF SinkInv, SinkTypes, Stored, Spared, StoredExactly, CheckpointIsStored, DuplicatesBounded
<1> QED BY <1>1, SinkInvariant, PTL

------------------------------------------------------------------------------
(* Live alerts.  A tab has one connection, a connected tab misses nothing  *)
(* that the hub keeps, and its board shows the latest alert while no id    *)
(* was forgotten.  Order survives repetition: whatever the topic repeats,  *)
(* the hub keeps a run of consecutive alerts, so one id tells it where the *)
(* browser stands.                                                         *)

Alert == 1..MaxAlert

LiveTypes ==
  /\ topic \in Seq(Alert) /\ offset \in 0..Len(topic)
  /\ recent \in Seq(Alert) /\ wire \in Seq(Alert)
  /\ lastId \in {NoId} \cup Alert /\ link \in {"none", "connecting", "open", "broken"}
  /\ timer \in BOOLEAN /\ visible \in BOOLEAN /\ board \in BOOLEAN
  /\ feed \in Seq({Other} \cup Alert)
  /\ seen \subseteq Alert /\ evicted \subseteq Alert

\* Each element is one more than the one before.
Consecutive(s) == \A k \in 1..Len(s) : s[k] = s[1] + k - 1

\* The alert that the hub published last.
Top == IF recent = <<>> THEN NoId ELSE recent[Len(recent)]

\* The job publishes no alert before those that lead to it, and goes back less than
\* Rewind.
Rising(t) ==
  /\ \A k \in 1..Len(t) : \A a \in 1..(t[k] - 1) : \E j \in 1..(k - 1) : t[j] = a
  /\ \A k \in 1..Len(t) : \A j \in 1..(k - 1) : t[j] - t[k] < Rewind

\* What the hub keeps is a run that ends with the greatest alert it has read, as long as
\* its capacity allows; it dropped what is below.
Kept ==
  /\ Consecutive(recent) /\ Len(recent) <= History
  /\ \A k \in 1..offset : topic[k] <= Top
  /\ recent # <<>> => /\ \E j \in 1..offset : topic[j] = Top
                      /\ recent[1] = 1 \/ Len(recent) = History
                      /\ 1..(recent[1] - 1) \subseteq evicted

\* The browser has received the alerts below lastId and below what is on its way, but for
\* those that the hub dropped; on an open connection what is on its way leads to the
\* last alert of the hub.
Behindhand ==
  /\ Consecutive(wire)
  /\ 1..lastId \subseteq seen \cup evicted
  /\ wire # <<>> => 1..(wire[1] - 1) \subseteq seen \cup evicted
  /\ link = "open" => IF wire = <<>> THEN 1..Top \subseteq seen \cup evicted
                                     ELSE wire[Len(wire)] = Top
  /\ \A i \in seen : 1..i \subseteq seen \cup evicted

\* An id that was received is in the feed, or was forgotten.
Remembered ==
  /\ seen \subseteq Range(feed) \cup forgot
  /\ Range(feed) \subseteq seen \cup {Other}

LiveInv ==
  /\ LiveTypes /\ OneConnection
  /\ Rising(topic) /\ Kept /\ Behindhand
  /\ Remembered /\ BoardFollows

------------------------------------------------------------------------------
(* Lemmas about runs.                                                      *)

\* A run is an interval.
LEMMA RunIs ==
  ASSUME NEW s \in Seq(Int), Consecutive(s), s # <<>>
  PROVE  /\ Len(s) \in Nat \ {0} /\ s[1] \in Int /\ s[Len(s)] = s[1] + Len(s) - 1
         /\ Range(s) = s[1]..s[Len(s)]
<1>1. Len(s) \in Nat \ {0} /\ \A k \in 1..Len(s) : s[k] \in Int
  OBVIOUS
<1>2. s[Len(s)] = s[1] + Len(s) - 1
  BY <1>1 DEF Consecutive
<1>3. Range(s) \subseteq s[1]..s[Len(s)]
  <2>1. \A k \in 1..Len(s) : s[k] \in s[1]..s[Len(s)]
    BY <1>1, <1>2 DEF Consecutive
  <2>2. DOMAIN s = 1..Len(s)
    OBVIOUS
  <2> QED BY <2>1, <2>2, Zenon DEF Range
<1>4. ASSUME NEW x \in s[1]..s[Len(s)] PROVE x \in Range(s)
  <2>1. x - s[1] + 1 \in 1..Len(s)
    BY <1>1, <1>2
  <2>2. s[x - s[1] + 1] = x
    BY <1>1, <2>1 DEF Consecutive
  <2> QED BY <2>1, <2>2 DEF Range
<1>5. Range(s) = s[1]..s[Len(s)]
  BY <1>3, <1>4, Zenon
<1>6. s[1] \in Int
  BY <1>1
<1> QED BY <1>1, <1>2, <1>5, <1>6

\* What is appended in order makes the run longer.
LEMMA RunGrows ==
  ASSUME NEW s \in Seq(Int), Consecutive(s), NEW x \in Int, s # <<>> => x = s[Len(s)] + 1
  PROVE  /\ Consecutive(Append(s, x)) /\ Append(s, x) # <<>>
         /\ Append(s, x)[1] = IF s = <<>> THEN x ELSE s[1]
         /\ Append(s, x)[Len(Append(s, x))] = x
         /\ Len(Append(s, x)) = Len(s) + 1
<1> DEFINE t == Append(s, x)
<1>1. /\ t \in Seq(Int) /\ Len(s) \in Nat /\ Len(t) = Len(s) + 1 /\ t # <<>>
      /\ t[Len(t)] = x /\ \A k \in 1..Len(s) : t[k] = s[k]
  <2>1. t \in Seq(Int) /\ Len(s) \in Nat /\ Len(t) = Len(s) + 1
    OBVIOUS
  <2>2. t # <<>>
    OBVIOUS
  <2>3. t[Len(s) + 1] = x
    OBVIOUS
  <2>4. \A k \in 1..Len(s) : t[k] = s[k]
    OBVIOUS
  <2> HIDE DEF t
  <2> QED BY <2>1, <2>2, <2>3, <2>4
<1>2. CASE s = <<>>
  <2>1. Len(s) = 0
    BY <1>2
  <2> QED BY <1>1, <1>2, <2>1 DEF Consecutive
<1>3. CASE s # <<>>
  <2>1. Len(s) \in Nat \ {0} /\ t[1] = s[1] /\ s[1] \in Int /\ x = s[1] + Len(s)
    BY <1>1, <1>3, RunIs
  <2>2. ASSUME NEW k \in 1..Len(t) PROVE t[k] = t[1] + k - 1
    <3>1. k \in 1..Len(s) \/ k = Len(s) + 1
      BY <1>1
    <3>2. CASE k \in 1..Len(s)
      BY <1>1, <2>1, <3>2 DEF Consecutive
    <3>3. CASE k = Len(s) + 1
      BY <1>1, <2>1, <3>3
    <3> QED BY <3>1, <3>2, <3>3
  <2>3. Consecutive(t)
    BY <2>2, Zenon DEF Consecutive
  <2> QED BY <1>1, <1>3, <2>1, <2>3
<1> QED BY <1>2, <1>3

\* And its tail begins one later.
LEMMA RunShrinks ==
  ASSUME NEW s \in Seq(Int), Consecutive(s), s # <<>>
  PROVE  /\ Consecutive(Tail(s)) /\ Len(Tail(s)) = Len(s) - 1
         /\ Tail(s) # <<>> => /\ Tail(s)[1] = s[1] + 1
                              /\ Tail(s)[Len(Tail(s))] = s[Len(s)]
         /\ Tail(s) = <<>> => s[Len(s)] = s[1]
         /\ Range(Tail(s)) = Range(s) \ {s[1]}
<1>1. /\ Tail(s) \in Seq(Int) /\ Len(s) \in Nat \ {0} /\ Len(Tail(s)) = Len(s) - 1
      /\ \A k \in 1..Len(Tail(s)) : Tail(s)[k] = s[k + 1]
  OBVIOUS
<1>2. Consecutive(Tail(s))
  BY <1>1 DEF Consecutive
<1>3. Tail(s) # <<>> => Tail(s)[1] = s[1] + 1 /\ Tail(s)[Len(Tail(s))] = s[Len(s)]
  BY <1>1 DEF Consecutive
<1>4. Tail(s) = <<>> => s[Len(s)] = s[1]
  <2>1. Len(<<>>) = 0
    OBVIOUS
  <2>2. Tail(s) = <<>> => Len(Tail(s)) = 0
    BY <2>1, Zenon
  <2> QED BY <1>1, <2>2
<1>5. Range(Tail(s)) = Range(s) \ {s[1]}
  <2>1. CASE Tail(s) = <<>>
    BY <1>4, <2>1, RunIs DEF Range
  <2>2. CASE Tail(s) # <<>>
    <3>1. Range(Tail(s)) = (s[1] + 1)..s[Len(s)]
      BY <1>1, <1>2, <1>3, <2>2, RunIs
    <3>2. Range(s) = s[1]..s[Len(s)] /\ s[1] \in Int /\ s[Len(s)] \in Int
      BY RunIs
    <3> QED BY <3>1, <3>2
  <2> QED BY <2>1, <2>2
<1> QED BY <1>1, <1>2, <1>3, <1>4, <1>5

\* A sequence over a set is one over a greater set.
LEMMA WiderSeq ==
  ASSUME NEW S, NEW T, S \subseteq T, NEW s \in Seq(S)
  PROVE  s \in Seq(T)
<1>1. Len(s) \in Nat /\ s \in [1..Len(s) -> S]
  OBVIOUS
<1>2. s \in [1..Len(s) -> T]
  BY <1>1
<1> QED BY <1>1, <1>2

\* The greatest of a set of alerts.
LEMMA LatestIs ==
  ASSUME MaxAlert \in Nat, NEW ids, ids \subseteq Alert
  PROVE  /\ Latest(ids) \in 0..MaxAlert /\ \A a \in ids : a <= Latest(ids)
         /\ ids # {} => Latest(ids) \in ids
         /\ ids = {} => Latest(ids) = 0
<1>1. CASE ids = {}
  BY <1>1 DEF Latest, NoId
<1>2. CASE ids # {}
  <2>1. 1 \in Int /\ MaxAlert \in Int /\ ids \subseteq 1..MaxAlert
    BY DEF Alert
  <2>2. Max(ids) \in ids /\ \A a \in ids : a <= Max(ids)
    BY <1>2, <2>1, MaxIsGreatest, Zenon
  <2>3. Latest(ids) = Max(ids)
    BY <1>2 DEF Latest
  <2>4. \A a \in ids : a \in 0..MaxAlert
    BY <2>1
  <2> QED BY <1>2, <2>2, <2>3, <2>4, Zenon
<1> QED BY <1>1, <1>2

\* The shape of the state.
LEMMA Facts ==
  ASSUME LiveAssumption, LiveTypes
  PROVE  /\ MaxAlert \in Nat \ {0} /\ History \in Nat \ {0} /\ Rewind \in Nat /\ Rewind <= History
         /\ topic \in Seq(Int) /\ Len(topic) \in Nat /\ offset \in Nat /\ offset <= Len(topic)
         /\ \A k \in 1..Len(topic) : topic[k] \in Alert
         /\ recent \in Seq(Int) /\ wire \in Seq(Int) /\ lastId \in Nat
         /\ Top \in 0..MaxAlert /\ (recent # <<>> => recent[1] \in Alert)
         /\ Range(recent) \subseteq Alert /\ Range(wire) \subseteq Alert
         /\ Len(recent) \in Nat /\ Len(wire) \in Nat /\ Top \in Nat /\ Alert \subseteq Nat \ {0}
<1>1. /\ MaxAlert \in Nat \ {0} /\ History \in Nat \ {0} /\ Rewind \in Nat /\ Rewind <= History
      /\ Alert \subseteq Int
  BY DEF LiveAssumption, Alert
<1>2. topic \in Seq(Int) /\ recent \in Seq(Int) /\ wire \in Seq(Int)
  BY <1>1, WiderSeq DEF LiveTypes
<1>3. /\ Len(topic) \in Nat /\ offset \in Nat /\ offset <= Len(topic)
      /\ \A k \in 1..Len(topic) : topic[k] \in Alert
  BY DEF LiveTypes
<1>4. recent # <<>> => recent[1] \in Alert /\ recent[Len(recent)] \in Alert
  BY DEF LiveTypes
<1>5. Range(recent) \subseteq Alert /\ Range(wire) \subseteq Alert
  BY DEF LiveTypes, Range
<1>6. Top \in 0..MaxAlert
  BY <1>1, <1>4 DEF Top, NoId, Alert
<1>7. lastId \in Nat
  BY <1>1 DEF LiveTypes, NoId, Alert
<1>8. Len(recent) \in Nat /\ Len(wire) \in Nat
  BY <1>2
<1>9. Alert \subseteq Nat \ {0} /\ Top \in Nat
  BY <1>6 DEF Alert
<1> QED BY <1>1, <1>2, <1>3, <1>4, <1>5, <1>6, <1>7, <1>8, <1>9

------------------------------------------------------------------------------
(* The job and the hub.                                                    *)

LEMMA LiveInitially == LiveAssumption /\ LiveInit => LiveInv
<1> SUFFICES ASSUME LiveAssumption, LiveInit PROVE LiveInv
  OBVIOUS
<1> USE DEF LiveInit
<1>1. Len(<<>>) = 0 /\ Range(<<>>) = {} /\ (\A S : <<>> \in Seq(S)) /\ 1..0 = {}
  BY DEF Range
<1>2. topic = <<>> /\ recent = <<>> /\ wire = <<>> /\ feed = <<>> /\ Top = 0 /\ lastId = 0
  BY DEF Top, NoId
<1>3. LiveTypes
  <2>1. offset \in 0..Len(topic)
    BY <1>1, <1>2
  <2> QED BY <1>1, <1>2, <2>1 DEF LiveTypes
<1>4. Rising(topic)
  BY <1>1, <1>2 DEF Rising
<1>5. Kept /\ Behindhand
  BY <1>1, <1>2 DEF Kept, Behindhand, Consecutive, LiveAssumption
<1>6. Remembered /\ BoardFollows
  BY <1>1 DEF Remembered, BoardFollows, Latest, NoId, Raises
<1>7. OneConnection
  BY DEF OneConnection
<1> QED BY <1>3, <1>4, <1>5, <1>6, <1>7 DEF LiveInv

\* A job that goes on from its last alert, or from one before, keeps its topic rising.
LEMMA TopicGoesOn ==
  ASSUME Rewind \in Nat, NEW t \in Seq(Nat), Rising(t),
         NEW last \in Nat, \A k \in 1..Len(t) : t[k] <= last,
         last # 0 => \E k \in 1..Len(t) : t[k] = last,
         NEW from \in 1..(last + 1), NEW n \in Nat, from + n <= last + 2, last - from < Rewind,
         NEW u \in Seq(Nat), Len(u) = Len(t) + n,
         \A k \in 1..Len(t) : u[k] = t[k],
         \A k \in 1..n : u[Len(t) + k] = from + k - 1
  PROVE  Rising(u)
<1> DEFINE m == Len(t)
<1>1. /\ m \in Nat /\ Len(u) = m + n /\ \A k \in 1..m : t[k] \in Nat /\ t[k] <= last /\ u[k] = t[k]
      /\ \A k \in (m + 1)..(m + n) : u[k] = from + (k - m) - 1
  <2>1. m \in Nat /\ \A k \in (m + 1)..(m + n) : k - m \in 1..n /\ k = m + (k - m)
    OBVIOUS
  <2>2. \A k \in (m + 1)..(m + n) : u[k] = from + (k - m) - 1
    BY <2>1
  <2> QED BY <2>1, <2>2
<1>2. \A a \in 1..last : \E j \in 1..m : t[j] = a
  <2> SUFFICES ASSUME NEW a \in 1..last PROVE \E j \in 1..m : t[j] = a
    OBVIOUS
  <2>1. PICK k \in 1..m : t[k] = last
    OBVIOUS
  <2>2. CASE a = last
    BY <2>1, <2>2
  <2>3. CASE a # last
    <3>1. k \in 1..Len(t) /\ a \in 1..(t[k] - 1)
      BY <2>1, <2>3
    <3>2. PICK j \in 1..(k - 1) : t[j] = a
      BY <3>1 DEF Rising
    <3>3. j \in 1..m
      BY <2>1
    <3> QED BY <3>2, <3>3
  <2> QED BY <2>2, <2>3
<1> HIDE DEF m
<1>3. ASSUME NEW k \in 1..(m + n), NEW a \in 1..(u[k] - 1)
      PROVE  \E j \in 1..(k - 1) : u[j] = a
  <2>1. CASE k <= m
    <3>1. k \in 1..Len(t) /\ a \in 1..(t[k] - 1)
      BY <1>1, <2>1 DEF m
    <3>2. PICK j \in 1..(k - 1) : t[j] = a
      BY <3>1 DEF Rising
    <3>3. j \in 1..m
      BY <1>1, <2>1
    <3>4. u[j] = a
      BY <1>1, <3>2, <3>3
    <3> QED BY <3>4
  <2>2. CASE k > m /\ a <= last
    <3>1. a \in 1..last
      BY <2>2
    <3>2. PICK j \in 1..m : t[j] = a
      BY <1>2, <3>1
    <3>3. u[j] = a
      BY <1>1, <3>2
    <3>4. j \in 1..(k - 1)
      BY <1>1, <2>2
    <3> QED BY <3>3, <3>4
  <2>3. CASE k > m /\ a > last
    <3>1. k \in (m + 1)..(m + n)
      BY <1>1, <2>3
    <3>2. u[k] = from + (k - m) - 1
      BY <1>1, <3>1
    <3>3. a = last + 1 /\ k - 1 \in (m + 1)..(m + n) /\ from + (k - 1 - m) - 1 = a
      BY <1>1, <2>3, <3>1, <3>2
    <3>4. u[k - 1] = a /\ k - 1 \in 1..(k - 1)
      BY <1>1, <3>3
    <3> QED BY <3>4
  <2> QED BY <1>1, <2>1, <2>2, <2>3
<1>4. ASSUME NEW k \in 1..(m + n), NEW j \in 1..(k - 1) PROVE u[j] - u[k] < Rewind
  <2>1. CASE k <= m
    <3>1. k \in 1..m /\ j \in 1..m
      BY <1>1, <2>1
    <3>2. t[j] - t[k] < Rewind
      BY <3>1 DEF Rising, m
    <3>3. u[j] = t[j] /\ u[k] = t[k]
      BY <1>1, <3>1
    <3> QED BY <3>2, <3>3
  <2>2. CASE k > m /\ j <= m
    <3>1. k \in (m + 1)..(m + n) /\ j \in 1..m
      BY <1>1, <2>2
    <3>2. u[k] = from + (k - m) - 1 /\ u[j] \in Nat /\ u[j] <= last
      BY <1>1, <3>1
    <3>3. \A a \in Nat : a <= last => a - (from + (k - m) - 1) < Rewind
      BY <1>1, <3>1
    <3> QED BY <3>2, <3>3, Zenon
  <2>3. CASE j > m
    <3>1. k \in (m + 1)..(m + n) /\ j \in (m + 1)..(m + n)
      BY <1>1, <2>3
    <3>2. u[k] = from + (k - m) - 1 /\ u[j] = from + (j - m) - 1
      BY <1>1, <3>1
    <3>3. k \in Int /\ j \in Int /\ m \in Int /\ from \in Int /\ j < k
      BY <1>1, <2>3
    <3>4. (from + (j - m) - 1) - (from + (k - m) - 1) < Rewind
      BY <3>3
    <3> QED BY <3>2, <3>4, Zenon
  <2> QED BY <1>1, <2>1, <2>2, <2>3
<1> QED BY <1>1, <1>3, <1>4 DEF Rising

\* The last alert of the topic is the greatest of it.
LEMMA LastIs ==
  ASSUME LiveAssumption, LiveTypes, NEW last, last = Latest(Range(topic))
  PROVE  /\ MaxAlert \in Nat /\ Rewind \in Nat /\ last \in 0..MaxAlert /\ topic \in Seq(Nat)
         /\ \A k \in 1..Len(topic) : topic[k] <= last
         /\ last # 0 => \E k \in 1..Len(topic) : topic[k] = last
<1>1. MaxAlert \in Nat /\ Rewind \in Nat
  BY DEF LiveAssumption
<1>2. Range(topic) \subseteq Alert /\ \A a : a \in Range(topic) <=> \E k \in 1..Len(topic) : topic[k] = a
  BY DEF LiveTypes, Range
<1>3. /\ last \in 0..MaxAlert /\ \A a \in Range(topic) : a <= last
      /\ last # 0 => last \in Range(topic)
  <2> HIDE DEF Alert
  <2> QED BY <1>1, <1>2, LatestIs
<1>4. topic \in Seq(Nat)
  <2>1. Alert \subseteq Nat /\ topic \in Seq(Alert)
    BY DEF LiveTypes, Alert
  <2> QED BY <2>1, WiderSeq
<1> QED BY <1>1, <1>2, <1>3, <1>4

\* A topic that goes on leaves what was read as it is.
LEMMA TopicInv ==
  ASSUME LiveAssumption, LiveInv, Rising(topic'), topic' \in Seq(Alert), Len(topic') >= Len(topic),
         \A k \in 1..Len(topic) : topic'[k] = topic[k],
         UNCHANGED <<offset, recent, client, wire, store, evicted>>
  PROVE  LiveInv'
<1> USE DEF LiveInv, client, store
<1>1. LiveTypes'
  <2>1. offset \in Nat /\ Len(topic) \in Nat /\ Len(topic') \in Nat /\ offset <= Len(topic)
    BY Facts
  <2> QED BY <2>1 DEF LiveTypes
<1>2. Kept'
  <2>1. \A k \in 1..offset : topic'[k] = topic[k]
    BY Facts
  <2>2. Top' = Top
    BY DEF Top
  <2> QED BY <2>1, <2>2 DEF Kept, Consecutive
<1>3. OneConnection' /\ Behindhand' /\ Remembered' /\ BoardFollows'
  BY DEF OneConnection, Behindhand, Consecutive, Top, Remembered, BoardFollows
<1> QED BY <1>1, <1>2, <1>3

LEMMA ProduceInv == LiveAssumption /\ LiveInv /\ Produce => LiveInv'
<1> SUFFICES ASSUME LiveAssumption, LiveInv, Produce PROVE LiveInv'
  OBVIOUS
<1>1. PICK last : last = Latest(Range(topic)) /\ last < MaxAlert /\ topic' = Append(topic, last + 1)
  BY DEF Produce
<1>2. /\ MaxAlert \in Nat /\ Rewind \in Nat /\ last \in 0..MaxAlert /\ topic \in Seq(Nat)
      /\ \A k \in 1..Len(topic) : topic[k] <= last
      /\ last # 0 => \E k \in 1..Len(topic) : topic[k] = last
  BY <1>1, LastIs DEF LiveInv
<1>3. last \in Nat /\ last + 1 \in Alert
  BY <1>1, <1>2 DEF Alert
<1>4. /\ topic' \in Seq(Alert) /\ topic' \in Seq(Nat) /\ Len(topic') = Len(topic) + 1
      /\ Len(topic) \in Nat
      /\ \A k \in 1..Len(topic) : topic'[k] = topic[k]
      /\ topic'[Len(topic) + 1] = last + 1
  BY <1>1, <1>2, <1>3 DEF LiveInv, LiveTypes
<1>5. Rising(topic')
  <2>1. PICK from : from = last + 1
    OBVIOUS
  <2>2. PICK n \in Nat : n = 1
    OBVIOUS
  <2>3. \A k \in 1..n : topic'[Len(topic) + k] = from + k - 1
    BY <1>3, <1>4, <2>1, <2>2
  <2>4. from \in 1..(last + 1) /\ from + n <= last + 2 /\ last - from < Rewind
    BY <1>2, <1>3, <2>1, <2>2
  <2>5. Rising(topic) /\ last \in Nat
    BY <1>3 DEF LiveInv
  <2>6. Len(topic') = Len(topic) + n /\ \A k \in 1..Len(topic) : topic'[k] = topic[k]
    BY <1>4, <2>2
  <2>7. topic' \in Seq(Nat)
    BY <1>4
  <2> QED BY <1>2, <2>3, <2>4, <2>5, <2>6, <2>7, TopicGoesOn
<1>6. Len(topic') >= Len(topic) /\ UNCHANGED <<offset, recent, client, wire, store, evicted>>
  BY <1>4 DEF Produce
<1> QED BY <1>4, <1>5, <1>6, TopicInv

LEMMA RestoreInv ==
  ASSUME LiveAssumption, LiveInv, NEW from \in 1..MaxAlert, RestoreJob(from)
  PROVE  LiveInv'
<1>1. PICK last : /\ last = Latest(Range(topic)) /\ from \in 1..last /\ last - from < Rewind
                  /\ topic' = topic \o [k \in 1..(last - from + 1) |-> from + k - 1]
  BY DEF RestoreJob
<1>2. /\ MaxAlert \in Nat /\ Rewind \in Nat /\ last \in 0..MaxAlert /\ topic \in Seq(Nat)
      /\ \A k \in 1..Len(topic) : topic[k] <= last
      /\ last # 0 => \E k \in 1..Len(topic) : topic[k] = last
  BY <1>1, LastIs DEF LiveInv
<1>3. PICK n \in Nat : n = last - from + 1
  BY <1>1, <1>2
<1>4. PICK again : again = [k \in 1..n |-> from + k - 1]
  OBVIOUS
<1>5. again \in Seq(Alert) /\ Len(again) = n /\ topic' = topic \o again
  <2>1. \A k \in 1..n : from + k - 1 \in Alert
    BY <1>1, <1>2, <1>3 DEF Alert
  <2>2. again \in [1..n -> Alert]
    BY <1>4, <2>1
  <2>3. again \in Seq(Alert) /\ Len(again) = n
    BY <2>2
  <2>4. topic' = topic \o again
    BY <1>1, <1>3, <1>4, Zenon
  <2> QED BY <2>3, <2>4
<1>6. /\ topic' \in Seq(Alert) /\ Len(topic') = Len(topic) + n /\ Len(topic) \in Nat
      /\ \A k \in 1..Len(topic) : topic'[k] = topic[k]
      /\ \A k \in 1..n : topic'[Len(topic) + k] = again[k]
  <2>1. topic \in Seq(Alert)
    BY DEF LiveInv, LiveTypes
  <2>2. again \in Seq(Alert)
    BY <1>5
  <2>3. PICK both : both = topic \o again
    OBVIOUS
  <2>4. /\ both \in Seq(Alert) /\ Len(both) = Len(topic) + Len(again)
        /\ Len(topic) \in Nat
        /\ \A k \in 1..Len(topic) : both[k] = topic[k]
        /\ \A k \in 1..Len(again) : both[Len(topic) + k] = again[k]
    BY <2>1, <2>2, <2>3
  <2>5. topic' = both /\ Len(again) = n
    BY <1>5, <2>3, Zenon
  <2> QED BY <2>4, <2>5, Zenon
<1>7. \A k \in 1..n : topic'[Len(topic) + k] = from + k - 1
  BY <1>4, <1>6
<1>8. Rising(topic')
  <2>1. /\ from \in 1..(last + 1) /\ from + n <= last + 2
    BY <1>1, <1>2, <1>3
  <2>2. topic' \in Seq(Nat)
    <3>1. Alert \subseteq Nat
      BY DEF Alert
    <3> QED BY <1>6, <3>1, WiderSeq
  <2>3. Rising(topic) /\ last \in Nat /\ last - from < Rewind
    BY <1>1, <1>2 DEF LiveInv
  <2>4. /\ Len(topic') = Len(topic) + n
        /\ \A k \in 1..Len(topic) : topic'[k] = topic[k]
    BY <1>6
  <2> QED BY <1>2, <1>7, <2>1, <2>2, <2>3, <2>4, TopicGoesOn
<1>9. Len(topic') >= Len(topic)
  BY <1>6
<1>10. UNCHANGED <<offset, recent, client, wire, store, evicted>>
  BY DEF RestoreJob
<1> QED BY <1>6, <1>8, <1>9, <1>10, TopicInv

\* An alert that the consumer reads is kept already, or the next after all that are.
LEMMA KnownOrNext ==
  ASSUME LiveAssumption, LiveInv, offset < Len(topic), NEW id, id = topic[offset + 1]
  PROVE  id \in Alert /\ (id \in Range(recent) \/ id = Top + 1)
<1>1. /\ offset \in Nat /\ Len(topic) \in Nat /\ offset + 1 \in 1..Len(topic)
      /\ Rewind \in Nat /\ History \in Nat /\ Rewind <= History
      /\ id \in Alert /\ id \in Nat \ {0} /\ Top \in Nat
      /\ \A k \in 1..Len(topic) : topic[k] \in Nat
  <2>1. LiveTypes
    BY DEF LiveInv
  <2>2. /\ offset \in Nat /\ Len(topic) \in Nat /\ Alert \subseteq Nat \ {0}
        /\ \A k \in 1..Len(topic) : topic[k] \in Alert
        /\ Rewind \in Nat /\ History \in Nat /\ Rewind <= History /\ Top \in Nat
    BY <2>1, Facts
  <2>3. offset + 1 \in 1..Len(topic)
    BY <2>2
  <2>4. id \in Alert
    BY <2>2, <2>3
  <2> QED BY <2>2, <2>3, <2>4
<1>2. id <= Top + 1
  <2>1. CASE id = 1
    BY <1>1, <2>1
  <2>2. CASE id # 1
    <3>1. id - 1 \in 1..(topic[offset + 1] - 1)
      BY <1>1, <2>2
    <3>2. PICK j \in 1..(offset + 1 - 1) : topic[j] = id - 1
      BY <1>1, <3>1 DEF LiveInv, Rising
    <3>3. j \in 1..offset
      BY <1>1
    <3>4. topic[j] <= Top
      BY <3>3 DEF LiveInv, Kept
    <3> QED BY <1>1, <3>2, <3>4
  <2> QED BY <2>1, <2>2
<1>3. ASSUME id <= Top PROVE id \in Range(recent)
  <2>1. recent # <<>> /\ Top = recent[Len(recent)]
    BY <1>1, <1>3 DEF Top, NoId
  <2>2. /\ recent \in Seq(Int) /\ Len(recent) \in Nat \ {0} /\ recent[1] \in Int
        /\ Top = recent[1] + Len(recent) - 1 /\ Range(recent) = recent[1]..Top
    <3>1. recent \in Seq(Int) /\ Consecutive(recent)
      BY Facts DEF LiveInv, Kept
    <3> QED BY <2>1, <3>1, RunIs
  <2>3. CASE recent[1] = 1
    BY <1>1, <1>3, <2>2, <2>3
  <2>4. CASE recent[1] # 1
    <3>1. Len(recent) = History
      BY <2>1, <2>4 DEF LiveInv, Kept
    <3>2. PICK j \in 1..offset : topic[j] = Top
      BY <2>1 DEF LiveInv, Kept
    <3>3. topic[j] - topic[offset + 1] < Rewind
      BY <1>1 DEF LiveInv, Rising
    <3> QED BY <1>1, <1>3, <2>2, <3>1, <3>2, <3>3
  <2> QED BY <2>3, <2>4
<1>4. id <= Top \/ id = Top + 1
  BY <1>1, <1>2
<1> QED BY <1>1, <1>3, <1>4

LEMMA PublishInv == LiveAssumption /\ LiveInv /\ HubPublish => LiveInv'
<1> SUFFICES ASSUME LiveAssumption, LiveInv, HubPublish PROVE LiveInv'
  OBVIOUS
<1>1. PICK id : id = topic[offset + 1]
  OBVIOUS
<1>2. PICK kept : kept = Append(recent, id)
  OBVIOUS
<1>3. /\ offset < Len(topic) /\ offset' = offset + 1
      /\ UNCHANGED <<topic, client, store>>
  BY DEF HubPublish
<1>4. id \in Alert /\ (id \in Range(recent) \/ id = Top + 1)
  BY <1>1, <1>3, KnownOrNext
<1>5. /\ offset \in Nat /\ Len(topic) \in Nat /\ offset + 1 <= Len(topic) /\ History \in Nat \ {0}
      /\ recent \in Seq(Int) /\ Top \in Nat /\ id \in Int /\ Len(recent) \in Nat
      /\ Consecutive(recent)
  <2>1. LiveTypes /\ Consecutive(recent)
    BY DEF LiveInv, Kept
  <2> QED BY <1>3, <1>4, <2>1, Facts
<1>6. recent # <<>> => /\ Len(recent) # 0 /\ recent[1] \in Int /\ Top = recent[1] + Len(recent) - 1
                       /\ Top = recent[Len(recent)] /\ Range(recent) = recent[1]..Top
  BY <1>5, RunIs DEF Top
<1>7. CASE id \in Range(recent)
  <2>1. UNCHANGED <<recent, wire, evicted>>
    BY <1>1, <1>7 DEF HubPublish
  <2>2. recent # <<>> /\ id <= Top
    <3>1. recent # <<>>
      BY <1>7 DEF Range
    <3> QED BY <1>6, <1>7, <3>1
  <2>3. LiveTypes'
    BY <1>3, <1>5, <2>1 DEF LiveInv, LiveTypes, client, store
  <2>4. Kept'
    <3>1. Top' = Top
      BY <2>1 DEF Top
    <3>2. \A k \in 1..(offset + 1) : topic[k] <= Top
      BY <1>1, <1>5, <2>2 DEF LiveInv, Kept
    <3>3. \E j \in 1..(offset + 1) : topic[j] = Top
      BY <1>5, <2>2 DEF LiveInv, Kept
    <3> QED BY <1>3, <2>1, <3>1, <3>2, <3>3 DEF LiveInv, Kept, Consecutive
  <2> QED BY <1>3, <2>1, <2>3, <2>4
          DEF LiveInv, OneConnection, Behindhand, Consecutive, Top, Remembered, BoardFollows,
              client, store
<1>8. CASE id \notin Range(recent)
  <2>1. /\ id = Top + 1
        /\ recent' = IF Len(kept) > History THEN Tail(kept) ELSE kept
        /\ evicted' = evicted \cup (Range(kept) \ Range(recent'))
        /\ wire' = IF link = "open" THEN Append(wire, id) ELSE wire
    BY <1>1, <1>2, <1>4, <1>8 DEF HubPublish
  <2>2. /\ kept \in Seq(Alert) /\ kept \in Seq(Int) /\ Consecutive(kept) /\ kept # <<>>
        /\ kept[1] = (IF recent = <<>> THEN id ELSE recent[1]) /\ kept[Len(kept)] = id
        /\ Len(kept) = Len(recent) + 1
    <3>1. recent # <<>> => id = recent[Len(recent)] + 1
      BY <1>6, <2>1
    <3>2. kept \in Seq(Alert) /\ kept \in Seq(Int)
      BY <1>2, <1>4, <1>5 DEF LiveInv, LiveTypes
    <3> QED BY <1>2, <1>5, <3>1, <3>2, RunGrows
  <2>3. /\ recent' \in Seq(Alert) /\ recent' # <<>> /\ Consecutive(recent') /\ Top' = id
        /\ Len(recent') <= History /\ (recent'[1] = 1 \/ Len(recent') = History)
        /\ 1..(recent'[1] - 1) \subseteq evicted' /\ evicted' \subseteq Alert
    <3>1. Len(recent) <= History /\ (recent # <<>> => recent[1] = 1 \/ Len(recent) = History)
      BY DEF LiveInv, Kept
    <3>2. Range(kept) \subseteq Alert /\ kept[1] \in Range(kept) /\ evicted \subseteq Alert
      <4>1. kept \in Seq(Alert) /\ Len(kept) \in Nat /\ Len(kept) # 0
        BY <1>5, <2>2
      <4>2. 1 \in 1..Len(kept) /\ DOMAIN kept = 1..Len(kept) /\ \A k \in 1..Len(kept) : kept[k] \in Alert
        BY <4>1
      <4> HIDE DEF Alert
      <4>3. Range(kept) \subseteq Alert
        BY <4>2 DEF Range
      <4>4. kept[1] \in Range(kept)
        BY <4>2 DEF Range
      <4>5. evicted \subseteq Alert
        BY DEF LiveInv, LiveTypes
      <4> QED BY <4>3, <4>4, <4>5
    <3>3. CASE Len(kept) <= History
      <4>1. recent' = kept
        BY <1>5, <2>1, <2>2, <3>3
      <4>2. kept[1] = 1
        <5>1. CASE recent = <<>>
          BY <2>1, <2>2, <5>1 DEF Top, NoId
        <5>2. CASE recent # <<>>
          BY <1>5, <2>2, <3>1, <3>3, <5>2
        <5> QED BY <5>1, <5>2
      <4>3. Top' = id
        BY <2>2, <4>1 DEF Top
      <4>4. evicted' \subseteq Alert
        BY <2>1, <3>2
      <4> QED BY <2>2, <3>3, <4>1, <4>2, <4>3, <4>4
    <3>4. CASE Len(kept) > History
      <4>1. recent' = Tail(kept)
        BY <2>1, <3>4
      <4>2. /\ Consecutive(Tail(kept)) /\ Len(Tail(kept)) = Len(kept) - 1
            /\ Range(Tail(kept)) = Range(kept) \ {kept[1]}
            /\ Tail(kept) # <<>> => Tail(kept)[1] = kept[1] + 1 /\ Tail(kept)[Len(Tail(kept))] = id
        BY <2>2, RunShrinks
      <4>3. Len(recent) = History /\ recent # <<>> /\ Tail(kept) # <<>>
        BY <1>5, <2>2, <3>1, <3>4, <4>2
      <4>4. evicted' = evicted \cup {recent[1]}
        BY <2>1, <2>2, <3>2, <4>1, <4>2, <4>3
      <4>5. recent'[1] = recent[1] + 1 /\ Len(recent') = History /\ Top' = id
        BY <1>5, <2>2, <4>1, <4>2, <4>3 DEF Top
      <4>6. 1..(recent'[1] - 1) \subseteq evicted'
        <5>1. 1..(recent[1] - 1) \subseteq evicted /\ recent[1] \in Int
          BY <1>6, <4>3 DEF LiveInv, Kept
        <5> QED BY <4>4, <4>5, <5>1
      <4>7. Tail(kept) \in Seq(Alert) /\ evicted' \subseteq Alert
        BY <2>1, <2>2, <3>2
      <4> QED BY <1>5, <4>1, <4>2, <4>3, <4>5, <4>6, <4>7
    <3> QED BY <1>5, <2>2, <3>3, <3>4
  <2>4. Kept'
    <3>1. \A k \in 1..(offset + 1) : topic[k] <= id
      <4>1. \A k \in 1..offset : topic[k] <= Top
        BY DEF LiveInv, Kept
      <4>2. \A k \in 1..(offset + 1) : k \in 1..offset \/ topic[k] = id
        <5>1. \A k \in 1..(offset + 1) : k \in 1..offset \/ k = offset + 1
          BY <1>5
        <5> QED BY <1>1, <5>1, Zenon
      <4>3. /\ \A k \in 1..Len(topic) : topic[k] \in Alert
            /\ Alert \subseteq Nat /\ 1..(offset + 1) \subseteq 1..Len(topic)
        BY <1>5, Facts DEF LiveInv
      <4> HIDE DEF Alert
      <4> SUFFICES ASSUME NEW k \in 1..(offset + 1) PROVE topic[k] <= id
        OBVIOUS
      <4>4. topic[k] \in Int
        <5>1. k \in 1..Len(topic)
          BY <4>3, Zenon
        <5>2. topic[k] \in Nat
          BY <4>3, <5>1, Zenon
        <5> QED BY <5>2
      <4>5. topic[k] <= Top \/ topic[k] = id
        BY <4>1, <4>2
      <4> QED BY <1>5, <2>1, <4>4, <4>5
    <3>2. \E j \in 1..(offset + 1) : topic[j] = id
      BY <1>1, <1>5
    <3> QED BY <1>3, <2>3, <3>1, <3>2 DEF Kept
  <2>5. evicted \subseteq evicted'
    BY <2>1
  <2>6. wire' \in Seq(Alert) /\ Behindhand'
    <3>1. wire \in Seq(Alert) /\ wire \in Seq(Int) /\ Behindhand
      BY Facts DEF LiveInv, LiveTypes
    <3>2. CASE link = "open"
      <4>1. wire' = Append(wire, id) /\ (wire # <<>> => id = wire[Len(wire)] + 1)
        BY <2>1, <3>1, <3>2 DEF Behindhand
      <4>2. /\ Consecutive(wire') /\ wire' # <<>> /\ wire'[Len(wire')] = id
            /\ wire'[1] = IF wire = <<>> THEN id ELSE wire[1]
        BY <1>5, <3>1, <4>1, RunGrows DEF Behindhand
      <4>3. 1..(wire'[1] - 1) \subseteq seen \cup evicted
        <5>1. CASE wire = <<>>
          BY <1>5, <2>1, <3>1, <3>2, <4>2, <5>1 DEF Behindhand
        <5>2. CASE wire # <<>>
          BY <3>1, <4>2, <5>2 DEF Behindhand
        <5> QED BY <5>1, <5>2
      <4>4. wire' \in Seq(Alert)
        BY <1>4, <3>1, <4>1
      <4> QED BY <1>3, <2>3, <2>5, <3>1, <4>2, <4>3, <4>4 DEF Behindhand, client, store
    <3>3. CASE link # "open"
      BY <1>3, <2>1, <2>5, <3>1, <3>3 DEF Behindhand, Consecutive, client, store
    <3> QED BY <3>2, <3>3
  <2>7. LiveTypes'
    BY <1>3, <1>5, <2>3, <2>6 DEF LiveInv, LiveTypes, client, store
  <2>8. BoardFollows'
    BY <1>3, <2>5 DEF LiveInv, BoardFollows, store
  <2> QED BY <1>3, <2>4, <2>6, <2>7, <2>8 DEF LiveInv, OneConnection, Remembered, client, store
<1> QED BY <1>7, <1>8

\* What the hub keeps behind an id that it keeps is the run after it.
LEMMA BehindIs ==
  ASSUME LiveAssumption, LiveTypes, Consecutive(recent), NEW id \in Range(recent)
  PROVE  /\ Behind(id) \in Seq(Alert) /\ Consecutive(Behind(id))
         /\ Behind(id) = <<>> => id = Top
         /\ Behind(id) # <<>> => /\ Behind(id)[1] = id + 1
                                /\ Behind(id)[Len(Behind(id))] = Top
<1> DEFINE Spots == {k \in 1..Len(recent) : recent[k] = id}
<1>1. /\ recent \in Seq(Int) /\ recent \in Seq(Alert) /\ recent # <<>> /\ Len(recent) \in Nat
      /\ \A k \in 1..Len(recent) : recent[k] \in Alert
  BY Facts DEF LiveTypes, Range
<1>2. PICK p \in 1..Len(recent) : recent[p] = id
  BY <1>1 DEF Range
<1>3. Spots = {p}
  <2>1. \A k \in 1..Len(recent) : recent[k] = id => k = p
    BY <1>1, <1>2 DEF Consecutive
  <2> QED BY <1>2, <2>1
<1>4. Min(Spots) = p
  <2>1. 1 \in Int /\ Len(recent) \in Int /\ Spots \subseteq 1..Len(recent) /\ Spots # {}
    BY <1>1, <1>2
  <2>2. Min(Spots) \in Spots
    <3> HIDE DEF Spots
    <3> QED BY <2>1, MinIsLeast, Zenon
  <2> QED BY <1>3, <2>2, Zenon
<1>5. SelectInSeq(recent, LAMBDA a : a = id) = p
  BY <1>2, <1>4 DEF SelectInSeq
<1>6. Behind(id) = SubSeq(recent, 1 + p, Len(recent))
  BY <1>5 DEF Behind
<1>7. PICK n \in Nat : n = Len(recent) - p
  BY <1>1, <1>2
<1>8. /\ Behind(id) \in Seq(Alert) /\ Len(Behind(id)) = n
      /\ \A k \in 1..n : Behind(id)[k] = recent[p + k]
  <2>1. PICK rest : rest = SubSeq(recent, 1 + p, Len(recent))
    OBVIOUS
  <2>2. rest \in Seq(Alert)
    BY <1>1, <1>2, <2>1
  <2>3. Len(rest) = n
    BY <1>1, <1>2, <1>7, <2>1
  <2>4. \A k \in 1..n : rest[k] = recent[p + k]
    BY <1>1, <1>2, <1>7, <2>1
  <2> QED BY <1>6, <2>1, <2>2, <2>3, <2>4, Zenon
<1>9. Top = recent[Len(recent)] /\ id = recent[1] + p - 1 /\ recent[1] \in Int
  BY <1>1, <1>2 DEF Top, Consecutive
<1>10. ASSUME NEW k \in 1..n PROVE Behind(id)[k] = id + k
  <2>1. p + k \in 1..Len(recent)
    BY <1>1, <1>2, <1>7
  <2>2. recent[p + k] = recent[1] + (p + k) - 1
    BY <2>1 DEF Consecutive
  <2>3. recent[1] + (p + k) - 1 = id + k
    BY <1>9
  <2> QED BY <1>8, <2>2, <2>3, Zenon
<1>11. Top = id + n
  BY <1>1, <1>2, <1>7, <1>9, RunIs
<1>12. id \in Int
  BY <1>9
<1>13. Consecutive(Behind(id))
  BY <1>7, <1>8, <1>10, <1>12 DEF Consecutive
<1>14. Behind(id) = <<>> => n = 0
  <2>1. Len(<<>>) = 0
    OBVIOUS
  <2> QED BY <1>8, <2>1, Zenon
<1>15. Behind(id) # <<>> => n # 0
  BY <1>8
<1>16. n # 0 => Behind(id)[1] = id + 1 /\ Behind(id)[n] = id + n
  BY <1>7, <1>10
<1>17. Behind(id) = <<>> => id = Top
  BY <1>11, <1>12, <1>14
<1> QED BY <1>8, <1>11, <1>13, <1>15, <1>16, <1>17, Zenon

\* Behind an id that it does not keep is everything.
LEMMA BehindAll ==
  ASSUME LiveAssumption, LiveTypes, NEW id, id \notin Range(recent)
  PROVE  Behind(id) = recent
<1>1. recent \in Seq(Alert) /\ Len(recent) \in Nat
  BY Facts DEF LiveTypes
<1>2. {k \in 1..Len(recent) : recent[k] = id} = {}
  BY <1>1 DEF Range
<1>3. SelectInSeq(recent, LAMBDA a : a = id) = 0
  BY <1>2 DEF SelectInSeq
<1>4. SubSeq(recent, 1, Len(recent)) = recent
  BY <1>1
<1>5. 1 + 0 = 1
  OBVIOUS
<1> QED BY <1>3, <1>4, <1>5 DEF Behind

LEMMA SubscribeInv == LiveAssumption /\ LiveInv /\ Subscribe => LiveInv'
<1> SUFFICES ASSUME LiveAssumption, LiveInv, Subscribe PROVE LiveInv'
  OBVIOUS
<1>1. /\ link = "connecting" /\ link' = "open" /\ wire' = Behind(lastId)
      /\ UNCHANGED <<hub, lastId, timer, visible, store, evicted>>
  BY DEF Subscribe, ReplayAfter
<1>2. LiveTypes /\ Kept /\ Behindhand /\ Top' = Top
  BY <1>1 DEF LiveInv, hub, Top
<1>3. wire' \in Seq(Alert) /\ Consecutive(wire')
  <2>1. CASE lastId \in Range(recent)
    BY <1>1, <1>2, <2>1, BehindIs DEF Kept
  <2>2. CASE lastId \notin Range(recent)
    BY <1>1, <1>2, <2>2, BehindAll DEF Kept, LiveTypes
  <2> QED BY <2>1, <2>2
<1>4. /\ wire' # <<>> => /\ 1..(wire'[1] - 1) \subseteq seen \cup evicted
                         /\ wire'[Len(wire')] = Top
      /\ wire' = <<>> => 1..Top \subseteq seen \cup evicted
  <2>1. CASE lastId \in Range(recent)
    <3>1. /\ wire' = <<>> => lastId = Top
          /\ wire' # <<>> => wire'[1] = lastId + 1 /\ wire'[Len(wire')] = Top
      BY <1>1, <1>2, <2>1, BehindIs DEF Kept
    <3>2. lastId \in Nat /\ 1..lastId \subseteq seen \cup evicted
      BY <1>2, Facts DEF Behindhand
    <3>3. ASSUME wire' # <<>> PROVE 1..(wire'[1] - 1) \subseteq seen \cup evicted
      <4>1. PICK first : first = wire'[1]
        OBVIOUS
      <4>2. first = lastId + 1
        BY <3>1, <3>3, <4>1, Zenon
      <4>3. first - 1 = lastId
        BY <3>2, <4>2
      <4>4. 1..(first - 1) \subseteq seen \cup evicted
        BY <3>2, <4>3, Zenon
      <4> QED BY <4>1, <4>4, Zenon
    <3>4. wire' = <<>> => 1..Top \subseteq seen \cup evicted
      BY <3>1, <3>2, Zenon
    <3> QED BY <3>1, <3>3, <3>4, Zenon
  <2>2. CASE lastId \notin Range(recent)
    <3>1. wire' = recent
      BY <1>1, <1>2, <2>2, BehindAll
    <3>2. CASE recent = <<>>
      BY <3>1, <3>2 DEF Top, NoId
    <3>3. CASE recent # <<>>
      BY <1>2, <3>1, <3>3 DEF Kept, Top
    <3> QED BY <3>2, <3>3
  <2> QED BY <2>1, <2>2
<1>5. Behindhand'
  BY <1>1, <1>2, <1>3, <1>4 DEF Behindhand, store
<1>6. LiveTypes'
  BY <1>1, <1>2, <1>3 DEF LiveTypes, hub, store
<1>7. OneConnection'
  BY <1>1 DEF LiveInv, OneConnection
<1> QED BY <1>1, <1>5, <1>6, <1>7
        DEF LiveInv, Kept, Consecutive, Top, Remembered, BoardFollows, hub, store

LEMMA RestartApiInv == LiveAssumption /\ LiveInv /\ RestartApi => LiveInv'
<1> SUFFICES ASSUME LiveAssumption, LiveInv, RestartApi PROVE LiveInv'
  OBVIOUS
<1>1. /\ recent' = <<>> /\ offset' = 0 /\ link' = (IF link = "none" THEN "none" ELSE "broken")
      /\ UNCHANGED <<topic, wire, lastId, timer, visible, store, evicted>>
  BY DEF RestartApi
<1>2. LiveTypes' /\ Kept'
  <2>1. Len(<<>>) = 0 /\ <<>> \in Seq(Alert) /\ Len(topic) \in Nat /\ History \in Nat
    BY Facts DEF LiveInv
  <2>2. LiveTypes'
    BY <1>1, <2>1 DEF LiveInv, LiveTypes, store
  <2> QED BY <1>1, <2>1, <2>2 DEF Kept, Consecutive
<1>3. OneConnection' /\ Behindhand'
  BY <1>1 DEF LiveInv, OneConnection, Behindhand, Consecutive, store
<1> QED BY <1>1, <1>2, <1>3 DEF LiveInv, Remembered, BoardFollows, store

------------------------------------------------------------------------------
(* The tab.                                                                *)

\* A connection that breaks, is given up or begins again: what was sent may be lost,
\* what was received is not.
LEMMA LinkInv ==
  ASSUME LiveAssumption, LiveInv, OneConnection',
         UNCHANGED <<hub, lastId, store, evicted>>,
         link' \in {"none", "connecting", "open", "broken"},
         timer' \in BOOLEAN, visible' \in BOOLEAN,
         \/ link' # "open" /\ (wire' = wire \/ wire' = <<>>)
         \/ link' = link /\ wire' = wire
  PROVE  LiveInv'
<1>1. LiveTypes' /\ Kept'
  <2>1. <<>> \in Seq(Alert)
    OBVIOUS
  <2>2. LiveTypes'
    BY <2>1 DEF LiveInv, LiveTypes, hub, store
  <2>3. Kept'
    BY DEF LiveInv, Kept, Consecutive, Top, hub
  <2> QED BY <2>2, <2>3
<1>2. Behindhand'
  <2>1. CASE wire' = wire
    BY <2>1 DEF LiveInv, Behindhand, Consecutive, Top, hub, store
  <2>2. CASE wire' = <<>> /\ link' # "open"
    <3>1. Len(<<>>) = 0
      OBVIOUS
    <3> QED BY <2>2, <3>1 DEF LiveInv, Behindhand, Consecutive, hub, store
  <2> QED BY <2>1, <2>2
<1>3. Rising(topic') /\ Remembered' /\ BoardFollows'
  BY DEF LiveInv, Remembered, BoardFollows, hub, store
<1> QED BY <1>1, <1>2, <1>3 DEF LiveInv

LEMMA BreakInv == LiveAssumption /\ LiveInv /\ Break => LiveInv'
<1> SUFFICES ASSUME LiveAssumption, LiveInv, Break PROVE LiveInv'
  OBVIOUS
<1>1. /\ link # "none" /\ link' = "broken"
      /\ UNCHANGED <<hub, wire, lastId, timer, visible, store, evicted>>
  BY DEF Break
<1>2. OneConnection' /\ timer' \in BOOLEAN /\ visible' \in BOOLEAN
  BY <1>1 DEF LiveInv, OneConnection, LiveTypes
<1> QED BY <1>1, <1>2, LinkInv

LEMMA OnErrorInv == LiveAssumption /\ LiveInv /\ OnError => LiveInv'
<1> SUFFICES ASSUME LiveAssumption, LiveInv, OnError PROVE LiveInv'
  OBVIOUS
<1>1. /\ link = "broken" /\ link' = "none" /\ wire' = <<>> /\ timer' = TRUE
      /\ UNCHANGED <<hub, lastId, visible, store, evicted>>
  BY DEF OnError, Closed, TimerAfterError
<1>2. OneConnection' /\ visible' \in BOOLEAN
  BY <1>1 DEF LiveInv, OneConnection, LiveTypes
<1> QED BY <1>1, <1>2, LinkInv

LEMMA RetryInv == LiveAssumption /\ LiveInv /\ Retry => LiveInv'
<1> SUFFICES ASSUME LiveAssumption, LiveInv, Retry PROVE LiveInv'
  OBVIOUS
<1>1. /\ timer /\ timer' = FALSE
      /\ IF visible THEN link' = "connecting" /\ wire' = <<>> ELSE UNCHANGED <<link, wire>>
      /\ UNCHANGED <<hub, lastId, visible, store, evicted>>
  BY DEF Retry, Connecting
<1>2. OneConnection' /\ visible' \in BOOLEAN /\ link' \in {"none", "connecting", "open", "broken"}
  BY <1>1 DEF LiveInv, OneConnection, LiveTypes
<1> QED BY <1>1, <1>2, LinkInv

LEMMA HideInv == LiveAssumption /\ LiveInv /\ Hide => LiveInv'
<1> SUFFICES ASSUME LiveAssumption, LiveInv, Hide PROVE LiveInv'
  OBVIOUS
<1>1. /\ visible' = FALSE /\ link' = "none" /\ wire' = <<>>
      /\ UNCHANGED <<hub, lastId, timer, store, evicted>>
  BY DEF Hide, Closed
<1>2. OneConnection' /\ timer' \in BOOLEAN
  BY <1>1 DEF LiveInv, OneConnection, LiveTypes
<1> QED BY <1>1, <1>2, LinkInv

LEMMA ShowInv == LiveAssumption /\ LiveInv /\ Show => LiveInv'
<1> SUFFICES ASSUME LiveAssumption, LiveInv, Show PROVE LiveInv'
  OBVIOUS
<1>1. /\ visible' = TRUE /\ timer' = FALSE /\ link' = "connecting" /\ wire' = <<>>
      /\ UNCHANGED <<hub, lastId, store, evicted>>
  BY DEF Show, Connecting, TimerAfterShow
<1>2. OneConnection'
  BY <1>1 DEF OneConnection
<1> QED BY <1>1, <1>2, LinkInv

\* The feed gets the entry, and may drop its oldest.
LEMMA PushedIs ==
  ASSUME NEW S, feed \in Seq(S), NEW x \in S
  PROVE  Pushed(x) \in Seq(S) /\ Range(Pushed(x)) \subseteq Range(feed) \cup {x}
<1> DEFINE f == Append(feed, x)
<1>1. /\ f \in Seq(S) /\ f # <<>> /\ Len(feed) \in Nat /\ Len(f) = Len(feed) + 1
      /\ \A k \in 1..Len(f) : f[k] = x \/ (k \in 1..Len(feed) /\ f[k] = feed[k])
  OBVIOUS
<1>2. Range(f) \subseteq Range(feed) \cup {x}
  BY <1>1 DEF Range
<1>3. Tail(f) \in Seq(S) /\ Range(Tail(f)) \subseteq Range(f)
  <2>1. /\ Tail(f) \in Seq(S) /\ Len(Tail(f)) = Len(f) - 1
        /\ \A k \in 1..Len(Tail(f)) : Tail(f)[k] = f[k + 1] /\ k + 1 \in 1..Len(f)
    BY <1>1
  <2> HIDE DEF f
  <2> QED BY <1>1, <2>1 DEF Range
<1>4. Pushed(x) = f \/ Pushed(x) = Tail(f)
  BY DEF Pushed
<1> HIDE DEF f
<1> QED BY <1>1, <1>2, <1>3, <1>4

LEMMA PushOtherInv == LiveAssumption /\ LiveInv /\ PushOther => LiveInv'
<1> SUFFICES ASSUME LiveAssumption, LiveInv, PushOther PROVE LiveInv'
  OBVIOUS
<1>1. /\ feed' = Pushed(Other) /\ forgot' = forgot \cup (Range(feed) \ (Range(feed') \cup {Other}))
      /\ UNCHANGED <<hub, client, wire, board, seen, evicted>>
  BY DEF PushOther
<1>2. feed' \in Seq({Other} \cup Alert) /\ Range(feed') \subseteq Range(feed) \cup {Other}
  <2>1. feed \in Seq({Other} \cup Alert) /\ Other \in {Other} \cup Alert
    BY DEF LiveInv, LiveTypes
  <2> QED BY <1>1, <2>1, PushedIs
<1>3. LiveTypes'
  BY <1>1, <1>2 DEF LiveInv, LiveTypes, hub, client
<1>4. Other \notin Alert
  BY DEF Other, Alert
<1>5. Remembered'
  BY <1>1, <1>2, <1>4 DEF LiveInv, Remembered, LiveTypes
<1>6. BoardFollows'
  BY <1>1 DEF LiveInv, BoardFollows
<1> QED BY <1>1, <1>3, <1>5, <1>6
        DEF LiveInv, OneConnection, Kept, Behindhand, Consecutive, Top, hub, client

\* Where the browser stands after it received the first alert of its way.
LEMMA ReceiveMoves ==
  ASSUME LiveAssumption, LiveInv, TabReceives, NEW id, id = Head(wire)
  PROVE  /\ id \in Alert /\ wire' \in Seq(Alert) /\ Behindhand'
         /\ 1..(id - 1) \subseteq seen \cup evicted
<1>1. /\ wire # <<>> /\ wire' = Tail(wire) /\ lastId' = id /\ seen' = seen \cup {id}
      /\ UNCHANGED <<hub, link, evicted>>
  BY DEF TabReceives
<1>2. /\ wire \in Seq(Alert) /\ wire \in Seq(Int) /\ Consecutive(wire) /\ Behindhand
      /\ seen \subseteq Alert
  BY Facts DEF LiveInv, LiveTypes, Behindhand
<1>3. id = wire[1] /\ id \in Alert /\ Tail(wire) \in Seq(Alert)
  BY <1>1, <1>2
<1>4. 1..(id - 1) \subseteq seen \cup evicted
  BY <1>1, <1>2, <1>3 DEF Behindhand
<1>5. 1..id \subseteq seen' \cup evicted /\ id \in Int
  BY <1>1, <1>3, <1>4 DEF Alert
<1>6. /\ Consecutive(Tail(wire))
      /\ Tail(wire) # <<>> => Tail(wire)[1] = id + 1 /\ Tail(wire)[Len(Tail(wire))] = wire[Len(wire)]
      /\ Tail(wire) = <<>> => wire[Len(wire)] = id
  BY <1>1, <1>2, <1>3, RunShrinks
<1>7. wire' # <<>> => 1..(wire'[1] - 1) \subseteq seen' \cup evicted
  <2> SUFFICES ASSUME wire' # <<>> PROVE 1..(wire'[1] - 1) \subseteq seen' \cup evicted
    OBVIOUS
  <2>1. PICK first : first = wire'[1]
    OBVIOUS
  <2>2. first - 1 = id
    BY <1>1, <1>5, <1>6, <2>1
  <2>3. 1..(first - 1) \subseteq seen' \cup evicted
    BY <1>5, <2>2, Zenon
  <2> QED BY <2>1, <2>3, Zenon
<1>8. link = "open" => IF wire' = <<>> THEN 1..Top \subseteq seen' \cup evicted
                                       ELSE wire'[Len(wire')] = Top
  <2>1. link = "open" => wire[Len(wire)] = Top
    BY <1>1, <1>2 DEF Behindhand
  <2>2. CASE wire' = <<>>
    BY <1>1, <1>5, <1>6, <2>1, <2>2
  <2>3. CASE wire' # <<>>
    BY <1>1, <1>6, <2>1, <2>3
  <2> QED BY <2>2, <2>3
<1>9. \A i \in seen' : 1..i \subseteq seen' \cup evicted
  <2>1. \A i \in seen : 1..i \subseteq seen \cup evicted
    BY <1>2 DEF Behindhand
  <2> QED BY <1>1, <1>5, <2>1
<1>10. Top' = Top /\ link' = link /\ evicted' = evicted
  BY <1>1 DEF Top, hub
<1>11. Behindhand'
  BY <1>1, <1>5, <1>6, <1>7, <1>8, <1>9, <1>10 DEF Behindhand
<1> QED BY <1>1, <1>3, <1>4, <1>11

LEMMA ReceiveInv == LiveAssumption /\ LiveInv /\ TabReceives => LiveInv'
<1> SUFFICES ASSUME LiveAssumption, LiveInv, TabReceives PROVE LiveInv'
  OBVIOUS
<1>1. PICK id : id = Head(wire)
  OBVIOUS
<1>2. /\ lastId' = id /\ seen' = seen \cup {id}
      /\ UNCHANGED <<hub, link, timer, visible, evicted>>
  BY <1>1 DEF TabReceives
<1>3. /\ id \in Alert /\ wire' \in Seq(Alert) /\ Behindhand'
      /\ 1..(id - 1) \subseteq seen \cup evicted
  BY <1>1, ReceiveMoves
<1>4. /\ MaxAlert \in Nat /\ Other \notin Alert /\ Alert \subseteq Nat
      /\ seen \subseteq Alert /\ feed \in Seq({Other} \cup Alert)
      /\ seen \subseteq Range(feed) \cup forgot /\ Range(feed) \subseteq seen \cup {Other}
      /\ BoardFollows /\ \A i \in seen : 1..i \subseteq seen \cup evicted
  <2>1. MaxAlert \in Nat /\ Other \notin Alert /\ Alert \subseteq Nat
    BY DEF LiveAssumption, Alert, Other
  <2> QED BY <2>1 DEF LiveInv, LiveTypes, Remembered, Behindhand
<1>5. OneConnection' /\ Kept' /\ Rising(topic')
  BY <1>2 DEF LiveInv, OneConnection, Kept, Consecutive, Top, hub
<1>6. CASE id \in Range(feed)
  <2>1. UNCHANGED <<board, feed, forgot>> /\ seen' = seen
    <3>1. UNCHANGED <<board, feed, forgot>>
      BY <1>1, <1>6 DEF TabReceives, Known
    <3> QED BY <1>2, <1>3, <1>4, <1>6, <3>1
  <2>2. LiveTypes'
    BY <1>2, <1>3, <2>1 DEF LiveInv, LiveTypes, hub
  <2>3. Remembered' /\ BoardFollows'
    BY <1>2, <2>1 DEF LiveInv, Remembered, BoardFollows
  <2> QED BY <1>3, <1>5, <2>2, <2>3 DEF LiveInv
<1>7. CASE id \notin Range(feed)
  <2>1. /\ board' = Raises(id)
        /\ feed' = IF Coalesced(id) THEN feed ELSE Pushed(id)
        /\ forgot' = forgot \cup ((Range(feed) \cup {id}) \ (Range(feed') \cup {Other}))
    BY <1>1, <1>7 DEF TabReceives, Known
  <2>2. feed' \in Seq({Other} \cup Alert) /\ Range(feed') \subseteq Range(feed) \cup {id}
    <3> HIDE DEF Alert
    <3>1. Pushed(id) \in Seq({Other} \cup Alert) /\ Range(Pushed(id)) \subseteq Range(feed) \cup {id}
      BY <1>3, <1>4, PushedIs
    <3>2. CASE Coalesced(id)
      BY <1>4, <2>1, <3>2
    <3>3. CASE ~Coalesced(id)
      BY <2>1, <3>1, <3>3
    <3> QED BY <3>2, <3>3
  <2>3. LiveTypes'
    <3>1. board' \in BOOLEAN
      BY <2>1 DEF Raises
    <3> QED BY <1>2, <1>3, <1>4, <2>2, <3>1 DEF LiveInv, LiveTypes, hub
  <2>4. Remembered'
    BY <1>2, <1>3, <1>4, <2>1, <2>2 DEF Remembered
  <2>5. ASSUME evicted' = {}, forgot' = {} PROVE Latest(seen') = id
    <3>1. evicted = {} /\ id \notin seen
      BY <1>2, <1>4, <1>7, <2>1, <2>5
    <3>2. ASSUME NEW i \in seen, i > id PROVE FALSE
      <4>1. id \in 1..i
        BY <1>3, <1>4, <3>2 DEF Alert
      <4> QED BY <1>4, <3>1, <4>1
    <3>3. seen' \subseteq Alert /\ seen' # {} /\ id \in seen'
      BY <1>2, <1>3, <1>4
    <3>4. Latest(seen') \in seen' /\ id <= Latest(seen')
      BY <1>4, <3>3, LatestIs
    <3>5. Latest(seen') \in seen => Latest(seen') <= id
      <4>1. PICK latest : latest = Latest(seen')
        OBVIOUS
      <4>2. latest \in seen => latest <= id
        BY <1>3, <1>4, <3>2
      <4> QED BY <4>1, <4>2
    <3>6. Latest(seen') \in Nat /\ id \in Nat
      BY <1>3, <1>4, <3>3, <3>4
    <3> QED BY <1>2, <3>4, <3>5, <3>6
  <2>6. BoardFollows'
    BY <2>1, <2>5 DEF BoardFollows
  <2> QED BY <1>3, <1>5, <2>3, <2>4, <2>6 DEF LiveInv
<1> QED BY <1>6, <1>7

------------------------------------------------------------------------------
(* The system.                                                             *)

LEMMA LiveStep == LiveAssumption /\ LiveInv /\ [LiveNext]_liveVars => LiveInv'
<1> SUFFICES ASSUME LiveAssumption, LiveInv, [LiveNext]_liveVars PROVE LiveInv'
  OBVIOUS
<1>1. CASE UNCHANGED liveVars
  <2>1. UNCHANGED <<hub, client, wire, store, evicted>>
    BY <1>1 DEF liveVars
  <2> QED BY <2>1
          DEF LiveInv, LiveTypes, OneConnection, Kept, Consecutive, Top, Behindhand,
              Remembered, BoardFollows, hub, client, store
<1>2. CASE LiveNext
  BY <1>2, ProduceInv, RestoreInv, PublishInv, SubscribeInv, RestartApiInv, BreakInv,
     ReceiveInv, PushOtherInv, OnErrorInv, RetryInv, HideInv, ShowInv DEF LiveNext
<1> QED BY <1>1, <1>2

\* A connected tab that has received what was sent to it has received what the hub keeps.
LEMMA LiveInvMeans == LiveAssumption /\ LiveInv => NothingMissed
<1> SUFFICES ASSUME LiveAssumption, LiveInv, link = "open", wire = <<>>
             PROVE  Range(recent) \subseteq seen \cup evicted
  BY DEF NothingMissed
<1>1. 1..Top \subseteq seen \cup evicted
  BY DEF LiveInv, Behindhand
<1>2. Range(recent) \subseteq 1..Top
  <2>1. CASE recent = <<>>
    BY <2>1 DEF Range
  <2>2. CASE recent # <<>>
    <3>1. recent \in Seq(Int) /\ Consecutive(recent) /\ recent[1] \in Alert
      BY <2>2, Facts DEF LiveInv, Kept
    <3>2. Range(recent) = recent[1]..Top /\ recent[1] \in Nat \ {0}
      BY <2>2, <3>1, RunIs DEF Top, Alert
    <3> QED BY <3>2
  <2> QED BY <2>1, <2>2
<1> QED BY <1>1, <1>2

\* The invariant holds in every state: the job never skips an alert, the hub keeps a run
\* of them, and the browser has what lies below the place it names.
THEOREM LiveInvariant == ASSUME LiveAssumption PROVE LiveSpec => []LiveInv
<1> QED BY LiveInitially, LiveStep, PTL DEF LiveSpec

\* A tab that is looked at has a connection or a retry to come, and not both, and a
\* hidden one has no connection: whatever order start, visibilitychange, onerror and
\* the retry timer come in, no second EventSource and none that is left behind.
THEOREM ConnectsOnce == ASSUME LiveAssumption PROVE LiveSpec => []OneConnection
<1>1. LiveInv => OneConnection
  BY DEF LiveInv
<1> QED BY <1>1, LiveInvariant, PTL

\* A connected tab that has received what was sent has every alert that the hub keeps
\* and never dropped: replayAfter() of the last id it names, and what is published
\* later, leave no gap over breaks, hidings, restarts of the API and repetitions.
THEOREM MissesNothing == ASSUME LiveAssumption PROVE LiveSpec => []NothingMissed
<1> QED BY LiveInvMeans, LiveInvariant, PTL

\* As long as neither the hub nor the feed has forgotten an id, the board shows what the
\* latest alert received says, however the alerts are repeated.
THEOREM BoardTrue == ASSUME LiveAssumption PROVE LiveSpec => []BoardFollows
<1>1. LiveInv => BoardFollows
  BY DEF LiveInv
<1> QED BY <1>1, LiveInvariant, PTL

------------------------------------------------------------------------------
(* The replay.  Behind the cursor everything is sent or accounted for.     *)

Covered ==
  /\ signals \subseteq Stream!Time /\ cursor \in Int /\ lo \in Int /\ hi \in Int
  /\ cursor = Stream!None => ~epoch
  /\ cursor # Stream!None => lo \in signals /\ hi \in signals /\ lo <= cursor
  /\ cursor # Stream!None =>
       \A t \in signals : lo < t /\ t <= cursor => t \in sent \cup lost
  /\ epoch \in BOOLEAN

StreamInv == Covered /\ PassComplete

LEMMA StreamNumbers ==
  /\ MaxTime \in Nat /\ Interval \in Nat /\ Interval > 0
  /\ Stream!Time = 0..MaxTime /\ Stream!None = -1
BY ServingAssumption DEF Stream!StreamAssumption, Stream!Time, Stream!None

LEMMA StreamInitially == Stream!Init => StreamInv
<1> SUFFICES ASSUME Stream!Init PROVE StreamInv
  OBVIOUS
<1>1. /\ signals \in SUBSET Stream!Time /\ cursor = -1 /\ lo = -1 /\ hi = -1 /\ epoch = FALSE
  BY StreamNumbers DEF Stream!Init
<1>2. epoch \in BOOLEAN
  BY <1>1, Zenon
<1> QED
  BY <1>1, <1>2, StreamNumbers DEF StreamInv, Covered, PassComplete, Stream!PassComplete

LEMMA StoreKeeps == ASSUME StreamInv, NEW t \in Stream!Time, Stream!Store(t) PROVE StreamInv'
<1> USE StreamNumbers
<1>1. /\ signals' = signals \cup {t} /\ epoch' = FALSE
      /\ lost' = IF cursor # Stream!None /\ t <= cursor THEN lost \cup {t} ELSE lost
      /\ lo' = lo /\ hi' = hi /\ cursor' = cursor /\ sent' = sent
  BY DEF Stream!Store
<1>2. epoch' \in BOOLEAN
  BY <1>1, Zenon
<1>3. ASSUME cursor # Stream!None, NEW s \in signals', lo < s, s <= cursor
      PROVE  s \in sent' \cup lost'
  BY <1>1, <1>3 DEF StreamInv, Covered
<1>4. Covered'
  BY <1>1, <1>2, <1>3 DEF StreamInv, Covered, Stream!Time, Stream!None
<1> QED
  BY <1>1, <1>4 DEF StreamInv, PassComplete, Stream!PassComplete

LEMMA EnsureRangeKeeps == ASSUME StreamInv, Stream!EnsureRange PROVE StreamInv'
<1> USE StreamNumbers
<1>1. /\ cursor = -1 /\ signals # {} /\ signals \subseteq 0..MaxTime /\ ~epoch
  BY DEF StreamInv, Covered, Stream!EnsureRange
<1>2. /\ lo' = Stream!Min(signals) /\ hi' = Stream!Max(signals) /\ cursor' = lo'
      /\ signals' = signals /\ sent' = sent /\ lost' = lost /\ epoch' = epoch
  BY DEF Stream!EnsureRange
<1>3. Stream!Min(signals) = Min(signals) /\ Stream!Max(signals) = Max(signals)
  BY DEF Stream!Min, Min, Stream!Max, Max
<1>4. Min(signals) \in signals /\ Max(signals) \in signals
  <2>1. 0 \in Int /\ MaxTime \in Int
    OBVIOUS
  <2> QED
    BY <1>1, <2>1, MinIsLeast, MaxIsGreatest
<1>5. lo' \in signals /\ hi' \in signals /\ lo' \in Int /\ hi' \in Int /\ cursor' = lo'
  <2>1. lo' \in signals /\ hi' \in signals /\ cursor' = lo'
    BY <1>2, <1>3, <1>4, Zenon
  <2> QED
    BY <1>1, <2>1
<1>6. Covered'
  BY <1>1, <1>2, <1>5 DEF StreamInv, Covered, Stream!Time, Stream!None
<1> QED
  BY <1>1, <1>2, <1>6 DEF StreamInv, PassComplete, Stream!PassComplete

\* Where push() leaves the cursor when it is not at the end: no signal lies between the
\* window it looked at and the new cursor.
LEMMA CursorMoves ==
  ASSUME StreamInv, cursor # Stream!None, ~Stream!AtEnd,
         Stream!Window(cursor, Stream!To) = {}
  PROVE  LET new == Stream!JumpTo(Stream!Min(Stream!Window(Stream!To, MaxTime)))
         IN  /\ new \in Int /\ new >= cursor
             /\ \A t \in signals : cursor < t => t > new
<1> USE StreamNumbers
<1> DEFINE T == Stream!Window(Stream!To, MaxTime)
<1>1. /\ signals \subseteq 0..MaxTime /\ cursor \in Int /\ hi \in signals /\ hi \in Int
      /\ Stream!To = cursor + Interval /\ cursor + Interval <= hi
  BY DEF StreamInv, Covered, Stream!To, Stream!AtEnd
<1>2. \A t \in signals : cursor < t => t > cursor + Interval
  BY <1>1 DEF Stream!Window
<1>3. T = {t \in signals : cursor + Interval < t /\ t <= MaxTime}
  BY <1>1 DEF Stream!Window
<1>4. hi \in T /\ T \subseteq 0..MaxTime
  <2>1. cursor < hi /\ hi <= MaxTime
    BY <1>1
  <2>2. cursor + Interval < hi
    BY <1>1, <1>2, <2>1
  <2> HIDE DEF T
  <2> QED
    BY <1>1, <1>3, <2>1, <2>2
<1>5. PICK m \in T : m = Stream!Min(T) /\ \A t \in T : m <= t
  <2>1. Min(T) \in T /\ \A t \in T : Min(T) <= t
    <3> HIDE DEF T
    <3>1. 0 \in Int /\ MaxTime \in Int /\ T # {}
      BY <1>4
    <3> QED
      BY <1>4, <3>1, MinIsLeast
  <2>2. Stream!Min(T) = Min(T)
    BY DEF Stream!Min, Min
  <2> HIDE DEF T
  <2> QED
    BY <2>1, <2>2, Zenon
<1>6. m \in Int /\ m > cursor + Interval
  <2> HIDE DEF T
  <2> QED
    BY <1>1, <1>3
<1>7. Stream!JumpTo(Stream!Min(T)) = m - Interval
  BY <1>5 DEF Stream!JumpTo
<1>8. ASSUME NEW t \in signals, cursor < t PROVE t >= m
  <2>1. t \in T
    BY <1>1, <1>2, <1>3, <1>8
  <2> QED
    BY <1>5, <2>1
<1>9. PICK n \in Int : n = m - Interval
  BY <1>6
<1>10. n >= cursor /\ \A t \in signals : cursor < t => t > n
  <2>1. \A t \in signals : cursor < t => t >= m /\ t \in Int
    BY <1>1, <1>8
  <2> QED
    BY <1>1, <1>6, <1>9, <2>1
<1> QED
  BY <1>7, <1>9, <1>10

LEMMA PushKeeps == ASSUME StreamInv, Stream!Push PROVE StreamInv'
<1> USE StreamNumbers
<1> DEFINE window == Stream!Window(cursor, Stream!To)
           now == [sent |-> sent \cup Stream!Within(window),
                   lost |-> lost \cup (window \ Stream!Within(window))]
<1>1. /\ signals \subseteq 0..MaxTime /\ cursor \in Int /\ lo \in Int /\ hi \in Int
      /\ cursor # -1 /\ lo \in signals /\ hi \in signals /\ lo <= cursor /\ lo # -1
      /\ \A t \in signals : lo < t /\ t <= cursor => t \in sent \cup lost
  BY DEF StreamInv, Covered, Stream!Push
<1>2. /\ signals' = signals /\ lo' = lo /\ hi' = hi /\ epoch' = Stream!AtEnd
      /\ Stream!AtEnd => cursor' = lo /\ pass' = now
      /\ ~Stream!AtEnd => /\ sent' = now.sent /\ lost' = now.lost
                          /\ window # {} => cursor' = Stream!To
                          /\ window = {} =>
                               cursor' = Stream!JumpTo(Stream!Min(Stream!Window(Stream!To, MaxTime)))
  BY DEF Stream!Push
<1>3. now.sent \cup now.lost = sent \cup lost \cup window
  <2>1. Stream!Within(window) \subseteq window
    BY DEF Stream!Within
  <2>2. now.sent = sent \cup Stream!Within(window) /\ now.lost = lost \cup (window \ Stream!Within(window))
    OBVIOUS
  <2> HIDE DEF now, window
  <2> QED
    BY <2>1, <2>2
<1>4. \A t \in signals : lo < t /\ t <= Stream!To => t \in now.sent \cup now.lost
  <2> SUFFICES ASSUME NEW t \in signals, lo < t, t <= Stream!To PROVE t \in sent \cup lost \cup window
    BY <1>3
  <2>1. CASE t <= cursor
    BY <1>1, <2>1
  <2>2. CASE cursor < t
    BY <2>2 DEF Stream!Window
  <2> QED
    BY <1>1, <2>1, <2>2
<1>5. epoch' \in BOOLEAN
  BY <1>2 DEF Stream!AtEnd
<1>6. CASE Stream!AtEnd
  <2>1. Stream!To = hi /\ cursor' = lo /\ pass' = now
    BY <1>2, <1>6 DEF Stream!To
  <2>2. Covered'
    BY <1>1, <1>2, <1>5, <2>1 DEF Covered, Stream!Time, Stream!None
  <2>3. {t \in signals : lo < t /\ t <= hi} \subseteq now.sent \cup now.lost
    BY <1>4, <2>1
  <2>4. PassComplete'
    BY <1>2, <2>1, <2>3 DEF PassComplete, Stream!PassComplete
  <2> QED
    BY <2>2, <2>4 DEF StreamInv
<1>7. CASE ~Stream!AtEnd
  <2>1. /\ cursor' \in Int /\ cursor' >= cursor
        /\ \A t \in signals : lo < t /\ t <= cursor' => t \in now.sent \cup now.lost
    <3>1. CASE window # {}
      <4>1. cursor' = Stream!To /\ Stream!To = cursor + Interval
        BY <1>2, <1>7, <3>1 DEF Stream!To
      <4>2. cursor' \in Int /\ cursor' >= cursor
        BY <1>1, <4>1
      <4> HIDE DEF now, window
      <4> QED
        BY <1>4, <4>1, <4>2
    <3>2. CASE window = {}
      <4>1. cursor' \in Int /\ cursor' >= cursor /\ \A t \in signals : cursor < t => t > cursor'
        <5>1. PICK new : new = cursor'
          OBVIOUS
        <5>2. new = Stream!JumpTo(Stream!Min(Stream!Window(Stream!To, MaxTime)))
          BY <1>2, <1>7, <3>2, <5>1
        <5>3. new \in Int /\ new >= cursor /\ \A t \in signals : cursor < t => t > new
          BY <1>1, <1>7, <3>2, <5>2, CursorMoves
        <5> QED
          BY <5>1, <5>3
      <4>2. \A t \in signals : t \in Int
        BY <1>1
      <4>3. \A t \in signals : t <= cursor' => t <= cursor
        BY <1>1, <4>1, <4>2
      <4> HIDE DEF now, window
      <4> QED
        BY <1>1, <1>3, <4>1, <4>3
    <3> QED
      BY <3>1, <3>2
  <2>2. sent' \cup lost' = now.sent \cup now.lost /\ ~epoch'
    BY <1>2, <1>7
  <2>3. lo' <= cursor'
    BY <1>1, <1>2, <2>1
  <2> HIDE DEF now, window
  <2>4. \A t \in signals' : lo' < t /\ t <= cursor' => t \in sent' \cup lost'
    BY <1>2, <2>1, <2>2
  <2>5. Covered'
    BY <1>1, <1>2, <1>5, <2>1, <2>2, <2>3, <2>4 DEF Covered, Stream!Time, Stream!None
  <2> QED
    BY <2>2, <2>5 DEF StreamInv, PassComplete, Stream!PassComplete
<1> QED
  BY <1>6, <1>7

LEMMA PushFailsKeeps == ASSUME StreamInv, Stream!PushFails PROVE StreamInv'
<1> USE StreamNumbers
<1>1. /\ signals \subseteq 0..MaxTime /\ cursor \in Int /\ lo \in Int /\ hi \in Int
      /\ cursor # -1 /\ lo \in signals /\ hi \in signals /\ lo <= cursor
      /\ \A t \in signals : lo < t /\ t <= cursor => t \in sent \cup lost
  BY DEF StreamInv, Covered, Stream!PushFails
<1>2. /\ signals' = signals /\ lo' = lo /\ hi' = hi /\ epoch' = FALSE /\ sent' = sent
      /\ lost' = lost \cup Stream!Window(cursor, Stream!To)
      /\ cursor' = IF Stream!AtEnd THEN lo ELSE cursor + Interval
      /\ ~Stream!AtEnd => Stream!To = cursor + Interval
  BY DEF Stream!PushFails, Stream!To
<1>3. epoch' \in BOOLEAN /\ ~epoch'
  BY <1>2, Zenon
<1>4. cursor' \in Int /\ lo <= cursor'
  BY <1>1, <1>2
<1>5. ASSUME NEW t \in signals, lo < t, t <= cursor' PROVE t \in sent' \cup lost'
  <2>1. CASE t <= cursor
    BY <1>1, <1>2, <1>5, <2>1
  <2>2. CASE cursor < t
    <3>1. ~Stream!AtEnd
      BY <1>1, <1>2, <1>5, <2>2
    <3>2. t \in Stream!Window(cursor, Stream!To)
      BY <1>2, <1>5, <2>2, <3>1 DEF Stream!Window
    <3> QED
      BY <1>2, <3>2
  <2> QED
    BY <1>1, <2>1, <2>2
<1>6. Covered'
  BY <1>1, <1>2, <1>3, <1>4, <1>5 DEF Covered, Stream!Time, Stream!None
<1> QED
  BY <1>3, <1>6 DEF StreamInv, PassComplete, Stream!PassComplete

LEMMA StreamStep == StreamInv /\ [Stream!Next]_streamVars => StreamInv'
<1> SUFFICES ASSUME StreamInv, [Stream!Next]_streamVars PROVE StreamInv'
  OBVIOUS
<1>1. CASE UNCHANGED streamVars
  BY <1>1 DEF streamVars, StreamInv, Covered, PassComplete, Stream!PassComplete,
              Stream!Time, Stream!None
<1>2. CASE Stream!Next
  BY <1>2, StoreKeeps, EnsureRangeKeeps, PushKeeps, PushFailsKeeps DEF Stream!Next
<1> QED
  BY <1>1, <1>2

------------------------------------------------------------------------------
(* The services together.                                                  *)

\* What every service steps from, whichever of them the behaviour is of.
LEMMA ServicesAreServices ==
  ASSUME [ServicesNext]_<<subject, vars, sinkVars, streamVars, liveVars>>
  PROVE  /\ [Next]_vars /\ [SinkNext]_sinkVars /\ [Stream!Next]_streamVars
         /\ [LiveNext]_liveVars
BY DEF ServicesNext

\* A tab that is never opened keeps the invariant.
LEMMA NoTabKeeps == NoTab => LiveInv
<1> SUFFICES ASSUME NoTab PROVE LiveInv
  OBVIOUS
<1> USE DEF NoTab
<1>1. Len(<<>>) = 0 /\ Range(<<>>) = {} /\ (\A S : <<>> \in Seq(S)) /\ 1..0 = {}
  BY DEF Range
<1>2. topic = <<>> /\ recent = <<>> /\ wire = <<>> /\ feed = <<>> /\ Top = 0 /\ lastId = 0
  BY DEF Top, NoId
<1>3. LiveTypes
  <2>1. offset \in 0..Len(topic)
    BY <1>1, <1>2
  <2>2. timer \in BOOLEAN /\ visible \in BOOLEAN /\ board \in BOOLEAN
    BY Zenon
  <2> QED
    BY <1>1, <1>2, <2>1, <2>2 DEF LiveTypes, NoId
<1>4. Rising(topic)
  BY <1>1, <1>2 DEF Rising
<1>5. Kept /\ Behindhand
  BY <1>1, <1>2, ServingAssumption DEF Kept, Behindhand, Consecutive, LiveAssumption
<1>6. Remembered /\ BoardFollows
  BY <1>1 DEF Remembered, BoardFollows, Latest, NoId, Raises
<1>7. OneConnection
  BY DEF OneConnection
<1> QED
  BY <1>3, <1>4, <1>5, <1>6, <1>7 DEF LiveInv

\* The in-flight count does not pass the limit that onNext() checks.
LEMMA WithinLimit ==
  ASSUME IngestInv, handler.inflight <= MaxInflight, [Next]_vars
  PROVE  handler'.inflight <= MaxInflight
<1> USE ServingAssumption DEF IngestAssumption
<1>0. handler \in HandlerType /\ MaxInflight \in Nat
  BY DEF IngestInv, Sound
<1> DEFINE Fields == {"tracker", "inflight", "clientDone", "closed", "end", "acked", "acks"}
<1>1. ASSUME NEW h, DOMAIN h = Fields, NEW wanted, NEW ok
      PROVE  DOMAIN Emit(h, wanted, ok) = Fields /\ Emit(h, wanted, ok).inflight = h.inflight
  BY <1>1 DEF Emit
<1>2. ASSUME NEW h, DOMAIN h = Fields, NEW status
      PROVE  Fail(h, status).inflight = h.inflight
  BY <1>2 DEF Fail
<1>3. ASSUME NEW h, DOMAIN h = Fields, NEW ok
      PROVE  FinishIfDone(h, ok).inflight = h.inflight
  <2> DEFINE drained == Emit(h, HasNews(h.tracker), ok)
  <2>1. DOMAIN drained = Fields /\ drained.inflight = h.inflight
    BY <1>1, <1>3
  <2> HIDE DEF drained
  <2>2. [drained EXCEPT !.closed = TRUE, !.end = "completed"].inflight = h.inflight
    BY <2>1
  <2> QED
    BY <2>1, <2>2 DEF FinishIfDone, drained
<1>4. DOMAIN handler = Fields /\ handler.inflight \in Int
  BY <1>0 DEF HandlerType
<1>5. DOMAIN OneLess(handler) = Fields /\ OneLess(handler).inflight = handler.inflight - 1
  BY <1>4 DEF OneLess
<1>6. CASE UNCHANGED vars
  BY <1>6 DEF vars
<1>7. ASSUME NEW s \in SeqNo, NEW kind \in Kind, Receive(s, kind)
      PROVE  handler'.inflight <= MaxInflight
  <2> DEFINE h == IF handler.tracker = NoTracker
                  THEN [handler EXCEPT !.tracker = NewTracker(s)] ELSE handler
  <2>1. DOMAIN h = Fields /\ h.inflight = handler.inflight
    BY <1>4
  <2>2. \/ handler' = handler
        \/ handler' = Fail(h, "exhausted")
        \/ ~(h.inflight >= MaxInflight) /\ handler' = [h EXCEPT !.inflight = @ + 1]
    BY <1>7 DEF Receive
  <2> HIDE DEF h
  <2>3. CASE handler' = handler
    BY <2>3
  <2>4. CASE handler' = Fail(h, "exhausted")
    BY <1>2, <2>1, <2>4
  <2>5. CASE ~(h.inflight >= MaxInflight) /\ handler' = [h EXCEPT !.inflight = @ + 1]
    <3>1. handler'.inflight = handler.inflight + 1 /\ ~(handler.inflight >= MaxInflight)
      BY <2>1, <2>5
    <3> QED
      BY <1>0, <1>4, <3>1
  <2> QED
    BY <2>2, <2>3, <2>4, <2>5
<1>8. ASSUME Publish PROVE handler'.inflight <= MaxInflight
  BY <1>8 DEF Publish
<1>9. ASSUME Refuse PROVE handler'.inflight <= MaxInflight
  <2>1. handler'.inflight = handler.inflight - 1
    BY <1>2, <1>5, <1>9 DEF Refuse
  <2> QED
    BY <1>0, <1>4, <2>1
<1>10. ASSUME NEW s \in SeqNo, NEW ok \in BOOLEAN, NEW late \in BOOLEAN, Written(s, late, ok)
       PROVE  handler'.inflight <= MaxInflight
  <2> DEFINE h == OneLess(handler)
             completed == [h EXCEPT !.tracker = Complete(@, s)]
  <2>1. handler' = h \/ handler' = FinishIfDone(Emit(completed, Due(completed.tracker, late), ok), ok)
    BY <1>10 DEF Written
  <2>2. DOMAIN completed = Fields /\ completed.inflight = h.inflight
    BY <1>5
  <2> HIDE DEF h, completed
  <2>3. handler'.inflight = h.inflight
    BY <1>1, <1>3, <2>1, <2>2
  <2> QED
    BY <1>0, <1>4, <1>5, <2>3 DEF h
<1>11. ASSUME NEW s \in SeqNo, NEW ok \in BOOLEAN, NEW w \in SUBSET {s}, NotWritten(s, w, ok)
       PROVE  handler'.inflight <= MaxInflight
  <2>1. handler'.inflight = handler.inflight - 1
    BY <1>3, <1>5, <1>11 DEF NotWritten
  <2> QED
    BY <1>0, <1>4, <2>1
<1>12. ASSUME NEW late \in BOOLEAN, NEW ok \in BOOLEAN, FlushTick(late, ok)
       PROVE  handler'.inflight <= MaxInflight
  BY <1>1, <1>4, <1>12 DEF FlushTick
<1>13. ASSUME NEW ok \in BOOLEAN, HalfClose(ok) PROVE handler'.inflight <= MaxInflight
  <2> DEFINE h == [handler EXCEPT !.clientDone = TRUE]
  <2>1. DOMAIN h = Fields /\ h.inflight = handler.inflight
    BY <1>4
  <2>2. handler' = FinishIfDone(h, ok)
    BY <1>13 DEF HalfClose
  <2> HIDE DEF h
  <2> QED
    BY <1>3, <2>1, <2>2
<1>14. ASSUME Cancel PROVE handler'.inflight <= MaxInflight
  BY <1>4, <1>14 DEF Cancel
<1> QED
  BY <1>6, <1>7, <1>8, <1>9, <1>10, <1>11, <1>12, <1>13, <1>14 DEF Next, KafkaAnswers

LEMMA StreamShape ==
  ASSUME IngestInv, handler.inflight <= MaxInflight
  PROVE  TypeOK
<1> USE ServingAssumption DEF IngestAssumption
<1>1. handler \in HandlerType /\ MaxInflight \in Nat /\ Sound(handler, written) /\ Places
  BY DEF IngestInv, Sound
<1>2. handler.inflight \in 0..MaxInflight
  BY <1>1, IngestFacts DEF IngestInv, InflightIsExact, HandlerType
<1>3. handler.acks \in 0..(MaxSeq + 1)
  BY <1>1 DEF Sound, AckSent, HandlerType, SeqNo, None
<1> QED
  BY <1>1, <1>2, <1>3 DEF TypeOK, HandlerType, TrackerType, Places

\* The replay leaps over gaps in the recording, never over a signal: between two epochs
\* each stored one of the range is sent or accounted for, whatever is stored meanwhile
\* and whichever queries fail.
THEOREM PassIsComplete == Services => []PassComplete
<1>1. ServicesInit => StreamInv
  BY StreamInitially DEF ServicesInit
<1>2. StreamInv /\ [ServicesNext]_<<subject, vars, sinkVars, streamVars, liveVars>> => StreamInv'
  BY ServicesAreServices, StreamStep
<1>3. StreamInv => PassComplete
  BY DEF StreamInv
<1> QED
  BY <1>1, <1>2, <1>3, PTL DEF Services

\* Whichever service runs, the others' invariants hold beside its own.
LEMMA ServicesInvariant ==
  Services => [](IngestInv /\ handler.inflight <= MaxInflight /\ SinkInv /\ LiveInv)
<1> DEFINE Inv == IngestInv /\ handler.inflight <= MaxInflight /\ SinkInv /\ LiveInv
<1>1. ServicesInit => Inv
  <2> SUFFICES ASSUME ServicesInit PROVE Inv
    OBVIOUS
  <2>1. IngestInv
    BY IngestInitially, ServingAssumption DEF ServicesInit
  <2>2. handler.inflight <= MaxInflight
    BY ServingAssumption DEF ServicesInit, Init, IngestAssumption
  <2>3. SinkInv
    BY SinkInitially, ServingAssumption DEF ServicesInit
  <2>4. LiveInv
    BY LiveInitially, NoTabKeeps, ServingAssumption DEF ServicesInit
  <2> QED
    BY <2>1, <2>2, <2>3, <2>4
<1>2. Inv /\ [ServicesNext]_<<subject, vars, sinkVars, streamVars, liveVars>> => Inv'
  <2> SUFFICES ASSUME Inv, [ServicesNext]_<<subject, vars, sinkVars, streamVars, liveVars>>
               PROVE  Inv'
    OBVIOUS
  <2>1. [Next]_vars /\ [SinkNext]_sinkVars /\ [LiveNext]_liveVars
    BY ServicesAreServices
  <2>2. IngestInv'
    BY <2>1, IngestStep, ServingAssumption
  <2>3. (handler.inflight <= MaxInflight)'
    BY <2>1, WithinLimit
  <2>4. SinkInv' /\ LiveInv'
    BY <2>1, SinkStep, LiveStep, ServingAssumption
  <2> QED
    BY <2>2, <2>3, <2>4
<1> QED
  BY <1>1, <1>2, PTL DEF Services

\* The state of a gateway stream has its shape and never counts more records in flight
\* than onNext() admits, the count is exact, and a tab has one connection.
THEOREM ServicesConsistent == Services => []Consistent
<1>1. IngestInv /\ handler.inflight <= MaxInflight /\ SinkInv /\ LiveInv => Consistent
  BY StreamShape DEF Consistent, IngestInv, LiveInv
<1> QED
  BY <1>1, ServicesInvariant, PTL
==============================================================================
