---------------------------- MODULE IngestStream ----------------------------
(***************************************************************************)
(* One vehicle stream in the gateway (grpc/IngestService.java, the class   *)
(* StreamHandler).  onNext() runs on a gRPC thread and holds the lock only *)
(* around its bookkeeping: the Kafka publish lies between two critical     *)
(* sections, and its callback, the periodic flush and the calls of the     *)
(* transport fall where they like.  gRPC serialises onNext(), onCompleted()*)
(* and the cancel handler of one call.                                     *)
(***************************************************************************)
EXTENDS AckTracker

CONSTANTS MaxSeq,       \* bound: the last seq of the vehicle
          MaxInflight   \* the gateway's max-inflight

IngestAssumption == MaxSeq \in Nat /\ MaxInflight \in Nat \ {0}

VARIABLES
  handler,    \* the StreamHandler's fields; acked and acks, the last ack sent
              \* and how many were; end, how the call ended
  hand,       \* the record inside onNext(), between its critical sections
  pending,    \* seqs given to Kafka whose future is not completed
  nextSeq,    \* lowest seq the vehicle may still send on this stream
  sending,    \* the vehicle has neither half-closed nor gone
  written,    \* history: seqs in the Kafka log
  received,   \* history: seqs onNext() was given
  failed      \* history: seqs whose write failed or was refused

vars == <<handler, hand, pending, nextSeq, sending, written, received, failed>>

SeqNo == 0..MaxSeq
Kind == {"routable", "unroutable"}
Nothing == [seq |-> None, kind |-> "routable"]
End == {"open", "completed", "cancelled", "lost",
        "exhausted", "invalid", "unavailable"}

------------------------------------------------------------------------------
(* What the methods that hold the lock do to the handler.                  *)

\* emit(): ok says whether the call still takes messages.
Emit(h, wanted, ok) ==
  IF ~wanted \/ h.closed THEN h
  ELSE IF ok
  THEN [h EXCEPT !.tracker = Emitted(@), !.acked = h.tracker.ack, !.acks = @ + 1]
  ELSE [h EXCEPT !.tracker = Emitted(@), !.closed = TRUE, !.end = "lost"]

Fail(h, status) ==
  IF h.closed THEN h ELSE [h EXCEPT !.closed = TRUE, !.end = status]

\* Mutant: the last acks are not drained.
FinishUndrained(h, ok) ==
  IF ~h.clientDone \/ h.inflight > 0 \/ h.closed THEN h
  ELSE [h EXCEPT !.closed = TRUE, !.end = "completed"]

\* finishIfDone()
FinishIfDone(h, ok) ==
  IF ~h.clientDone \/ h.inflight > 0 \/ h.closed THEN h
  ELSE LET drained == Emit(h, HasNews(h.tracker), ok)
       IN IF drained.closed THEN drained
          ELSE [drained EXCEPT !.closed = TRUE, !.end = "completed"]

OneLess(h) == [h EXCEPT !.inflight = @ - 1]

------------------------------------------------------------------------------
(* onNext()                                                                *)

\* The first critical section: admit the record, or end the stream.
Receive(s, kind) ==
  /\ sending /\ hand = Nothing
  /\ s >= nextSeq
  /\ nextSeq' = s + 1
  /\ received' = received \cup {s}
  /\ LET h == IF handler.tracker = NoTracker
              THEN [handler EXCEPT !.tracker = NewTracker(s)] ELSE handler
         full == h.inflight >= MaxInflight
     IN IF handler.closed
        THEN UNCHANGED <<handler, hand>>
        ELSE IF full
        THEN handler' = Fail(h, "exhausted") /\ UNCHANGED hand
        ELSE /\ handler' = [h EXCEPT !.inflight = @ + 1]
             /\ hand' = [seq |-> s, kind |-> kind]
  /\ UNCHANGED <<pending, sending, written, failed>>

\* publish() handed the record to the producer, outside the lock.
Publish ==
  /\ hand # Nothing /\ hand.kind = "routable"
  /\ pending' = pending \cup {hand.seq}
  /\ hand' = Nothing
  /\ UNCHANGED <<handler, nextSeq, sending, written, received, failed>>

\* Mutant: the record that was refused stays counted.
RefuseLeaking ==
  /\ hand # Nothing
  /\ handler' = Fail(handler, IF hand.kind = "unroutable" THEN "invalid" ELSE "unavailable")
  /\ failed' = failed \cup {hand.seq}
  /\ hand' = Nothing
  /\ UNCHANGED <<pending, nextSeq, sending, written, received>>

\* publish() threw: no topic for the kind, or the producer would not take it.
Refuse ==
  /\ hand # Nothing
  /\ handler' = Fail(OneLess(handler),
                     IF hand.kind = "unroutable" THEN "invalid" ELSE "unavailable")
  /\ failed' = failed \cup {hand.seq}
  /\ hand' = Nothing
  /\ UNCHANGED <<pending, nextSeq, sending, written, received>>

------------------------------------------------------------------------------
(* The callback of the Kafka future.                                       *)

\* The broker has the record.
Written(s, late, ok) ==
  /\ s \in pending
  /\ pending' = pending \ {s}
  /\ written' = written \cup {s}
  /\ LET h == OneLess(handler)
         completed == [h EXCEPT !.tracker = Complete(@, s)]
     IN handler' = IF h.closed THEN h
                   ELSE FinishIfDone(Emit(completed, Due(completed.tracker, late), ok), ok)
  /\ UNCHANGED <<hand, nextSeq, sending, received, failed>>

\* Mutant: a failed write does not end a stream that waits for it.
NotWrittenForgotten(s, w, ok) ==
  /\ s \in pending
  /\ pending' = pending \ {s}
  /\ written' = written \cup w
  /\ failed' = failed \cup {s}
  /\ handler' = OneLess(handler)
  /\ UNCHANGED <<hand, nextSeq, sending, received>>

\* The write failed, or timed out after the broker had taken it (w = {s}).
NotWritten(s, w, ok) ==
  /\ s \in pending
  /\ pending' = pending \ {s}
  /\ written' = written \cup w
  /\ failed' = failed \cup {s}
  /\ handler' = FinishIfDone(OneLess(handler), ok)
  /\ UNCHANGED <<hand, nextSeq, sending, received>>

------------------------------------------------------------------------------
(* The timer and the transport.                                            *)

\* Mutant: the tick applies the count alone.
FlushTickByCount(late, ok) ==
  /\ ~handler.closed
  /\ Due(handler.tracker, FALSE)
  /\ handler' = Emit(handler, TRUE, ok)
  /\ UNCHANGED <<hand, pending, nextSeq, sending, written, received, failed>>

\* flushTick(), when take() returns an ack.
FlushTick(late, ok) ==
  /\ ~handler.closed
  /\ Due(handler.tracker, late)
  /\ handler' = Emit(handler, TRUE, ok)
  /\ UNCHANGED <<hand, pending, nextSeq, sending, written, received, failed>>

\* onCompleted()
HalfClose(ok) ==
  /\ sending /\ hand = Nothing
  /\ sending' = FALSE
  /\ handler' = FinishIfDone([handler EXCEPT !.clientDone = TRUE], ok)
  /\ UNCHANGED <<hand, pending, nextSeq, written, received, failed>>

\* The cancel handler, and onError().
Cancel ==
  /\ hand = Nothing /\ ~handler.closed
  /\ sending' = FALSE
  /\ handler' = [handler EXCEPT !.closed = TRUE, !.end = "cancelled"]
  /\ UNCHANGED <<hand, pending, nextSeq, written, received, failed>>

------------------------------------------------------------------------------

Init ==
  /\ handler = [tracker |-> NoTracker, inflight |-> 0, clientDone |-> FALSE,
                closed |-> FALSE, end |-> "open", acked |-> None, acks |-> 0]
  /\ hand = Nothing /\ pending = {} /\ nextSeq = 0 /\ sending = TRUE
  /\ written = {} /\ received = {} /\ failed = {}

KafkaAnswers(s) ==
  \E ok \in BOOLEAN :
     \/ \E late \in BOOLEAN : Written(s, late, ok)
     \/ \E w \in SUBSET {s} : NotWritten(s, w, ok)

Next ==
  \/ \E s \in SeqNo, kind \in Kind : Receive(s, kind)
  \/ Publish
  \/ Refuse
  \/ \E s \in SeqNo : KafkaAnswers(s)
  \/ \E late, ok \in BOOLEAN : FlushTick(late, ok)
  \/ \E ok \in BOOLEAN : HalfClose(ok)
  \/ Cancel

Spec == Init /\ [][Next]_vars

\* onNext() returns, the producer completes every future (delivery.timeout.ms),
\* and the scheduler fires with the period passed.
Fairness ==
  /\ WF_vars(Publish \/ Refuse)
  /\ \A s \in SeqNo : WF_vars(KafkaAnswers(s))
  /\ WF_vars(\E ok \in BOOLEAN : FlushTick(TRUE, ok))

FairSpec == Spec /\ Fairness

------------------------------------------------------------------------------
(* Properties.                                                             *)

\* The shape of the stream's state.
TypeOK ==
  /\ handler \in [tracker : [start : {None} \cup SeqNo, ack : {None} \cup SeqNo,
                             last : {None} \cup SeqNo, done : SUBSET SeqNo],
                  inflight : 0..MaxInflight, clientDone : BOOLEAN,
                  closed : BOOLEAN, end : End, acked : {None} \cup SeqNo,
                  acks : 0..(MaxSeq + 1)]
  /\ hand \in [seq : {None} \cup SeqNo, kind : Kind]
  /\ pending \subseteq SeqNo /\ nextSeq \in 0..(MaxSeq + 1) /\ sending \in BOOLEAN
  /\ written \subseteq SeqNo /\ received \subseteq SeqNo /\ failed \subseteq SeqNo

\* An ack covers written records only, whatever order Kafka completes them in:
\* nothing below it was refused, failed, skipped or is still on its way.
AckedAreWritten ==
  handler.acked # None => handler.tracker.start..handler.acked \subseteq written

\* Every ack message is higher than the one before, and none is sent once the
\* stream is closed.
AcksAdvance ==
  [][handler'.acks # handler.acks =>
       handler'.acked > handler.acked /\ ~handler.closed]_vars

\* The in-flight count is the records being published or written, on every path
\* out of onNext(): it never leaks and never ends a stream too early.
InflightIsExact ==
  handler.inflight = Cardinality(pending) + (IF hand = Nothing THEN 0 ELSE 1)

\* A stream that completes has acknowledged all it was sent, up to the first
\* record that failed or was never sent.
CompletedMeansAcked ==
  handler.end = "completed" =>
    \A s \in received :
      (\A r \in handler.tracker.start..s : r \in received \ failed)
        => s <= handler.acked

\* What an ack says is true, and a stream that completes has said all of it.
AcksAreExact == AckedAreWritten /\ CompletedMeansAcked

\* A half-closed stream is closed, whatever Kafka does with its records.
HalfCloseEnds == handler.clientDone ~> handler.closed

\* A vehicle that goes quiet still gets the ack of its last records: news never waits
\* for good on an open stream.
QuietAckArrives == []<>(~HasNews(handler.tracker) \/ handler.closed)
=============================================================================
