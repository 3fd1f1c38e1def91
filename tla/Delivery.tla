------------------------------ MODULE Delivery ------------------------------
(***************************************************************************)
(* The ingest path end to end, for one vehicle and one life of its log:    *)
(*    WalShipper.pump()/on_ack()       window over the write-ahead log     *)
(*    GrpcTransport                    pending records, one RPC at a time  *)
(*    IngestService.StreamHandler      writes to Kafka, cumulative acks    *)
(*    DedupFunction (SeqWindow)        reads the telemetry topic           *)
(* Streams break, processes die, Kafka writes fail or answer late, the log *)
(* drops its oldest records when the disk is full, and a stream that the   *)
(* vehicle gave up may still be served by the gateway next to its          *)
(* successor (limit A-L1 of ack-dedup-design.md: no fencing).              *)
(*                                                                         *)
(* Simplifications.  A record counts once it has left the write buffer:    *)
(* module Wal shows that a seq given to a reader survives a kill and names *)
(* one record; it has the segments too, whose sizes are any here.  The     *)
(* gateway emits an ack whenever it has one: IngestStream has the rules.   *)
(* The de-duplicator reads the log in order and nothing depends on when,   *)
(* so it judges a record in the step that writes it.                       *)
(*                                                                         *)
(* W, Boot and MaxSeq are those of SeqWindow, EveryN is AckTracker's.      *)
(***************************************************************************)
EXTENDS AckTracker, SeqWindow, FiniteSetsExt

CONSTANTS ThisBoot,     \* the boot id of this life of the log
          MaxInflight,  \* WalShipper's window
          QueueSize,    \* GrpcTransport's bound on pending records
          MaxStreams,   \* bound: streams side by side in the gateway
          Driven,       \* the process is ship_to_gateway.py, which ends by itself
          MaxBreaks,    \* bound: streams in use that break
          MaxExits,     \* bound: times the process is killed
          MaxMishaps    \* bound: writes that fail on the stream in use, and times the
                        \* disk cap drops something

ASSUME DeliveryAssumption ==
  /\ ThisBoot \in Boot
  /\ MaxInflight \in Nat \ {0} /\ MaxInflight <= W /\ QueueSize \in Nat \ {0}
  /\ MaxStreams \in Nat \ {0} /\ Driven \in BOOLEAN
  /\ {MaxBreaks, MaxExits, MaxMishaps} \subseteq Nat

VARIABLES
  \* The vehicle: durable, then the process.
  walNext,    \* next_seq of the write-ahead log
  commit,     \* the COMMIT file
  floor,      \* the disk cap dropped the segments of all seqs below it
  process,    \* "running", or how it ended: "killed", "failed", "stalled", "finished"
  shipNext,   \* WalShipper._next
  skipped,    \* the cursor of this process stepped over dropped records
  queue,      \* GrpcTransport._pending
  sentTo,     \* highest seq _drain_pending() gave the present RPC
  cur,        \* the present RPC, 0 between two
  \* The RPCs, and the gateway.
  open,       \* streams whose handler is not closed
  wire,       \* stream |-> records on their way to the gateway
  writing,    \* stream |-> records given to Kafka, not completed
  tracker,    \* AckTracker of the present stream
  acks,       \* acks of the present stream on their way to the vehicle
  \* Budgets of the bounds.
  breaks, exits, mishaps

disk == <<walNext, commit, floor>>
shipper == <<shipNext, skipped>>
vehicle == <<disk, process, shipper, queue, sentTo, cur>>
gateway == <<open, wire, writing, tracker, acks>>
downstream == <<win, base, passed>>
budget == <<breaks, exits, mishaps>>
vars == <<vehicle, gateway, downstream, budget>>

Stream == 1..MaxStreams
Running == process = "running"
InUse(g) == g = cur /\ g \in open

------------------------------------------------------------------------------
(* The vehicle.                                                            *)

\* append() ends with the disk cap, which drops the oldest segments: everything
\* below keep, the newest record too if its segment is full.
AppendRecord(keep) ==
  /\ Running /\ walNext \in SeqNo
  /\ walNext' = walNext + 1
  /\ floor' = keep
  /\ keep > floor => mishaps < MaxMishaps
  /\ mishaps' = IF keep > floor THEN mishaps + 1 ELSE mishaps
  /\ UNCHANGED <<commit, process, shipper, queue, sentTo, cur,
                 gateway, downstream, breaks, exits>>

\* Mutant: one record too many is let out.
AllowedWide == MaxInflight + 1 - (shipNext - 1 - commit)

\* pump(): max_inflight - (next - 1 - committed).
Allowed == MaxInflight - (shipNext - 1 - commit)

\* What the cursor comes to: it steps over what was dropped.
NextHeld == IF shipNext < floor THEN floor ELSE shipNext

\* pump() with n records; send() blocks while the queue is full.
Pump(n) ==
  /\ Running /\ n <= Allowed /\ NextHeld + n <= walNext
  /\ Cardinality(queue) + n <= QueueSize
  /\ queue' = queue \cup NextHeld..(NextHeld + n - 1)
  /\ shipNext' = NextHeld + n
  /\ skipped' = (skipped \/ shipNext < floor)
  /\ UNCHANGED <<disk, process, sentTo, cur, gateway, downstream, budget>>

Unsent == {s \in queue : s > sentTo}

\* Names free for a new stream.
Idle == {g \in Stream : g \notin open /\ writing[g] = {}}

\* _supervise_stream(): a new RPC starts over with everything pending.
OpenStream ==
  /\ Running /\ cur = 0 /\ Idle # {}
  /\ cur' = Min(Idle)
  /\ open' = open \cup {cur'}
  /\ sentTo' = None
  /\ tracker' = NoTracker
  /\ acks' = {}
  /\ UNCHANGED <<disk, process, shipper, queue, wire, writing, downstream, budget>>

\* Mutant: a record leaves the queue when it is sent.
DrainForgetting ==
  /\ Running /\ cur # 0 /\ Unsent # {}
  /\ sentTo' = Min(Unsent)
  /\ queue' = queue \ {Min(Unsent)}
  /\ wire' = IF cur \in open THEN [wire EXCEPT ![cur] = @ \cup {Min(Unsent)}] ELSE wire
  /\ UNCHANGED <<disk, process, shipper, cur, open, writing, tracker, acks,
                 downstream, budget>>

\* _drain_pending()
Drain ==
  /\ Running /\ cur # 0 /\ Unsent # {}
  /\ sentTo' = Min(Unsent)
  /\ wire' = IF cur \in open THEN [wire EXCEPT ![cur] = @ \cup {Min(Unsent)}] ELSE wire
  /\ UNCHANGED <<disk, process, shipper, queue, cur, open, writing, tracker, acks,
                 downstream, budget>>

\* on_ack(): an ack below COMMIT is ignored.
CommitOf(a) == IF a < commit THEN commit ELSE a

\* _pump_acks(): on_ack() first, then the queue is relieved.
ReadAck ==
  /\ Running /\ cur # 0 /\ acks # {}
  /\ LET a == Min(acks)
     IN /\ commit' = CommitOf(a)
        /\ queue' = {s \in queue : s > a}
        /\ acks' = acks \ {a}
  /\ UNCHANGED <<walNext, floor, process, shipper, sentTo, cur,
                 open, wire, writing, tracker, downstream, budget>>

\* The RPC ends under the vehicle: a lost link, or the gateway's status.
StreamLost ==
  /\ Running /\ cur # 0
  /\ cur \in open => breaks < MaxBreaks
  /\ breaks' = IF cur \in open THEN breaks + 1 ELSE breaks

\* Acks on their way are lost; the gateway may not know yet.
Break ==
  /\ StreamLost
  /\ cur' = 0
  /\ acks' = {}
  /\ UNCHANGED <<disk, process, shipper, queue, sentTo, open, wire, writing, tracker,
                 downstream, exits, mishaps>>

Ends(how) ==
  /\ process' = how
  /\ shipNext' = 0 /\ skipped' = FALSE /\ queue' = {} /\ sentTo' = None /\ cur' = 0
  /\ acks' = {}
  /\ UNCHANGED <<disk, open, wire, writing, tracker, downstream>>

Kill ==
  /\ Running
  /\ exits < MaxExits /\ exits' = exits + 1
  /\ Ends("killed")
  /\ UNCHANGED <<breaks, mishaps>>

\* main() leaves its loop on the terminal_error of the lost stream.
Fail ==
  /\ Driven /\ StreamLost
  /\ Ends("failed")
  /\ UNCHANGED <<exits, mishaps>>

\* Nothing is under way between vehicle and gateway, and nothing will be.
Quiet ==
  /\ cur \in open /\ Unsent = {} /\ acks = {}
  /\ wire[cur] = {} /\ writing[cur] = {} /\ ~HasNews(tracker)

\* stats.sent = to_send in main(); what was skipped is never sent.
AllSent == walNext > MaxSeq /\ shipNext = walNext /\ ~skipped

\* main() sees no progress for stall_timeout, and gives up.
Stall ==
  /\ Driven /\ Running /\ Quiet
  /\ Allowed <= 0 \/ NextHeld >= walNext
  /\ walNext > MaxSeq /\ ~AllSent
  /\ Ends("stalled")
  /\ UNCHANGED budget

\* main() leaves its loop once everything was put into the queue, and close() closes the
\* channel at once, whatever is still under way: every end of the script is one of these.
Finish ==
  /\ Driven /\ Running /\ AllSent
  /\ Ends("finished")
  /\ UNCHANGED budget

\* Mutant: the new process ships only what is appended from now on.
ResumePointEnd == walNext

\* WalShipper.__init__(): resume after COMMIT.
ResumePoint == commit + 1

Restart ==
  /\ ~Running
  /\ process' = "running"
  /\ shipNext' = ResumePoint
  /\ UNCHANGED <<disk, skipped, queue, sentTo, cur, gateway, downstream, budget>>

------------------------------------------------------------------------------
(* The gateway and Kafka.                                                  *)

\* onNext() of the next record on the wire.
Receive(g) ==
  /\ g \in open /\ wire[g] # {}
  /\ LET s == Min(wire[g])
     IN /\ wire' = [wire EXCEPT ![g] = @ \ {s}]
        /\ writing' = [writing EXCEPT ![g] = @ \cup {s}]
        /\ tracker' = IF g = cur /\ tracker = NoTracker THEN NewTracker(s) ELSE tracker
  /\ UNCHANGED <<vehicle, open, acks, downstream, budget>>

\* The record is in the topic.
Written(g, s) ==
  /\ s \in writing[g]
  /\ writing' = [writing EXCEPT ![g] = @ \ {s}]
  /\ tracker' = IF InUse(g) THEN Complete(tracker, s) ELSE tracker
  /\ ProcessElement(ThisBoot, s)
  /\ UNCHANGED <<vehicle, open, wire, acks, budget>>

\* The write fails, or its success is not heard of; on a stream that is over it
\* may as well have died with the gateway.
NotWritten(g, s, taken) ==
  /\ s \in writing[g]
  /\ InUse(g) => mishaps < MaxMishaps
  /\ mishaps' = IF InUse(g) THEN mishaps + 1 ELSE mishaps
  /\ writing' = [writing EXCEPT ![g] = @ \ {s}]
  /\ IF taken THEN ProcessElement(ThisBoot, s) ELSE UNCHANGED downstream
  /\ UNCHANGED <<vehicle, open, wire, tracker, acks, breaks, exits>>

EmitAck ==
  /\ cur \in open /\ HasNews(tracker)
  /\ tracker' = Emitted(tracker)
  /\ acks' = acks \cup {tracker.ack}
  /\ UNCHANGED <<vehicle, open, wire, writing, downstream, budget>>

\* The handler is closed: it noticed the cancel, refused a record, or the
\* gateway died.  What is on the wire goes nowhere.
CloseStream(g) ==
  /\ g \in open
  /\ g = cur => breaks < MaxBreaks
  /\ breaks' = IF g = cur THEN breaks + 1 ELSE breaks
  /\ open' = open \ {g}
  /\ wire' = [wire EXCEPT ![g] = {}]
  /\ UNCHANGED <<vehicle, writing, tracker, acks, downstream, exits, mishaps>>

------------------------------------------------------------------------------

Init ==
  /\ walNext = 0 /\ commit = None /\ floor = 0 /\ process = "running"
  /\ shipNext = 0 /\ skipped = FALSE /\ queue = {} /\ sentTo = None /\ cur = 0
  /\ open = {}
  /\ wire = [g \in Stream |-> {}]
  /\ writing = [g \in Stream |-> {}]
  /\ tracker = NoTracker /\ acks = {}
  /\ WindowInit
  /\ breaks = 0 /\ exits = 0 /\ mishaps = 0

Next ==
  \/ \E keep \in floor..(walNext + 1) : AppendRecord(keep)
  \/ \E n \in 1..MaxInflight : Pump(n)
  \/ OpenStream
  \/ Drain
  \/ ReadAck
  \/ Break
  \/ Kill
  \/ Fail
  \/ Stall
  \/ Finish
  \/ Restart
  \/ EmitAck
  \/ \E g \in Stream : Receive(g) \/ CloseStream(g)
  \/ \E g \in Stream, s \in SeqNo : Written(g, s)
  \/ \E g \in Stream, s \in SeqNo, taken \in BOOLEAN : NotWritten(g, s, taken)

Spec == Init /\ [][Next]_vars

\* The driver appends its dataset, ends when it has sent all or sees no progress, and is
\* started again; it waits for no ack.  The vehicle's threads loop; the gateway reads its
\* streams, flushes its acks and notices in the end that a stream was given up; the
\* producer answers every write.  A broken RPC is noticed only when the gateway closed it.
Fairness ==
  /\ WF_vars(AppendRecord(floor)) /\ WF_vars(\E n \in 1..MaxInflight : Pump(n))
  /\ WF_vars(OpenStream)
  /\ WF_vars(Drain) /\ WF_vars(ReadAck) /\ WF_vars(cur \notin open /\ (Break \/ Fail))
  /\ WF_vars(Stall) /\ WF_vars(Finish) /\ WF_vars(Restart)
  /\ WF_vars(EmitAck)
  /\ \A g \in Stream : WF_vars(Receive(g)) /\ WF_vars(g # cur /\ CloseStream(g))
  /\ \A g \in Stream, s \in SeqNo :
       WF_vars(Written(g, s) \/ \E taken \in BOOLEAN : NotWritten(g, s, taken))

FairSpec == Spec /\ Fairness

------------------------------------------------------------------------------
(* Properties.                                                             *)

\* The shape of the composed state.
TypeOK ==
  /\ walNext \in 0..(MaxSeq + 1) /\ commit \in {None} \cup SeqNo
  /\ floor \in 0..walNext /\ skipped \in BOOLEAN
  /\ process \in {"running", "killed", "failed", "stalled", "finished"}
  /\ shipNext \in 0..(MaxSeq + 1) /\ queue \subseteq SeqNo
  /\ sentTo \in {None} \cup SeqNo
  /\ cur \in {0} \cup Stream /\ open \subseteq Stream
  /\ wire \in [Stream -> SUBSET SeqNo] /\ writing \in [Stream -> SUBSET SeqNo]
  /\ tracker \in [start : {None} \cup SeqNo, ack : {None} \cup SeqNo,
                  last : {None} \cup SeqNo, done : SUBSET SeqNo]
  /\ acks \subseteq SeqNo
  /\ WindowTypeOK
  /\ breaks \in 0..MaxBreaks /\ exits \in 0..MaxExits
  /\ mishaps \in 0..MaxMishaps

\* The path implements ExactlyOnce: nothing goes downstream twice, and COMMIT covers
\* only what did or is in DROPPED, under every order of breaks, kills, late writes
\* and full disks.
Abstract == INSTANCE ExactlyOnce WITH issued <- walNext, times <- passed,
                                      acked <- commit, kept <- floor
ImplementsExactlyOnce == Abstract!Spec

\* The de-duplicator throws away only what it has passed on before or the log has in
\* DROPPED: the vehicle's window keeps any other record that is still due inside the
\* bitmap, even next to a stream that was given up (A-L1, A-L2) and behind a hole.
OnlyDuplicatesDropped ==
  \A g \in Stream : \A s \in writing[g] \cup wire[g] :
    Judge(win, ThisBoot, s) \in {"DUPLICATE", "TOO_OLD"} => passed[s] > 0 \/ s < floor

\* A stream never has more writes outstanding than the vehicle's window, so a
\* gateway whose max-inflight is no smaller never ends one with
\* RESOURCE_EXHAUSTED; the queue is bounded by the same window.
WindowBoundsGateway ==
  /\ Cardinality(queue) <= MaxInflight
  /\ \A g \in Stream : Cardinality(writing[g] \cup wire[g]) <= MaxInflight

\* What the present process has given the transport and not committed is still
\* pending there, so that the next RPC resends it; the rest is in DROPPED.
PendingCoversUncommitted ==
  Running => {s \in (commit + 1)..(shipNext - 1) : s >= floor} \subseteq queue

Delivered(s) == passed[s] > 0 \/ s < floor

\* A driver may close its stream before any ack, run after run, so nothing promises that
\* the end of the log ever arrives.  But it leaves its loop only with a window's worth
\* unacknowledged: a record further than that from the end of the log goes downstream,
\* unless the disk cap dropped it, past early closes, broken streams, failed writes, and
\* the hole a drop leaves in a stream, whose ack never comes over it, so that only the
\* stall timeout gets the vehicle on.
AllButTheWindowDelivered ==
  \A s \in SeqNo : (s + MaxInflight < walNext) ~> Delivered(s)

\* "No ack, so the vehicle resends" (comment of the failed write in IngestService):
\* also where the stream could break and never does, and the disk never fills up.
FailedWriteIsResent ==
  [](breaks < MaxBreaks /\ floor = 0) => \A s \in SeqNo : (s < walNext) ~> Delivered(s)

\* What holds at every moment: the shape, the two windows, and the pending queue.
Consistent == TypeOK /\ WindowBoundsGateway /\ PendingCoversUncommitted
=============================================================================
