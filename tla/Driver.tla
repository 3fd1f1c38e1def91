------------------------------- MODULE Driver -------------------------------
(***************************************************************************)
(* Runs of scripts/ship_to_gateway.py over one WAL directory, and the      *)
(* check of the topic by scripts/verify_kafka.py.  A run appends its       *)
(* dataset, ships it with whatever an earlier run left uncommitted, and    *)
(* judges itself; the ack reader and the supervisor of the transport are   *)
(* threads beside main().                                                  *)
(*                                                                         *)
(* Simplifications.  The gateway acknowledges what it wrote (IngestStream) *)
(* and writes only what the present stream sends it (Delivery has streams  *)
(* that overlap).  The script sets no disk cap.  A wiped directory starts  *)
(* a new boot id, and only the topic's records of the present one count,   *)
(* as verify_kafka.py --boot-id reads it.                                  *)
(***************************************************************************)
EXTENDS Integers, Sequences, FiniteSetsExt

CONSTANTS MaxSeq,      \* bound: the last seq of a log
          MaxInflight, \* WalShipper's window
          Budget,      \* what the loop lets pump() send at a time
          MaxRuns,     \* bound: starts of the script
          MaxBreaks    \* bound: streams that break

DriverAssumption ==
  /\ MaxSeq \in Nat /\ MaxRuns \in Nat /\ MaxBreaks \in Nat
  /\ MaxInflight \in Nat \ {0} /\ Budget \in Nat \ {0}

VARIABLES
  log,      \* kinds of the records in the WAL, seq s at s + 1
  commit,   \* COMMIT
  topic,    \* seq |-> copies in Kafka
  pc,       \* main(): "off", "append", "ship", "close", "done"
  plan,     \* first_new_seq, total_records and resume_backlog of the run
  sent,     \* shipper.stats.sent
  next,     \* WalShipper._next
  stalled, code,
  pending,  \* the transport's unacknowledged records
  unsent,   \* those the present RPC has not carried yet
  start,    \* first seq the present RPC carried
  error,    \* terminal_error is set
  runs, breaks

disk == <<log, commit>>
main == <<pc, plan, sent, next, stalled, code>>
transport == <<pending, unsent, start, error>>
budget == <<runs, breaks>>
vars == <<disk, topic, main, transport, budget>>

None == -1
SeqNo == 0..MaxSeq
NextSeq == Len(log)

\* What a run has to append: signals first, then objects, maybe nothing.
Dataset == [signals : 0..1, objects : 0..2]
KindAt(p, n) == IF n < p.first + p.data.signals THEN "signal" ELSE "object"
TotalRecords(p) == p.data.signals + p.data.objects

------------------------------------------------------------------------------
(* main().                                                                 *)

\* Mutant: the records an earlier run left are not counted.
BacklogNone(first, committed) == 0

\* resume_backlog
Backlog(first, committed) == IF first - 1 > committed THEN first - 1 - committed ELSE 0

ToSend == TotalRecords(plan) + plan.backlog

\* Mutant: the last seq is taken to be the number of records.
ExpectedCommitFromZero == TotalRecords(plan) - 1

ExpectedCommit == plan.first + TotalRecords(plan) - 1

\* The directory is wiped or kept, and the WAL opened.
Begin(keep, data) ==
  /\ pc \in {"off", "done"} /\ runs < MaxRuns
  /\ log' = IF keep THEN log ELSE <<>>
  /\ Len(log') + data.signals + data.objects <= MaxSeq + 1
  /\ commit' = IF keep THEN commit ELSE None
  /\ topic' = IF keep THEN topic ELSE [s \in SeqNo |-> 0]
  /\ plan' = [first |-> Len(log'), data |-> data, backlog |-> Backlog(Len(log'), commit')]
  /\ pc' = "append" /\ sent' = 0 /\ next' = 0 /\ stalled' = FALSE /\ code' = None
  /\ pending' = {} /\ unsent' = {} /\ start' = None /\ error' = FALSE
  /\ runs' = runs + 1
  /\ UNCHANGED breaks

Appended == NextSeq - plan.first

AppendRecord ==
  /\ pc = "append" /\ Appended < TotalRecords(plan)
  /\ log' = Append(log, KindAt(plan, NextSeq))
  /\ UNCHANGED <<commit, topic, main, transport, budget>>

\* "Nothing to send": return 1, although a backlog may be waiting.
NothingToSend ==
  /\ pc = "append" /\ TotalRecords(plan) = 0
  /\ pc' = "done" /\ code' = 1
  /\ UNCHANGED <<disk, topic, plan, sent, next, stalled, transport, budget>>

\* The transport and the shipper are made, the stream is opened.
Connect ==
  /\ pc = "append" /\ TotalRecords(plan) > 0 /\ Appended = TotalRecords(plan)
  /\ pc' = "ship"
  /\ next' = commit + 1
  /\ UNCHANGED <<disk, topic, plan, sent, stalled, code, transport, budget>>

Looping == pc = "ship" /\ sent < ToSend /\ ~error

\* What pump() sends at once: as much as window, budget and log allow.
Allowed == Min({MaxInflight - (next - 1 - commit), Budget, NextSeq - next})
Batch == next..(next + Allowed - 1)

PumpBatch ==
  /\ Looping /\ Batch # {}
  /\ pending' = pending \cup Batch
  /\ unsent' = unsent \cup Batch
  /\ next' = next + Allowed
  /\ sent' = sent + Allowed
  /\ UNCHANGED <<disk, topic, pc, plan, stalled, code, start, error, budget>>

\* Mutant: the loop has no upper bound on its patience.
StallNever == FALSE /\ UNCHANGED vars

\* Neither sent nor committed moved for stall_timeout.
Stall ==
  /\ Looping /\ Batch = {}
  /\ stalled' = TRUE /\ pc' = "close"
  /\ UNCHANGED <<disk, topic, plan, sent, next, code, transport, budget>>

Leave ==
  /\ pc = "ship" /\ (sent >= ToSend \/ error)
  /\ pc' = "close"
  /\ UNCHANGED <<disk, topic, plan, sent, next, stalled, code, transport, budget>>

\* The exit code, after close() joined the ack reader.
Verdict == IF stalled \/ error \/ commit # ExpectedCommit THEN 1 ELSE 0

\* close() cuts the channel; what is not acknowledged waits in the WAL.
Close ==
  /\ pc = "close"
  /\ pc' = "done" /\ code' = Verdict
  /\ pending' = {} /\ unsent' = {}
  /\ UNCHANGED <<disk, topic, plan, sent, next, stalled, start, error, budget>>

Kill ==
  /\ pc \notin {"off", "done"} /\ runs < MaxRuns
  /\ pc' = "off"
  /\ pending' = {} /\ unsent' = {}
  /\ UNCHANGED <<disk, topic, plan, sent, next, stalled, code, start, error, budget>>

------------------------------------------------------------------------------
(* The transport's threads, and the gateway at the other end.              *)

Connected == pc \in {"ship", "close"}

\* The next record goes out; Kafka takes it or fails it.
Carry(taken) ==
  /\ Connected /\ unsent # {}
  /\ LET s == Min(unsent)
     IN /\ unsent' = unsent \ {s}
        /\ start' = IF start = None THEN s ELSE start
        /\ topic' = IF taken THEN [topic EXCEPT ![s] = @ + 1] ELSE topic
  /\ UNCHANGED <<disk, main, pending, error, budget>>

\* An ack for everything from the first seq of the stream to a.
ReadAck(a) ==
  /\ Connected /\ start # None /\ a \in start..(next - 1) /\ a > commit
  /\ a \notin unsent /\ \A s \in start..a : topic[s] > 0
  /\ commit' = a
  /\ pending' = {s \in pending : s > a}
  /\ unsent' = {s \in unsent : s > a}
  /\ UNCHANGED <<log, topic, main, start, error, budget>>

\* The stream ends under us: terminal_error stays set, the next RPC starts over.
Break ==
  /\ Connected /\ breaks < MaxBreaks
  /\ breaks' = breaks + 1
  /\ error' = TRUE
  /\ unsent' = pending
  /\ start' = None
  /\ UNCHANGED <<disk, topic, main, pending, runs>>

------------------------------------------------------------------------------
(* verify_kafka.py: drain() the topic, then check_gaps().                  *)

SeqsOf(kinds) == {s \in SeqNo : topic[s] > 0 /\ s < NextSeq /\ log[s + 1] \in kinds}

Gaps(seqs) == IF seqs = {} THEN {} ELSE (Min(seqs)..Max(seqs)) \ seqs

\* No failure is noted; channels, keys and decoding are left out.
Verify ==
  /\ Gaps(SeqsOf({"signal"})) = {}
  /\ \A s \in SeqsOf({"signal"}) : topic[s] = 1
  /\ Gaps(SeqsOf({"signal", "object"})) = {}

------------------------------------------------------------------------------

Init ==
  /\ log = <<>> /\ commit = None /\ topic = [s \in SeqNo |-> 0]
  /\ pc = "off" /\ plan = [first |-> 0, data |-> [signals |-> 0, objects |-> 0], backlog |-> 0]
  /\ sent = 0 /\ next = 0 /\ stalled = FALSE /\ code = None
  /\ pending = {} /\ unsent = {} /\ start = None /\ error = FALSE
  /\ runs = 0 /\ breaks = 0

Next ==
  \/ \E keep \in BOOLEAN, data \in Dataset : Begin(keep, data)
  \/ AppendRecord \/ NothingToSend \/ Connect
  \/ PumpBatch \/ Stall \/ Leave \/ Close \/ Kill
  \/ \E taken \in BOOLEAN : Carry(taken)
  \/ \E a \in SeqNo : ReadAck(a)
  \/ Break

\* main() runs on; neither the gateway nor the transport owes it anything.
Fairness ==
  WF_vars(AppendRecord \/ NothingToSend \/ Connect \/ PumpBatch \/ Stall \/ Leave \/ Close)

------------------------------------------------------------------------------
(* Properties.                                                             *)

\* Types, and the count main() goes by: what is left to send is what is left in
\* the log, whether the run began with a backlog or not.
TypeOK ==
  /\ log \in Seq({"signal", "object"}) /\ NextSeq <= MaxSeq + 1
  /\ commit \in None..MaxSeq /\ topic \in [SeqNo -> Nat]
  /\ pc \in {"off", "append", "ship", "close", "done"} /\ code \in {None, 0, 1}
  /\ unsent \subseteq pending /\ pending \subseteq (commit + 1)..(next - 1)
  /\ pc = "ship" => ToSend - sent = NextSeq - next

\* "All acknowledged, no gap": a run that returns 0 leaves every record of the log
\* in Kafka, the backlog of earlier runs included.  verify_kafka.py passes what a first
\* run over an unbroken stream left, and the two together never miss a hole.
SuccessIsComplete ==
  (pc = "done" /\ code = 0) =>
    /\ \A s \in 0..(NextSeq - 1) : topic[s] > 0
    /\ (plan.first = 0 /\ breaks = 0) => Verify

\* main() returns, whatever the gateway does or fails to do.
MainReturns == pc = "ship" ~> pc \in {"done", "off"}
=============================================================================
