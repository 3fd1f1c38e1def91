------------------------------ MODULE Loopback ------------------------------
(***************************************************************************)
(* WalShipper over the in-process gateway of shipping.py, the harness of   *)
(* the vehicle's own delivery tests: send() writes a line to a log that    *)
(* outlives the process, and calls on_ack() back before it returns.  A     *)
(* process that starts again has a new tracker over the same log, and      *)
(* SeqDedup reads the log afterwards: here, with every line it gets.       *)
(*                                                                         *)
(* Simplification.  A record counts once it has left the WAL's buffer,     *)
(* which pump() flushes (module Wal).                                      *)
(***************************************************************************)
EXTENDS AckTracker

CONSTANTS MaxSeq,      \* bound: the last seq
          MaxInflight, \* WalShipper's window
          W,           \* width of SeqDedup's window
          MaxStarts    \* bound: processes

LoopbackAssumption ==
  /\ MaxSeq \in Nat /\ W \in Nat \ {0} /\ MaxInflight \in 1..W /\ MaxStarts \in Nat

VARIABLES
  walNext, commit,  \* the WAL directory
  next,             \* WalShipper._next
  inSend,           \* send() has written the record and goes on to take()
  tracker,          \* AckTracker of this process
  eager,            \* flush_ack() has set every_n = 1 and every_s = 0
  failFrom,         \* fail_write_from, MaxSeq + 1 for None
  starts,
  began,            \* history: COMMIT and the log when it started
  copies,           \* lines of the log
  win, base, passed \* SeqDedup and its history

disk == <<walNext, commit>>
process == <<next, inSend, tracker, eager, failFrom, starts, began>>
log == <<copies, win, base, passed>>
vars == <<disk, process, log>>

SeqNo == 0..MaxSeq

Dedup == INSTANCE SeqWindow WITH Boot <- {"boot"}, NoBoot <- "none"

AppendRecord ==
  /\ walNext \in SeqNo
  /\ walNext' = walNext + 1
  /\ UNCHANGED <<commit, process, log>>

\* on_ack(): an ack below COMMIT is ignored; it may run inside send().
OnAck(a) == commit' = IF a < commit THEN commit ELSE a

\* take() says there is an ack to give, and it is given; or there is none.
Acknowledge(t, late) ==
  IF Due(t, late)
  THEN tracker' = Emitted(t) /\ OnAck(t.ack)
  ELSE tracker' = t /\ UNCHANGED commit

Opened(s) == IF tracker = NoTracker THEN NewTracker(s) ELSE tracker

\* Mutant: the record is completed when it is received.
WriteFailsCompleted ==
  /\ next >= failFrom
  /\ tracker' = Complete(Opened(next), next)
  /\ inSend' = TRUE
  /\ UNCHANGED <<commit, next, log>>

\* The write fails: no completion, so the ack stays where it is.
WriteFails ==
  /\ next >= failFrom
  /\ tracker' = Opened(next)
  /\ next' = next + 1
  /\ UNCHANGED <<commit, inSend, log>>

Write ==
  /\ next < failFrom
  /\ copies' = [copies EXCEPT ![next] = @ + 1]
  /\ Dedup!ProcessElement("boot", next)
  /\ tracker' = Complete(Opened(next), next)
  /\ inSend' = TRUE
  /\ UNCHANGED <<commit, next>>

\* pump() comes to the next record of its batch and calls send().
Send ==
  /\ ~inSend /\ next < walNext
  /\ next - 1 - commit < MaxInflight
  /\ WriteFails \/ Write
  /\ UNCHANGED <<walNext, eager, failFrom, starts, began>>

\* The rest of send(), and pump()'s own count after it returned.
Take(late) ==
  /\ inSend /\ (eager => late)
  /\ Acknowledge(tracker, late)
  /\ inSend' = FALSE
  /\ next' = next + 1
  /\ UNCHANGED <<walNext, eager, failFrom, starts, began, log>>

FlushAck ==
  /\ ~inSend /\ tracker # NoTracker
  /\ eager' = TRUE
  /\ Acknowledge(tracker, TRUE)
  /\ UNCHANGED <<walNext, next, inSend, failFrom, starts, began, log>>

Logged == {s \in SeqNo : copies[s] > 0}

\* Mutant: the new process goes on behind what the log holds.
ResumePointLogged == Cardinality(Logged)

\* WalShipper.__init__()
ResumePoint == commit + 1

\* The process is killed anywhere, or ends, and another one starts.
Restart(from) ==
  /\ starts < MaxStarts
  /\ starts' = starts + 1
  /\ next' = ResumePoint /\ inSend' = FALSE
  /\ tracker' = NoTracker /\ eager' = FALSE
  /\ failFrom' = from
  /\ began' = [commit |-> commit, copies |-> copies]
  /\ UNCHANGED <<disk, log>>

Init ==
  /\ walNext = 0 /\ commit = None /\ next = 0 /\ inSend = FALSE
  /\ tracker = NoTracker /\ eager = FALSE /\ failFrom \in 0..(MaxSeq + 1)
  /\ copies = [s \in SeqNo |-> 0]
  /\ starts = 1 /\ began = [commit |-> None, copies |-> copies]
  /\ Dedup!WindowInit

Next ==
  \/ AppendRecord \/ Send \/ FlushAck
  \/ \E late \in BOOLEAN : Take(late)
  \/ \E from \in 0..(MaxSeq + 1) : Restart(from)

------------------------------------------------------------------------------

\* The harness keeps the promise of the path it stands in for: read through
\* SeqDedup its log holds every record once, and COMMIT covers only what it holds.
Abstract == INSTANCE ExactlyOnce WITH issued <- walNext, times <- passed, acked <- commit, kept <- 0
ImplementsExactlyOnce == Abstract!Spec

Reached == IF inSend THEN next + 1 ELSE next

\* What test_shipping predicts: the log never has a hole, and a process writes again
\* exactly what lies between the COMMIT it started from and the log's end then, once.
ResendsExact ==
  /\ Logged = 0..(Cardinality(Logged) - 1)
  /\ \A s \in SeqNo :
       copies[s] - began.copies[s] = IF began.commit < s /\ s < Reached /\ s < failFrom THEN 1 ELSE 0
  /\ Dedup!WindowTypeOK /\ commit < next /\ next <= walNext
=============================================================================
