---------------------------- MODULE ReplayStream ----------------------------
(***************************************************************************)
(* The replay of stored telemetry: push() of StreamController.java and the *)
(* queries of TelemetryQueries.java it makes.  A signal is its time, in    *)
(* steps of which push-interval-ms has Interval.  Browsers that connect or *)
(* leave are left out: every browser gets the same stream from when it     *)
(* connects, and one whose send fails is removed.                          *)
(***************************************************************************)
EXTENDS Integers, FiniteSets, FiniteSetsExt

CONSTANTS MaxTime,    \* bound: the span of the recording
          Interval,   \* push-interval-ms
          Limit,      \* max-records-per-push
          MaxFailures \* bound: pushes whose queries fail

StreamAssumption == {MaxTime, Interval, Limit} \subseteq Nat \ {0} /\ MaxFailures \in Nat

VARIABLES signals,  \* times of the stored signals, as the FINAL view has them
          lo, hi,   \* lo, hi
          cursor,   \* cursor
          sent,     \* history: signals sent since the last epoch
          lost,     \* history: not sent since then: the queries failed, the limit cut
                    \* them off, or they were stored behind the cursor
          epoch,    \* the last step sent an epoch
          pass,     \* history: sent and lost when the last epoch was sent
          failures  \* history: pushes that failed

vars == <<signals, lo, hi, cursor, sent, lost, epoch, pass, failures>>

None == -1
Time == 0..MaxTime

------------------------------------------------------------------------------

\* signalsBetween(), as far as the limit goes.
Window(from, to) == {t \in signals : from < t /\ t <= to}
Within(window) == {t \in window : Cardinality({u \in window : u <= t}) <= Limit}

\* Mutant: the cursor is put on the next signal, which no window has then.
JumpOnto(t) == t

\* Mutant: two windows before it, where the window is empty again.
JumpShort(t) == t - 2 * Interval

\* The cursor one window before the signal that nextRecordAfter() finds.
JumpTo(t) == t - Interval

\* The recording goes on, or comes in late.
Store(t) ==
  /\ t \notin signals
  /\ signals' = signals \cup {t}
  /\ lost' = IF cursor # None /\ t <= cursor THEN lost \cup {t} ELSE lost
  /\ epoch' = FALSE
  /\ UNCHANGED <<lo, hi, cursor, sent, pass, failures>>

\* ensureRange(), once.
EnsureRange ==
  /\ cursor = None /\ signals # {}
  /\ lo' = Min(signals) /\ hi' = Max(signals) /\ cursor' = lo'
  /\ UNCHANGED <<signals, sent, lost, epoch, pass, failures>>

AtEnd == cursor + Interval > hi
To == IF AtEnd THEN hi ELSE cursor + Interval

\* push() with its queries answered: it sends the window, or leaps over an empty one.
Push ==
  LET window == Window(cursor, To)
      now == [sent |-> sent \cup Within(window), lost |-> lost \cup (window \ Within(window))]
  IN /\ cursor # None
     /\ epoch' = AtEnd
     /\ IF AtEnd
        THEN cursor' = lo /\ sent' = {} /\ lost' = {} /\ pass' = now
        ELSE /\ cursor' = IF window # {} THEN To ELSE JumpTo(Min(Window(To, MaxTime)))
             /\ sent' = now.sent /\ lost' = now.lost /\ UNCHANGED pass
     /\ UNCHANGED <<signals, lo, hi, failures>>

\* push() with a query failing: the cursor has moved already.
PushFails ==
  /\ cursor # None /\ failures < MaxFailures
  /\ failures' = failures + 1 /\ epoch' = FALSE
  /\ cursor' = IF AtEnd THEN lo ELSE To
  /\ lost' = lost \cup Window(cursor, To)
  /\ UNCHANGED <<signals, lo, hi, sent, pass>>

Init ==
  /\ signals \in SUBSET Time
  /\ lo = None /\ hi = None /\ cursor = None
  /\ sent = {} /\ lost = {} /\ epoch = FALSE /\ failures = 0
  /\ pass = [sent |-> {}, lost |-> {}]

Next ==
  \/ \E t \in Time : Store(t)
  \/ EnsureRange \/ Push \/ PushFails

\* The scheduler calls push(), and the database answers in the end.
Fairness == WF_vars(EnsureRange) /\ WF_vars(Push)

Spec == Init /\ [][Next]_vars /\ Fairness

------------------------------------------------------------------------------
(* Properties.                                                             *)

\* Between two epochs every stored signal of the range but the first is sent or
\* accounted for: gaps are leapt over without a signal being leapt over.
PassComplete ==
  epoch => {t \in signals : lo < t /\ t <= hi} \subseteq pass.sent \cup pass.lost

\* The replay comes round again and again once there is something to replay.
ComesRound == (signals # {}) ~> []<>epoch

\* StreamController.java:36 "at the end it goes back to the beginning and sends an
\* epoch, the sign for the front end to erase the tracks and draw them anew".
RewindAnnounced == [][cursor' < cursor => epoch']_vars
=============================================================================
