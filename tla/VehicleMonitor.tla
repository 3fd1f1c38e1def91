--------------------------- MODULE VehicleMonitor ---------------------------
(***************************************************************************)
(* VehicleMonitorFunction.java for one vehicle: alerts for an unplanned    *)
(* stop, a sensor fault and silence, each with the one that clears it.     *)
(*                                                                         *)
(* An observation is reduced to its event time, its context (boot id and   *)
(* mission), whether it says "stopped" (mission active, no planned stop,   *)
(* speed of 0.1 m/s at most) and whether the sensor is healthy.  One that  *)
(* is invalid or late changes nothing and is left out.                     *)
(***************************************************************************)
EXTENDS Integers, Sequences

CONSTANTS Context, NoContext, \* boot id and mission; none yet
          StopAfter,          \* so long a stop is unplanned
          StaleAfter,         \* so long a silence is alerted
          TimerLag,           \* Flink calls onTimer() at most so late
          MaxTime,            \* bound: the clock
          MaxObserved         \* bound: observations that are heard

MonitorAssumption ==
  /\ NoContext \notin Context
  /\ StopAfter \in Nat \ {0} /\ StaleAfter \in Nat \ {0} /\ TimerLag \in Nat
  /\ MaxTime \in Nat \ {0} /\ MaxObserved \in Nat

VARIABLES now,    \* processing time; the vehicle's clock runs with it
          state,  \* State
          timers, \* times of the registered timers
          alerts, \* what was collected, in order
          track   \* history: the observations heard

vars == <<now, state, timers, alerts, track>>

None == -1

\* open(): no state.  seq is the number of the observation.
NoState == [context |-> NoContext, seq |-> 0, event |-> 0, deadline |-> None,
            since |-> None, stopAlert |-> FALSE, healthy |-> "unknown", stale |-> FALSE]

Alert(kind, raise, s) ==
  <<[kind |-> kind, raise |-> raise, seq |-> s.seq, context |-> s.context]>>
If(condition, alert) == IF condition THEN alert ELSE <<>>

------------------------------------------------------------------------------

\* brokenContinuity
Broken(s, o) ==
  \/ s.stale
  \/ s.event > 0 /\ o.event - s.event > StaleAfter
  \/ s.context # o.context

\* Mutant: a stop that was alerted stays alerted over a break.
StillAlertedOverBreak(s, o) == s.stopAlert

\* stopAlert after the branch for a break of continuity.
StillAlerted(s, o) == s.stopAlert /\ ~Broken(s, o)

Since(s, o) ==
  IF ~o.stopped THEN None
  ELSE IF Broken(s, o) \/ s.since = None THEN o.event ELSE s.since

LongStop(s, o) == o.stopped /\ o.event - Since(s, o) >= StopAfter

\* Mutant: an observation does not put the deadline off.
DeadlineKept(s) == IF s.deadline # None THEN s.deadline ELSE now + StaleAfter

Deadline(s) == now + StaleAfter

\* The state after an observation.
Seen(s, o) ==
  [context |-> o.context, seq |-> s.seq + 1, event |-> o.event,
   deadline |-> Deadline(s), since |-> Since(s, o),
   stopAlert |-> o.stopped /\ (StillAlerted(s, o) \/ LongStop(s, o)),
   healthy |-> IF o.healthy THEN "yes" ELSE "no", stale |-> FALSE]

\* The timer of the observation before is deleted.
OtherTimers == timers \ {state.deadline}

\* processElement() of a valid observation that is not late.
Observe(o) ==
  /\ Len(track) < MaxObserved
  /\ state.event < o.event /\ o.event <= now
  /\ LET s == Seen(state, o)
     IN /\ state' = s
        /\ timers' = OtherTimers \cup {s.deadline}
        /\ alerts' = alerts
             \o If(state.stale, Alert("stale", FALSE, s))
             \o If(state.stopAlert /\ ~StillAlerted(state, o), Alert("stop", FALSE, s))
             \o If(~StillAlerted(state, o) /\ LongStop(state, o), Alert("stop", TRUE, s))
             \o If(StillAlerted(state, o) /\ ~o.stopped, Alert("stop", FALSE, s))
             \o If(~o.healthy /\ state.healthy # "no", Alert("fault", TRUE, s))
             \o If(o.healthy /\ state.healthy = "no", Alert("fault", FALSE, s))
  /\ track' = Append(track, [event |-> o.event, context |-> o.context, stopped |-> o.stopped,
                              healthy |-> o.healthy, at |-> now, silent |-> state.stale])
  /\ UNCHANGED now

\* Mutant: the alerted stop outlives a silence.
StopLeft(s) == s.stopAlert

\* stopAlert after onTimer().
StopAfterSilence(s) == FALSE

\* onTimer(): Flink calls it at the time it was registered for, or somewhat later.
OnTimer(t) ==
  /\ t \in timers /\ t <= now
  /\ timers' = timers \ {t}
  /\ IF state.deadline = t /\ ~state.stale
     THEN /\ state' = [state EXCEPT !.stale = TRUE, !.since = None,
                                    !.stopAlert = StopAfterSilence(state)]
          /\ alerts' = alerts
               \o If(state.stopAlert, Alert("stop", FALSE, state))
               \o Alert("stale", TRUE, state)
     ELSE UNCHANGED <<state, alerts>>
  /\ UNCHANGED <<now, track>>

Tick ==
  /\ now < MaxTime
  /\ \A t \in timers : now - t < TimerLag
  /\ now' = now + 1
  /\ UNCHANGED <<state, timers, alerts, track>>

Init ==
  /\ now = 1 /\ state = NoState
  /\ timers = {} /\ alerts = <<>> /\ track = <<>>

Observation == [event : 1..MaxTime, context : Context, stopped : BOOLEAN, healthy : BOOLEAN]

Next ==
  \/ \E o \in Observation : Observe(o)
  \/ \E t \in timers : OnTimer(t)
  \/ Tick

Spec == Init /\ [][Next]_vars

------------------------------------------------------------------------------
(* What the history says.                                                  *)

Heard == 1..Len(track)
Last == track[Len(track)]

\* The i-th observation carries on from the one before it.
Continues(i) ==
  /\ ~track[i].silent
  /\ track[i].event - track[i-1].event <= StaleAfter
  /\ track[i].context = track[i-1].context

\* The vehicle was seen standing without a break from the i-th observation on.
StoodSince(i) ==
  \A m \in i..Len(track) : track[m].stopped /\ (m > i => Continues(m))

\* What somebody who followed the alerts up to the k-th takes to be the case.
UpAfter(k, kind) ==
  \E l \in 1..k : /\ alerts[l].kind = kind /\ alerts[l].raise
                  /\ \A m \in (l + 1)..k : alerts[m].kind # kind
Up(kind) == UpAfter(Len(alerts), kind)

\* Every timer that is due was called.
NoneDue == \A t \in timers : t > now

------------------------------------------------------------------------------
(* Properties.                                                             *)

\* The shape of the state; while the vehicle is not silent its deadline is awaited.
TypeOK ==
  /\ now \in 1..MaxTime
  /\ state.context \in Context \cup {NoContext} /\ state.seq = Len(track)
  /\ state.event \in 0..now /\ state.since \in {None} \cup 1..now
  /\ state.healthy \in {"unknown", "yes", "no"} /\ {state.stopAlert, state.stale} \subseteq BOOLEAN
  /\ timers \subseteq {state.deadline}
  /\ (state.seq > 0 /\ ~state.stale) => timers = {state.deadline}

\* Alerts of a kind alternate, beginning with one that raises, and no two have the
\* same event id: one that had would be dropped downstream as a repetition.
Alternate ==
  /\ \A k \in 1..Len(alerts) : alerts[k].raise <=> ~UpAfter(k - 1, alerts[k].kind)
  /\ \A k, l \in 1..Len(alerts) : alerts[k] = alerts[l] => k = l

\* The stop alert is up exactly while the vehicle is heard and was seen standing for
\* StopAfter in one unbroken row: nothing is inferred across a silence, a gap, or a
\* change of boot or mission.
StopExact ==
  Up("stop") <=>
    /\ Len(track) > 0 /\ ~Up("stale")
    /\ \E i \in Heard : StoodSince(i) /\ Last.event - track[i].event >= StopAfter

\* Silence is alerted only after StaleAfter without an observation, and whenever
\* that long has passed and Flink has called the timers that are due.
SilenceExact ==
  LET silentFor == now - Last.at
  IN /\ Up("stale") => Len(track) > 0 /\ silentFor >= StaleAfter
     /\ (Len(track) > 0 /\ NoneDue /\ silentFor >= StaleAfter) => Up("stale")
=============================================================================
