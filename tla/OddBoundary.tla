----------------------------- MODULE OddBoundary -----------------------------
(***************************************************************************)
(* OddBoundaryFunction.java for one vehicle: alerts when it leaves its     *)
(* operational design domain, stays outside and comes back, under Flink's  *)
(* processing-time timers.                                                 *)
(*                                                                         *)
(* A position is inside or outside the bounds of its place.  One that is   *)
(* late, or has no bounds, changes nothing and is left out.  A position's  *)
(* number in the history stands for its boot id and seq.                   *)
(***************************************************************************)
EXTENDS Integers, Sequences

CONSTANTS Place, NoPlace, \* locations with bounds; no location yet
          FreshFor,       \* after so long a silence the next position starts anew
          SustainedAfter, \* so long outside is a sustained excursion
          TimerLag,       \* Flink calls onTimer() at most so late
          MaxTime,        \* bound: the clock
          MaxPositions    \* bound: positions that are heard

OddAssumption ==
  /\ NoPlace \notin Place
  /\ FreshFor \in Nat \ {0} /\ SustainedAfter \in Nat \ {0}
  /\ TimerLag \in 0..(FreshFor - 1)
  /\ MaxTime \in Nat /\ MaxPositions \in Nat

VARIABLES now,      \* processing time
          received, \* lastReceivedAt
          outside,  \* "unknown" while there is no value
          location,
          timers,   \* times of the registered timers
          pending,  \* pendingTimer
          exit,     \* number of the position that began the excursion
          alerts,   \* what was collected, in order
          track     \* history: the positions heard

vars == <<now, received, outside, location, timers, pending, exit, alerts, track>>

Never == -1

Alert(type, id, at) == [type |-> type, id |-> id, at |-> at, seen |-> Len(track), fired |-> now]

------------------------------------------------------------------------------

\* Mutant: a change of the place is not looked at.
BrokenBySilence(p) == received # Never /\ now - received >= FreshFor

\* The state so far says nothing about this position.
Broken(p) ==
  \/ received # Never /\ now - received >= FreshFor
  \/ location \notin {NoPlace, p}

\* Mutant: a return leaves the excursion's timer pending.
EndsWhenBroken(p, out) == Broken(p)

\* clearExcursion() is called.
Ends(p, out) == Broken(p) \/ (outside = "out" /\ ~out)

\* Mutant: every position outside starts the excursion over.
BeginsAgain(p, out) == out

\* beginExcursion() is called.
Begins(p, out) == out /\ (Broken(p) \/ outside # "out")

\* processElement() of a position that is not late.
Position(p, out) ==
  /\ Len(track) < MaxPositions
  /\ received' = now /\ location' = p
  /\ outside' = IF out THEN "out" ELSE "in"
  /\ track' = Append(track, [at |-> now, place |-> p, out |-> out])
  /\ LET id == Len(track')
         kept == IF Ends(p, out) THEN timers \ {pending} ELSE timers
     IN IF Begins(p, out)
        THEN /\ pending' = now + SustainedAfter
             /\ timers' = kept \cup {pending'}
             /\ exit' = id
        ELSE /\ pending' = IF Ends(p, out) THEN Never ELSE pending
             /\ timers' = kept
             /\ exit' = IF Ends(p, out) THEN 0 ELSE exit
  /\ alerts' = alerts \o
       IF out /\ (Broken(p) \/ outside # "out") THEN <<Alert("exited", Len(track'), now)>>
       ELSE IF ~out /\ ~Broken(p) /\ outside = "out"
       THEN <<Alert("returned", Len(track'), now)>>
       ELSE <<>>
  /\ UNCHANGED now

\* Mutant: onTimer() does not ask when the vehicle was last heard.
FreshAlways == TRUE

Fresh == now - received < FreshFor

\* onTimer(): Flink calls it at the time it was registered for, or somewhat later.
OnTimer(t) ==
  /\ t \in timers /\ t <= now
  /\ timers' = timers \ {t}
  /\ IF pending = t /\ outside = "out"
     THEN /\ pending' = Never
          /\ alerts' = IF Fresh THEN Append(alerts, Alert("sustained", exit, t)) ELSE alerts
     ELSE UNCHANGED <<pending, alerts>>
  /\ UNCHANGED <<now, received, outside, location, exit, track>>

Tick ==
  /\ now < MaxTime
  /\ \A t \in timers : now - t < TimerLag
  /\ now' = now + 1
  /\ UNCHANGED <<received, outside, location, timers, pending, exit, alerts, track>>

Init ==
  /\ now = 0 /\ received = Never /\ outside = "unknown" /\ location = NoPlace
  /\ timers = {} /\ pending = Never /\ exit = 0
  /\ alerts = <<>> /\ track = <<>>

Next ==
  \/ \E p \in Place, out \in BOOLEAN : Position(p, out)
  \/ \E t \in timers : OnTimer(t)
  \/ Tick

Spec == Init /\ [][Next]_vars

------------------------------------------------------------------------------
(* What the history says.                                                  *)

Heard == 1..Len(track)

\* A position tells of the same stay as the one before it.
Continues(i) ==
  /\ i > 1
  /\ track[i].at - track[i-1].at < FreshFor
  /\ track[i].place = track[i-1].place

WasOut(i) == Continues(i) /\ track[i-1].out

Transition(i) ==
  IF track[i].out THEN (IF WasOut(i) THEN "none" ELSE "exited")
                  ELSE (IF WasOut(i) THEN "returned" ELSE "none")

\* The positions from the i-th to the j-th are of one excursion.
Excursion(i, j) ==
  Transition(i) = "exited" /\ \A m \in (i + 1)..j : Continues(m) /\ track[m].out

Named(a) == <<a.type, a.id>>
IsSustained(a) == a.type = "sustained"

------------------------------------------------------------------------------
(* Properties.                                                             *)

\* The shape of the state; a timer is pending only in an excursion.
TypeOK ==
  /\ now \in 0..MaxTime /\ received \in {Never} \cup 0..now
  /\ outside \in {"unknown", "in", "out"} /\ location \in Place \cup {NoPlace}
  /\ timers \subseteq 0..(MaxTime + SustainedAfter)
  /\ pending # Never => pending \in timers /\ outside = "out"
  /\ exit \in 0..Len(track) /\ (exit # 0 <=> outside = "out")
  /\ \A i \in Heard : track[i] \in [at : 0..now, place : Place, out : BOOLEAN]

\* Exits and returns are alerted exactly once, in order, where the history has
\* them: a silence or a change of place begins anew and reports no return.
TransitionsExact ==
  /\ \A k \in 1..Len(alerts) : IsSustained(alerts[k]) \/
       /\ alerts[k].id \in Heard /\ alerts[k].type = Transition(alerts[k].id)
       /\ \A l \in 1..(k - 1) : IsSustained(alerts[l]) \/ alerts[l].id < alerts[k].id
  /\ \A i \in Heard : Transition(i) = "none" \/
       \E k \in 1..Len(alerts) : Named(alerts[k]) = <<Transition(i), i>>

\* An excursion is reported as sustained once, for the exit that began it, and only
\* if every position since was outside, at one place, with no silence up to the
\* report: the timer of an ended excursion never speaks for the next.
SustainedIsReal ==
  /\ \A k \in 1..Len(alerts) : IsSustained(alerts[k]) =>
       LET a == alerts[k]
       IN /\ Excursion(a.id, a.seen)
          /\ a.at = track[a.id].at + SustainedAfter /\ a.at <= a.fired
          /\ a.fired - track[a.seen].at < FreshFor
  /\ \A k, l \in 1..Len(alerts) : Named(alerts[k]) = Named(alerts[l]) => k = l

\* An excursion that goes on past its time, with the vehicle heard of since then, has
\* been reported once Flink has called the timers that are due.
SustainedWhenDue ==
  (\A t \in timers : t > now) =>
    \A i \in Heard :
      (Excursion(i, Len(track)) /\ received - track[i].at >= SustainedAfter)
      => \E k \in 1..Len(alerts) : Named(alerts[k]) = <<"sustained", i>>
=============================================================================
