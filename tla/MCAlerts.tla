------------------------------ MODULE MCAlerts ------------------------------
(* Instance of the two alert functions.  They are keyed functions of one     *)
(* job that share nothing, so a behaviour is one of the one or of the other. *)
EXTENDS Integers, Sequences, TLC

CONSTANTS Place, NoPlace, Context, NoContext,
          FreshFor, SustainedAfter, MaxOddTime, MaxPositions,
          StopAfter, StaleAfter, MaxMonitorTime, MaxObserved, TimerLag

VARIABLES subject, \* the function this behaviour is of
          now, received, outside, location, timers, pending, exit, alerts, track,
          clock, state, deadlines, reports, heard

oddVars == <<now, received, outside, location, timers, pending, exit, alerts, track>>
monitorVars == <<clock, state, deadlines, reports, heard>>

Odd == INSTANCE OddBoundary WITH MaxTime <- MaxOddTime
Monitor == INSTANCE VehicleMonitor WITH MaxTime <- MaxMonitorTime, now <- clock,
             timers <- deadlines, alerts <- reports, track <- heard

ASSUME AlertsAssumption == Odd!OddAssumption /\ Monitor!MonitorAssumption

Init == subject \in {"odd", "monitor"} /\ Odd!Init /\ Monitor!Init

Next ==
  \/ subject = "odd" /\ Odd!Next /\ UNCHANGED <<subject, monitorVars>>
  \/ subject = "monitor" /\ Monitor!Next /\ UNCHANGED <<subject, oddVars>>

Spec == Init /\ [][Next]_<<subject, oddVars, monitorVars>>

Alike == Permutations(Place) \cup Permutations(Context)

------------------------------------------------------------------------------

\* The shape of both states; alerts of a kind alternate, and no two have the same
\* event id.
Consistent == Odd!TypeOK /\ Monitor!TypeOK /\ Monitor!Alternate

\* Exits and returns are alerted exactly once, in order, where the history has
\* them: a silence or a change of place begins anew and reports no return.
TransitionsExact == Odd!TransitionsExact

\* An excursion is reported as sustained once, for the exit that began it, if and
\* only if it lasted that long, with no silence up to the report.
SustainedExact == Odd!SustainedIsReal /\ Odd!SustainedWhenDue

\* The stop alert is up exactly while the vehicle is heard and was seen standing
\* for StopAfter in one unbroken row, and the one for silence exactly while nothing
\* was heard for StaleAfter, timers that are due having been called.
MonitorExact == Monitor!StopExact /\ Monitor!SilenceExact
=============================================================================
