---------------------------- MODULE AlertsProofs ----------------------------
(***************************************************************************)
(* What the alert functions say is what their history has, for every bound *)
(* and every setting of their times, as the run of MCAlerts checks it on   *)
(* an instance.  A behaviour of MCAlerts is one of either function, so     *)
(* each is proved to keep its own invariant and to leave the other's.      *)
(***************************************************************************)
EXTENDS MCAlerts, TLAPS

------------------------------------------------------------------------------
(* OddBoundary: the inductive invariant.                                   *)

Position == [at : Nat, place : Place, out : BOOLEAN]
Said == [type : {"exited", "returned", "sustained"}, id : Nat, at : Nat, seen : Nat, fired : Nat]

OddTypes ==
  /\ now \in 0..MaxOddTime
  /\ track \in Seq(Position) /\ alerts \in Seq(Said)
  /\ \A i \in 1..Len(track) : track[i].at <= now
  /\ \A k \in 1..Len(alerts) : alerts[k].id \in 1..Len(track) /\ alerts[k].seen <= Len(track)

\* What the function keeps is what the last position said.
Mirrors ==
  /\ track = <<>> => received = Odd!Never /\ outside = "unknown" /\ location = NoPlace
  /\ track # <<>> => /\ received = track[Len(track)].at
                     /\ location = track[Len(track)].place
                     /\ outside = IF track[Len(track)].out THEN "out" ELSE "in"

\* While it is outside, the exit it keeps is the one that began this excursion.
Remembers ==
  /\ outside = "out" => exit \in 1..Len(track) /\ Odd!Excursion(exit, Len(track))
  /\ outside # "out" => exit = 0

Reported(i) == \E k \in 1..Len(alerts) : Odd!Named(alerts[k]) = <<"sustained", i>>

\* There is one timer at most, for an excursion not yet reported.
Awaits ==
  /\ timers = IF pending = Odd!Never THEN {} ELSE {pending}
  /\ pending # Odd!Never =>
       /\ outside = "out" /\ ~Reported(exit)
       /\ pending = track[exit].at + SustainedAfter
       /\ now - pending <= TimerLag

\* An excursion whose timer is gone was reported, or the timer found that nothing had
\* been heard for too long, from before it was due.
Spoken ==
  (outside = "out" /\ pending = Odd!Never /\ ~Reported(exit)) =>
    now - received >= FreshFor /\ received < track[exit].at + SustainedAfter

\* What was said of a sustained excursion was said after a position.
Later == \A k \in 1..Len(alerts) : Odd!IsSustained(alerts[k]) => alerts[k].seen # 0

OddInv ==
  /\ OddTypes /\ Later /\ Mirrors /\ Remembers /\ Awaits /\ Spoken
  /\ Odd!TransitionsExact /\ Odd!SustainedIsReal

\* Appending to the history changes nothing of what it says of before.
LEMMA HistoryStands ==
  ASSUME OddTypes, NEW x \in Position, track' = Append(track, x)
  PROVE  /\ Len(track') = Len(track) + 1 /\ track'[Len(track) + 1] = x
         /\ \A i \in 1..Len(track) :
              /\ track'[i] = track[i]
              /\ Odd!Continues(i)' = Odd!Continues(i)
              /\ Odd!Transition(i)' = Odd!Transition(i)
              /\ \A j \in 1..Len(track) : Odd!Excursion(i, j)' = Odd!Excursion(i, j)
<1>1. /\ Len(track') = Len(track) + 1 /\ track'[Len(track) + 1] = x /\ Len(track) \in Nat
      /\ \A i \in 1..Len(track) : track'[i] = track[i]
  BY DEF OddTypes
<1>2. ASSUME NEW i \in 1..Len(track)
      PROVE  Odd!Continues(i)' = Odd!Continues(i) /\ Odd!WasOut(i)' = Odd!WasOut(i)
  <2>1. i > 1 => i - 1 \in 1..Len(track)
    BY <1>1
  <2> QED
    BY <1>1, <1>2, <2>1 DEF Odd!Continues, Odd!WasOut
<1>3. ASSUME NEW i \in 1..Len(track)
      PROVE  Odd!Transition(i)' = Odd!Transition(i)
  BY <1>1, <1>2, <1>3 DEF Odd!Transition
<1>4. ASSUME NEW i \in 1..Len(track), NEW j \in 1..Len(track)
      PROVE  Odd!Excursion(i, j)' = Odd!Excursion(i, j)
  <2>1. \A m \in (i + 1)..j : m \in 1..Len(track)
    BY <1>1
  <2> QED
    BY <1>1, <1>2, <1>3, <2>1 DEF Odd!Excursion
<1> QED
  BY <1>1, <1>2, <1>3, <1>4

\* So are the alerts, when one more is said.
LEMMA OneMoreAlert ==
  ASSUME alerts \in Seq(Said), NEW a \in Said, alerts' = Append(alerts, a)
  PROVE  /\ alerts' \in Seq(Said) /\ Len(alerts') = Len(alerts) + 1
         /\ alerts'[Len(alerts) + 1] = a
         /\ \A k \in 1..Len(alerts) : alerts'[k] = alerts[k]
         /\ 1..Len(alerts') = 1..Len(alerts) \cup {Len(alerts) + 1}
OBVIOUS

\* A position that tells of the same stay is one that the state does not call broken.
LEMMA BrokenOrContinues ==
  ASSUME OddInv, NEW p \in Place, NEW out \in BOOLEAN,
         NEW id, id = Len(track) + 1,
         track' = Append(track, [at |-> now, place |-> p, out |-> out])
  PROVE  /\ Odd!Continues(id)' <=> (track # <<>> /\ ~Odd!Broken(p))
         /\ Odd!WasOut(id)' <=> (outside = "out" /\ ~Odd!Broken(p))
<1> DEFINE n == Len(track)
           x == [at |-> now, place |-> p, out |-> out]
<1> USE DEF OddInv
<1>1. x \in Position /\ n \in Nat /\ (track = <<>> <=> n = 0)
  BY AlertsAssumption DEF OddTypes, Position
<1>2. /\ track'[id] = x
      /\ \A i \in 1..n : track'[i] = track[i]
  BY <1>1, HistoryStands
<1>3. CASE n = 0
  BY <1>1, <1>3 DEF Odd!Continues, Odd!WasOut, Mirrors
<1>4. CASE n > 0
  <2>1. n \in 1..n /\ id - 1 = n /\ id > 1 /\ track[n] \in Position
    BY <1>1, <1>4 DEF OddTypes
  <2>2. /\ received = track[n].at /\ location = track[n].place
        /\ outside = IF track[n].out THEN "out" ELSE "in"
    BY <1>1, <1>4 DEF Mirrors
  <2>3. received # Odd!Never /\ location # NoPlace
    BY <2>1, <2>2, AlertsAssumption DEF Position, Odd!Never, Odd!OddAssumption
  <2>4. Odd!Broken(p) <=> (now - received >= FreshFor \/ location # p)
    BY <2>3 DEF Odd!Broken
  <2>5. Odd!Continues(id)' <=> (now - track[n].at < FreshFor /\ p = track[n].place)
    BY <1>2, <2>1 DEF Odd!Continues
  <2>6. now \in Int /\ received \in Int /\ FreshFor \in Int
    BY <2>1, <2>2, AlertsAssumption DEF OddTypes, Position, Odd!OddAssumption
  <2>7. Odd!Continues(id)' <=> ~Odd!Broken(p)
    BY <2>2, <2>4, <2>5, <2>6
  <2>8. Odd!WasOut(id)' <=> (Odd!Continues(id)' /\ track[n].out)
    BY <1>2, <2>1 DEF Odd!WasOut
  <2> QED
    BY <1>1, <1>4, <2>2, <2>7, <2>8
<1> QED
  BY <1>1, <1>3, <1>4
LEMMA PositionKeeps ==
  ASSUME OddInv, NEW p \in Place, NEW out \in BOOLEAN, Odd!Position(p, out)
  PROVE  OddInv'
<1> DEFINE n == Len(track)
           x == [at |-> now, place |-> p, out |-> out]
           a(t) == [type |-> t, id |-> n + 1, at |-> now, seen |-> n, fired |-> now]
<1> USE DEF OddInv
<1>1. /\ track' = Append(track, x) /\ received' = now /\ location' = p
      /\ outside' = (IF out THEN "out" ELSE "in") /\ now' = now
  BY DEF Odd!Position
<1>2. /\ n \in Nat /\ x \in Position /\ now \in Nat /\ (track = <<>> <=> n = 0)
      /\ SustainedAfter \in Nat /\ FreshFor \in Nat /\ TimerLag \in Nat
  BY AlertsAssumption DEF OddTypes, Position, Odd!OddAssumption
<1>3. PICK id \in Nat : id = n + 1
  BY <1>2
<1>4. /\ Len(track') = id /\ track'[id] = x
      /\ \A i \in 1..n : /\ track'[i] = track[i]
                         /\ Odd!Continues(i)' = Odd!Continues(i)
                         /\ Odd!Transition(i)' = Odd!Transition(i)
                         /\ \A j \in 1..n : Odd!Excursion(i, j)' = Odd!Excursion(i, j)
  BY <1>1, <1>2, <1>3, HistoryStands
<1>5. /\ Odd!Continues(id)' <=> (track # <<>> /\ ~Odd!Broken(p))
      /\ Odd!WasOut(id)' <=> (outside = "out" /\ ~Odd!Broken(p))
  BY <1>1, <1>3, BrokenOrContinues
<1>6. PICK t \in {"none", "exited", "returned"} :
        /\ Odd!Transition(id)' = t
        /\ t = "exited" <=> (out /\ (Odd!Broken(p) \/ outside # "out"))
        /\ t = "returned" <=> (~out /\ ~Odd!Broken(p) /\ outside = "out")
  BY <1>4, <1>5 DEF Odd!Transition
<1>7. /\ t = "exited" <=> Odd!Begins(p, out)
      /\ Odd!Ends(p, out) <=> (Odd!Broken(p) \/ t = "returned")
  BY <1>6 DEF Odd!Begins, Odd!Ends
<1>8. alerts' = IF t = "none" THEN alerts ELSE Append(alerts, a(t))
  <2>1. alerts' = alerts \o (IF t = "exited" THEN <<a(t)>> ELSE IF t = "returned" THEN <<a(t)>> ELSE <<>>)
    <3>1. Len(track') = n + 1
      BY <1>3, <1>4
    <3> QED
      BY <1>6, <3>1 DEF Odd!Position, Odd!Alert
  <2>2. alerts \in Seq(Said)
    BY DEF OddTypes
  <2> QED
    BY <1>6, <2>1, <2>2
<1>9. /\ alerts' \in Seq(Said) /\ Len(alerts) \in Nat
      /\ \A k \in 1..Len(alerts) : k \in 1..Len(alerts') /\ alerts'[k] = alerts[k]
      /\ t = "none" => Len(alerts') = Len(alerts)
      /\ t # "none" => Len(alerts') = Len(alerts) + 1 /\ alerts'[Len(alerts) + 1] = a(t)
  <2>1. alerts \in Seq(Said) /\ (t # "none" => a(t) \in Said)
    BY <1>2, <1>6 DEF OddTypes, Said
  <2> HIDE DEF a
  <2> QED
    BY <1>8, <2>1
<1>10. \A k \in 1..Len(alerts') : k \in 1..Len(alerts) \/ (k = Len(alerts) + 1 /\ t # "none")
  BY <1>9
<1>11. \A i : Reported(i)' = Reported(i)
  <2> SUFFICES ASSUME NEW i PROVE Reported(i)' <=> Reported(i)
    BY DEF Reported
  <2>1. t # "none" => Odd!Named(a(t)) # <<"sustained", i>>
    BY <1>6 DEF Odd!Named
  <2>2. ASSUME NEW k \in 1..Len(alerts) PROVE Odd!Named(alerts'[k]) = Odd!Named(alerts[k])
    BY <1>9, <2>2
  <2> HIDE DEF a
  <2> QED
    BY <1>9, <1>10, <2>1, <2>2 DEF Reported
<1>12. OddTypes'
  <2>1. track' \in Seq(Position)
    BY <1>1, <1>2 DEF OddTypes
  <2>2. \A i \in 1..Len(track') : track'[i].at <= now'
    <3>1. \A i \in 1..Len(track') : i \in 1..n \/ i = id
      BY <1>2, <1>3, <1>4
    <3>2. x.at <= now
      BY <1>2
    <3> QED
      BY <1>1, <1>4, <3>1, <3>2 DEF OddTypes
  <2>3. \A k \in 1..Len(alerts') : alerts'[k].id \in 1..id /\ alerts'[k].seen <= id
    <3>1. a(t).id \in 1..id /\ a(t).seen <= id
      BY <1>2, <1>3
    <3>2. \A k \in 1..Len(alerts) :
            alerts[k] \in Said /\ alerts[k].id \in 1..n /\ alerts[k].seen <= n
      BY DEF OddTypes
    <3>3. \A k \in 1..Len(alerts) : alerts[k].id \in 1..id /\ alerts[k].seen <= id
      BY <1>2, <1>3, <3>2 DEF Said
    <3> HIDE DEF a
    <3> QED
      BY <1>9, <1>10, <3>1, <3>3
  <2> QED
    BY <1>1, <1>4, <1>9, <2>1, <2>2, <2>3 DEF OddTypes
<1>19. Later'
  BY <1>6, <1>9, <1>10 DEF Later, Odd!IsSustained
<1>13. Mirrors'
  BY <1>1, <1>3, <1>4 DEF Mirrors
<1>14. ASSUME t = "exited" PROVE Remembers' /\ Awaits' /\ Spoken'
  <2>1. exit' = id /\ pending' = now + SustainedAfter
    BY <1>3, <1>4, <1>7, <1>14 DEF Odd!Position
  <2>2. Remembers'
    <3>1. Odd!Excursion(id, id)'
      BY <1>2, <1>6, <1>14 DEF Odd!Excursion
    <3> QED
      BY <1>1, <1>4, <1>6, <1>14, <2>1, <3>1 DEF Remembers
  <2>3. timers' = {pending'}
    <3>1. (IF Odd!Ends(p, out) THEN timers \ {pending} ELSE timers) = {}
      BY <1>6, <1>7, <1>14 DEF Awaits
    <3> QED
      BY <1>7, <1>14, <3>1 DEF Odd!Position
  <2>4. ~Reported(id)
    <3>1. \A k \in 1..Len(alerts) : alerts[k].id # id
      BY <1>2, <1>3 DEF OddTypes
    <3> QED
      BY <3>1 DEF Reported, Odd!Named
  <2>5. pending' # Odd!Never /\ now' - pending' <= TimerLag
    BY <1>1, <1>2, <2>1 DEF Odd!Never
  <2>6. Awaits'
    BY <1>1, <1>4, <1>6, <1>11, <1>14, <2>1, <2>3, <2>4, <2>5 DEF Awaits
  <2>7. Spoken'
    BY <2>5 DEF Spoken
  <2> QED
    BY <2>2, <2>6, <2>7
<1>15. ASSUME out /\ t # "exited" PROVE Remembers' /\ Awaits' /\ Spoken'
  <2>1. outside = "out" /\ ~Odd!Broken(p) /\ t = "none"
    BY <1>6, <1>15
  <2>2. exit' = exit /\ pending' = pending /\ timers' = timers /\ outside' = outside
    BY <1>1, <1>7, <1>15, <2>1 DEF Odd!Position
  <2>3. exit \in 1..n /\ Odd!Excursion(exit, n)
    BY <2>1 DEF Remembers
  <2>4. n \in 1..n /\ track[n] \in Position
    BY <1>2, <2>3 DEF OddTypes
  <2>5. PICK last \in 1..n, e \in 1..n : last = n /\ e = exit
    BY <2>3, <2>4
  <2>6. Remembers'
    <3>1. Odd!Excursion(e, last)'
      BY <1>4, <2>3, <2>5
    <3>2. Odd!Transition(e)' = "exited" /\ \A m \in (e + 1)..last : Odd!Continues(m)' /\ track'[m].out
      BY <3>1 DEF Odd!Excursion
    <3>3. Odd!Continues(id)' /\ track'[id].out
      BY <1>2, <1>4, <1>5, <1>15, <2>1, <2>4
    <3>4. \A m \in (e + 1)..id : m \in (e + 1)..last \/ m = id
      BY <1>2, <1>3, <2>5
    <3>5. Odd!Excursion(e, id)'
      BY <3>2, <3>3, <3>4 DEF Odd!Excursion
    <3>6. exit' = e /\ e \in 1..id /\ Len(track') = id
      BY <1>2, <1>3, <1>4, <2>2, <2>5
    <3> QED
      BY <2>1, <2>2, <3>5, <3>6 DEF Remembers
  <2>7. Awaits'
    <3>1. track'[exit] = track[exit]
      BY <1>4, <2>3
    <3> QED
      BY <1>1, <1>11, <2>2, <3>1 DEF Awaits
  <2>8. Spoken'
    <3>1. now - received < FreshFor
      <4>1. received # Odd!Never
        BY <1>2, <2>4, AlertsAssumption DEF Mirrors, OddTypes, Position, Odd!Never
      <4>2. received \in Int
        BY <1>2, <2>4 DEF Mirrors, OddTypes, Position
      <4> QED
        BY <1>2, <2>1, <4>1, <4>2 DEF Odd!Broken
    <3>2. pending # Odd!Never \/ Reported(exit)
      <4>1. received \in Int
        BY <1>2, <2>4 DEF Mirrors, OddTypes, Position
      <4> QED
        BY <1>2, <2>1, <3>1, <4>1 DEF Spoken
    <3> QED
      BY <1>11, <2>2, <3>2 DEF Spoken
  <2> QED
    BY <2>6, <2>7, <2>8
<1>16. ASSUME ~out PROVE Remembers' /\ Awaits' /\ Spoken'
  <2>1. outside' = "in" /\ t # "exited"
    BY <1>1, <1>6, <1>16
  <2>2. exit' = 0 /\ pending' = Odd!Never /\ timers' = {}
    <3>1. CASE Odd!Ends(p, out)
      BY <1>7, <2>1, <3>1 DEF Odd!Position, Awaits
    <3>2. CASE ~Odd!Ends(p, out)
      <4>1. outside # "out"
        BY <1>16, <3>2 DEF Odd!Ends
      <4> QED
        BY <1>7, <2>1, <3>2, <4>1 DEF Odd!Position, Awaits, Remembers
    <3> QED
      BY <3>1, <3>2
  <2> QED
    BY <2>1, <2>2 DEF Remembers, Awaits, Spoken
<1>17. Odd!TransitionsExact'
  <2>1. ASSUME NEW k \in 1..Len(alerts'), ~Odd!IsSustained(alerts'[k])
        PROVE  /\ alerts'[k].id \in 1..id /\ alerts'[k].type = Odd!Transition(alerts[k].id)'
               /\ \A l \in 1..(k - 1) : Odd!IsSustained(alerts'[l]) \/ alerts'[l].id < alerts'[k].id
    <3>1. CASE k \in 1..Len(alerts)
      <4>1. /\ alerts[k].id \in 1..n /\ alerts[k].type = Odd!Transition(alerts[k].id)
            /\ \A l \in 1..(k - 1) : Odd!IsSustained(alerts[l]) \/ alerts[l].id < alerts[k].id
        BY <1>9, <2>1, <3>1 DEF Odd!TransitionsExact, Odd!Heard
      <4>2. PICK i \in 1..n : i = alerts[k].id
        BY <4>1
      <4>3. Odd!Transition(i)' = Odd!Transition(i) /\ i \in 1..id
        BY <1>2, <1>3, <1>4
      <4>4. \A l \in 1..(k - 1) : l \in 1..Len(alerts)
        BY <1>9, <3>1
      <4>5. alerts'[k] = alerts[k] /\ \A l \in 1..(k - 1) : alerts'[l] = alerts[l]
        BY <1>9, <3>1, <4>4
      <4> QED
        BY <4>1, <4>2, <4>3, <4>5 DEF Odd!IsSustained
    <3>2. CASE k = Len(alerts) + 1 /\ t # "none"
      <4>1. alerts'[k].id = id /\ alerts'[k].type = t
        BY <1>3, <1>9, <3>2
      <4>2. \A l \in 1..(k - 1) : l \in 1..Len(alerts) /\ alerts'[l].id < id
        BY <1>2, <1>3, <1>9, <3>2 DEF OddTypes
      <4> QED
        BY <1>2, <1>3, <1>6, <4>1, <4>2
    <3> QED
      BY <1>10, <2>1, <3>1, <3>2
  <2>2. ASSUME NEW i \in 1..id
        PROVE  Odd!Transition(i)' = "none" \/
                 \E k \in 1..Len(alerts') : Odd!Named(alerts'[k]) = <<Odd!Transition(i)', i>>
    <3>1. CASE i \in 1..n
      <4>1. Odd!Transition(i) = "none" \/
              \E k \in 1..Len(alerts) : Odd!Named(alerts[k]) = <<Odd!Transition(i), i>>
        BY <3>1 DEF Odd!TransitionsExact, Odd!Heard
      <4> QED
        BY <1>4, <1>9, <3>1, <4>1 DEF Odd!Named
    <3>2. CASE i = id /\ t # "none"
      <4>1. Len(alerts) + 1 \in 1..Len(alerts')
        BY <1>9, <3>2
      <4>2. Odd!Named(alerts'[Len(alerts) + 1]) = <<t, id>>
        BY <1>3, <1>9, <3>2 DEF Odd!Named
      <4> QED
        BY <1>6, <3>2, <4>1, <4>2
    <3> QED
      BY <1>2, <1>3, <1>6, <2>2, <3>1, <3>2
  <2> QED
    BY <1>4, <2>1, <2>2 DEF Odd!TransitionsExact, Odd!Heard
<1>18. Odd!SustainedIsReal'
  <2>1. ASSUME NEW k \in 1..Len(alerts'), Odd!IsSustained(alerts'[k])
        PROVE  /\ Odd!Excursion(alerts[k].id, alerts[k].seen)'
               /\ alerts'[k].at = track'[alerts'[k].id].at + SustainedAfter
               /\ alerts'[k].at <= alerts'[k].fired
               /\ alerts'[k].fired - track'[alerts'[k].seen].at < FreshFor
    <3>1. k \in 1..Len(alerts) /\ alerts'[k] = alerts[k]
      BY <1>6, <1>9, <1>10, <2>1 DEF Odd!IsSustained
    <3>2. /\ Odd!Excursion(alerts[k].id, alerts[k].seen)
          /\ alerts[k].at = track[alerts[k].id].at + SustainedAfter
          /\ alerts[k].at <= alerts[k].fired
          /\ alerts[k].fired - track[alerts[k].seen].at < FreshFor
      BY <2>1, <3>1 DEF Odd!SustainedIsReal
    <3>5. alerts[k].id \in 1..n /\ alerts[k].seen \in 1..n
      <4>1. alerts[k] \in Said /\ alerts[k].seen # 0
        BY <2>1, <3>1 DEF OddTypes, Later
      <4> QED
        BY <1>2, <3>1, <4>1 DEF OddTypes, Said
    <3>3. PICK i \in 1..n, j \in 1..n : i = alerts[k].id /\ j = alerts[k].seen
      BY <3>5
    <3>4. Odd!Excursion(i, j)' /\ track'[i] = track[i] /\ track'[j] = track[j]
      BY <1>4, <3>2, <3>3
    <3> QED
      BY <3>1, <3>2, <3>3, <3>4
  <2>2. ASSUME NEW k \in 1..Len(alerts'), NEW l \in 1..Len(alerts'),
               Odd!Named(alerts'[k]) = Odd!Named(alerts'[l])
        PROVE  k = l
    <3>1. \A m \in 1..Len(alerts) : alerts'[m] = alerts[m] /\ alerts'[m].id # id
      BY <1>2, <1>3, <1>9 DEF OddTypes
    <3>2. t # "none" => alerts'[Len(alerts) + 1].id = id
      BY <1>3, <1>9
    <3> QED
      BY <1>10, <2>2, <3>1, <3>2 DEF Odd!SustainedIsReal, Odd!Named
  <2> QED
    BY <2>1, <2>2 DEF Odd!SustainedIsReal
<1> QED
  BY <1>6, <1>12, <1>13, <1>14, <1>15, <1>16, <1>17, <1>18, <1>19
LEMMA OddTimerKeeps ==
  ASSUME OddInv, NEW t \in timers, Odd!OnTimer(t)
  PROVE  OddInv'
<1> DEFINE n == Len(track)
           a == [type |-> "sustained", id |-> exit, at |-> t, seen |-> n, fired |-> now]
<1> USE DEF OddInv
<1>1. /\ pending = t /\ pending # Odd!Never /\ timers = {t}
      /\ outside = "out" /\ ~Reported(exit)
      /\ t = track[exit].at + SustainedAfter /\ now - t <= TimerLag
  BY DEF Awaits
<1>2. /\ timers' = {} /\ pending' = Odd!Never /\ t <= now
      /\ alerts' = IF Odd!Fresh THEN Append(alerts, a) ELSE alerts
      /\ UNCHANGED <<now, received, outside, location, exit, track>>
  BY <1>1 DEF Odd!OnTimer, Odd!Alert
<1>3. exit \in 1..n /\ Odd!Excursion(exit, n) /\ n \in Nat /\ n # 0
  <2>1. n \in Nat
    BY DEF OddTypes
  <2> QED
    BY <1>1, <2>1 DEF Remembers
<1>4. /\ n \in 1..n /\ track[n] \in Position /\ track[exit] \in Position
      /\ received = track[n].at /\ received \in Nat /\ now \in Nat /\ t \in Nat
      /\ SustainedAfter \in Nat /\ FreshFor \in Nat /\ TimerLag \in 0..(FreshFor - 1)
  <2>1. n \in 1..n /\ track[n] \in Position /\ track[exit] \in Position /\ track # <<>>
    BY <1>3 DEF OddTypes
  <2>2. SustainedAfter \in Nat /\ FreshFor \in Nat /\ TimerLag \in 0..(FreshFor - 1) /\ now \in Nat
    BY AlertsAssumption DEF OddTypes, Odd!OddAssumption
  <2> QED
    BY <1>1, <2>1, <2>2 DEF Mirrors, Position
<1>5. \A i, j : /\ Odd!Continues(i)' = Odd!Continues(i) /\ Odd!Transition(i)' = Odd!Transition(i)
               /\ Odd!Excursion(i, j)' = Odd!Excursion(i, j)
  BY <1>2 DEF Odd!Continues, Odd!Transition, Odd!Excursion, Odd!WasOut
<1>6. CASE ~Odd!Fresh
  <2>1. alerts' = alerts /\ now - received >= FreshFor
    BY <1>2, <1>4, <1>6 DEF Odd!Fresh
  <2>2. OddTypes' /\ Mirrors' /\ Remembers' /\ Later'
    BY <1>2, <1>5, <2>1 DEF OddTypes, Mirrors, Remembers, Later, Odd!IsSustained
  <2>3. Awaits' /\ Spoken'
    <3>1. received < t
      <4>1. now - t <= TimerLag /\ now - received >= FreshFor
        BY <1>1, <2>1
      <4>2. t \in Nat /\ now \in Nat /\ received \in Nat /\ FreshFor \in Nat /\ TimerLag \in 0..(FreshFor - 1)
        BY <1>4
      <4> HIDE DEF OddInv
      <4> QED
        BY <4>1, <4>2
    <3> QED
      BY <1>1, <1>2, <2>1, <3>1 DEF Awaits, Spoken
  <2>4. Odd!TransitionsExact' /\ Odd!SustainedIsReal'
    BY <1>2, <1>5, <2>1 DEF Odd!TransitionsExact, Odd!SustainedIsReal, Odd!Heard, Odd!IsSustained, Odd!Named
  <2> QED
    BY <2>2, <2>3, <2>4
<1>7. CASE Odd!Fresh
  <2>1. a \in Said /\ now - received < FreshFor
    BY <1>3, <1>4, <1>7 DEF Said, Odd!Fresh
  <2>2. /\ alerts' \in Seq(Said) /\ Len(alerts') = Len(alerts) + 1 /\ Len(alerts) \in Nat
        /\ alerts'[Len(alerts) + 1] = a
        /\ \A k \in 1..Len(alerts) : alerts'[k] = alerts[k]
        /\ 1..Len(alerts') = 1..Len(alerts) \cup {Len(alerts) + 1}
    <3> HIDE DEF a
    <3> QED
      BY <1>2, <1>7, <2>1, OneMoreAlert DEF OddTypes
  <2>3. PICK e \in 1..n, last \in 1..n, top \in Nat : e = exit /\ last = n /\ top = Len(alerts) + 1
    BY <1>3, <1>4, <2>2
  <2>4. OddTypes'
    BY <1>2, <1>3, <2>2 DEF OddTypes
  <2>5. Later'
    BY <1>3, <2>2 DEF Later, Odd!IsSustained
  <2>6. Mirrors' /\ Remembers'
    BY <1>2, <1>5 DEF Mirrors, Remembers
  <2>7. Reported(exit)'
    <3>1. Odd!Named(alerts'[top]) = <<"sustained", e>> /\ top \in 1..Len(alerts')
      BY <2>2, <2>3 DEF Odd!Named
    <3> QED
      BY <1>2, <2>3, <3>1 DEF Reported
  <2>8. Awaits' /\ Spoken'
    BY <1>1, <1>2, <2>7 DEF Awaits, Spoken
  <2>9. Odd!TransitionsExact'
    <3>1. ASSUME NEW k \in 1..Len(alerts'), ~Odd!IsSustained(alerts'[k])
          PROVE  /\ alerts'[k].id \in 1..n /\ alerts'[k].type = Odd!Transition(alerts[k].id)'
                 /\ \A l \in 1..(k - 1) : Odd!IsSustained(alerts'[l]) \/ alerts'[l].id < alerts'[k].id
      <4>1. k \in 1..Len(alerts)
        BY <2>2, <3>1 DEF Odd!IsSustained
      <4>2. /\ alerts[k].id \in 1..n /\ alerts[k].type = Odd!Transition(alerts[k].id)
            /\ \A l \in 1..(k - 1) : Odd!IsSustained(alerts[l]) \/ alerts[l].id < alerts[k].id
        BY <2>2, <3>1, <4>1 DEF Odd!TransitionsExact, Odd!Heard
      <4>3. PICK i \in 1..n : i = alerts[k].id
        BY <4>2
      <4>4. Odd!Transition(i)' = Odd!Transition(i)
        BY <1>5
      <4>5. alerts'[k] = alerts[k] /\ \A l \in 1..(k - 1) : alerts'[l] = alerts[l]
        BY <2>2, <4>1
      <4> QED
        BY <4>2, <4>3, <4>4, <4>5 DEF Odd!IsSustained
    <3>2. ASSUME NEW i \in 1..n
          PROVE  Odd!Transition(i)' = "none" \/
                   \E k \in 1..Len(alerts') : Odd!Named(alerts'[k]) = <<Odd!Transition(i)', i>>
      <4>1. Odd!Transition(i) = "none" \/
              \E k \in 1..Len(alerts) : Odd!Named(alerts[k]) = <<Odd!Transition(i), i>>
        BY <3>2 DEF Odd!TransitionsExact, Odd!Heard
      <4> QED
        BY <1>5, <2>2, <4>1 DEF Odd!Named
    <3> QED
      BY <1>2, <3>1, <3>2 DEF Odd!TransitionsExact, Odd!Heard
  <2>10. Odd!SustainedIsReal'
    <3>1. ASSUME NEW k \in 1..Len(alerts'), Odd!IsSustained(alerts'[k])
          PROVE  /\ Odd!Excursion(alerts[k].id, alerts[k].seen)'
                 /\ alerts'[k].at = track'[alerts'[k].id].at + SustainedAfter
                 /\ alerts'[k].at <= alerts'[k].fired
                 /\ alerts'[k].fired - track'[alerts'[k].seen].at < FreshFor
      <4>1. CASE k \in 1..Len(alerts)
        <5>1. /\ Odd!Excursion(alerts[k].id, alerts[k].seen)
              /\ alerts[k].at = track[alerts[k].id].at + SustainedAfter
              /\ alerts[k].at <= alerts[k].fired
              /\ alerts[k].fired - track[alerts[k].seen].at < FreshFor
          BY <2>2, <3>1, <4>1 DEF Odd!SustainedIsReal
        <5>2. PICK i, j : i = alerts[k].id /\ j = alerts[k].seen
          OBVIOUS
        <5>3. Odd!Excursion(i, j)' = Odd!Excursion(i, j)
          BY <1>5
        <5> QED
          BY <1>2, <2>2, <4>1, <5>1, <5>2, <5>3
      <4>2. CASE k = top
        <5>1. alerts'[k] = a
          BY <2>2, <2>3, <4>2
        <5>2. Odd!Excursion(e, last)'
          BY <1>3, <1>5, <2>3
        <5>3. a.at = track[a.id].at + SustainedAfter /\ a.at <= a.fired
          BY <1>1, <1>2
        <5>4. a.fired - track[a.seen].at < FreshFor
          BY <1>4, <2>1
        <5>5. alerts[k].id' = e /\ alerts[k].seen' = last
          BY <2>3, <5>1
        <5> QED
          BY <1>2, <5>1, <5>2, <5>3, <5>4, <5>5
      <4> QED
        BY <2>2, <2>3, <4>1, <4>2
    <3>2. ASSUME NEW k \in 1..Len(alerts'), NEW l \in 1..Len(alerts'),
                 Odd!Named(alerts'[k]) = Odd!Named(alerts'[l])
          PROVE  k = l
      <4>1. \A m \in 1..Len(alerts) : alerts'[m] = alerts[m] /\ Odd!Named(alerts[m]) # <<"sustained", exit>>
        BY <1>1, <2>2 DEF Reported
      <4>2. Odd!Named(alerts'[Len(alerts) + 1]) = <<"sustained", exit>>
        BY <2>2 DEF Odd!Named
      <4>3. \A m \in 1..Len(alerts) : Odd!Named(alerts'[m]) = Odd!Named(alerts[m])
        BY <4>1
      <4> QED
        BY <2>2, <3>2, <4>1, <4>2, <4>3 DEF Odd!SustainedIsReal
    <3> QED
      BY <3>1, <3>2 DEF Odd!SustainedIsReal
  <2> QED
    BY <2>4, <2>5, <2>6, <2>8, <2>9, <2>10
<1> QED
  BY <1>6, <1>7

LEMMA OddInitially == Odd!Init => OddInv
<1> SUFFICES ASSUME Odd!Init PROVE OddInv
  OBVIOUS
<1>1. /\ track = <<>> /\ alerts = <<>> /\ Len(track) = 0 /\ Len(alerts) = 0
      /\ now = 0 /\ outside = "unknown" /\ timers = {} /\ pending = Odd!Never /\ exit = 0
      /\ received = Odd!Never /\ location = NoPlace /\ MaxOddTime \in Nat
  BY AlertsAssumption DEF Odd!Init, Odd!OddAssumption
<1>2. OddTypes /\ Later /\ Mirrors /\ Remembers /\ Awaits /\ Spoken
  BY <1>1 DEF OddTypes, Later, Mirrors, Remembers, Awaits, Spoken
<1>3. Odd!TransitionsExact /\ Odd!SustainedIsReal
  BY <1>1 DEF Odd!TransitionsExact, Odd!SustainedIsReal, Odd!Heard
<1> QED
  BY <1>2, <1>3 DEF OddInv

\* What only the clock and other functions do leaves what was said as it is.
LEMMA OddUnsaid ==
  ASSUME OddInv, UNCHANGED <<received, outside, location, timers, pending, exit, alerts, track>>,
         now' \in 0..MaxOddTime, now <= now',
         pending # Odd!Never => now' - pending <= TimerLag
  PROVE  OddInv'
<1> USE DEF OddInv
<1>1. \A i, j : /\ Odd!Continues(i)' = Odd!Continues(i) /\ Odd!Transition(i)' = Odd!Transition(i)
               /\ Odd!Excursion(i, j)' = Odd!Excursion(i, j)
  BY DEF Odd!Continues, Odd!Transition, Odd!Excursion, Odd!WasOut
<1>2. now \in Int /\ now' \in Int /\ FreshFor \in Int
      /\ (track # <<>> => received \in Int /\ Len(track) \in 1..Len(track))
      /\ \A i \in 1..Len(track) : track[i].at \in Int
  <2>1. \A i \in 1..Len(track) : track[i] \in Position
    BY DEF OddTypes
  <2>2. track # <<>> => Len(track) \in 1..Len(track)
    BY DEF OddTypes
  <2>3. \A i \in 1..Len(track) : track[i].at \in Nat
    BY <2>1 DEF Position
  <2>4. now \in Nat /\ FreshFor \in Nat
    BY AlertsAssumption DEF OddTypes, Odd!OddAssumption
  <2> QED
    BY <2>2, <2>3, <2>4 DEF Mirrors
<1>3. OddTypes'
  BY <1>2 DEF OddTypes
<1>4. Later' /\ Mirrors' /\ Remembers' /\ Awaits'
  BY <1>1 DEF Later, Mirrors, Remembers, Awaits, Reported, Odd!IsSustained, Odd!Named
<1>5. Spoken'
  <2>1. outside = "out" => received \in Int
    BY <1>2 DEF Mirrors
  <2> QED
    BY <1>2, <2>1 DEF Spoken, Reported, Odd!Named
<1>6. Odd!TransitionsExact' /\ Odd!SustainedIsReal'
  BY <1>1 DEF Odd!TransitionsExact, Odd!SustainedIsReal, Odd!Heard, Odd!IsSustained, Odd!Named
<1> QED
  BY <1>3, <1>4, <1>5, <1>6

LEMMA OddStep == OddInv /\ (Odd!Next \/ UNCHANGED oddVars) => OddInv'
<1> SUFFICES ASSUME OddInv, Odd!Next \/ UNCHANGED oddVars PROVE OddInv'
  OBVIOUS
<1>1. CASE Odd!Tick
  <2>1. TimerLag \in Int /\ MaxOddTime \in Nat /\ now \in 0..MaxOddTime
    BY AlertsAssumption DEF OddInv, OddTypes, Odd!OddAssumption
  <2>2. pending # Odd!Never => pending \in timers /\ pending \in Int
    <3>1. pending # Odd!Never => exit \in 1..Len(track)
      BY DEF OddInv, Awaits, Remembers
    <3>2. \A i \in 1..Len(track) : track[i].at \in Int
      <4>1. \A i \in 1..Len(track) : track[i] \in Position
        BY DEF OddInv, OddTypes
      <4> QED
        BY <4>1 DEF Position
    <3>3. SustainedAfter \in Int
      BY AlertsAssumption DEF Odd!OddAssumption
    <3> QED
      BY <3>1, <3>2, <3>3 DEF OddInv, Awaits
  <2> QED
    BY <1>1, <2>1, <2>2, OddUnsaid DEF Odd!Tick
<1>2. CASE UNCHANGED oddVars
  <2>1. pending # Odd!Never => now - pending <= TimerLag
    BY DEF OddInv, Awaits
  <2>2. now \in 0..MaxOddTime /\ MaxOddTime \in Nat
    BY AlertsAssumption DEF OddInv, OddTypes, Odd!OddAssumption
  <2> QED
    BY <1>2, <2>1, <2>2, OddUnsaid DEF oddVars
<1> QED
  BY <1>1, <1>2, PositionKeeps, OddTimerKeeps DEF Odd!Next
\* There is one excursion at a time.
LEMMA OneExcursion ==
  ASSUME OddInv, NEW i \in 1..Len(track), Odd!Excursion(i, Len(track))
  PROVE  outside = "out" /\ exit = i
<1> USE DEF OddInv
<1>1. Len(track) \in Nat /\ track # <<>>
  BY DEF OddTypes
<1>2. track[i].out /\ ~Odd!WasOut(i) /\ \A m \in (i + 1)..Len(track) : Odd!Continues(m) /\ track[m].out
  BY DEF Odd!Excursion, Odd!Transition
<1>3. outside = "out"
  <2>1. track[Len(track)].out
    BY <1>1, <1>2
  <2> QED
    BY <1>1, <2>1 DEF Mirrors
<1>4. /\ exit \in 1..Len(track) /\ track[exit].out /\ ~Odd!WasOut(exit)
      /\ \A m \in (exit + 1)..Len(track) : Odd!Continues(m) /\ track[m].out
  BY <1>3 DEF Remembers, Odd!Excursion, Odd!Transition
<1>5. ASSUME NEW a \in 1..Len(track), NEW b \in 1..Len(track), a < b, track[a].out, ~Odd!WasOut(b),
             \A m \in (a + 1)..Len(track) : Odd!Continues(m) /\ track[m].out
      PROVE  FALSE
  <2>1. Odd!Continues(b)
    BY <1>5
  <2>2. b - 1 = a \/ b - 1 \in (a + 1)..Len(track)
    BY <1>5
  <2>3. track[b - 1].out
    BY <1>5, <2>2
  <2> QED
    BY <1>5, <2>1, <2>3 DEF Odd!WasOut
<1>6. ~(i < exit) /\ ~(exit < i)
  BY <1>2, <1>4, <1>5
<1> QED
  BY <1>3, <1>4, <1>6

LEMMA DueIsSpoken == OddInv => Odd!SustainedWhenDue
<1> SUFFICES ASSUME OddInv, \A t \in timers : t > now,
                    NEW i \in 1..Len(track), Odd!Excursion(i, Len(track)),
                    received - track[i].at >= SustainedAfter
             PROVE  Reported(i)
  BY DEF Odd!SustainedWhenDue, Odd!Heard, Reported
<1> USE DEF OddInv
<1>1. outside = "out" /\ exit = i
  BY OneExcursion
<1>2. /\ track[i] \in Position /\ track[Len(track)] \in Position
      /\ received = track[Len(track)].at /\ track[Len(track)].at <= now
  BY DEF OddTypes, Mirrors
<1>3. track[i].at \in Nat /\ received \in Nat /\ SustainedAfter \in Nat /\ now \in Nat
  BY <1>2, AlertsAssumption DEF OddTypes, Position, Odd!OddAssumption
<1>4. track[i].at + SustainedAfter <= received /\ received <= now
  BY <1>2, <1>3
<1>5. pending = Odd!Never
  <2>1. pending # Odd!Never => pending > now /\ pending = track[i].at + SustainedAfter
    BY <1>1 DEF Awaits
  <2> QED
    BY <1>3, <1>4, <2>1
<1>6. ~(received < track[exit].at + SustainedAfter)
  BY <1>1, <1>3, <1>4
<1> QED
  BY <1>1, <1>5, <1>6 DEF Spoken

LEMMA OddShape == OddInv => Odd!TypeOK
<1> SUFFICES ASSUME OddInv PROVE Odd!TypeOK
  OBVIOUS
<1> USE DEF OddInv
<1>1. \A i \in 1..Len(track) : track[i] \in Position /\ track[i].at <= now
  BY DEF OddTypes
<1>2. \A i \in 1..Len(track) :
        track[i] \in [at : 0..now, place : Place, out : BOOLEAN] /\ track[i].at \in 0..now
  <2>1. now \in Nat
    BY AlertsAssumption DEF OddTypes, Odd!OddAssumption
  <2> QED
    BY <1>1, <2>1 DEF Position
<1>3. Len(track) \in Nat /\ (track # <<>> => Len(track) \in 1..Len(track))
  BY DEF OddTypes
<1>4. /\ received \in {Odd!Never} \cup 0..now /\ outside \in {"unknown", "in", "out"}
      /\ location \in Place \cup {NoPlace}
  BY <1>2, <1>3 DEF Mirrors
<1>5. exit \in 0..Len(track) /\ (exit # 0 <=> outside = "out")
  BY <1>3 DEF Remembers
<1>6. timers \subseteq 0..(MaxOddTime + SustainedAfter)
  <2>1. now \in Nat /\ now <= MaxOddTime /\ SustainedAfter \in Nat /\ MaxOddTime \in Nat
    BY AlertsAssumption DEF OddTypes, Odd!OddAssumption
  <2>2. pending # Odd!Never => pending = track[exit].at + SustainedAfter /\ track[exit].at \in 0..now
    BY <1>2 DEF Awaits, Remembers
  <2>3. pending # Odd!Never => pending \in 0..(MaxOddTime + SustainedAfter)
    BY <2>1, <2>2
  <2> QED
    BY <2>3 DEF Awaits
<1>7. pending # Odd!Never => pending \in timers /\ outside = "out"
  BY DEF Awaits
<1>8. now \in 0..MaxOddTime
  BY DEF OddTypes
<1> QED
  BY <1>2, <1>4, <1>5, <1>6, <1>7, <1>8 DEF Odd!TypeOK, Odd!Heard
------------------------------------------------------------------------------
(* VehicleMonitor: the inductive invariant.                                *)

Entry == [event : Nat, context : Context, stopped : BOOLEAN, healthy : BOOLEAN,
          at : Nat, silent : BOOLEAN]
Known == [context : Context \cup {NoContext}, seq : Nat, event : Nat, deadline : Int,
          since : Int, stopAlert : BOOLEAN, healthy : {"unknown", "yes", "no"}, stale : BOOLEAN]
Report == [kind : {"stop", "fault", "stale"}, raise : BOOLEAN, seq : Nat,
           context : Context \cup {NoContext}]

MonitorTypes ==
  /\ clock \in 1..MaxMonitorTime /\ state \in Known
  /\ heard \in Seq(Entry) /\ reports \in Seq(Report)
  /\ state.event <= clock
  /\ \A i \in 1..Len(heard) : heard[i].at <= clock /\ heard[i].event > 0

\* The state keeps the last observation.
Follows ==
  /\ state.seq = Len(heard)
  /\ heard = <<>> => state = Monitor!NoState
  /\ heard # <<>> => /\ state.event = heard[Len(heard)].event
                     /\ state.context = heard[Len(heard)].context
                     /\ state.deadline = heard[Len(heard)].at + StaleAfter
                     /\ state.healthy = IF heard[Len(heard)].healthy THEN "yes" ELSE "no"

\* Silence is known of only once the deadline has passed, and is awaited until then.
Listens ==
  /\ deadlines = IF heard = <<>> \/ state.stale THEN {} ELSE {state.deadline}
  /\ state.stale => heard # <<>> /\ clock >= state.deadline

Rising == \A i, j \in 1..Len(heard) : i < j => heard[i].event < heard[j].event

\* since is where the row of observations begins in which the vehicle stood.
Stands ==
  /\ state.since = Monitor!None <=>
       (heard = <<>> \/ state.stale \/ ~heard[Len(heard)].stopped)
  /\ state.since # Monitor!None =>
       \E i \in 1..Len(heard) :
         /\ heard[i].event = state.since /\ Monitor!StoodSince(i)
         /\ \A j \in 1..Len(heard) : Monitor!StoodSince(j) => i <= j
  /\ state.stopAlert <=>
       (state.since # Monitor!None /\ state.event - state.since >= StopAfter)

\* Who follows the alerts knows what the state says.
Shown ==
  /\ Monitor!Up("stop") <=> state.stopAlert
  /\ Monitor!Up("stale") <=> state.stale
  /\ Monitor!Up("fault") <=> state.healthy = "no"

\* What an alert to come may say was not said of the same observation.
Unsaid ==
  \A k \in 1..Len(reports) :
    /\ reports[k].seq <= state.seq
    /\ (reports[k].seq = state.seq /\ reports[k].kind = "stop" /\ state.stopAlert) => reports[k].raise
    /\ (reports[k].seq = state.seq /\ reports[k].kind = "stale" /\ ~state.stale) => ~reports[k].raise

MonitorInv ==
  /\ MonitorTypes /\ Follows /\ Listens /\ Rising /\ Stands /\ Shown /\ Unsaid
  /\ Monitor!Alternate

------------------------------------------------------------------------------
(* Alerts that follow each other.                                          *)

UpBy(said, k, kind) ==
  \E l \in 1..k : /\ said[l].kind = kind /\ said[l].raise
                  /\ \A m \in (l + 1)..k : said[m].kind # kind

Proper(said) ==
  /\ said \in Seq(Report)
  /\ \A k \in 1..Len(said) : said[k].raise <=> ~UpBy(said, k - 1, said[k].kind)
  /\ \A k, l \in 1..Len(said) : said[k] = said[l] => k = l

Among(said) == {said[k] : k \in 1..Len(said)}

\* One more alert, if there is occasion for it, leaves them proper.
LEMMA SayOne ==
  ASSUME NEW said, Proper(said), NEW c \in BOOLEAN, NEW a \in Report,
         c => (a.raise <=> ~UpBy(said, Len(said), a.kind)), c => a \notin Among(said),
         NEW more, more = said \o (IF c THEN <<a>> ELSE <<>>)
  PROVE  /\ Proper(more) /\ Among(more) = Among(said) \cup (IF c THEN {a} ELSE {})
         /\ \A kind : UpBy(more, Len(more), kind) <=>
              (IF c /\ a.kind = kind THEN a.raise ELSE UpBy(said, Len(said), kind))
<1>1. said \in Seq(Report) /\ Len(said) \in Nat
  BY DEF Proper
<1>2. CASE ~c
  <2>1. more = said
    BY <1>1, <1>2
  <2> QED
    BY <1>2, <2>1
<1>3. CASE c
  <2> DEFINE n == Len(said)
  <2>1. /\ more \in Seq(Report) /\ Len(more) = n + 1 /\ more[n + 1] = a
        /\ \A k \in 1..n : more[k] = said[k]
    BY <1>1, <1>3
  <2>2. \A k \in 0..n : \A kind : UpBy(more, k, kind) <=> UpBy(said, k, kind)
    <3> SUFFICES ASSUME NEW k \in 0..n, NEW kind
                 PROVE  UpBy(more, k, kind) <=> UpBy(said, k, kind)
      OBVIOUS
    <3>1. \A l \in 1..k : more[l] = said[l]
      BY <1>1, <2>1
    <3>2. \A l \in 1..k : \A m \in (l + 1)..k : m \in 1..k
      BY <1>1
    <3>3. \A l \in 1..k : \A m \in (l + 1)..k : more[m] = said[m]
      BY <3>1, <3>2
    <3>4. ASSUME NEW l \in 1..k
          PROVE  (\A m \in (l + 1)..k : more[m].kind # kind) <=> (\A m \in (l + 1)..k : said[m].kind # kind)
      BY <3>3
    <3>5. \A l \in 1..k : more[l].kind = said[l].kind /\ more[l].raise = said[l].raise
      BY <3>1
    <3> QED
      BY <3>4, <3>5 DEF UpBy
  <2>3. \A k \in 1..(n + 1) : k \in 1..n \/ k = n + 1
    BY <1>1
  <2>4. \A k \in 1..(n + 1) : more[k].raise <=> ~UpBy(more, k - 1, more[k].kind)
    <3>1. ASSUME NEW k \in 1..n PROVE more[k].raise <=> ~UpBy(more, k - 1, more[k].kind)
      <4>1. k - 1 \in 0..n
        BY <1>1
      <4> QED
        BY <2>1, <2>2, <4>1 DEF Proper
    <3>2. more[n + 1].raise <=> ~UpBy(more, n, more[n + 1].kind)
      BY <1>1, <1>3, <2>1, <2>2
    <3> SUFFICES ASSUME NEW k \in 1..(n + 1) PROVE more[k].raise <=> ~UpBy(more, k - 1, more[k].kind)
      OBVIOUS
    <3>3. CASE k = n + 1
      <4>1. k - 1 = n
        BY <1>1, <3>3
      <4> QED
        BY <3>2, <3>3, <4>1
    <3> QED
      BY <2>3, <3>1, <3>3
  <2>5. \A k \in 1..n : said[k] # a
    BY <1>3 DEF Among
  <2>6. \A k, l \in 1..(n + 1) : more[k] = more[l] => k = l
    BY <2>1, <2>3, <2>5 DEF Proper
  <2>7. Among(more) = Among(said) \cup {a}
    BY <1>1, <2>1, <2>3 DEF Among
  <2>8. \A kind : UpBy(more, n + 1, kind) <=>
          (IF a.kind = kind THEN a.raise ELSE UpBy(said, n, kind))
    <3> SUFFICES ASSUME NEW kind
                 PROVE  UpBy(more, n + 1, kind) <=>
                          (IF a.kind = kind THEN a.raise ELSE UpBy(said, n, kind))
      OBVIOUS
    <3>1. CASE a.kind = kind
      <4>1. \A l \in 1..n : n + 1 \in (l + 1)..(n + 1)
        BY <1>1
      <4>2. (n + 1) + 1 > n + 1 /\ n + 1 \in 1..(n + 1)
        BY <1>1
      <4>3. (n + 2)..(n + 1) = {}
        BY <1>1
      <4> QED
        BY <1>1, <2>1, <2>3, <3>1, <4>1, <4>2, <4>3 DEF UpBy
    <3>2. CASE a.kind # kind
      <4>1. \A l \in 1..n : \A m \in (l + 1)..(n + 1) : m \in (l + 1)..n \/ m = n + 1
        BY <1>1
      <4>2. UpBy(more, n + 1, kind) <=> UpBy(more, n, kind)
        <5>1. \A l \in 1..n : l \in 1..(n + 1) /\ \A m \in (l + 1)..n : m \in (l + 1)..(n + 1)
          BY <1>1
        <5>2. more[n + 1].kind # kind
          BY <2>1, <3>2
        <5>3. \A l \in 1..n : (\A m \in (l + 1)..(n + 1) : more[m].kind # kind)
                               <=> (\A m \in (l + 1)..n : more[m].kind # kind)
          BY <4>1, <5>1, <5>2, Zenon
        <5> QED
          BY <2>3, <5>1, <5>2, <5>3, Zenon DEF UpBy
      <4>3. n \in 0..n
        BY <1>1
      <4> QED
        BY <2>2, <3>2, <4>2, <4>3
    <3> QED
      BY <3>1, <3>2
  <2> QED
    BY <1>3, <2>1, <2>4, <2>6, <2>7, <2>8 DEF Proper
<1> QED
  BY <1>2, <1>3
LEMMA ReportsAreProper ==
  /\ MonitorTypes /\ Monitor!Alternate => Proper(reports)
  /\ Proper(reports) => Monitor!Alternate
  /\ \A kind : Monitor!Up(kind) <=> UpBy(reports, Len(reports), kind)
BY DEF MonitorTypes, Monitor!Alternate, Proper, Monitor!Up, Monitor!UpAfter, UpBy

LEMMA ReportsStayProper ==
  /\ Proper(reports') => Monitor!Alternate'
  /\ \A kind : Monitor!Up(kind)' <=> UpBy(reports', Len(reports'), kind)
BY DEF Monitor!Alternate, Proper, Monitor!Up, Monitor!UpAfter, UpBy

\* The alerts of an observation: what they say, and that they may be said.
LEMMA ObserveSays ==
  ASSUME MonitorInv, NEW o \in Monitor!Observation, Monitor!Observe(o),
         NEW n, n = Len(heard) + 1,
         NEW still, still = Monitor!StillAlerted(state, o),
         NEW long, long = Monitor!LongStop(state, o),
         long => o.stopped, long /\ ~still => ~state.stopAlert
  PROVE  /\ Proper(reports')
         /\ Monitor!Up("stop")' <=> (o.stopped /\ (still \/ long))
         /\ ~Monitor!Up("stale")'
         /\ Monitor!Up("fault")' <=> ~o.healthy
         /\ \A a \in Among(reports') :
              \/ a \in Among(reports)
              \/ /\ a.seq = n
                 /\ a.kind = "stale" => ~a.raise
                 /\ (a.kind = "stop" /\ ~a.raise) => ~(o.stopped /\ (still \/ long))
<1> DEFINE a(kind, raise) == [kind |-> kind, raise |-> raise, seq |-> n, context |-> o.context]
           c1 == state.stale
           c2 == state.stopAlert /\ ~still
           c3 == ~still /\ long
           c4 == still /\ ~o.stopped
           c5 == ~o.healthy /\ state.healthy # "no"
           c6 == o.healthy /\ state.healthy = "no"
           A1 == reports \o (IF c1 THEN <<a("stale", FALSE)>> ELSE <<>>)
           A2 == A1 \o (IF c2 THEN <<a("stop", FALSE)>> ELSE <<>>)
           A3 == A2 \o (IF c3 THEN <<a("stop", TRUE)>> ELSE <<>>)
           A4 == A3 \o (IF c4 THEN <<a("stop", FALSE)>> ELSE <<>>)
           A5 == A4 \o (IF c5 THEN <<a("fault", TRUE)>> ELSE <<>>)
           A6 == A5 \o (IF c6 THEN <<a("fault", FALSE)>> ELSE <<>>)
           S(said, kind) == UpBy(said, Len(said), kind)
<1> USE DEF MonitorInv
<1>1. /\ Len(heard) \in Nat /\ n \in Nat /\ state \in Known /\ o.context \in Context
      /\ o.stopped \in BOOLEAN /\ o.healthy \in BOOLEAN /\ state.seq = Len(heard)
      /\ state.stale \in BOOLEAN /\ state.stopAlert \in BOOLEAN
      /\ still \in BOOLEAN /\ long \in BOOLEAN /\ (still => state.stopAlert)
  BY DEF MonitorTypes, Follows, Known, Monitor!Observation, Monitor!StillAlerted, Monitor!LongStop
<1>2. /\ a("stale", FALSE) \in Report /\ a("stale", FALSE).kind = "stale" /\ ~a("stale", FALSE).raise /\ a("stale", FALSE).seq = n
      /\ a("stop", FALSE) \in Report /\ a("stop", FALSE).kind = "stop" /\ ~a("stop", FALSE).raise /\ a("stop", FALSE).seq = n
      /\ a("stop", TRUE) \in Report /\ a("stop", TRUE).kind = "stop" /\ a("stop", TRUE).raise /\ a("stop", TRUE).seq = n
      /\ a("fault", TRUE) \in Report /\ a("fault", TRUE).kind = "fault" /\ a("fault", TRUE).raise /\ a("fault", TRUE).seq = n
      /\ a("fault", FALSE) \in Report /\ a("fault", FALSE).kind = "fault" /\ ~a("fault", FALSE).raise /\ a("fault", FALSE).seq = n
  BY <1>1 DEF Report
<1>3. reports' = A6
  <2>1. \A kind, raise : Monitor!Alert(kind, raise, Monitor!Seen(state, o)) = <<a(kind, raise)>>
    BY <1>1 DEF Monitor!Alert, Monitor!Seen
  <2> QED
    BY <2>1 DEF Monitor!Observe, Monitor!If
<1>4. \A r \in Among(reports) : r.seq < n
  <2>1. \A k \in 1..Len(reports) : reports[k] \in Report /\ reports[k].seq <= Len(heard)
    BY <1>1 DEF MonitorTypes, Unsaid
  <2>2. \A k \in 1..Len(reports) : reports[k].seq \in Nat
    BY <2>1 DEF Report
  <2> QED
    BY <1>1, <2>1, <2>2 DEF Among
<1>5. /\ Proper(reports)
      /\ S(reports, "stop") <=> state.stopAlert
      /\ S(reports, "stale") <=> state.stale
      /\ S(reports, "fault") <=> state.healthy = "no"
  BY ReportsAreProper DEF Shown
<1>14. /\ A1 = reports \o (IF c1 THEN <<a("stale", FALSE)>> ELSE <<>>)
       /\ A2 = A1 \o (IF c2 THEN <<a("stop", FALSE)>> ELSE <<>>)
       /\ A3 = A2 \o (IF c3 THEN <<a("stop", TRUE)>> ELSE <<>>)
       /\ A4 = A3 \o (IF c4 THEN <<a("stop", FALSE)>> ELSE <<>>)
       /\ A5 = A4 \o (IF c5 THEN <<a("fault", TRUE)>> ELSE <<>>)
       /\ A6 = A5 \o (IF c6 THEN <<a("fault", FALSE)>> ELSE <<>>)
  OBVIOUS
<1> HIDE DEF a, A1, A2, A3, A4, A5, A6
<1>15. LET sF == a("stale", FALSE)
           pF == a("stop", FALSE)
           pT == a("stop", TRUE)
           fT == a("fault", TRUE)
           fF == a("fault", FALSE)
       IN /\ {sF, pF, pT, fT, fF} \cap Among(reports) = {}
          /\ sF # pF /\ sF # pT /\ sF # fT /\ sF # fF /\ pF # pT
          /\ pF # fT /\ pF # fF /\ pT # fT /\ pT # fF /\ fT # fF
  <2>1. \A r \in {a("stale", FALSE), a("stop", FALSE), a("stop", TRUE), a("fault", TRUE), a("fault", FALSE)} :
          r.seq = n
    BY <1>2
  <2>2. ~(n < n)
    BY <1>1
  <2>3. {a("stale", FALSE), a("stop", FALSE), a("stop", TRUE), a("fault", TRUE), a("fault", FALSE)}
          \cap Among(reports) = {}
    BY <1>4, <2>1, <2>2, Zenon
  <2>4. /\ a("stale", FALSE) # a("stop", FALSE) /\ a("stale", FALSE) # a("stop", TRUE)
        /\ a("stale", FALSE) # a("fault", TRUE) /\ a("stale", FALSE) # a("fault", FALSE)
        /\ a("stop", FALSE) # a("fault", TRUE) /\ a("stop", FALSE) # a("fault", FALSE)
        /\ a("stop", TRUE) # a("fault", TRUE) /\ a("stop", TRUE) # a("fault", FALSE)
    BY <1>2
  <2>5. a("stop", FALSE) # a("stop", TRUE) /\ a("fault", TRUE) # a("fault", FALSE)
    BY <1>2, Zenon
  <2> QED
    BY <2>3, <2>4, <2>5, Zenon
<1>6. /\ Proper(A1) /\ Among(A1) = Among(reports) \cup (IF c1 THEN {a("stale", FALSE)} ELSE {})
      /\ \A kind : S(A1, kind) <=> (IF c1 /\ "stale" = kind THEN FALSE ELSE S(reports, kind))
  <2> DEFINE b == a("stale", FALSE)
  <2>1. c1 \in BOOLEAN /\ b \in Report /\ b.kind = "stale" /\ ~b.raise /\ b.seq = n
    BY <1>1, <1>2
  <2>2. c1 => (b.raise <=> ~S(reports, b.kind))
    BY <1>5, <2>1
  <2>3. c1 => b \notin Among(reports)
    <3> HIDE DEF b, c1
    <3> QED
      BY <1>1, <1>4, <2>1
  <2>4. A1 = reports \o (IF c1 THEN <<b>> ELSE <<>>)
    BY <1>14
  <2> HIDE DEF b, c2
  <2>5. /\ Proper(A1) /\ Among(A1) = Among(reports) \cup (IF c1 THEN {b} ELSE {})
        /\ \A kind : S(A1, kind) <=> (IF c1 /\ b.kind = kind THEN b.raise ELSE S(reports, kind))
    BY <1>5, <2>1, <2>2, <2>3, <2>4, SayOne
  <2> QED
    BY <2>1, <2>5 DEF b
<1>7. /\ Proper(A2) /\ Among(A2) = Among(A1) \cup (IF c2 THEN {a("stop", FALSE)} ELSE {})
      /\ \A kind : S(A2, kind) <=> (IF c2 /\ "stop" = kind THEN FALSE ELSE S(A1, kind))
  <2> DEFINE b == a("stop", FALSE)
  <2>1. c2 \in BOOLEAN /\ b \in Report /\ b.kind = "stop" /\ ~b.raise /\ b.seq = n
    BY <1>1, <1>2
  <2>2. c2 => (b.raise <=> ~S(A1, b.kind))
    BY <1>1, <1>5, <1>6, <2>1
  <2>3. c2 => b \notin Among(A1)
    BY <1>6, <1>15
  <2>4. A2 = A1 \o (IF c2 THEN <<b>> ELSE <<>>)
    BY <1>14
  <2> HIDE DEF b, c2
  <2>5. /\ Proper(A2) /\ Among(A2) = Among(A1) \cup (IF c2 THEN {b} ELSE {})
        /\ \A kind : S(A2, kind) <=> (IF c2 /\ b.kind = kind THEN b.raise ELSE S(A1, kind))
    BY <1>6, <2>1, <2>2, <2>3, <2>4, SayOne
  <2> QED
    BY <2>1, <2>5 DEF b
<1>8. /\ Proper(A3) /\ Among(A3) = Among(A2) \cup (IF c3 THEN {a("stop", TRUE)} ELSE {})
      /\ \A kind : S(A3, kind) <=> (IF c3 /\ "stop" = kind THEN TRUE ELSE S(A2, kind))
  <2> DEFINE b == a("stop", TRUE)
  <2>1. c3 \in BOOLEAN /\ b \in Report /\ b.kind = "stop" /\ b.raise /\ b.seq = n
    BY <1>1, <1>2
  <2>2. c3 => (b.raise <=> ~S(A2, b.kind))
    BY <1>1, <1>5, <1>6, <1>7, <2>1
  <2>3. c3 => b \notin Among(A2)
    BY <1>6, <1>7, <1>15
  <2>4. A3 = A2 \o (IF c3 THEN <<b>> ELSE <<>>)
    BY <1>14
  <2> HIDE DEF b, c3
  <2>5. /\ Proper(A3) /\ Among(A3) = Among(A2) \cup (IF c3 THEN {b} ELSE {})
        /\ \A kind : S(A3, kind) <=> (IF c3 /\ b.kind = kind THEN b.raise ELSE S(A2, kind))
    BY <1>7, <2>1, <2>2, <2>3, <2>4, SayOne
  <2> QED
    BY <2>1, <2>5 DEF b
<1>9. /\ Proper(A4) /\ Among(A4) = Among(A3) \cup (IF c4 THEN {a("stop", FALSE)} ELSE {})
      /\ \A kind : S(A4, kind) <=> (IF c4 /\ "stop" = kind THEN FALSE ELSE S(A3, kind))
  <2> DEFINE b == a("stop", FALSE)
  <2>1. c4 \in BOOLEAN /\ b \in Report /\ b.kind = "stop" /\ ~b.raise /\ b.seq = n
    BY <1>1, <1>2
  <2>2. c4 => (b.raise <=> ~S(A3, b.kind))
    BY <1>1, <1>5, <1>6, <1>7, <1>8, <2>1
  <2>3. c4 => b \notin Among(A3)
    BY <1>6, <1>7, <1>8, <1>15
  <2>4. A4 = A3 \o (IF c4 THEN <<b>> ELSE <<>>)
    BY <1>14
  <2> HIDE DEF b, c4
  <2>5. /\ Proper(A4) /\ Among(A4) = Among(A3) \cup (IF c4 THEN {b} ELSE {})
        /\ \A kind : S(A4, kind) <=> (IF c4 /\ b.kind = kind THEN b.raise ELSE S(A3, kind))
    BY <1>8, <2>1, <2>2, <2>3, <2>4, SayOne
  <2> QED
    BY <2>1, <2>5 DEF b
<1>10. /\ Proper(A5) /\ Among(A5) = Among(A4) \cup (IF c5 THEN {a("fault", TRUE)} ELSE {})
      /\ \A kind : S(A5, kind) <=> (IF c5 /\ "fault" = kind THEN TRUE ELSE S(A4, kind))
  <2> DEFINE b == a("fault", TRUE)
  <2>1. c5 \in BOOLEAN /\ b \in Report /\ b.kind = "fault" /\ b.raise /\ b.seq = n
    BY <1>1, <1>2
  <2>2. c5 => (b.raise <=> ~S(A4, b.kind))
    BY <1>5, <1>6, <1>7, <1>8, <1>9, <2>1
  <2>3. c5 => b \notin Among(A4)
    BY <1>6, <1>7, <1>8, <1>9, <1>15
  <2>4. A5 = A4 \o (IF c5 THEN <<b>> ELSE <<>>)
    BY <1>14
  <2> HIDE DEF b, c5
  <2>5. /\ Proper(A5) /\ Among(A5) = Among(A4) \cup (IF c5 THEN {b} ELSE {})
        /\ \A kind : S(A5, kind) <=> (IF c5 /\ b.kind = kind THEN b.raise ELSE S(A4, kind))
    BY <1>9, <2>1, <2>2, <2>3, <2>4, SayOne
  <2> QED
    BY <2>1, <2>5 DEF b
<1>11. /\ Proper(A6) /\ Among(A6) = Among(A5) \cup (IF c6 THEN {a("fault", FALSE)} ELSE {})
      /\ \A kind : S(A6, kind) <=> (IF c6 /\ "fault" = kind THEN FALSE ELSE S(A5, kind))
  <2> DEFINE b == a("fault", FALSE)
  <2>1. c6 \in BOOLEAN /\ b \in Report /\ b.kind = "fault" /\ ~b.raise /\ b.seq = n
    BY <1>1, <1>2
  <2>2. c6 => (b.raise <=> ~S(A5, b.kind))
    BY <1>5, <1>6, <1>7, <1>8, <1>9, <1>10, <2>1
  <2>3. c6 => b \notin Among(A5)
    BY <1>6, <1>7, <1>8, <1>9, <1>10, <1>15
  <2>4. A6 = A5 \o (IF c6 THEN <<b>> ELSE <<>>)
    BY <1>14
  <2> HIDE DEF b, c6
  <2>5. /\ Proper(A6) /\ Among(A6) = Among(A5) \cup (IF c6 THEN {b} ELSE {})
        /\ \A kind : S(A6, kind) <=> (IF c6 /\ b.kind = kind THEN b.raise ELSE S(A5, kind))
    BY <1>10, <2>1, <2>2, <2>3, <2>4, SayOne
  <2> QED
    BY <2>1, <2>5 DEF b
<1>12. /\ S(A6, "stop") <=> (o.stopped /\ (still \/ long))
       /\ ~S(A6, "stale") /\ (S(A6, "fault") <=> ~o.healthy)
  BY <1>1, <1>5, <1>6, <1>7, <1>8, <1>9, <1>10, <1>11
<1>13. \A b \in Among(A6) :
         \/ b \in Among(reports)
         \/ /\ b.seq = n
            /\ b.kind = "stale" => ~b.raise
            /\ (b.kind = "stop" /\ ~b.raise) => ~(o.stopped /\ (still \/ long))
  BY <1>1, <1>2, <1>6, <1>7, <1>8, <1>9, <1>10, <1>11
<1> QED
  BY <1>3, <1>11, <1>12, <1>13, ReportsStayProper

\* How the history grows by an observation, and what it says of where the vehicle stood.
LEMMA RowGrows ==
  ASSUME MonitorInv, NEW o \in Monitor!Observation, Monitor!Observe(o),
         NEW n \in Nat, n = Len(heard) + 1
  PROVE  /\ heard' \in Seq(Entry) /\ Len(heard') = n
         /\ \A i \in 1..(n - 1) : heard'[i] = heard[i]
         /\ heard'[n] = [event |-> o.event, context |-> o.context, stopped |-> o.stopped,
                          healthy |-> o.healthy, at |-> clock, silent |-> state.stale]
         /\ n = 1 => Monitor!Broken(state, o)
         /\ \A i \in 1..(n - 1) : Monitor!StoodSince(i)' <=>
              Monitor!StoodSince(i) /\ o.stopped /\ ~Monitor!Broken(state, o)
         /\ Monitor!StoodSince(n)' <=> o.stopped
<1> DEFINE x == [event |-> o.event, context |-> o.context, stopped |-> o.stopped,
                 healthy |-> o.healthy, at |-> clock, silent |-> state.stale]
<1> USE DEF MonitorInv
<1>1. /\ o.event \in Nat /\ o.context \in Context /\ o.stopped \in BOOLEAN /\ o.healthy \in BOOLEAN
      /\ clock \in Nat /\ state \in Known /\ state.stale \in BOOLEAN
  BY DEF MonitorTypes, Known, Monitor!Observation
<1>2. x \in Entry /\ heard \in Seq(Entry)
  BY <1>1 DEF Entry, MonitorTypes
<1>3. heard' = Append(heard, x)
  BY DEF Monitor!Observe
<1>4. /\ heard' \in Seq(Entry) /\ Len(heard') = n /\ heard'[n] = x
      /\ \A i \in 1..(n - 1) : heard'[i] = heard[i]
  BY <1>2, <1>3
<1>5. ASSUME n = 1 PROVE Monitor!Broken(state, o)
  <2>1. heard = <<>>
    BY <1>2, <1>5
  <2>2. state.context = NoContext
    BY <2>1 DEF Follows, Monitor!NoState
  <2> QED
    BY <1>1, <2>2, AlertsAssumption DEF Monitor!Broken, Monitor!MonitorAssumption
<1>6. ASSUME n > 1
      PROVE  Monitor!Continues(n)' <=> ~Monitor!Broken(state, o)
  <2>1. heard # <<>> /\ n - 1 = Len(heard) /\ n - 1 \in 1..Len(heard) /\ heard'[n - 1] = heard[n - 1]
    BY <1>2, <1>4, <1>6
  <2>2. state.event = heard[n - 1].event /\ state.context = heard[n - 1].context /\ state.event > 0
    BY <2>1 DEF Follows, MonitorTypes
  <2>3. Monitor!Continues(n)' <=>
          ~state.stale /\ o.event - state.event <= StaleAfter /\ o.context = state.context
    BY <1>4, <2>1, <2>2 DEF Monitor!Continues
  <2>4. state.event \in Int /\ StaleAfter \in Int
    BY <1>1, AlertsAssumption DEF Known, Monitor!MonitorAssumption
  <2>5. o.event - state.event <= StaleAfter <=> ~(o.event - state.event > StaleAfter)
    BY <1>1, <2>4
  <2> QED
    BY <2>2, <2>3, <2>5, Zenon DEF Monitor!Broken
<1>7. ASSUME NEW m \in 1..(n - 1), m > 1 PROVE Monitor!Continues(m)' <=> Monitor!Continues(m)
  <2>1. m - 1 \in 1..(n - 1)
    BY <1>7
  <2> QED
    BY <1>4, <2>1 DEF Monitor!Continues
<1>8. ASSUME NEW i \in 1..(n - 1)
      PROVE  Monitor!StoodSince(i)' <=>
              Monitor!StoodSince(i) /\ o.stopped /\ ~Monitor!Broken(state, o)
  <2>1. n > 1 /\ n > i /\ n \in i..n
    BY <1>8
  <2>2. \A m \in i..n : m = n \/ m \in i..(n - 1)
    BY <1>8
  <2>3. \A m \in i..(n - 1) : m \in i..n /\ m \in 1..(n - 1) /\ (m > i => m > 1)
    BY <1>8
  <2>4. Monitor!StoodSince(i)' <=>
          \A m \in i..n : heard'[m].stopped /\ (m > i => Monitor!Continues(m)')
    BY <1>4, <1>8 DEF Monitor!StoodSince
  <2>5. heard'[n].stopped <=> o.stopped
    BY <1>4
  <2>6. ASSUME NEW m \in i..(n - 1)
        PROVE  (heard'[m].stopped /\ (m > i => Monitor!Continues(m)')) <=>
               (heard[m].stopped /\ (m > i => Monitor!Continues(m)))
    BY <1>4, <1>7, <2>3
  <2>7. Monitor!StoodSince(i) <=>
          \A m \in i..(n - 1) : heard[m].stopped /\ (m > i => Monitor!Continues(m))
    <3>1. Len(heard) = n - 1
      BY <1>2
    <3> QED
      BY <3>1 DEF Monitor!StoodSince
  <2> QED
    BY <1>6, <2>1, <2>2, <2>3, <2>4, <2>5, <2>6, <2>7, Zenon
<1>9. Monitor!StoodSince(n)' <=> o.stopped
  <2>1. \A m \in n..n : m = n /\ ~(m > n)
    OBVIOUS
  <2>2. n \in n..n
    OBVIOUS
  <2>3. Monitor!StoodSince(n)' <=>
          \A m \in n..n : heard'[m].stopped /\ (m > n => Monitor!Continues(m)')
    BY <1>4 DEF Monitor!StoodSince
  <2>4. heard'[n].stopped <=> o.stopped
    BY <1>4
  <2> QED
    BY <2>1, <2>2, <2>3, <2>4, Zenon
<1> QED
  BY <1>4, <1>5, <1>8, <1>9

\* What an observation makes of the state.
LEMMA SeenState ==
  ASSUME MonitorInv, NEW o \in Monitor!Observation, Monitor!Observe(o)
  PROVE  /\ state' = Monitor!Seen(state, o) /\ state' \in Known
         /\ o.event \in Nat /\ o.event > 0 /\ o.event > state.event /\ o.event <= clock
         /\ o.stopped \in BOOLEAN /\ o.healthy \in BOOLEAN
         /\ Monitor!Since(state, o) \in Int
         /\ deadlines' = {state'.deadline} /\ clock' = clock
<1> USE DEF MonitorInv
<1>1. /\ o.event \in Nat /\ o.event > 0 /\ o.context \in Context
      /\ o.stopped \in BOOLEAN /\ o.healthy \in BOOLEAN
      /\ clock \in Nat /\ state \in Known /\ state.since \in Int /\ StaleAfter \in Nat
  BY AlertsAssumption DEF MonitorTypes, Known, Monitor!Observation, Monitor!MonitorAssumption
<1>2. Monitor!Since(state, o) \in Int
  BY <1>1 DEF Monitor!Since, Monitor!None
<1>3. Monitor!Seen(state, o) \in Known
  <2>1. (o.stopped /\ (Monitor!StillAlerted(state, o) \/ Monitor!LongStop(state, o))) \in BOOLEAN
    OBVIOUS
  <2>2. state.seq + 1 \in Nat /\ Monitor!Deadline(state) \in Int
    BY <1>1 DEF Known, Monitor!Deadline
  <2>3. (IF o.healthy THEN "yes" ELSE "no") \in {"unknown", "yes", "no"}
    OBVIOUS
  <2> HIDE DEF MonitorInv
  <2> QED
    BY <1>1, <1>2, <2>1, <2>2, <2>3 DEF Known, Monitor!Seen
<1>4. state' = Monitor!Seen(state, o) /\ o.event > state.event /\ o.event <= clock /\ clock' = clock
  BY DEF Monitor!Observe
<1>5. deadlines' = {state'.deadline}
  <2>1. deadlines \subseteq {state.deadline}
    BY DEF Listens
  <2> QED
    BY <2>1 DEF Monitor!Observe, Monitor!OtherTimers
<1> QED
  BY <1>1, <1>2, <1>3, <1>4, <1>5

LEMMA ObserveKeepsStands ==
  ASSUME MonitorInv, NEW o \in Monitor!Observation, Monitor!Observe(o)
  PROVE  Stands' /\ (Monitor!LongStop(state, o) /\ ~Monitor!StillAlerted(state, o) => ~state.stopAlert)
<1> PICK n \in Nat : n = Len(heard) + 1
  BY DEF MonitorInv, MonitorTypes
<1> DEFINE since == Monitor!Since(state, o)
           broken == Monitor!Broken(state, o)
<1>1. /\ Len(heard') = n /\ heard' # <<>> /\ n \in 1..n
      /\ \A i \in 1..(n - 1) : heard'[i] = heard[i]
      /\ heard'[n].event = o.event /\ heard'[n].stopped = o.stopped
      /\ n = 1 => broken
      /\ \A i \in 1..(n - 1) : Monitor!StoodSince(i)' <=> Monitor!StoodSince(i) /\ o.stopped /\ ~broken
      /\ Monitor!StoodSince(n)' <=> o.stopped
  <2>1. /\ heard' \in Seq(Entry) /\ Len(heard') = n
        /\ heard'[n] = [event |-> o.event, context |-> o.context, stopped |-> o.stopped,
                         healthy |-> o.healthy, at |-> clock, silent |-> state.stale]
    BY RowGrows
  <2>2. n \in 1..n
    BY DEF MonitorInv, MonitorTypes
  <2>3. /\ n = 1 => broken
        /\ \A i \in 1..(n - 1) : Monitor!StoodSince(i)' <=> Monitor!StoodSince(i) /\ o.stopped /\ ~broken
        /\ \A i \in 1..(n - 1) : heard'[i] = heard[i]
        /\ Monitor!StoodSince(n)' <=> o.stopped
    BY RowGrows, Zenon
  <2> QED
    BY <2>1, <2>2, <2>3
<1>2. /\ state'.since = since /\ state'.event = o.event /\ state'.stale = FALSE
      /\ state'.stopAlert <=> o.stopped /\ (Monitor!StillAlerted(state, o) \/ Monitor!LongStop(state, o))
  <2>1. state' = Monitor!Seen(state, o)
    BY SeenState
  <2> QED
    BY <2>1 DEF Monitor!Seen
<1>3. /\ o.event \in Nat /\ o.event > 0 /\ o.event > state.event /\ since \in Int
      /\ state.event \in Nat /\ state.since \in Int /\ StopAfter \in Nat \ {0} /\ o.stopped \in BOOLEAN
  BY SeenState, AlertsAssumption DEF MonitorInv, MonitorTypes, Known, Monitor!MonitorAssumption
<1>4. /\ ~o.stopped => since = -1
      /\ o.stopped /\ (broken \/ state.since = -1) => since = o.event
      /\ o.stopped /\ ~broken /\ state.since # -1 => since = state.since
  BY DEF Monitor!Since, Monitor!None
<1>5. since = -1 <=> ~o.stopped
  BY <1>3, <1>4
<1>6. state.stopAlert => state.since # -1 /\ state.event - state.since >= StopAfter
  BY DEF MonitorInv, Stands, Monitor!None
<1>7. Monitor!LongStop(state, o) <=> o.stopped /\ o.event - since >= StopAfter
  BY DEF Monitor!LongStop
<1>8. Monitor!StillAlerted(state, o) <=> state.stopAlert /\ ~broken
  BY DEF Monitor!StillAlerted
<1> HIDE DEF since, broken
<1>9. state'.stopAlert <=> since # -1 /\ o.event - since >= StopAfter
  <2>1. ASSUME state.stopAlert, ~broken, o.stopped
        PROVE  o.event - since >= StopAfter
    BY <1>3, <1>4, <1>6, <2>1
  <2> QED
    BY <1>2, <1>5, <1>7, <1>8, <2>1
<1>10. Monitor!LongStop(state, o) /\ ~Monitor!StillAlerted(state, o) => ~state.stopAlert
  <2>1. o.stopped /\ broken => ~(o.event - since >= StopAfter)
    BY <1>3, <1>4
  <2> QED
    BY <1>7, <1>8, <2>1
<1>11. ASSUME since # -1
       PROVE  \E i \in 1..n : /\ heard'[i].event = since /\ Monitor!StoodSince(i)'
                              /\ \A j \in 1..n : Monitor!StoodSince(j)' => i <= j
  <2>1. o.stopped
    BY <1>5, <1>11
  <2>2. \A j \in 1..n : j = n \/ j \in 1..(n - 1)
    OBVIOUS
  <2>3. ASSUME broken \/ state.since = -1
        PROVE  \E i \in 1..n : /\ heard'[i].event = since /\ Monitor!StoodSince(i)'
                               /\ \A j \in 1..n : Monitor!StoodSince(j)' => i <= j
    <3>1. ASSUME NEW j \in 1..(n - 1) PROVE ~Monitor!StoodSince(j)'
      <4>1. SUFFICES ASSUME ~broken, Monitor!StoodSince(j) PROVE FALSE
        BY <1>1
      <4>2. state.since = -1 /\ Len(heard) = n - 1 /\ heard # <<>> /\ n - 1 \in j..(n - 1)
        BY <2>3, <3>1, <4>1 DEF MonitorInv, MonitorTypes
      <4>3. ~state.stale
        BY <4>1 DEF broken, Monitor!Broken
      <4>4. ~heard[n - 1].stopped
        BY <4>2, <4>3 DEF MonitorInv, Stands, Monitor!None
      <4>5. heard[n - 1].stopped
        BY <4>1, <4>2 DEF Monitor!StoodSince
      <4> QED
        BY <4>4, <4>5
    <3>2. heard'[n].event = since /\ Monitor!StoodSince(n)' /\ n <= n
      BY <1>1, <1>4, <2>1, <2>3
    <3> QED
      BY <1>1, <2>2, <3>1, <3>2
  <2>4. ASSUME ~broken, state.since # -1
        PROVE  \E i \in 1..n : /\ heard'[i].event = since /\ Monitor!StoodSince(i)'
                               /\ \A j \in 1..n : Monitor!StoodSince(j)' => i <= j
    <3>1. Len(heard) = n - 1
      BY DEF MonitorInv, MonitorTypes
    <3>2. PICK i \in 1..(n - 1) :
            /\ heard[i].event = state.since /\ Monitor!StoodSince(i)
            /\ \A j \in 1..(n - 1) : Monitor!StoodSince(j) => i <= j
      BY <2>4, <3>1 DEF MonitorInv, Stands, Monitor!None
    <3>3. heard'[i].event = since /\ Monitor!StoodSince(i)'
      BY <1>1, <1>4, <2>1, <2>4, <3>2
    <3>4. i \in 1..n /\ i <= n
      BY <3>2
    <3>5. \A j \in 1..(n - 1) : Monitor!StoodSince(j)' => i <= j
      BY <1>1, <3>2
    <3> QED
      BY <2>2, <3>3, <3>4, <3>5
  <2> QED
    BY <2>3, <2>4
<1>12. Stands'
  <2>1. (state'.since = -1) <=> (heard' = <<>> \/ state'.stale \/ ~heard'[n].stopped)
    BY <1>1, <1>2, <1>5
  <2> QED
    BY <1>1, <1>2, <1>9, <1>11, <2>1 DEF Stands, Monitor!None
<1> QED
  BY <1>10, <1>12

LEMMA ObserveKeeps ==
  ASSUME MonitorInv, NEW o \in Monitor!Observation, Monitor!Observe(o)
  PROVE  MonitorInv'
<1> PICK n \in Nat : n = Len(heard) + 1
  BY DEF MonitorInv, MonitorTypes
<1>1. /\ heard' \in Seq(Entry) /\ Len(heard') = n /\ heard' # <<>> /\ n \in 1..n
      /\ \A i \in 1..(n - 1) : heard'[i] = heard[i]
      /\ heard'[n].event = o.event /\ heard'[n].context = o.context
      /\ heard'[n].healthy = o.healthy /\ heard'[n].at = clock
  <2>1. /\ heard' \in Seq(Entry) /\ Len(heard') = n
        /\ heard'[n] = [event |-> o.event, context |-> o.context, stopped |-> o.stopped,
                         healthy |-> o.healthy, at |-> clock, silent |-> state.stale]
        /\ \A i \in 1..(n - 1) : heard'[i] = heard[i]
    BY RowGrows
  <2>2. n \in 1..n
    BY DEF MonitorInv, MonitorTypes
  <2> QED
    BY <2>1, <2>2
<1>2. /\ state' = Monitor!Seen(state, o) /\ state' \in Known
      /\ o.event \in Nat /\ o.event > 0 /\ o.event > state.event /\ o.event <= clock
      /\ o.healthy \in BOOLEAN /\ deadlines' = {state'.deadline} /\ clock' = clock
  BY SeenState
<1>3. /\ state'.seq = state.seq + 1 /\ state'.event = o.event /\ state'.context = o.context
      /\ state'.deadline = clock + StaleAfter /\ state'.healthy = (IF o.healthy THEN "yes" ELSE "no")
      /\ state'.stale = FALSE
      /\ state'.stopAlert <=> o.stopped /\ (Monitor!StillAlerted(state, o) \/ Monitor!LongStop(state, o))
  BY <1>2 DEF Monitor!Seen, Monitor!Deadline
<1>4. \A i \in 1..n : i = n \/ i \in 1..(n - 1)
  OBVIOUS
<1>5. Stands'
  BY ObserveKeepsStands
<1>6. Follows'
  <2>1. state.seq = n - 1
    BY DEF MonitorInv, Follows
  <2> QED
    BY <1>1, <1>3, <2>1 DEF Follows
<1>7. Listens'
  BY <1>1, <1>2, <1>3 DEF Listens
<1>8. Rising'
  <2>1. Len(heard) = n - 1
    BY DEF MonitorInv, MonitorTypes
  <2>2. ASSUME NEW i \in 1..(n - 1) PROVE heard[i].event < o.event
    <3>1. \A k \in 1..(n - 1) : heard[k] \in Entry
      BY <2>1 DEF MonitorInv, MonitorTypes
    <3>2. \A k \in 1..(n - 1) : heard[k].event \in Nat
      BY <3>1 DEF Entry
    <3>3. n - 1 \in 1..(n - 1) /\ heard # <<>>
      BY <2>1, <2>2
    <3>4. state.event = heard[n - 1].event
      BY <2>1, <3>3 DEF MonitorInv, Follows
    <3>5. i < n - 1 => heard[i].event < heard[n - 1].event
      BY <2>1, <3>3 DEF MonitorInv, Rising
    <3>6. i < n - 1 \/ i = n - 1
      BY <2>2
    <3> QED
      BY <1>2, <3>2, <3>3, <3>4, <3>5, <3>6
  <2>3. \A i, j \in 1..(n - 1) : i < j => heard[i].event < heard[j].event
    BY <2>1 DEF MonitorInv, Rising
  <2>4. \A i, j \in 1..n : i < j => i \in 1..(n - 1)
    OBVIOUS
  <2> QED
    BY <1>1, <1>4, <2>2, <2>3, <2>4 DEF Rising
<1>9. /\ Proper(reports')
      /\ Monitor!Up("stop")' <=> state'.stopAlert
      /\ ~Monitor!Up("stale")'
      /\ Monitor!Up("fault")' <=> ~o.healthy
      /\ \A a \in Among(reports') :
           \/ a \in Among(reports)
           \/ /\ a.seq = n
              /\ a.kind = "stale" => ~a.raise
              /\ (a.kind = "stop" /\ ~a.raise) => ~state'.stopAlert
  <2>1. Monitor!LongStop(state, o) => o.stopped
    BY DEF Monitor!LongStop
  <2>2. Monitor!LongStop(state, o) /\ ~Monitor!StillAlerted(state, o) => ~state.stopAlert
    BY ObserveKeepsStands
  <2> QED
    BY <1>3, <2>1, <2>2, ObserveSays
<1>10. Monitor!Alternate' /\ reports' \in Seq(Report)
  BY <1>9, ReportsStayProper DEF Proper
<1>11. Shown'
  BY <1>2, <1>3, <1>9 DEF Shown
<1>12. Unsaid'
  <2>1. state'.seq = n
    BY <1>1, <1>6 DEF Follows
  <2>2. \A k \in 1..Len(reports) : reports[k].seq <= n - 1 /\ reports[k].seq \in Nat
    <3>1. \A k \in 1..Len(reports) : reports[k] \in Report
      BY DEF MonitorInv, MonitorTypes
    <3> QED
      BY <3>1 DEF MonitorInv, Unsaid, Follows, Report
  <2>3. \A a \in Among(reports) : a.seq < n
    BY <2>2 DEF Among
  <2>4. \A k \in 1..Len(reports') : reports'[k] \in Among(reports') /\ reports'[k] \in Report
    BY <1>10 DEF Among
  <2>5. \A k \in 1..Len(reports') : reports'[k].seq \in Nat
    BY <2>4 DEF Report
  <2> SUFFICES ASSUME NEW k \in 1..Len(reports')
               PROVE  /\ reports'[k].seq <= n
                      /\ (reports'[k].seq = n /\ reports'[k].kind = "stop" /\ state'.stopAlert)
                           => reports'[k].raise
                      /\ (reports'[k].seq = n /\ reports'[k].kind = "stale" /\ ~state'.stale)
                           => ~reports'[k].raise
    BY <2>1 DEF Unsaid
  <2>6. CASE reports'[k] \in Among(reports)
    BY <2>3, <2>5, <2>6
  <2>7. CASE reports'[k] \notin Among(reports)
    BY <1>9, <2>4, <2>7
  <2> QED
    BY <2>6, <2>7
<1>13. MonitorTypes'
  <2>1. \A i \in 1..n : heard'[i].at <= clock /\ heard'[i].event > 0
    <3>1. Len(heard) = n - 1 /\ clock <= clock
      BY DEF MonitorInv, MonitorTypes
    <3> QED
      BY <1>1, <1>2, <1>4, <3>1 DEF MonitorInv, MonitorTypes
  <2> QED
    BY <1>1, <1>2, <1>3, <1>10, <2>1 DEF MonitorInv, MonitorTypes
<1> QED
  BY <1>5, <1>6, <1>7, <1>8, <1>10, <1>11, <1>12, <1>13 DEF MonitorInv

\* The alerts of a timer that finds the vehicle silent.
LEMMA SilenceSays ==
  ASSUME MonitorInv, ~state.stale,
         reports' = reports \o Monitor!If(state.stopAlert, Monitor!Alert("stop", FALSE, state))
                            \o Monitor!Alert("stale", TRUE, state)
  PROVE  /\ Proper(reports')
         /\ ~Monitor!Up("stop")' /\ Monitor!Up("stale")'
         /\ Monitor!Up("fault")' <=> state.healthy = "no"
         /\ \A a \in Among(reports') : a \in Among(reports) \/ a.seq = state.seq
<1> DEFINE a(kind, raise) == [kind |-> kind, raise |-> raise, seq |-> state.seq, context |-> state.context]
           c == state.stopAlert
           p == a("stop", FALSE)
           q == a("stale", TRUE)
           A1 == reports \o (IF c THEN <<p>> ELSE <<>>)
           A2 == A1 \o (IF TRUE THEN <<q>> ELSE <<>>)
           S(said, kind) == UpBy(said, Len(said), kind)
<1>1. state \in Known /\ c \in BOOLEAN
  BY DEF MonitorInv, MonitorTypes, Known
<1>2. /\ p \in Report /\ p.kind = "stop" /\ ~p.raise /\ p.seq = state.seq
      /\ q \in Report /\ q.kind = "stale" /\ q.raise /\ q.seq = state.seq
  BY <1>1 DEF Report, Known
<1>3. reports' = A2
  BY DEF Monitor!If, Monitor!Alert
<1>4. /\ Proper(reports)
      /\ S(reports, "stop") <=> state.stopAlert
      /\ ~S(reports, "stale")
      /\ S(reports, "fault") <=> state.healthy = "no"
  BY ReportsAreProper DEF MonitorInv, Shown
<1>5. \A r \in Among(reports) :
        /\ (r.seq = state.seq /\ r.kind = "stop" /\ state.stopAlert) => r.raise
        /\ (r.seq = state.seq /\ r.kind = "stale") => ~r.raise
  BY DEF Among, MonitorInv, Unsaid
<1>6. /\ A1 = reports \o (IF c THEN <<p>> ELSE <<>>)
      /\ A2 = A1 \o (IF TRUE THEN <<q>> ELSE <<>>)
  OBVIOUS
<1> HIDE DEF p, q, A1, A2, a
<1>7. /\ Proper(A1) /\ Among(A1) = Among(reports) \cup (IF c THEN {p} ELSE {})
      /\ \A kind : S(A1, kind) <=> (IF c /\ p.kind = kind THEN p.raise ELSE S(reports, kind))
  <2>1. c => (p.raise <=> ~S(reports, p.kind))
    BY <1>2, <1>4
  <2>2. c => p \notin Among(reports)
    BY <1>2, <1>5, Zenon
  <2> HIDE DEF c
  <2> QED
    BY <1>1, <1>2, <1>4, <1>6, <2>1, <2>2, SayOne
<1>8. /\ Proper(A2) /\ Among(A2) = Among(A1) \cup {q}
      /\ \A kind : S(A2, kind) <=> (IF q.kind = kind THEN q.raise ELSE S(A1, kind))
  <2>1. q.raise <=> ~S(A1, q.kind)
    BY <1>2, <1>4, <1>7
  <2>2. q \notin Among(reports)
    BY <1>2, <1>5, Zenon
  <2>3. q # p
    BY <1>2
  <2>4. q \notin Among(A1)
    BY <1>7, <2>2, <2>3
  <2> DEFINE d == TRUE
  <2>5. d \in BOOLEAN /\ d /\ A2 = A1 \o (IF d THEN <<q>> ELSE <<>>)
    BY <1>6
  <2> HIDE DEF d
  <2>6. /\ Proper(A2) /\ Among(A2) = Among(A1) \cup (IF d THEN {q} ELSE {})
        /\ \A kind : S(A2, kind) <=> (IF d /\ q.kind = kind THEN q.raise ELSE S(A1, kind))
    BY <1>2, <1>7, <2>1, <2>4, <2>5, SayOne
  <2> QED
    BY <2>5, <2>6
<1>9. ~S(A2, "stop") /\ S(A2, "stale") /\ (S(A2, "fault") <=> state.healthy = "no")
  BY <1>2, <1>4, <1>7, <1>8
<1>10. \A r \in Among(A2) : r \in Among(reports) \/ r.seq = state.seq
  BY <1>2, <1>7, <1>8
<1> QED
  BY <1>3, <1>8, <1>9, <1>10, ReportsStayProper

LEMMA StoodStands ==
  ASSUME heard' = heard, NEW i PROVE Monitor!StoodSince(i)' <=> Monitor!StoodSince(i)
BY DEF Monitor!StoodSince, Monitor!Continues

LEMMA OnTimerKeeps ==
  ASSUME MonitorInv, NEW t \in deadlines, Monitor!OnTimer(t)
  PROVE  MonitorInv'
<1>1. heard # <<>> /\ ~state.stale /\ t = state.deadline /\ deadlines = {t}
  BY DEF MonitorInv, Listens
<1>2. /\ clock' = clock /\ heard' = heard /\ deadlines' = {} /\ clock >= t
      /\ state' = [state EXCEPT !.stale = TRUE, !.since = -1, !.stopAlert = FALSE]
      /\ reports' = reports \o Monitor!If(state.stopAlert, Monitor!Alert("stop", FALSE, state))
                            \o Monitor!Alert("stale", TRUE, state)
  <2>1. clock \in Int /\ state.deadline \in Int
    BY DEF MonitorInv, MonitorTypes, Known
  <2> QED
    BY <1>1, <2>1 DEF Monitor!OnTimer, Monitor!StopAfterSilence, Monitor!None
<1>3. state \in Known /\ state' \in Known
  <2>1. state \in Known
    BY DEF MonitorInv, MonitorTypes
  <2>2. state' = [context |-> state.context, seq |-> state.seq, event |-> state.event,
                  deadline |-> state.deadline, since |-> -1, stopAlert |-> FALSE,
                  healthy |-> state.healthy, stale |-> TRUE]
    BY <1>2, <2>1 DEF Known
  <2>3. /\ state.context \in Context \cup {NoContext} /\ state.seq \in Nat /\ state.event \in Nat
        /\ state.deadline \in Int /\ state.healthy \in {"unknown", "yes", "no"} /\ -1 \in Int
        /\ FALSE \in BOOLEAN /\ TRUE \in BOOLEAN
    BY <2>1 DEF Known
  <2> HIDE DEF MonitorInv
  <2> QED
    BY <2>1, <2>2, <2>3 DEF Known
<1>4. /\ state'.stale /\ state'.since = -1 /\ state'.stopAlert = FALSE
      /\ state'.seq = state.seq /\ state'.event = state.event /\ state'.context = state.context
      /\ state'.deadline = state.deadline /\ state'.healthy = state.healthy
  BY <1>2, <1>3 DEF Known
<1>5. /\ Proper(reports')
      /\ ~Monitor!Up("stop")' /\ Monitor!Up("stale")'
      /\ Monitor!Up("fault")' <=> state.healthy = "no"
      /\ \A a \in Among(reports') : a \in Among(reports) \/ a.seq = state.seq
  BY <1>1, <1>2, SilenceSays
<1>6. Monitor!Alternate' /\ reports' \in Seq(Report)
  BY <1>5, ReportsStayProper DEF Proper
<1>7. MonitorTypes'
  BY <1>2, <1>3, <1>4, <1>6 DEF MonitorInv, MonitorTypes
<1>8. Follows'
  BY <1>1, <1>2, <1>4 DEF MonitorInv, Follows
<1>9. Listens'
  BY <1>1, <1>2, <1>4 DEF Listens
<1>10. Rising'
  BY <1>2 DEF MonitorInv, Rising
<1>11. Stands'
  BY <1>2, <1>4 DEF Stands, Monitor!None
<1>12. Shown'
  BY <1>4, <1>5 DEF Shown
<1>13. Unsaid'
  <2>1. \A a \in Among(reports) : a.seq <= state.seq
    BY DEF Among, MonitorInv, Unsaid
  <2>2. state.seq <= state.seq
    BY DEF MonitorInv, MonitorTypes, Known
  <2>3. \A k \in 1..Len(reports') : reports'[k] \in Among(reports')
    BY DEF Among
  <2>4. \A k \in 1..Len(reports') : reports'[k].seq <= state.seq
    BY <1>5, <2>1, <2>2, <2>3
  <2> QED
    BY <1>4, <2>4 DEF Unsaid
<1> QED
  BY <1>6, <1>7, <1>8, <1>9, <1>10, <1>11, <1>12, <1>13 DEF MonitorInv

\* Time that passes changes nothing else.
LEMMA WaitingKeeps ==
  ASSUME MonitorInv, clock' \in clock..MaxMonitorTime,
         state' = state, deadlines' = deadlines, reports' = reports, heard' = heard
  PROVE  MonitorInv'
<1>1. clock' \in 1..MaxMonitorTime /\ clock' >= clock /\ clock \in Int /\ clock' \in Int
  BY DEF MonitorInv, MonitorTypes
<1>2. MonitorTypes'
  <2>1. \A i \in 1..Len(heard) : heard[i] \in Entry
    BY DEF MonitorInv, MonitorTypes
  <2>2. \A i \in 1..Len(heard) : heard[i].at \in Int
    BY <2>1 DEF Entry
  <2>3. state.event \in Int
    BY DEF MonitorInv, MonitorTypes, Known
  <2> QED
    BY <1>1, <2>2, <2>3 DEF MonitorInv, MonitorTypes
<1>3. Listens'
  <2>1. state.deadline \in Int
    BY DEF MonitorInv, MonitorTypes, Known
  <2> QED
    BY <1>1, <2>1 DEF MonitorInv, Listens
<1>4. Follows' /\ Rising' /\ Unsaid'
  BY DEF MonitorInv, Follows, Rising, Unsaid
<1>5. Stands'
  BY StoodStands DEF MonitorInv, Stands
<1>6. Shown' /\ Monitor!Alternate'
  BY DEF MonitorInv, Shown, Monitor!Alternate, Monitor!Up, Monitor!UpAfter
<1> QED
  BY <1>2, <1>3, <1>4, <1>5, <1>6 DEF MonitorInv

LEMMA MonitorStep == MonitorInv /\ (Monitor!Next \/ UNCHANGED monitorVars) => MonitorInv'
<1> SUFFICES ASSUME MonitorInv, Monitor!Next \/ UNCHANGED monitorVars
             PROVE  MonitorInv'
  OBVIOUS
<1>1. clock \in 1..MaxMonitorTime
  BY DEF MonitorInv, MonitorTypes
<1>2. ASSUME NEW o \in Monitor!Observation, Monitor!Observe(o) PROVE MonitorInv'
  BY <1>2, ObserveKeeps
<1>3. ASSUME NEW t \in deadlines, Monitor!OnTimer(t) PROVE MonitorInv'
  BY <1>3, OnTimerKeeps
<1>4. ASSUME Monitor!Tick PROVE MonitorInv'
  <2>1. clock' \in clock..MaxMonitorTime
    BY <1>1, <1>4, AlertsAssumption DEF Monitor!Tick, Monitor!MonitorAssumption
  <2> QED
    BY <1>4, <2>1, WaitingKeeps DEF Monitor!Tick
<1>5. ASSUME UNCHANGED monitorVars PROVE MonitorInv'
  <2>1. clock' \in clock..MaxMonitorTime
    BY <1>1, <1>5 DEF monitorVars
  <2> QED
    BY <1>5, <2>1, WaitingKeeps DEF monitorVars
<1> QED
  BY <1>2, <1>3, <1>4, <1>5 DEF Monitor!Next

LEMMA MonitorInitially == Monitor!Init => MonitorInv
<1> SUFFICES ASSUME Monitor!Init PROVE MonitorInv
  OBVIOUS
<1>1. /\ clock = 1 /\ state = Monitor!NoState /\ deadlines = {} /\ reports = <<>> /\ heard = <<>>
      /\ Len(reports) = 0 /\ Len(heard) = 0
  BY DEF Monitor!Init
<1>2. MonitorTypes
  <2>1. state \in Known
    BY <1>1 DEF Known, Monitor!NoState, Monitor!None
  <2> QED
    BY <1>1, <2>1, AlertsAssumption DEF MonitorTypes, Monitor!NoState, Monitor!MonitorAssumption
<1>3. Follows /\ Listens /\ Rising /\ Unsaid
  BY <1>1 DEF Follows, Listens, Rising, Unsaid, Monitor!NoState
<1>4. Stands
  BY <1>1 DEF Stands, Monitor!NoState, Monitor!None
<1>5. Shown /\ Monitor!Alternate
  BY <1>1 DEF Shown, Monitor!Alternate, Monitor!Up, Monitor!UpAfter, Monitor!NoState
<1> QED
  BY <1>2, <1>3, <1>4, <1>5 DEF MonitorInv

\* What the invariant says of the properties of VehicleMonitor.
LEMMA EventsOfRow ==
  ASSUME MonitorInv, heard # <<>>
  PROVE  /\ Len(heard) \in 1..Len(heard)
         /\ \A i \in 1..Len(heard) : heard[i].event \in Nat /\ heard[i].event <= state.event
         /\ \A i \in 1..Len(heard) : heard[i].event > 0
<1>1. Len(heard) \in 1..Len(heard)
  BY DEF MonitorInv, MonitorTypes
<1>2. \A i \in 1..Len(heard) : heard[i] \in Entry
  BY DEF MonitorInv, MonitorTypes
<1>3. \A i \in 1..Len(heard) : heard[i].event \in Nat
  BY <1>2 DEF Entry
<1>4. state.event = heard[Len(heard)].event
  BY DEF MonitorInv, Follows
<1>5. ASSUME NEW i \in 1..Len(heard) PROVE heard[i].event <= state.event
  <2>1. i = Len(heard) \/ i < Len(heard)
    BY <1>1
  <2>2. i < Len(heard) => heard[i].event < heard[Len(heard)].event
    BY <1>1 DEF MonitorInv, Rising
  <2> QED
    BY <1>1, <1>3, <1>4, <2>1, <2>2
<1> QED
  BY <1>1, <1>3, <1>5 DEF MonitorInv, MonitorTypes

LEMMA MonitorShape == MonitorInv => Monitor!TypeOK
<1> SUFFICES ASSUME MonitorInv PROVE Monitor!TypeOK
  OBVIOUS
<1>1. state \in Known /\ state.since \in Int /\ state.event \in Nat /\ clock \in Nat /\ state.event <= clock
  BY DEF MonitorInv, MonitorTypes, Known
<1>2. state.since \in {-1} \cup 1..clock
  <2>1. ASSUME state.since # -1 PROVE state.since \in 1..clock
    <3>1. heard # <<>> /\ \E i \in 1..Len(heard) : heard[i].event = state.since
      BY <2>1 DEF MonitorInv, Stands, Monitor!None
    <3> QED
      BY <1>1, <3>1, EventsOfRow
  <2> QED
    BY <2>1
<1>3. /\ state.context \in Context \cup {NoContext} /\ state.healthy \in {"unknown", "yes", "no"}
      /\ {state.stopAlert, state.stale} \subseteq BOOLEAN
  BY <1>1 DEF Known
<1>4. deadlines \subseteq {state.deadline} /\ ((state.seq > 0 /\ ~state.stale) => deadlines = {state.deadline})
  <2>1. heard = <<>> => ~(state.seq > 0)
    BY DEF MonitorInv, Follows
  <2> QED
    BY <2>1 DEF MonitorInv, Listens
<1> QED
  BY <1>1, <1>2, <1>3, <1>4 DEF MonitorInv, MonitorTypes, Follows, Monitor!TypeOK, Monitor!None

LEMMA StopIsExact == MonitorInv => Monitor!StopExact
<1> SUFFICES ASSUME MonitorInv PROVE Monitor!StopExact
  OBVIOUS
<1>1. /\ state.event \in Nat /\ state.since \in Int /\ StopAfter \in Nat /\ Len(heard) \in Nat
      /\ (heard = <<>> <=> Len(heard) = 0)
  BY AlertsAssumption DEF MonitorInv, MonitorTypes, Known, Monitor!MonitorAssumption
<1>2. Monitor!Up("stop") <=> (state.since # -1 /\ state.event - state.since >= StopAfter)
  BY DEF MonitorInv, Shown, Stands, Monitor!None
<1>3. Monitor!Up("stale") <=> state.stale
  BY DEF MonitorInv, Shown
<1>4. state.since = -1 <=> (heard = <<>> \/ state.stale \/ ~heard[Len(heard)].stopped)
  BY DEF MonitorInv, Stands, Monitor!None
<1>5. heard # <<>> => state.event = heard[Len(heard)].event
  BY DEF MonitorInv, Follows
<1>6. ASSUME state.since # -1, state.event - state.since >= StopAfter
      PROVE  \E i \in 1..Len(heard) : Monitor!StoodSince(i) /\ heard[Len(heard)].event - heard[i].event >= StopAfter
  <2>1. PICK i \in 1..Len(heard) : heard[i].event = state.since /\ Monitor!StoodSince(i)
    BY <1>6 DEF MonitorInv, Stands, Monitor!None
  <2> QED
    BY <1>4, <1>5, <1>6, <2>1
<1>7. ASSUME heard # <<>>, ~state.stale, NEW i \in 1..Len(heard), Monitor!StoodSince(i),
             heard[Len(heard)].event - heard[i].event >= StopAfter
      PROVE  state.since # -1 /\ state.event - state.since >= StopAfter
  <2>1. heard[Len(heard)].stopped
    <3>1. Len(heard) \in i..Len(heard)
      BY <1>1
    <3> QED
      BY <1>7, <3>1 DEF Monitor!StoodSince
  <2>2. state.since # -1
    BY <1>4, <1>7, <2>1
  <2>3. PICK j \in 1..Len(heard) :
          /\ heard[j].event = state.since
          /\ \A k \in 1..Len(heard) : Monitor!StoodSince(k) => j <= k
    BY <2>2 DEF MonitorInv, Stands, Monitor!None
  <2>4. j <= i
    BY <1>7, <2>3
  <2>5. heard[j].event \in Nat /\ heard[i].event \in Nat
    BY <1>7, EventsOfRow
  <2>6. heard[j].event <= heard[i].event
    <3>1. j < i => heard[j].event < heard[i].event
      BY DEF MonitorInv, Rising
    <3> QED
      BY <2>4, <2>5, <3>1
  <2> QED
    BY <1>1, <1>5, <1>7, <2>2, <2>3, <2>5, <2>6
<1> QED
  BY <1>1, <1>2, <1>3, <1>4, <1>6, <1>7 DEF Monitor!StopExact, Monitor!Heard, Monitor!Last

LEMMA SilenceIsExact == MonitorInv => Monitor!SilenceExact
<1> SUFFICES ASSUME MonitorInv PROVE Monitor!SilenceExact
  OBVIOUS
<1>1. /\ clock \in Int /\ StaleAfter \in Int /\ Len(heard) \in Nat
      /\ (heard = <<>> <=> Len(heard) = 0)
  BY AlertsAssumption DEF MonitorInv, MonitorTypes, Monitor!MonitorAssumption
<1>2. Monitor!Up("stale") <=> state.stale
  BY DEF MonitorInv, Shown
<1>3. heard # <<>> => state.deadline = heard[Len(heard)].at + StaleAfter /\ heard[Len(heard)].at \in Int
  <2>1. heard # <<>> => heard[Len(heard)] \in Entry
    BY <1>1 DEF MonitorInv, MonitorTypes
  <2> QED
    BY <2>1 DEF MonitorInv, Follows, Entry
<1>4. state.stale => heard # <<>> /\ clock >= state.deadline
  BY DEF MonitorInv, Listens
<1>5. heard # <<>> /\ ~state.stale => deadlines = {state.deadline}
  BY DEF MonitorInv, Listens
<1>6. Len(heard) > 0 <=> heard # <<>>
  BY <1>1
<1>7. state.stale => Len(heard) > 0 /\ clock - heard[Len(heard)].at >= StaleAfter
  BY <1>1, <1>3, <1>4, <1>6
<1>8. ASSUME Len(heard) > 0, Monitor!NoneDue, clock - heard[Len(heard)].at >= StaleAfter
      PROVE  state.stale
  <2>1. state.deadline <= clock
    BY <1>1, <1>3, <1>6, <1>8
  <2>2. ~state.stale => state.deadline > clock
    BY <1>5, <1>6, <1>8 DEF Monitor!NoneDue
  <2> QED
    BY <1>1, <1>3, <1>6, <1>8, <2>1, <2>2
<1> QED
  BY <1>2, <1>7, <1>8 DEF Monitor!SilenceExact, Monitor!Last

------------------------------------------------------------------------------
(* The theorems.                                                           *)

LEMMA AlertsInvariant == Spec => [](OddInv /\ MonitorInv)
<1>1. Init => OddInv /\ MonitorInv
  BY OddInitially, MonitorInitially DEF Init
<1>2. OddInv /\ MonitorInv /\ [Next]_<<subject, oddVars, monitorVars>> => (OddInv /\ MonitorInv)'
  BY OddStep, MonitorStep DEF Next
<1> QED
  BY <1>1, <1>2, PTL DEF Spec

\* Both states keep their shape and, while a vehicle is not silent, its deadline is
\* awaited; the vehicle monitor's alerts of a kind alternate, beginning with one that
\* raises, and no two have the same event id, so that none is dropped downstream as a
\* repetition.
THEOREM ConsistentHolds == Spec => []Consistent
<1>1. OddInv /\ MonitorInv => Consistent
  BY OddShape, MonitorShape DEF Consistent, MonitorInv
<1> QED
  BY <1>1, AlertsInvariant, PTL

\* Exits and returns are alerted exactly once each, in the order the positions have
\* them, whatever silences and changes of place come between.
THEOREM TransitionsAreExact == Spec => []TransitionsExact
<1>1. OddInv => TransitionsExact
  BY DEF OddInv, TransitionsExact
<1> QED
  BY <1>1, AlertsInvariant, PTL

\* A sustained excursion is reported once, for the exit that began it and never for
\* one that ended or was broken by a silence, and is reported when it is due.
THEOREM SustainedAreExact == Spec => []SustainedExact
<1>1. OddInv => SustainedExact
  BY DueIsSpoken DEF OddInv, SustainedExact
<1> QED
  BY <1>1, AlertsInvariant, PTL

\* The stop alert is up exactly while the vehicle is heard and was seen standing for
\* StopAfter in one unbroken row, and the alert for silence exactly while nothing was
\* heard for StaleAfter, once the timers that are due have been called.
THEOREM MonitorIsExact == Spec => []MonitorExact
<1>1. MonitorInv => MonitorExact
  BY StopIsExact, SilenceIsExact DEF MonitorExact
<1> QED
  BY <1>1, AlertsInvariant, PTL
=============================================================================
