------------------------------- MODULE Series -------------------------------
(***************************************************************************)
(* The time series of the vehicle's dataset tools, pure algorithms:        *)
(* nearest CAN value to a pose and the signals of all channels in one      *)
(* order (nuscenes_source.py), and the windows of batching.py.  A message  *)
(* is its time and its place in the input.                                 *)
(***************************************************************************)
EXTENDS Integers, SequencesExt

Message(times, i) == [at |-> times[i], place |-> i]
Messages(times) == [i \in DOMAIN times |-> Message(times, i)]

\* Python's sorted(): by time, and stable.
Before(a, b) == a.at < b.at \/ (a.at = b.at /\ a.place < b.place)
Sorted(set) == SetToSortSeq(set, Before)

Nothing == [at |-> -1, place |-> 0]

\* Mutant: the value before is taken however far it is.
AtBefore(times, u) ==
  LET m == Sorted(Range(Messages(times)))
      i == Cardinality({k \in DOMAIN m : m[k].at < u})
  IN IF m = <<>> THEN Nothing ELSE m[IF i = 0 THEN 1 ELSE i]

\* _NearestSeries.at(): bisect_left, then the nearer of its two neighbours.
At(times, u) ==
  LET m == Sorted(Range(Messages(times)))
      i == Cardinality({k \in DOMAIN m : m[k].at < u})
  IN CASE m = <<>> -> Nothing
       [] m # <<>> /\ i = 0 -> m[1]
       [] m # <<>> /\ i = Len(m) -> m[i]
       [] OTHER -> IF u - m[i].at <= m[i + 1].at - u THEN m[i] ELSE m[i + 1]

\* batch_by_window(): what falls in one window, windows in order.
Batches(times, width) ==
  LET start(t) == (t \div width) * width
      starts == {start(times[i]) : i \in DOMAIN times}
      rows(s) == {m \in Range(Messages(times)) : start(m.at) = s}
  IN [k \in 1..Cardinality(starts) |->
        LET s == SetToSortSeq(starts, <)[k]
        IN [start |-> s, end |-> s + width, rows |-> Sorted(rows(s))]]

\* extract_native_signals(): one channel and the poses in one order; a channel the
\* scene lacks is passed over.
NativeSignals(channel, poses, has) ==
  Sorted(Range(Messages((IF has THEN channel ELSE <<>>) \o poses)))

------------------------------------------------------------------------------
Distance(a, b) == IF a < b THEN b - a ELSE a - b

\* The joined value is the nearest in time, the earlier of two as near, and there is
\* one unless the channel is empty.
NearestExact(times, u) ==
  \A i \in DOMAIN times :
    /\ Distance(At(times, u).at, u) <= Distance(times[i], u)
    /\ Distance(At(times, u).at, u) = Distance(times[i], u) => At(times, u).at <= times[i]

\* The batches are the series in time order, cut at the multiples of the window:
\* nothing lost, repeated, empty or in two windows.
BatchesExact(times, width) ==
  LET b == Batches(times, width)
  IN /\ FlattenSeq([k \in DOMAIN b |-> b[k].rows]) = Sorted(Range(Messages(times)))
     /\ \A k \in DOMAIN b :
          /\ b[k].rows # <<>>
          /\ \A r \in Range(b[k].rows) : b[k].start <= r.at /\ r.at < b[k].end
          /\ k > 1 => b[k - 1].end <= b[k].start

\* The joined table follows from the lossless one: a channel's messages in the joint
\* order give the same nearest value at every time, and no pose is lost.
JoinFollows(channel, poses, has, u) ==
  LET out == NativeSignals(channel, poses, has)
      mine == SelectSeq(out, LAMBDA m : has /\ m.place <= Len(channel))
  IN /\ At([i \in DOMAIN mine |-> mine[i].at], u).at = At(IF has THEN channel ELSE <<>>, u).at
     /\ Len(out) - Len(mine) = Len(poses)
     /\ \A i \in 1..(Len(out) - 1) : out[i].at <= out[i + 1].at
=============================================================================
