----------------------------- MODULE LiveAlerts -----------------------------
(***************************************************************************)
(* An alert's way from Kafka to the dashboard: KafkaAlertConsumer and      *)
(* AlertHub in the API, SseClient and TelemetryStore in a browser tab.     *)
(*                                                                         *)
(* The alerts are those of one kind of one vehicle, numbered in the order  *)
(* Flink detects them; a number stands for the event id.  Odd ones raise,  *)
(* even ones clear (VehicleMonitor!Alternate).  Flink delivers at least    *)
(* once: after a restore it publishes the last few again.                  *)
(***************************************************************************)
EXTENDS Integers, Sequences, SequencesExt

CONSTANTS MaxAlert,   \* bound: alerts that are detected
          History,    \* replay-capacity
          Feed,       \* EVENT_CAPACITY
          Near,       \* so many transitions take less than 500 ms
          Rewind,     \* a restore of the job repeats at most so many alerts
          MaxRewinds, \* bound: restores of the job
          MaxRestarts,\* bound: restarts of the API
          MaxBreaks,  \* bound: connections that break or are refused
          MaxHides,   \* bound: times the tab is hidden
          MaxOther    \* bound: other events in the feed (harsh brakes, epochs)

\* The code relies on the last part: an id the hub forgot is not published again.
LiveAssumption ==
  /\ {MaxAlert, History, Feed, Near} \subseteq Nat \ {0}
  /\ {Rewind, MaxRewinds, MaxRestarts, MaxBreaks, MaxHides, MaxOther} \subseteq Nat
  /\ Rewind <= History

VARIABLES topic,    \* fleet.alerts
          offset,   \* alerts of it that the consumer has read
          recent,   \* AlertHub.recent; recentIds are its elements
          link,     \* of source, the EventSource: "none", "connecting", "open", "broken"
          wire,     \* sent to it and not received
          lastId,   \* lastId
          timer,    \* a retry is scheduled
          visible,  \* not document.hidden
          feed,     \* events, the oldest first
          board,    \* activeAlerts has the kind
          count,    \* how often what is bounded happened
          seen, evicted, forgot \* history: ids received, dropped by the hub, by the feed

hub == <<topic, offset, recent>>
client == <<link, lastId, timer, visible>>
store == <<feed, board, seen, forgot>>
liveVars == <<hub, client, wire, store, count, evicted>>

NoId == 0    \* no id
Other == -1  \* an entry of the feed that is no alert of this kind

Raises(id) == id % 2 = 1
Latest(ids) == IF ids = {} THEN NoId ELSE Max(ids)

Count(what, max) == count[what] < max /\ count' = [count EXCEPT ![what] = @ + 1]

------------------------------------------------------------------------------
(* Flink and the API.                                                      *)

Produce ==
  LET last == Latest(Range(topic))
  IN /\ last < MaxAlert
     /\ topic' = Append(topic, last + 1)
     /\ UNCHANGED <<offset, recent, client, wire, store, count, evicted>>

\* The job is restored: what it published since the checkpoint it publishes again.
RestoreJob(from) ==
  LET last == Latest(Range(topic))
  IN /\ from \in 1..last /\ last - from < Rewind
     /\ Count("rewind", MaxRewinds)
     /\ topic' = topic \o [k \in 1..(last - from + 1) |-> from + k - 1]
     /\ UNCHANGED <<offset, recent, client, wire, store, evicted>>

\* consume() and publish(): an id that is kept is a repetition.
HubPublish ==
  /\ offset < Len(topic)
  /\ offset' = offset + 1
  /\ LET id == topic[offset + 1]
         kept == Append(recent, id)
     IN IF id \in Range(recent)
        THEN UNCHANGED <<recent, wire, evicted>>
        ELSE /\ recent' = IF Len(kept) > History THEN Tail(kept) ELSE kept
             /\ evicted' = evicted \cup (Range(kept) \ Range(recent'))
             /\ wire' = IF link = "open" THEN Append(wire, id) ELSE wire
  /\ UNCHANGED <<topic, client, store, count>>

\* What is kept behind an id, all of it if there is none.
Behind(id) == SubSeq(recent, 1 + SelectInSeq(recent, LAMBDA a : a = id), Len(recent))

\* Mutant: an id that is not kept replays nothing.
ReplayNothing(id) == IF id \in Range(recent) \cup {NoId} THEN Behind(id) ELSE <<>>

\* replayAfter(): all of it, too, if the id is not kept.
ReplayAfter(id) == Behind(id)

\* subscribe(), with the id that connect() put in the URL.
Subscribe ==
  /\ link = "connecting"
  /\ link' = "open" /\ wire' = ReplayAfter(lastId)
  /\ UNCHANGED <<hub, lastId, timer, visible, store, count, evicted>>

\* The API is started again: no history, and a new consumer group that reads from
\* the beginning.  Its connections break; what was sent may still arrive.
RestartApi ==
  /\ Count("restart", MaxRestarts)
  /\ recent' = <<>> /\ offset' = 0
  /\ link' = IF link = "none" THEN "none" ELSE "broken"
  /\ UNCHANGED <<topic, wire, lastId, timer, visible, store, evicted>>

\* The connection is refused, times out, or a send on it fails.
Break ==
  /\ link \in {"connecting", "open"}
  /\ Count("break", MaxBreaks)
  /\ link' = "broken"
  /\ UNCHANGED <<hub, wire, lastId, timer, visible, store, evicted>>

------------------------------------------------------------------------------
(* The tab.                                                                *)

\* pushEvent(): a repetition of the newest entry is not recorded, nor its id.
Coalesced(id) ==
  feed # <<>> /\ LET top == feed[Len(feed)]
                 IN top # Other /\ Raises(top) = Raises(id) /\ id - top < Near
Pushed(id) == LET f == Append(feed, id) IN IF Len(f) > Feed THEN Tail(f) ELSE f

\* Mutant: a repetition is applied to the board again.
KnownNever(id) == FALSE

\* ingestAlert() knows the id.
Known(id) == id \in Range(feed)

\* The listener of connect() and ingestAlert().
TabReceives ==
  /\ link \in {"open", "broken"} /\ wire # <<>>
  /\ LET id == Head(wire)
     IN /\ wire' = Tail(wire) /\ lastId' = id /\ seen' = seen \cup {id}
        /\ IF Known(id) THEN UNCHANGED <<board, feed, forgot>>
           ELSE /\ board' = Raises(id)
                /\ feed' = IF Coalesced(id) THEN feed ELSE Pushed(id)
                /\ forgot' = forgot \cup ((Range(feed) \cup {id}) \ (Range(feed') \cup {Other}))
  /\ UNCHANGED <<hub, link, timer, visible, count, evicted>>

\* pushEvent() of anything else.
PushOther ==
  /\ Count("other", MaxOther)
  /\ feed' = Pushed(Other)
  /\ forgot' = forgot \cup (Range(feed) \ (Range(feed') \cup {Other}))
  /\ UNCHANGED <<hub, client, wire, board, seen, evicted>>

\* close() and then the new EventSource of connect().
Connecting == link' = "connecting" /\ wire' = <<>>
Closed == link' = "none" /\ wire' = <<>>

\* Mutant: a tab that has received nothing yet does not try again.
TimerOnceOpen == seen # {}

\* timer after scheduleRetry().
TimerAfterError == TRUE

\* onerror: close() and scheduleRetry().
OnError ==
  /\ link = "broken"
  /\ Closed /\ timer' = TimerAfterError
  /\ UNCHANGED <<hub, lastId, visible, store, count, evicted>>

\* The timer of scheduleRetry(): connect().
Retry ==
  /\ timer
  /\ timer' = FALSE
  /\ IF visible THEN Connecting ELSE UNCHANGED <<link, wire>>
  /\ UNCHANGED <<hub, lastId, visible, store, count, evicted>>

Hide ==
  /\ visible /\ Count("hide", MaxHides)
  /\ visible' = FALSE /\ Closed
  /\ UNCHANGED <<hub, lastId, timer, store, evicted>>

\* Mutant: the retry is not cleared.
TimerKept == timer

\* timer after clearRetry().
TimerAfterShow == FALSE

Show ==
  /\ ~visible
  /\ visible' = TRUE /\ timer' = TimerAfterShow /\ Connecting
  /\ UNCHANGED <<hub, lastId, store, count, evicted>>

\* start() of a tab that is looked at.
LiveInit ==
  /\ topic = <<>> /\ offset = 0 /\ recent = <<>>
  /\ link = "connecting" /\ wire = <<>> /\ lastId = NoId
  /\ timer = FALSE /\ visible = TRUE
  /\ feed = <<>> /\ board = FALSE
  /\ count = [what \in {"rewind", "restart", "break", "hide", "other"} |-> 0]
  /\ seen = {} /\ evicted = {} /\ forgot = {}

LiveNext ==
  \/ Produce
  \/ \E from \in 1..MaxAlert : RestoreJob(from)
  \/ HubPublish \/ Subscribe \/ RestartApi \/ Break
  \/ TabReceives \/ PushOther \/ OnError \/ Retry \/ Hide \/ Show

\* Threads run, timers fire, the network delivers or reports an error.
LiveFairness ==
  /\ WF_liveVars(HubPublish) /\ WF_liveVars(Subscribe)
  /\ WF_liveVars(TabReceives) /\ WF_liveVars(OnError) /\ WF_liveVars(Retry)

LiveSpec == LiveInit /\ [][LiveNext]_liveVars /\ LiveFairness

------------------------------------------------------------------------------
(* Properties.                                                             *)

\* While the tab is looked at, it has a connection or a retry to come, never both and
\* never neither; a hidden one has no connection.
OneConnection ==
  /\ visible => ((link = "none") <=> timer)
  /\ ~visible => link = "none"

\* A tab that is connected and has received what was sent has received every alert
\* the hub keeps, across broken connections, hidden tabs, restarts of the API and
\* repetitions; only what the hub dropped before can be missing.
NothingMissed ==
  link = "open" /\ wire = <<>> => Range(recent) \ evicted \subseteq seen

\* The board shows the latest alert received, however often and from wherever the
\* alerts are repeated, as long as neither the hub nor the feed has forgotten an id.
BoardFollows ==
  evicted = {} /\ forgot = {} => (board <=> Raises(Latest(seen)))

\* A tab that stays visible ends up with every alert the hub keeps.
CatchesUp == <>[]visible => <>[](Range(recent) \ evicted \subseteq seen)

\* telemetryStore.test.ts:39 "an exit that is repeated late, after the return, does not
\* open the alert again": a tab that has received everything shows what the latest
\* alert says.
BoardIsLatest ==
  /\ visible /\ link = "open" /\ wire = <<>>
  /\ offset = Len(topic) /\ seen = Range(topic)
  => (board <=> Raises(Latest(seen)))
=============================================================================
