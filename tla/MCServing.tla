----------------------------- MODULE MCServing -----------------------------
(* Instance of four services: a stream of the gateway, the sink into         *)
(* ClickHouse, the replay of what is stored, and the alerts on their way to  *)
(* a browser.  What passes between them goes through Kafka and the tables,   *)
(* so a behaviour is one of one of them.                                     *)
EXTENDS IngestStream, StorageSink, LiveAlerts

CONSTANTS MaxTime, Interval, Limit, StreamFailures \* of ReplayStream

VARIABLES subject, \* the service this behaviour is of
          signals, lo, hi, cursor, sent, lost, epoch, pass, failures \* of ReplayStream

streamVars == <<signals, lo, hi, cursor, sent, lost, epoch, pass, failures>>

Stream == INSTANCE ReplayStream WITH MaxFailures <- StreamFailures

ASSUME ServingAssumption ==
       IngestAssumption /\ SinkAssumption /\ LiveAssumption /\ Stream!StreamAssumption

\* Where another service is the subject nothing of this one is ever enabled.
NoTab ==
  /\ topic = <<>> /\ offset = 0 /\ recent = <<>> /\ link = "none" /\ wire = <<>>
  /\ lastId = 0 /\ timer = FALSE /\ visible = FALSE /\ feed = <<>> /\ board = FALSE
  /\ count = <<>> /\ seen = {} /\ evicted = {} /\ forgot = {}

ServicesInit ==
  /\ subject \in {"ingest", "sink", "stream", "alerts"}
  /\ Init /\ SinkInit
  /\ Stream!Init /\ (subject # "stream" => signals = {})
  /\ IF subject = "alerts" THEN LiveInit ELSE NoTab

ServicesNext ==
  /\ UNCHANGED subject
  /\ \/ subject = "ingest" /\ Next /\ UNCHANGED <<sinkVars, streamVars, liveVars>>
     \/ subject = "sink" /\ SinkNext /\ UNCHANGED <<vars, streamVars, liveVars>>
     \/ subject = "stream" /\ Stream!Next /\ UNCHANGED <<vars, sinkVars, liveVars>>
     \/ subject = "alerts" /\ LiveNext /\ UNCHANGED <<vars, sinkVars, streamVars>>

Services ==
  /\ ServicesInit
  /\ [][ServicesNext]_<<subject, vars, sinkVars, streamVars, liveVars>>
  /\ Fairness /\ Stream!Fairness /\ LiveFairness

------------------------------------------------------------------------------

\* The shape of the state of a gateway stream, its in-flight count on every path out
\* of onNext(), and the one connection of a browser tab.
Consistent == TypeOK /\ InflightIsExact /\ OneConnection

\* Acks rise and come on open streams only; half-closed streams are closed, and a
\* vehicle that goes quiet gets its last ack.
AcksArrive == AcksAdvance /\ HalfCloseEnds /\ QuietAckArrives

\* Between two epochs of the replay every signal is sent or accounted for.
PassComplete == Stream!PassComplete

\* The replay comes round again and again.
ComesRound == Stream!ComesRound

\* The replay goes back only with an epoch.
RewindAnnounced == Stream!RewindAnnounced
=============================================================================
