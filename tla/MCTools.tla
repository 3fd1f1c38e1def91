------------------------------ MODULE MCTools ------------------------------
(* Instance of the Python tools around the pipeline.  They run on their own  *)
(* and share nothing, so a behaviour is one of one of them.                  *)
EXTENDS Integers, SequencesExt

CONSTANTS MaxSeq, MaxInflight, Budget, MaxRuns, MaxBreaks,  \* Driver
          W, EveryN, MaxStarts,                             \* Loopback
          Total, MaxFailures, MaxIncidents,                 \* Campaign
          MaxChain,                                         \* Clips
          MaxTimes                                          \* Series

VARIABLES subject, \* the tool this behaviour is of
          log, commit, topic, pc, plan, sent, next, stalled, code,
          pending, unsent, start, error, runs, breaks,
          walNext, committed, shipNext, inSend, tracker, eager, failFrom,
          starts, began, copies, win, base, passed,
          step, round, withFault, load, errors, seen, thread, faulted, unpaused,
          results, baseline, summary, paused, inKafka, stored, restarts,
          failures, hung, unseen,
          chain, lost, phase, args, clip, metas, clips, manifest, last,
          series   \* input of the algorithms of Series

driverVars == <<log, commit, topic, pc, plan, sent, next, stalled, code,
                pending, unsent, start, error, runs, breaks>>
loopVars == <<walNext, committed, shipNext, inSend, tracker, eager, failFrom,
              starts, began, copies, win, base, passed>>
campaignVars == <<step, round, withFault, load, errors, seen, thread, faulted,
                  unpaused, results, baseline, summary, paused, inKafka, stored,
                  restarts, failures, hung, unseen>>
clipVars == <<chain, lost, phase, args, clip, metas, clips, manifest, last>>

Drive == INSTANCE Driver
Loop == INSTANCE Loopback WITH commit <- committed, next <- shipNext
Camp == INSTANCE Campaign WITH pc <- step, sent <- load
Clip == INSTANCE Clips WITH pc <- phase, next <- clip
Times == INSTANCE Series

ASSUME ToolsAssumption ==
       Drive!DriverAssumption /\ Loop!LoopbackAssumption
       /\ Camp!CampaignAssumption /\ Clip!ClipsAssumption

Init ==
  /\ subject \in {"driver", "loopback", "campaign", "clips", "series"}
  /\ Drive!Init
  /\ Loop!Init /\ (subject # "loopback" => failFrom = 0)
  /\ Camp!Init /\ (subject # "campaign" => ~withFault /\ restarts = 0)
  /\ IF subject = "clips" THEN Clip!Init
     ELSE /\ chain = <<>> /\ lost = {} /\ phase = "idle" /\ args = Clip!NoArgs /\ clip = 1
          /\ metas = {} /\ clips = <<>> /\ manifest = {} /\ last = Clip!NoArgs
  /\ IF subject = "series" THEN series \in BoundedSeq(0..MaxTimes, MaxTimes) ELSE series = <<>>

Next ==
  /\ UNCHANGED <<subject, series>>
  /\ \/ subject = "driver" /\ Drive!Next /\ UNCHANGED <<loopVars, campaignVars, clipVars>>
     \/ subject = "loopback" /\ Loop!Next /\ UNCHANGED <<driverVars, campaignVars, clipVars>>
     \/ subject = "campaign" /\ Camp!Next /\ UNCHANGED <<driverVars, loopVars, clipVars>>
     \/ subject = "clips" /\ Clip!Next /\ UNCHANGED <<driverVars, loopVars, campaignVars>>

Spec ==
  /\ Init /\ [][Next]_<<subject, driverVars, loopVars, campaignVars, clipVars, series>>
  /\ subject = "driver" => Drive!Fairness
  /\ subject = "campaign" => Camp!Fairness

------------------------------------------------------------------------------

\* The driver's counts are those of its log and stream, and a run of it that returns
\* 0 leaves every record in Kafka, and the verifier agrees.
SuccessIsComplete == Drive!TypeOK /\ Drive!SuccessIsComplete

\* The driver returns, whatever the gateway does.
MainReturns == Drive!MainReturns

\* The loopback harness keeps the promise of the path it stands in for.
ImplementsExactlyOnce == Loop!ImplementsExactlyOnce

\* The harness repeats exactly what was logged and not committed.
ResendsExact == Loop!ResendsExact

\* A campaign that passed measured what it says.
PassedIsTrue == Camp!PassedIsTrue

\* One failing docker command does not leave ClickHouse paused.
NeverLeftPaused == Camp!NeverLeftPaused

\* The campaign comes to an end.
CampaignEnds == subject = "campaign" => Camp!CampaignEnds

\* verify_mcap.py passes whole clips only, and passes what a full conversion wrote.
VerifierAgrees == subject = "clips" => Clip!VerifierAgrees

\* Nearest values, windows and the joint order of channels are what they should be.
SeriesExact ==
  subject = "series" =>
    /\ \A u \in 0..(MaxTimes + 1) : Times!NearestExact(series, u)
    /\ \A width \in 1..MaxTimes : Times!BatchesExact(series, width)
    /\ \A has \in BOOLEAN, cut \in 0..Len(series), u \in 0..MaxTimes :
         Times!JoinFollows(SubSeq(series, 1, cut), SubSeq(series, cut + 1, Len(series)), has, u)
=============================================================================
