------------------------------ MODULE Campaign ------------------------------
(***************************************************************************)
(* One acceptance campaign of scripts/flink_validation/run_campaign.py: a  *)
(* gate, a steady load, a load with ClickHouse paused for a while by a     *)
(* thread of its own, and the verdict.  Docker commands fail, with or      *)
(* without having had their effect, or take longer than the join waits.    *)
(*                                                                         *)
(* Simplifications.  A run sends Total records; Kafka takes each or fails  *)
(* it.  What the alert stream and the load's own clock showed is known at  *)
(* the verdict only.  The metrics for the dashboard are left out.          *)
(***************************************************************************)
EXTENDS Integers

CONSTANTS Total,        \* bound: records of a run
          MaxFailures,  \* bound: docker commands that fail
          MaxIncidents  \* bound: restarts of a Flink job

CampaignAssumption == Total \in Nat \ {0} /\ MaxFailures \in Nat /\ MaxIncidents \in Nat

VARIABLES
  pc,          \* where main() is
  round,       \* "steady" or "fault", the run_load() under way
  withFault,   \* not --skip-fault
  sent, errors, seen,  \* of run_load(): sent, errors # [], stored
  thread,      \* where inject_fault() is, "gone" when there is none
  faulted, unpaused,   \* fault_state
  results,     \* round |-> "none", "passed", "failed"
  baseline, summary,
  paused,      \* the ClickHouse container
  inKafka, stored,     \* records of this run
  restarts,    \* of the Flink jobs
  failures, hung, unseen  \* history: commands that failed, a command that hung,
                          \* and numRestarts missing when main() asked last

load == <<sent, errors, seen>>
fault == <<thread, faulted, unpaused>>
verdicts == <<results, baseline, summary>>
stack == <<paused, inKafka, stored, restarts>>
history == <<failures, hung, unseen>>
vars == <<pc, round, withFault, load, fault, verdicts, stack, history>>

NoNumber == -1

------------------------------------------------------------------------------
(* Docker.                                                                 *)

Fails == failures < MaxFailures /\ failures' = failures + 1

\* docker compose pause | unpause: ends well, or fails after all or at once.
PauseWorks == paused' = TRUE /\ UNCHANGED failures
PauseFails == paused' \in {paused, TRUE} /\ Fails
UnpauseWorks == paused /\ paused' = FALSE /\ UNCHANGED failures
UnpauseFails == IF paused THEN paused' \in {paused, FALSE} /\ Fails
                ELSE UNCHANGED <<paused, failures>>

------------------------------------------------------------------------------
(* main() and run_load().                                                  *)

\* consumer_group_lag(): rows without a number are skipped, none at all is an error.
NoLag(rows) == rows \ {NoNumber} = {0}

\* preflight(): the gates, then the counts the end is compared with.
Preflight(jobs, rows, known, rest) ==
  /\ pc = "preflight"
  /\ IF jobs = {"alerts", "storage"} /\ NoLag(rows) /\ rest
     THEN pc' = "begin" /\ baseline' = IF known THEN restarts ELSE 0
     ELSE pc' = "finally" /\ UNCHANGED baseline
  /\ UNCHANGED <<round, withFault, load, fault, results, summary, stack, history>>

BeginLoad ==
  /\ pc = "begin"
  /\ pc' = "load"
  /\ sent' = 0 /\ errors' = FALSE /\ seen' = -1
  /\ thread' = IF round = "fault" THEN "waiting" ELSE "gone"
  /\ faulted' = FALSE /\ unpaused' = FALSE
  /\ inKafka' = 0 /\ stored' = 0
  /\ UNCHANGED <<round, withFault, verdicts, paused, restarts, history>>

\* produce(), and what delivery() hears of the record.
Produce(taken) ==
  /\ pc = "load" /\ sent < Total
  /\ sent' = sent + 1
  /\ inKafka' = IF taken THEN inKafka + 1 ELSE inKafka
  /\ errors' = (errors \/ ~taken)
  /\ UNCHANGED <<pc, round, withFault, seen, fault, verdicts, paused, stored, restarts, history>>

\* BufferError ends the load early.
QueueFull ==
  /\ pc = "load" /\ sent < Total
  /\ errors' = TRUE /\ pc' = "join"
  /\ UNCHANGED <<round, withFault, sent, seen, fault, verdicts, stack, history>>

Produced ==
  /\ pc = "load" /\ sent = Total
  /\ pc' = "join"
  /\ UNCHANGED <<round, withFault, load, fault, verdicts, stack, history>>

\* Mutant: the thread is not waited for.
JoinSkipped == pc = "join" /\ pc' = "release"
               /\ UNCHANGED <<round, withFault, load, fault, verdicts, stack, history>>

\* join(fault_seconds + 30) runs out only under a command that hangs, or while the
\* thread still sleeps because the load ended early.
Join ==
  /\ pc = "join"
  /\ thread = "gone" \/ hung \/ sent < Total
  /\ pc' = "release"
  /\ UNCHANGED <<round, withFault, load, fault, verdicts, stack, history>>

\* The rest of the finally: an outage the thread did not end.
Release ==
  /\ pc = "release"
  /\ pc' = "flush"
  /\ IF faulted /\ ~unpaused
     THEN unpaused' = TRUE /\ (UnpauseWorks \/ UnpauseFails)
     ELSE UNCHANGED <<unpaused, paused, failures>>
  /\ UNCHANGED <<round, withFault, load, thread, faulted, verdicts,
                 inKafka, stored, restarts, hung, unseen>>

Flush(drained) ==
  /\ pc = "flush"
  /\ pc' = "drain"
  /\ errors' = (errors \/ ~drained)
  /\ UNCHANGED <<round, withFault, sent, seen, fault, verdicts, stack, history>>

\* One turn of the drain: the count, or an error that stays on record.
Query ==
  /\ pc = "drain"
  /\ IF paused THEN errors' = TRUE /\ UNCHANGED seen
               ELSE seen' = stored /\ UNCHANGED errors
  /\ pc' = IF seen' = sent THEN "judge" ELSE "drain"
  /\ UNCHANGED <<round, withFault, sent, fault, verdicts, stack, history>>

\* Mutant: the drain waits for as long as it takes.
DeadlineNever == FALSE /\ UNCHANGED vars

Deadline ==
  /\ pc = "drain"
  /\ pc' = "judge"
  /\ UNCHANGED <<round, withFault, load, fault, verdicts, stack, history>>

\* The verdict of the run; shown: the alerts heard, each once, in time and without
\* an error of the collector, and no lag of the load.
Judge(shown) ==
  /\ pc = "judge"
  /\ results' = [results EXCEPT ![round] =
       IF ~errors /\ sent = Total /\ seen = sent /\ shown THEN "passed" ELSE "failed"]
  /\ IF round = "steady" /\ withFault THEN pc' = "begin" /\ round' = "fault"
                                      ELSE pc' = "final" /\ UNCHANGED round
  /\ UNCHANGED <<withFault, load, fault, baseline, summary, stack, history>>

\* The rest of main(): states, restarts, checkpoints, scrapes and containers.
Final(known, rest) ==
  /\ pc = "final"
  /\ unseen' = ~known
  /\ LET now == IF known THEN restarts ELSE 0
     IN summary' = IF /\ results["steady"] = "passed"
                      /\ ~withFault \/ results["fault"] = "passed"
                      /\ now - baseline = 0 /\ rest
                   THEN "passed" ELSE "failed"
  /\ pc' = "finally"
  /\ UNCHANGED <<round, withFault, load, fault, results, baseline, stack, failures, hung>>

\* Mutant: run_load() is trusted to have ended the outage.
FinallySkipped == pc = "finally" /\ pc' = "done"
                  /\ UNCHANGED <<round, withFault, load, fault, verdicts, stack, history>>

Finally ==
  /\ pc = "finally"
  /\ pc' = "done"
  /\ UnpauseWorks \/ UnpauseFails
  /\ UNCHANGED <<round, withFault, load, fault, verdicts, inKafka, stored, restarts, hung, unseen>>

------------------------------------------------------------------------------
(* inject_fault(), a daemon thread.                                        *)

Alive == pc # "done"

Pause ==
  /\ Alive /\ thread = "waiting"
  /\ \/ PauseWorks /\ thread' = "holding" /\ faulted' = TRUE /\ UNCHANGED errors
     \/ PauseFails /\ thread' = "gone" /\ errors' = TRUE /\ UNCHANGED faulted
  /\ UNCHANGED <<pc, round, withFault, sent, seen, unpaused, verdicts,
                 inKafka, stored, restarts, hung, unseen>>

Hang ==
  /\ Alive /\ thread \in {"waiting", "holding"}
  /\ hung' = TRUE
  /\ UNCHANGED <<pc, round, withFault, load, fault, verdicts, stack, failures, unseen>>

Unpause ==
  /\ Alive /\ thread = "holding"
  /\ \/ UnpauseWorks /\ thread' = "gone" /\ unpaused' = TRUE /\ UNCHANGED errors
     \/ UnpauseFails /\ thread' = "cleanup" /\ errors' = TRUE /\ UNCHANGED unpaused
  /\ UNCHANGED <<pc, round, withFault, sent, seen, faulted, verdicts,
                 inKafka, stored, restarts, hung, unseen>>

Cleanup ==
  /\ Alive /\ thread = "cleanup"
  /\ thread' = "gone"
  /\ unpaused' = TRUE
  /\ IF unpaused THEN UNCHANGED <<paused, failures>> ELSE UnpauseWorks \/ UnpauseFails
  /\ UNCHANGED <<pc, round, withFault, load, faulted, verdicts,
                 inKafka, stored, restarts, hung, unseen>>

------------------------------------------------------------------------------
(* The system under test.                                                  *)

Store ==
  /\ ~paused /\ stored < inKafka
  /\ stored' = stored + 1
  /\ UNCHANGED <<pc, round, withFault, load, fault, verdicts, paused, inKafka, restarts, history>>

JobRestarts ==
  /\ pc \notin {"preflight", "finally", "done"} /\ restarts < MaxIncidents + 1
  /\ restarts' = restarts + 1
  /\ UNCHANGED <<pc, round, withFault, load, fault, verdicts, paused, inKafka, stored, history>>

------------------------------------------------------------------------------

Init ==
  /\ pc = "preflight" /\ round = "steady" /\ withFault \in BOOLEAN
  /\ sent = 0 /\ errors = FALSE /\ seen = -1
  /\ thread = "gone" /\ faulted = FALSE /\ unpaused = FALSE
  /\ results = [r \in {"steady", "fault"} |-> "none"]
  /\ baseline = 0 /\ summary = "none"
  /\ paused = FALSE /\ inKafka = 0 /\ stored = 0
  /\ restarts \in 0..1
  /\ failures = 0 /\ hung = FALSE /\ unseen = FALSE

MainStep ==
  \/ \E jobs \in {{"alerts"}, {"alerts", "storage"}, {"alerts", "storage", "other"}},
        rows \in SUBSET {NoNumber, 0, 1}, known, rest \in BOOLEAN :
       Preflight(jobs, rows, known, rest)
  \/ BeginLoad \/ QueueFull \/ Produced \/ Join \/ Release \/ Query \/ Deadline \/ Finally
  \/ \E ok \in BOOLEAN : Produce(ok) \/ Flush(ok) \/ Judge(ok)
  \/ \E known, rest \in BOOLEAN : Final(known, rest)

Next ==
  \/ MainStep
  \/ Pause \/ Hang \/ Unpause \/ Cleanup
  \/ Store \/ JobRestarts

\* main() goes on, its drain meets its deadline, and the thread does unless a
\* command of its hangs.
Fairness ==
  /\ WF_vars(MainStep) /\ WF_vars(Deadline)
  /\ WF_vars(~hung /\ (Pause \/ Unpause \/ Cleanup))

------------------------------------------------------------------------------
(* Properties.                                                             *)

\* A run that passed stored what it sent, all of it, and a fault run had its outage
\* and the end of it; only a `docker pause` that hangs past the join can cheat it.
\* A campaign that passed saw no job restart, if it saw the metric at the end.
PassedIsTrue ==
  /\ results[round] = "passed" =>
       /\ stored = Total /\ inKafka = Total /\ sent = Total
       /\ round = "fault" => hung \/ (faulted /\ unpaused /\ thread = "gone" /\ ~paused)
  /\ (summary = "passed" /\ ~unseen) => restarts = baseline

\* One docker command that fails does not leave ClickHouse paused, whether it is the
\* thread's or main()'s, once the thread is through: it outlives main() only under a
\* command that hangs, or when the load ended early, long before its fault.
NeverLeftPaused == (pc = "done" /\ paused) => failures > 1 \/ thread # "gone"

\* The campaign comes to an end.
CampaignEnds == <>(pc = "done")
=============================================================================
