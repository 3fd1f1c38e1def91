---------------------------- MODULE ToolsProofs ----------------------------
(***************************************************************************)
(* What the tools around the pipeline promise, for every bound.  A         *)
(* behaviour of MCTools is one of one of them, so each is proved to keep   *)
(* its own invariant, which also holds while another one runs.             *)
(***************************************************************************)
EXTENDS MCTools, IntervalTheorems

------------------------------------------------------------------------------
(* Campaign: the inductive invariant.                                      *)

Judged == {"none", "passed", "failed"}

CampaignTypes ==
  /\ step \in {"preflight", "begin", "load", "join", "release", "flush", "drain",
               "judge", "final", "finally", "done"}
  /\ round \in {"steady", "fault"}
  /\ errors \in BOOLEAN /\ faulted \in BOOLEAN /\ unpaused \in BOOLEAN
  /\ paused \in BOOLEAN /\ hung \in BOOLEAN
  /\ thread \in {"gone", "waiting", "holding", "cleanup"}
  /\ results \in [{"steady", "fault"} -> Judged]
  /\ failures \in Nat /\ restarts \in Nat /\ baseline \in Nat
  /\ inKafka \in Nat /\ stored \in Nat /\ load \in Nat /\ seen \in Int
  /\ seen <= stored /\ stored <= inKafka /\ inKafka <= load /\ load <= Total

\* A round is judged once; nothing is summed up before the end.
JudgedOnce ==
  /\ step \notin {"final", "finally", "done"} => results[round] = "none"
  /\ round = "steady" => results["fault"] = "none" /\ thread = "gone"
  /\ step = "preflight" => round = "steady"
  /\ summary # "none" => step \in {"finally", "done"}

\* Where the fault thread is, and what it has left behind.
ThreadTrue ==
  /\ step \in {"release", "flush", "drain", "judge"} => thread = "gone" \/ hung \/ load < Total
  /\ thread = "cleanup" => errors
  /\ thread = "holding" => faulted
  /\ (round = "fault" /\ step \notin {"preflight", "begin"} /\ thread = "gone" /\ ~errors) =>
       faulted /\ unpaused /\ ~paused

\* While main() runs, an outage that nobody will end is that of a command that failed.
OneFailed ==
  step # "done" /\ paused /\ thread \in {"gone", "cleanup"} => failures >= 1

CampaignInv ==
  /\ CampaignTypes /\ JudgedOnce /\ ThreadTrue /\ OneFailed
  /\ Camp!PassedIsTrue /\ Camp!NeverLeftPaused

\* An unpause that leaves ClickHouse paused is a command that failed.
LEMMA Unpaused ==
  ASSUME CampaignInv, Camp!UnpauseWorks \/ Camp!UnpauseFails
  PROVE  /\ paused' \in BOOLEAN /\ failures' \in Nat /\ failures' >= failures
         /\ paused' => paused /\ failures' = failures + 1
<1>1. paused \in BOOLEAN /\ failures \in Nat
  BY DEF CampaignInv, CampaignTypes
<1>2. CASE Camp!UnpauseWorks
  <2>1. paused' = FALSE /\ failures' = failures
    BY <1>2 DEF Camp!UnpauseWorks
  <2>2. paused' \in BOOLEAN /\ ~paused'
    BY <2>1, Zenon
  <2> QED
    BY <1>1, <2>1, <2>2
<1>3. CASE Camp!UnpauseFails /\ ~paused
  BY <1>1, <1>3 DEF Camp!UnpauseFails
<1>4. CASE Camp!UnpauseFails /\ paused
  <2>1. (paused' = paused \/ paused' = FALSE) /\ failures' = failures + 1
    BY <1>4, Zenon DEF Camp!UnpauseFails, Camp!Fails
  <2>2. paused' \in BOOLEAN
    BY <1>1, <2>1, Zenon
  <2> QED
    BY <1>1, <1>4, <2>1, <2>2
<1> QED
  BY <1>2, <1>3, <1>4

LEMMA CampaignStep == CampaignInv /\ (Camp!Next \/ UNCHANGED campaignVars) => CampaignInv'
<1> SUFFICES ASSUME CampaignInv, Camp!Next \/ UNCHANGED campaignVars PROVE CampaignInv'
  OBVIOUS
<1> USE DEF CampaignInv, CampaignTypes, JudgedOnce, ThreadTrue, OneFailed, Judged,
            Camp!PassedIsTrue, Camp!NeverLeftPaused,
            Camp!load, Camp!fault, Camp!verdicts, Camp!stack, Camp!history
<1>total. Total \in Nat \ {0}
  BY ToolsAssumption DEF Camp!CampaignAssumption
<1>1. ASSUME NEW jobs, NEW rows, NEW known \in BOOLEAN, NEW rest \in BOOLEAN,
             Camp!Preflight(jobs, rows, known, rest)
      PROVE  CampaignInv'
  BY <1>total, <1>1 DEF Camp!Preflight
<1>2. ASSUME NEW taken \in BOOLEAN, Camp!Produce(taken) PROVE CampaignInv'
  BY <1>total, <1>2 DEF Camp!Produce
<1>3. ASSUME NEW drained \in BOOLEAN, Camp!Flush(drained) PROVE CampaignInv'
  BY <1>total, <1>3 DEF Camp!Flush
<1>4. ASSUME NEW shown \in BOOLEAN, Camp!Judge(shown) PROVE CampaignInv'
  BY <1>total, <1>4 DEF Camp!Judge
<1>5. ASSUME NEW known \in BOOLEAN, NEW rest \in BOOLEAN, Camp!Final(known, rest) PROVE CampaignInv'
  BY <1>total, <1>5 DEF Camp!Final
<1>6. ASSUME Camp!BeginLoad PROVE CampaignInv'
  <2>1. CampaignTypes'
    <3>1. CampaignTypes
      OBVIOUS
    <3>2. /\ errors' \in BOOLEAN /\ faulted' \in BOOLEAN /\ unpaused' \in BOOLEAN
          /\ paused' \in BOOLEAN /\ hung' \in BOOLEAN
      BY <1>6, <3>1 DEF Camp!BeginLoad
    <3>3. /\ load' = 0 /\ seen' = -1 /\ inKafka' = 0 /\ stored' = 0 /\ failures' = failures
          /\ restarts' = restarts /\ baseline' = baseline /\ results' = results
          /\ step' = "load" /\ round' = round /\ thread' \in {"gone", "waiting"}
      BY <1>6 DEF Camp!BeginLoad
    <3> HIDE DEF CampaignInv, JudgedOnce, ThreadTrue, OneFailed, Camp!PassedIsTrue, Camp!NeverLeftPaused
    <3> QED
      BY <1>total, <3>1, <3>2, <3>3
  <2>2. JudgedOnce'
    BY <1>total, <1>6 DEF Camp!BeginLoad
  <2>3. ThreadTrue'
    BY <1>total, <1>6 DEF Camp!BeginLoad
  <2>4. OneFailed'
    BY <1>total, <1>6 DEF Camp!BeginLoad
  <2>5. Camp!PassedIsTrue'
    BY <1>total, <1>6 DEF Camp!BeginLoad
  <2>6. Camp!NeverLeftPaused'
    BY <1>total, <1>6 DEF Camp!BeginLoad
  <2> QED
    BY <2>1, <2>2, <2>3, <2>4, <2>5, <2>6
<1>7. ASSUME Camp!QueueFull PROVE CampaignInv'
  BY <1>total, <1>7 DEF Camp!QueueFull
<1>8. ASSUME Camp!Produced PROVE CampaignInv'
  BY <1>total, <1>8 DEF Camp!Produced
<1>9. ASSUME Camp!Join PROVE CampaignInv'
  BY <1>total, <1>9 DEF Camp!Join
<1>10. ASSUME Camp!Release PROVE CampaignInv'
  <2>1. IF faulted /\ ~unpaused
        THEN /\ unpaused'
             /\ paused' \in BOOLEAN /\ failures' \in Nat /\ failures' >= failures
             /\ (paused' => paused /\ failures' = failures + 1)
        ELSE paused' = paused /\ failures' = failures /\ unpaused' = unpaused
    BY <1>10, Unpaused DEF Camp!Release
  <2>2. CampaignTypes'
    BY <1>total, <1>10, <2>1 DEF Camp!Release
  <2>3. JudgedOnce'
    BY <1>total, <1>10, <2>1 DEF Camp!Release
  <2>4. ThreadTrue'
    BY <1>total, <1>10, <2>1 DEF Camp!Release
  <2>5. OneFailed'
    <3>1. OneFailed /\ failures \in Nat
      OBVIOUS
    <3>2. thread' = thread /\ step # "done"
      BY <1>10 DEF Camp!Release
    <3>3. paused' => paused
      BY <2>1, Zenon
    <3>4. failures' >= failures /\ failures' \in Nat
      BY <2>1, <3>1
    <3> QED
      BY <3>1, <3>2, <3>3, <3>4 DEF OneFailed
  <2>6. Camp!PassedIsTrue'
    BY <1>total, <1>10, <2>1 DEF Camp!Release
  <2>7. Camp!NeverLeftPaused'
    BY <1>total, <1>10, <2>1 DEF Camp!Release
  <2> QED
    BY <2>2, <2>3, <2>4, <2>5, <2>6, <2>7
<1>11. ASSUME Camp!Query PROVE CampaignInv'
  <2>1. CampaignTypes'
    <3>1. CampaignTypes
      OBVIOUS
    <3>2. /\ errors' \in BOOLEAN /\ seen' \in {seen, stored} /\ step' \in {"drain", "judge"}
      BY <1>11, <3>1 DEF Camp!Query
    <3>3. /\ faulted' = faulted /\ unpaused' = unpaused /\ paused' = paused /\ hung' = hung
          /\ thread' = thread /\ round' = round /\ load' = load /\ inKafka' = inKafka
          /\ stored' = stored /\ failures' = failures /\ restarts' = restarts
          /\ baseline' = baseline /\ results' = results
      BY <1>11 DEF Camp!Query
    <3> HIDE DEF CampaignInv, JudgedOnce, ThreadTrue, OneFailed, Camp!PassedIsTrue, Camp!NeverLeftPaused
    <3> QED
      BY <1>total, <3>1, <3>2, <3>3
  <2>2. JudgedOnce'
    BY <1>total, <1>11 DEF Camp!Query
  <2>3. ThreadTrue'
    BY <1>total, <1>11 DEF Camp!Query
  <2>4. OneFailed'
    BY <1>total, <1>11 DEF Camp!Query
  <2>5. Camp!PassedIsTrue'
    BY <1>total, <1>11 DEF Camp!Query
  <2>6. Camp!NeverLeftPaused'
    BY <1>total, <1>11 DEF Camp!Query
  <2> QED
    BY <2>1, <2>2, <2>3, <2>4, <2>5, <2>6
<1>12. ASSUME Camp!Deadline PROVE CampaignInv'
  BY <1>total, <1>12 DEF Camp!Deadline
<1>13. ASSUME Camp!Finally PROVE CampaignInv'
  <2>1. /\ paused' \in BOOLEAN /\ failures' \in Nat /\ failures' >= failures
        /\ (paused' => paused /\ failures' = failures + 1)
    BY <1>13, Unpaused DEF Camp!Finally
  <2>2. CampaignTypes'
    BY <1>total, <1>13, <2>1 DEF Camp!Finally
  <2>3. JudgedOnce'
    BY <1>total, <1>13, <2>1 DEF Camp!Finally
  <2>4. ThreadTrue'
    BY <1>total, <1>13, <2>1 DEF Camp!Finally
  <2>5. OneFailed'
    BY <1>total, <1>13, <2>1 DEF Camp!Finally
  <2>6. Camp!PassedIsTrue'
    BY <1>total, <1>13, <2>1 DEF Camp!Finally
  <2>7. Camp!NeverLeftPaused'
    BY <1>total, <1>13, <2>1 DEF Camp!Finally
  <2> QED
    BY <2>2, <2>3, <2>4, <2>5, <2>6, <2>7
<1>14. ASSUME Camp!Pause PROVE CampaignInv'
  <2>1. /\ paused' \in BOOLEAN /\ failures' \in Nat /\ failures' >= failures
        /\ \/ /\ paused' = TRUE /\ failures' = failures /\ thread' = "holding"
              /\ faulted' = TRUE /\ errors' = errors
           \/ /\ failures' = failures + 1 /\ thread' = "gone"
              /\ errors' = TRUE /\ faulted' = faulted
    <3>1. paused \in BOOLEAN /\ failures \in Nat
      OBVIOUS
    <3>2. Camp!PauseFails => paused' \in BOOLEAN /\ failures' = failures + 1
      BY <3>1, Zenon DEF Camp!PauseFails, Camp!Fails
    <3>3. Camp!PauseWorks => paused' = TRUE /\ failures' = failures
      BY DEF Camp!PauseWorks
    <3>4. \/ /\ Camp!PauseWorks /\ thread' = "holding"
             /\ faulted' = TRUE /\ errors' = errors
          \/ /\ Camp!PauseFails /\ thread' = "gone"
             /\ errors' = TRUE /\ faulted' = faulted
      BY <1>14, Zenon DEF Camp!Pause
    <3> HIDE DEF CampaignInv, CampaignTypes, JudgedOnce, ThreadTrue, OneFailed, Camp!PassedIsTrue, Camp!NeverLeftPaused
    <3>5. CASE Camp!PauseWorks /\ thread' = "holding" /\ faulted' = TRUE /\ errors' = errors
      BY <3>1, <3>3, <3>5
    <3>6. CASE Camp!PauseFails /\ thread' = "gone" /\ errors' = TRUE /\ faulted' = faulted
      BY <3>1, <3>2, <3>6
    <3> QED
      BY <3>4, <3>5, <3>6
  <2>2. CampaignTypes'
    BY <1>total, <1>14, <2>1 DEF Camp!Pause, Camp!Alive
  <2>3. JudgedOnce'
    BY <1>total, <1>14, <2>1 DEF Camp!Pause, Camp!Alive
  <2>4. ThreadTrue'
    BY <1>total, <1>14, <2>1 DEF Camp!Pause, Camp!Alive
  <2>5. OneFailed'
    BY <1>total, <1>14, <2>1 DEF Camp!Pause, Camp!Alive
  <2>6. Camp!PassedIsTrue'
    BY <1>total, <1>14, <2>1 DEF Camp!Pause, Camp!Alive
  <2>7. Camp!NeverLeftPaused'
    BY <1>total, <1>14, <2>1 DEF Camp!Pause, Camp!Alive
  <2> QED
    BY <2>2, <2>3, <2>4, <2>5, <2>6, <2>7
<1>15. ASSUME Camp!Hang PROVE CampaignInv'
  BY <1>total, <1>15 DEF Camp!Hang, Camp!Alive
<1>16. ASSUME Camp!Unpause PROVE CampaignInv'
  <2>1. /\ paused' \in BOOLEAN /\ failures' \in Nat /\ failures' >= failures
        /\ (paused' => paused /\ failures' = failures + 1)
        /\ \/ ~paused' /\ thread' = "gone" /\ unpaused' = TRUE /\ errors' = errors
           \/ thread' = "cleanup" /\ errors' = TRUE /\ unpaused' = unpaused
    <3>1. Camp!UnpauseWorks \/ Camp!UnpauseFails
      BY <1>16 DEF Camp!Unpause
    <3> QED
      BY <1>16, <3>1, Unpaused DEF Camp!Unpause, Camp!UnpauseWorks
  <2>2. CampaignTypes'
    BY <1>total, <1>16, <2>1 DEF Camp!Unpause, Camp!Alive
  <2>3. JudgedOnce'
    BY <1>total, <1>16, <2>1 DEF Camp!Unpause, Camp!Alive
  <2>4. ThreadTrue'
    BY <1>total, <1>16, <2>1 DEF Camp!Unpause, Camp!Alive
  <2>5. OneFailed'
    BY <1>total, <1>16, <2>1 DEF Camp!Unpause, Camp!Alive
  <2>6. Camp!PassedIsTrue'
    BY <1>total, <1>16, <2>1 DEF Camp!Unpause, Camp!Alive
  <2>7. Camp!NeverLeftPaused'
    BY <1>total, <1>16, <2>1 DEF Camp!Unpause, Camp!Alive
  <2> QED
    BY <2>2, <2>3, <2>4, <2>5, <2>6, <2>7
<1>17. ASSUME Camp!Cleanup PROVE CampaignInv'
  <2>1. IF unpaused THEN paused' = paused /\ failures' = failures
        ELSE /\ paused' \in BOOLEAN /\ failures' \in Nat /\ failures' >= failures
             /\ (paused' => paused /\ failures' = failures + 1)
    BY <1>17, Unpaused DEF Camp!Cleanup
  <2>2. CampaignTypes'
    BY <1>total, <1>17, <2>1 DEF Camp!Cleanup, Camp!Alive
  <2>3. JudgedOnce'
    BY <1>total, <1>17, <2>1 DEF Camp!Cleanup, Camp!Alive
  <2>4. ThreadTrue'
    BY <1>total, <1>17, <2>1 DEF Camp!Cleanup, Camp!Alive
  <2>5. OneFailed'
    <3>1. OneFailed /\ failures \in Nat
      OBVIOUS
    <3>2. thread = "cleanup" /\ step # "done"
      BY <1>17 DEF Camp!Cleanup, Camp!Alive
    <3>3. paused' => paused
      BY <2>1, Zenon
    <3>4. failures' >= failures /\ failures' \in Nat
      BY <2>1, <3>1
    <3> QED
      BY <3>1, <3>2, <3>3, <3>4 DEF OneFailed
  <2>6. Camp!PassedIsTrue'
    BY <1>total, <1>17, <2>1 DEF Camp!Cleanup, Camp!Alive
  <2>7. Camp!NeverLeftPaused'
    BY <1>total, <1>17, <2>1 DEF Camp!Cleanup, Camp!Alive
  <2> QED
    BY <2>2, <2>3, <2>4, <2>5, <2>6, <2>7
<1>18. ASSUME Camp!Store PROVE CampaignInv'
  BY <1>total, <1>18 DEF Camp!Store
<1>19. ASSUME Camp!JobRestarts PROVE CampaignInv'
  BY <1>total, <1>19 DEF Camp!JobRestarts
<1>20. ASSUME UNCHANGED campaignVars PROVE CampaignInv'
  BY <1>20 DEF campaignVars
<1> QED
  BY <1>1, <1>2, <1>3, <1>4, <1>5, <1>6, <1>7, <1>8, <1>9, <1>10, <1>11, <1>12, <1>13, <1>14, <1>15, <1>16, <1>17, <1>18, <1>19, <1>20 DEF Camp!Next, Camp!MainStep

LEMMA CampaignInitially == Init => CampaignInv
<1> SUFFICES ASSUME Camp!Init PROVE CampaignInv
  BY DEF Init
<1>1. Total \in Nat \ {0}
  BY ToolsAssumption DEF Camp!CampaignAssumption
<1>2. /\ step = "preflight" /\ round = "steady" /\ load = 0 /\ errors = FALSE /\ seen = -1
      /\ thread = "gone" /\ faulted = FALSE /\ unpaused = FALSE
      /\ results = [r \in {"steady", "fault"} |-> "none"] /\ baseline = 0 /\ summary = "none"
      /\ paused = FALSE /\ inKafka = 0 /\ stored = 0 /\ restarts \in 0..1
      /\ failures = 0 /\ hung = FALSE
  BY DEF Camp!Init
<1>3. CampaignTypes
  <2>1. /\ errors \in BOOLEAN /\ faulted \in BOOLEAN /\ unpaused \in BOOLEAN
        /\ paused \in BOOLEAN /\ hung \in BOOLEAN
    BY <1>2, Zenon
  <2>2. results \in [{"steady", "fault"} -> Judged]
    BY <1>2 DEF Judged
  <2>3. /\ restarts \in Nat /\ 0 \in Nat /\ -1 \in Int /\ -1 <= 0 /\ 0 <= 0 /\ 0 <= Total
    BY <1>1, <1>2
  <2> QED
    BY <1>2, <2>1, <2>2, <2>3 DEF CampaignTypes
<1>4. JudgedOnce /\ ThreadTrue /\ OneFailed
  BY <1>2 DEF JudgedOnce, ThreadTrue, OneFailed
<1>5. Camp!PassedIsTrue /\ Camp!NeverLeftPaused
  BY <1>2 DEF Camp!PassedIsTrue, Camp!NeverLeftPaused
<1> QED
  BY <1>3, <1>4, <1>5 DEF CampaignInv

LEMMA CampaignInvariant == Spec => []CampaignInv
<1>1. CampaignInv /\ [Next]_<<subject, driverVars, loopVars, campaignVars, clipVars, series>> => CampaignInv'
  BY CampaignStep DEF Next
<1> QED
  BY <1>1, CampaignInitially, PTL DEF Spec

\* A run that passed stored what it sent, all of it, and a fault run had its outage and
\* the end of it unless a docker command hung; a campaign that passed saw no job restart,
\* if it saw the metric at the end.
THEOREM PassedMeansSo == Spec => []PassedIsTrue
<1>1. CampaignInv => PassedIsTrue
  BY DEF CampaignInv, PassedIsTrue
<1> QED
  BY <1>1, CampaignInvariant, PTL

\* One docker command that fails does not leave ClickHouse paused after main(), once the
\* fault thread is through: it takes two of them.
THEOREM NotLeftPaused == Spec => []NeverLeftPaused
<1>1. CampaignInv => NeverLeftPaused
  BY DEF CampaignInv, NeverLeftPaused
<1> QED
  BY <1>1, CampaignInvariant, PTL

------------------------------------------------------------------------------
(* Driver: the inductive invariant.                                        *)

Plan == [first : Nat, data : Drive!Dataset, backlog : Nat]

DriverTypes ==
  /\ log \in Seq({"signal", "object"}) /\ Len(log) <= MaxSeq + 1
  /\ commit \in -1..MaxSeq /\ topic \in [Drive!SeqNo -> Nat]
  /\ pc \in {"off", "append", "ship", "close", "done"} /\ code \in {-1, 0, 1}
  /\ plan \in Plan /\ sent \in Nat /\ next \in Nat /\ start \in Int
  /\ stalled \in BOOLEAN /\ error \in BOOLEAN /\ breaks \in Nat
  /\ unsent \subseteq pending

\* What is committed is in the log, what is in Kafka was logged, and what is committed
\* is in Kafka.
Nested ==
  /\ commit < Len(log)
  /\ \A s \in Drive!SeqNo : topic[s] > 0 => s < Len(log)
  /\ \A s \in Drive!SeqNo : s <= commit => topic[s] > 0

\* How far the log is with the plan of the run, and what the plan put into it.
Planned ==
  /\ plan.first <= Len(log)
  /\ \A s \in plan.first..(Len(log) - 1) : log[s + 1] = Drive!KindAt(plan, s)
  /\ pc = "append" =>
       /\ Len(log) <= plan.first + Drive!TotalRecords(plan)
       /\ plan.first + Drive!TotalRecords(plan) <= MaxSeq + 1
       /\ plan.backlog = plan.first - 1 - commit /\ sent = 0 /\ next = 0
  /\ pc \in {"ship", "close"} => Len(log) = plan.first + Drive!TotalRecords(plan)
  /\ (pc = "done" /\ code = 0) =>
       Len(log) = plan.first + Drive!TotalRecords(plan) /\ commit = Len(log) - 1

\* What the transport holds, and what its stream has carried.
Held ==
  /\ ~Drive!Connected => pending = {}
  /\ Drive!Connected => pending = (commit + 1)..(next - 1) /\ commit < next /\ next <= Len(log)
  /\ pc = "append" => start = -1
  /\ Drive!Connected =>
       IF start = -1 THEN unsent = pending ELSE 0 <= start /\ start <= commit + 1
  /\ pc = "ship" => Drive!ToSend - sent = Len(log) - next

\* Over an unbroken stream the first run of a log sends nothing twice.
SentOnce ==
  (plan.first = 0 /\ breaks = 0) =>
    \A s \in Drive!SeqNo : topic[s] <= 1 /\ (s \in unsent \/ s >= next => topic[s] = 0)

DriverInv == DriverTypes /\ Nested /\ Planned /\ Held /\ SentOnce

LEMMA DriveMin ==
  ASSUME NEW lo \in Int, NEW hi \in Int, NEW T, T \subseteq lo..hi, T # {}
  PROVE  /\ Drive!Min(T) \in T /\ \A d \in T : Drive!Min(T) <= d
         /\ Drive!Max(T) \in T /\ \A d \in T : d <= Drive!Max(T)
<1>1. Drive!Min(T) = Min(T) /\ Drive!Max(T) = Max(T)
  BY DEF Drive!Min, Drive!Max, Min, Max
<1>2. Min(T) \in T /\ \A d \in T : Min(T) <= d
  BY MinIsLeast
<1>3. Max(T) \in T /\ \A d \in T : d <= Max(T)
  BY MaxIsGreatest
<1> QED
  BY <1>1, <1>2, <1>3

\* What an action needs of the types.
LEMMA DriverNumbers ==
  ASSUME DriverInv
  PROVE  /\ Len(log) \in Nat /\ commit \in Int /\ sent \in Nat /\ next \in Nat /\ start \in Int
         /\ commit >= -1 /\ breaks \in Nat
         /\ plan.first \in Nat /\ plan.backlog \in Nat
         /\ plan.data.signals \in 0..1 /\ plan.data.objects \in 0..2
         /\ Drive!TotalRecords(plan) \in Nat /\ Drive!SeqNo = 0..MaxSeq /\ MaxSeq \in Nat
BY ToolsAssumption
   DEF DriverInv, DriverTypes, Plan, Drive!Dataset, Drive!TotalRecords, Drive!SeqNo, Drive!DriverAssumption

LEMMA BeginKeeps ==
  ASSUME DriverInv, NEW keep \in BOOLEAN, NEW data \in Drive!Dataset, Drive!Begin(keep, data)
  PROVE  DriverInv'
<1>1. /\ Len(log) \in Nat /\ commit \in Int /\ commit >= -1 /\ breaks \in Nat
      /\ Drive!SeqNo = 0..MaxSeq /\ MaxSeq \in Nat
  BY DriverNumbers
<1>2. /\ pc' = "append" /\ sent' = 0 /\ next' = 0 /\ stalled' = FALSE /\ code' = -1
      /\ pending' = {} /\ unsent' = {} /\ start' = -1 /\ error' = FALSE /\ breaks' = breaks
      /\ plan' = [first |-> Len(log'), data |-> data, backlog |-> Drive!Backlog(Len(log'), commit')]
      /\ Len(log') + data.signals + data.objects <= MaxSeq + 1
  BY DEF Drive!Begin, Drive!None
<1>3. \/ log' = log /\ commit' = commit /\ topic' = topic
      \/ log' = <<>> /\ commit' = -1 /\ topic' = [s \in Drive!SeqNo |-> 0]
  <2>1. CASE keep
    BY <2>1 DEF Drive!Begin
  <2>2. CASE ~keep
    BY <2>2 DEF Drive!Begin, Drive!None
  <2> QED
    BY <2>1, <2>2
<1>4. /\ log' \in Seq({"signal", "object"}) /\ Len(log') \in Nat /\ Len(log') <= MaxSeq + 1
      /\ commit' \in -1..MaxSeq /\ topic' \in [Drive!SeqNo -> Nat]
  <2>1. CASE log' = log /\ commit' = commit /\ topic' = topic
    BY <1>1, <2>1 DEF DriverInv, DriverTypes
  <2>2. CASE log' = <<>> /\ commit' = -1 /\ topic' = [s \in Drive!SeqNo |-> 0]
    <3>1. Len(<<>>) = 0 /\ <<>> \in Seq({"signal", "object"})
      OBVIOUS
    <3> QED
      BY <1>1, <2>2, <3>1
  <2> QED
    BY <1>3, <2>1, <2>2
<1>5. Nested'
  BY <1>1, <1>3 DEF DriverInv, Nested
<1>6. Drive!Backlog(Len(log'), commit') = Len(log') - 1 - commit' /\ Len(log') - 1 - commit' \in Nat
  BY <1>4, <1>5 DEF Nested, Drive!Backlog
<1>7. DriverTypes'
  <2>1. plan' \in Plan
    BY <1>2, <1>4, <1>6 DEF Plan
  <2>2. stalled' \in BOOLEAN /\ error' \in BOOLEAN
    BY <1>2, Zenon
  <2> QED
    BY <1>1, <1>2, <1>4, <2>1, <2>2 DEF DriverTypes
<1>8. Planned'
  <2>1. data.signals \in Nat /\ data.objects \in Nat
    BY DEF Drive!Dataset
  <2>2. Drive!TotalRecords(plan') = data.signals + data.objects /\ plan'.first = Len(log')
    BY <1>2 DEF Drive!TotalRecords
  <2> QED
    BY <1>2, <1>4, <1>6, <2>1, <2>2 DEF Planned, Drive!Connected
<1>9. Held'
  BY <1>2 DEF Held, Drive!Connected
<1>10. SentOnce'
  <2>1. plan'.first = Len(log')
    BY <1>2
  <2>2. ASSUME Len(log') = 0, NEW s \in Drive!SeqNo PROVE topic'[s] = 0
    BY <1>1, <1>4, <1>5, <2>2 DEF Nested
  <2> QED
    BY <2>1, <2>2 DEF SentOnce
<1> QED
  BY <1>5, <1>7, <1>8, <1>9, <1>10 DEF DriverInv

LEMMA AppendKeeps ==
  ASSUME DriverInv, Drive!AppendRecord
  PROVE  DriverInv'
<1> PICK n \in Nat : n = Len(log)
  BY DriverNumbers
<1>1. /\ commit \in Int /\ plan.first \in Nat /\ Drive!TotalRecords(plan) \in Nat
      /\ Drive!SeqNo = 0..MaxSeq /\ MaxSeq \in Nat
  BY DriverNumbers
<1>2. /\ pc = "append" /\ n - plan.first < Drive!TotalRecords(plan)
      /\ log' = Append(log, Drive!KindAt(plan, n))
      /\ UNCHANGED <<commit, topic, pc, plan, sent, next, stalled, code, pending, unsent, start, error, breaks>>
  BY DEF Drive!AppendRecord, Drive!Appended, Drive!NextSeq, Drive!main, Drive!transport, Drive!budget
<1>3. /\ log' \in Seq({"signal", "object"}) /\ Len(log') = n + 1
      /\ log'[n + 1] = Drive!KindAt(plan, n) /\ \A i \in 1..n : log'[i] = log[i]
  BY <1>2 DEF DriverInv, DriverTypes, Drive!KindAt
<1>4. DriverTypes'
  <2>1. n + 1 <= MaxSeq + 1
    BY <1>1, <1>2 DEF DriverInv, Planned
  <2> QED
    BY <1>2, <1>3, <2>1 DEF DriverInv, DriverTypes
<1>5. Nested'
  BY <1>1, <1>2, <1>3 DEF DriverInv, Nested
<1>6. Planned'
  <2>1. \A s \in plan.first..n : log'[s + 1] = Drive!KindAt(plan, s)
    <3> SUFFICES ASSUME NEW s \in plan.first..n PROVE log'[s + 1] = Drive!KindAt(plan, s)
      OBVIOUS
    <3>1. CASE s = n
      BY <1>3, <3>1
    <3>2. CASE s # n
      <4>1. s + 1 \in 1..n /\ s \in plan.first..(n - 1)
        BY <1>1, <3>2
      <4> QED
        BY <1>3, <4>1 DEF DriverInv, Planned
    <3> QED
      BY <3>1, <3>2
  <2>2. \A s : Drive!KindAt(plan, s)' = Drive!KindAt(plan, s)
    BY <1>2 DEF Drive!KindAt
  <2>3. Drive!TotalRecords(plan)' = Drive!TotalRecords(plan)
    BY <1>2 DEF Drive!TotalRecords
  <2>4. /\ plan.first <= n + 1 /\ n + 1 <= plan.first + Drive!TotalRecords(plan)
        /\ plan.first + Drive!TotalRecords(plan) <= MaxSeq + 1
        /\ plan.backlog = plan.first - 1 - commit /\ sent = 0 /\ next = 0
    BY <1>1, <1>2 DEF DriverInv, Planned
  <2>5. (n + 1) - 1 = n
    OBVIOUS
  <2> QED
    BY <1>2, <1>3, <2>1, <2>2, <2>3, <2>4, <2>5 DEF Planned
<1>7. Held'
  BY <1>2 DEF DriverInv, Held, Drive!Connected
<1>8. SentOnce'
  BY <1>2 DEF DriverInv, SentOnce
<1> QED
  BY <1>4, <1>5, <1>6, <1>7, <1>8 DEF DriverInv

LEMMA PumpKeeps ==
  ASSUME DriverInv, Drive!PumpBatch
  PROVE  DriverInv'
<1> DEFINE a == Drive!Allowed
<1>1. /\ Len(log) \in Nat /\ commit \in Int /\ commit >= -1 /\ sent \in Nat /\ next \in Nat
      /\ start \in Int
  BY DriverNumbers
<1>2. /\ pc = "ship" /\ Drive!Batch # {} /\ next' = next + a /\ sent' = sent + a
      /\ pending' = pending \cup Drive!Batch /\ unsent' = unsent \cup Drive!Batch
      /\ UNCHANGED <<log, commit, topic, pc, plan, stalled, code, start, error, breaks>>
  BY DEF Drive!PumpBatch, Drive!Looping, Drive!disk, Drive!budget
<1>3. a \in Nat /\ a <= Len(log) - next /\ Drive!Batch = next..(next + a - 1)
  <2> DEFINE T == {MaxInflight - (next - 1 - commit), Budget, Len(log) - next}
  <2>1. MaxInflight \in Nat /\ Budget \in Nat
    BY ToolsAssumption DEF Drive!DriverAssumption
  <2>2. \E lo, hi \in Int : T \subseteq lo..hi
    <3> DEFINE x == MaxInflight - (next - 1 - commit)
               z == Len(log) - next
               big == MaxInflight + next + commit + Budget + Len(log) + 1
    <3>1. x \in Int /\ Budget \in Int /\ z \in Int
      BY <1>1, <2>1
    <3>2. -big <= x /\ x <= big /\ -big <= Budget /\ Budget <= big /\ -big <= z /\ z <= big
      BY <1>1, <2>1
    <3>3. big \in Int /\ -big \in Int
      BY <1>1, <2>1
    <3> QED
      BY <3>1, <3>2, <3>3
  <2>3. a \in T /\ \A d \in T : a <= d
    <3>1. a = Drive!Min(T)
      BY DEF Drive!Allowed, Drive!NextSeq
    <3> HIDE DEF T, a
    <3>2. T # {}
      BY DEF T
    <3> QED
      BY <2>2, <3>1, <3>2, DriveMin
  <2>4. a \in Int
    BY <1>1, <2>1, <2>3
  <2>5. Drive!Batch = next..(next + a - 1)
    BY DEF Drive!Batch
  <2> HIDE DEF a
  <2> QED
    BY <1>1, <1>2, <2>3, <2>4, <2>5
<1> HIDE DEF a
<1>4. /\ pending = (commit + 1)..(next - 1) /\ commit < next /\ next <= Len(log)
      /\ IF start = -1 THEN unsent = pending ELSE 0 <= start /\ start <= commit + 1
      /\ Drive!ToSend - sent = Len(log) - next
  BY <1>2 DEF DriverInv, Held, Drive!Connected
<1>5. DriverTypes'
  BY <1>1, <1>2, <1>3 DEF DriverInv, DriverTypes
<1>6. Nested'
  BY <1>2 DEF DriverInv, Nested
<1>7. Planned'
  BY <1>2 DEF DriverInv, Planned
<1>8. Held'
  <2>1. Drive!Connected' /\ pc' = "ship"
    BY <1>2 DEF Drive!Connected
  <2>2. pending' = (commit + 1)..(next' - 1) /\ commit < next' /\ next' <= Len(log)
    BY <1>1, <1>2, <1>3, <1>4
  <2>3. Drive!ToSend' = Drive!ToSend /\ Drive!ToSend \in Nat
    BY <1>2, DriverNumbers DEF Drive!ToSend, Drive!TotalRecords
  <2>4. Drive!ToSend - sent' = Len(log) - next'
    BY <1>1, <1>2, <1>3, <1>4, <2>3
  <2> QED
    BY <1>2, <1>4, <2>1, <2>2, <2>3, <2>4 DEF Held
<1>9. SentOnce'
  <2>1. \A s \in Drive!SeqNo : s \in Int
    BY DriverNumbers
  <2>2. \A s \in Drive!SeqNo : (s \in unsent' \/ s >= next') => (s \in unsent \/ s >= next)
    BY <1>1, <1>2, <1>3, <2>1
  <2> QED
    BY <1>2, <2>2 DEF DriverInv, SentOnce
<1> QED
  BY <1>5, <1>6, <1>7, <1>8, <1>9 DEF DriverInv

LEMMA CarryKeeps ==
  ASSUME DriverInv, NEW taken \in BOOLEAN, Drive!Carry(taken)
  PROVE  DriverInv'
<1> DEFINE m == Drive!Min(unsent)
<1>1. /\ Len(log) \in Nat /\ commit \in Int /\ commit >= -1 /\ next \in Nat /\ start \in Int
      /\ Drive!SeqNo = 0..MaxSeq /\ MaxSeq \in Nat
  BY DriverNumbers
<1>2. /\ Drive!Connected /\ unsent # {} /\ unsent' = unsent \ {m}
      /\ start' = (IF start = -1 THEN m ELSE start)
      /\ topic' = topic \/ topic' = [topic EXCEPT ![m] = @ + 1]
      /\ UNCHANGED <<log, commit, pc, plan, sent, next, stalled, code, pending, error, breaks>>
  <2>1. CASE taken
    BY <2>1 DEF Drive!Carry, Drive!disk, Drive!main, Drive!budget, Drive!None
  <2>2. CASE ~taken
    BY <2>2 DEF Drive!Carry, Drive!disk, Drive!main, Drive!budget, Drive!None
  <2> QED
    BY <2>1, <2>2
<1>3. /\ pending = (commit + 1)..(next - 1) /\ commit < next /\ next <= Len(log)
      /\ IF start = -1 THEN unsent = pending ELSE 0 <= start /\ start <= commit + 1
  BY <1>2 DEF DriverInv, Held
<1>4. m \in unsent /\ \A d \in unsent : m <= d
  <2>1. unsent \subseteq (commit + 1)..(next - 1)
    BY <1>3 DEF DriverInv, DriverTypes
  <2>2. commit + 1 \in Int /\ next - 1 \in Int
    BY <1>1
  <2>3. unsent # {}
    BY <1>2
  <2> HIDE DEF m
  <2>4. Drive!Min(unsent) \in unsent /\ \A d \in unsent : Drive!Min(unsent) <= d
    BY <2>1, <2>2, <2>3, DriveMin
  <2> QED
    BY <2>4 DEF m
<1> HIDE DEF m
<1>5. m \in (commit + 1)..(next - 1) /\ m \in Drive!SeqNo /\ m < Len(log)
  <2>1. m \in (commit + 1)..(next - 1) /\ Len(log) <= MaxSeq + 1
    BY <1>3, <1>4 DEF DriverInv, DriverTypes
  <2> QED
    BY <1>1, <1>3, <2>1
<1>6. topic \in [Drive!SeqNo -> Nat] /\ topic' \in [Drive!SeqNo -> Nat]
      /\ \A s \in Drive!SeqNo : topic'[s] = topic[s] \/ (s = m /\ topic'[s] = topic[s] + 1)
  BY <1>2, <1>5 DEF DriverInv, DriverTypes
<1>7. DriverTypes'
  BY <1>1, <1>2, <1>5, <1>6 DEF DriverInv, DriverTypes
<1>8. Nested'
  <2>1. \A s \in Drive!SeqNo : topic[s] \in Nat
    BY <1>6
  <2> QED
    <3>1. \A s \in Drive!SeqNo : topic'[s] > 0 => topic[s] > 0 \/ s = m
      BY <1>6, <2>1
    <3>2. \A s \in Drive!SeqNo : topic[s] > 0 => topic'[s] > 0
      BY <1>6, <2>1
    <3> QED
      BY <1>2, <1>5, <3>1, <3>2 DEF DriverInv, Nested
<1>9. Planned'
  BY <1>2 DEF DriverInv, Planned
<1>10. Held'
  <2>1. Drive!Connected' /\ pc' = pc /\ pc # "append"
    BY <1>2 DEF Drive!Connected
  <2>2. start' # -1 /\ 0 <= start' /\ start' <= commit + 1
    <3>1. CASE start = -1
      <4>1. commit + 1 \in unsent
        BY <1>1, <1>3, <1>5, <3>1
      <4>2. m = commit + 1
        BY <1>1, <1>4, <1>5, <4>1
      <4> QED
        BY <1>1, <1>2, <3>1, <4>2
    <3>2. CASE start # -1
      BY <1>1, <1>2, <1>3, <3>2
    <3> QED
      BY <3>1, <3>2
  <2>3. pc = "ship" => Drive!ToSend' = Drive!ToSend /\ Drive!ToSend - sent = Len(log) - next
    BY <1>2 DEF Drive!ToSend, DriverInv, Held, Drive!TotalRecords
  <2> QED
    BY <1>2, <1>3, <2>1, <2>2, <2>3 DEF Held
<1>11. SentOnce'
  <2>1. ASSUME plan.first = 0, breaks = 0, NEW s \in Drive!SeqNo
        PROVE  topic'[s] <= 1 /\ (s \in unsent' \/ s >= next => topic'[s] = 0)
    <3>1. topic[s] <= 1 /\ (s \in unsent \/ s >= next => topic[s] = 0) /\ topic[s] \in Nat
      BY <1>6, <2>1 DEF DriverInv, SentOnce
    <3>2. CASE s = m
      <4>1. topic[s] = 0 /\ s \notin unsent' /\ ~(s >= next)
        BY <1>1, <1>2, <1>4, <1>5, <3>1, <3>2
      <4> QED
        BY <1>6, <3>1, <4>1
    <3>3. CASE s # m
      BY <1>2, <1>6, <3>1, <3>3
    <3> QED
      BY <3>2, <3>3
  <2> QED
    BY <1>2, <2>1 DEF SentOnce
<1> QED
  BY <1>7, <1>8, <1>9, <1>10, <1>11 DEF DriverInv

LEMMA ReadAckKeeps ==
  ASSUME DriverInv, NEW a \in Drive!SeqNo, Drive!ReadAck(a)
  PROVE  DriverInv'
<1>1. /\ Len(log) \in Nat /\ commit \in Int /\ commit >= -1 /\ next \in Nat /\ start \in Int
      /\ Drive!SeqNo = 0..MaxSeq /\ MaxSeq \in Nat /\ a \in Int
  BY DriverNumbers
<1>2. /\ Drive!Connected /\ start # -1 /\ a \in start..(next - 1) /\ a > commit
      /\ \A s \in start..a : topic[s] > 0
      /\ commit' = a /\ pending' = {s \in pending : s > a} /\ unsent' = {s \in unsent : s > a}
      /\ UNCHANGED <<log, topic, pc, plan, sent, next, stalled, code, start, error, breaks>>
  BY DEF Drive!ReadAck, Drive!main, Drive!budget, Drive!None
<1>3. /\ pending = (commit + 1)..(next - 1) /\ commit < next /\ next <= Len(log)
      /\ 0 <= start /\ start <= commit + 1
  BY <1>2 DEF DriverInv, Held
<1>4. DriverTypes'
  BY <1>1, <1>2 DEF DriverInv, DriverTypes
<1>5. Nested'
  <2>1. a < Len(log)
    BY <1>1, <1>2, <1>3
  <2>2. \A s \in Drive!SeqNo : s <= a => s <= commit \/ s \in start..a
    BY <1>1, <1>3
  <2> QED
    BY <1>2, <2>1, <2>2 DEF DriverInv, Nested
<1>6. Planned'
  BY <1>2 DEF DriverInv, Planned, Drive!Connected
<1>7. Held'
  <2>1. Drive!Connected' /\ pc' = pc /\ pc # "append"
    BY <1>2 DEF Drive!Connected
  <2>2. pending' = (a + 1)..(next - 1) /\ a < next
    BY <1>1, <1>2, <1>3
  <2>3. start <= a + 1
    BY <1>1, <1>2
  <2>4. pc = "ship" => Drive!ToSend' = Drive!ToSend /\ Drive!ToSend - sent = Len(log) - next
    BY <1>2 DEF Drive!ToSend, DriverInv, Held, Drive!TotalRecords
  <2> QED
    BY <1>2, <1>3, <2>1, <2>2, <2>3, <2>4 DEF Held
<1>8. SentOnce'
  BY <1>2 DEF DriverInv, SentOnce
<1> QED
  BY <1>4, <1>5, <1>6, <1>7, <1>8 DEF DriverInv

LEMMA BreakKeeps ==
  ASSUME DriverInv, Drive!Break
  PROVE  DriverInv'
<1>1. breaks \in Nat
  BY DriverNumbers
<1>2. /\ Drive!Connected /\ breaks' = breaks + 1 /\ error' = TRUE /\ unsent' = pending /\ start' = -1
      /\ UNCHANGED <<log, commit, topic, pc, plan, sent, next, stalled, code, pending>>
  BY DEF Drive!Break, Drive!disk, Drive!main, Drive!None
<1>3. DriverTypes'
  <2>1. error' \in BOOLEAN
    BY <1>2, Zenon
  <2> QED
    BY <1>1, <1>2, <2>1 DEF DriverInv, DriverTypes
<1>4. Nested' /\ Planned'
  BY <1>2 DEF DriverInv, Nested, Planned
<1>5. Held'
  <2>1. pc = "ship" => Drive!ToSend' = Drive!ToSend /\ Drive!ToSend - sent = Len(log) - next
    BY <1>2 DEF Drive!ToSend, DriverInv, Held, Drive!TotalRecords
  <2> QED
    BY <1>2, <2>1 DEF DriverInv, Held, Drive!Connected
<1>6. SentOnce'
  BY <1>1, <1>2 DEF SentOnce
<1> QED
  BY <1>3, <1>4, <1>5, <1>6 DEF DriverInv

\* main() goes from one phase to the next; it touches no record.
LEMMA ConnectKeeps ==
  ASSUME DriverInv, Drive!Connect
  PROVE  DriverInv'
<1>1. /\ Len(log) \in Nat /\ commit \in Int /\ commit >= -1 /\ plan.first \in Nat
      /\ Drive!TotalRecords(plan) \in Nat /\ Drive!SeqNo = 0..MaxSeq /\ MaxSeq \in Nat
  BY DriverNumbers
<1>2. /\ pc = "append" /\ pc' = "ship" /\ next' = commit + 1
      /\ Len(log) - plan.first = Drive!TotalRecords(plan)
      /\ UNCHANGED <<log, commit, topic, plan, sent, stalled, code, pending, unsent, start, error, breaks>>
  BY DEF Drive!Connect, Drive!disk, Drive!transport, Drive!budget, Drive!Appended, Drive!NextSeq
<1>3. /\ pending = {} /\ start = -1 /\ unsent = {} /\ commit < Len(log)
      /\ plan.backlog = plan.first - 1 - commit /\ sent = 0 /\ next = 0
  BY <1>2 DEF DriverInv, Held, Drive!Connected, DriverTypes, Nested, Planned
<1>4. DriverTypes'
  BY <1>1, <1>2 DEF DriverInv, DriverTypes
<1>5. Nested'
  BY <1>2 DEF DriverInv, Nested
<1>6. Planned'
  BY <1>1, <1>2 DEF DriverInv, Planned
<1>7. Held'
  <2>1. Drive!Connected'
    BY <1>2 DEF Drive!Connected
  <2>2. (commit + 1)..(next' - 1) = {} /\ commit < next' /\ next' <= Len(log)
    BY <1>1, <1>2, <1>3
  <2>3. Drive!ToSend' = Drive!TotalRecords(plan) + plan.backlog
    BY <1>2 DEF Drive!ToSend, Drive!TotalRecords
  <2>4. Drive!ToSend' - sent = Len(log) - next'
    BY <1>1, <1>2, <1>3, <2>3
  <2> QED
    BY <1>2, <1>3, <2>1, <2>2, <2>4 DEF Held
<1>8. SentOnce'
  <2>1. \A s \in Drive!SeqNo : s >= next
    BY <1>1, <1>3
  <2> QED
    BY <1>2, <2>1 DEF DriverInv, SentOnce
<1> QED
  BY <1>4, <1>5, <1>6, <1>7, <1>8 DEF DriverInv

\* The steps of main() that leave the log, the topic and the commit alone.
LEMMA LeaveKeeps ==
  ASSUME DriverInv, Drive!NothingToSend \/ Drive!Stall \/ Drive!Leave \/ Drive!Close \/ Drive!Kill
  PROVE  DriverInv'
<1>1. /\ UNCHANGED <<log, commit, topic, plan, sent, next, start, error, breaks>>
      /\ \/ pc = "append" /\ pc' = "done" /\ code' = 1 /\ UNCHANGED <<stalled, pending, unsent>>
         \/ pc = "ship" /\ pc' = "close" /\ code' = code /\ stalled' \in BOOLEAN
            /\ UNCHANGED <<pending, unsent>>
         \/ pc = "close" /\ pc' = "done" /\ code' = Drive!Verdict
            /\ pending' = {} /\ unsent' = {} /\ stalled' = stalled
         \/ pc \notin {"off", "done"} /\ pc' = "off" /\ pending' = {} /\ unsent' = {}
            /\ UNCHANGED <<code, stalled>>
  <2>0. stalled \in BOOLEAN
    BY DEF DriverInv, DriverTypes
  <2>1. CASE Drive!NothingToSend
    BY <2>1 DEF Drive!NothingToSend, Drive!disk, Drive!transport, Drive!budget
  <2>2. CASE Drive!Stall
    <3>1. stalled' \in BOOLEAN
      BY <2>2, Zenon DEF Drive!Stall
    <3> QED
      BY <2>2, <3>1 DEF Drive!Stall, Drive!Looping, Drive!disk, Drive!transport, Drive!budget
  <2>3. CASE Drive!Leave
    BY <2>0, <2>3 DEF Drive!Leave, Drive!disk, Drive!transport, Drive!budget
  <2>4. CASE Drive!Close
    BY <2>4 DEF Drive!Close, Drive!disk, Drive!budget
  <2>5. CASE Drive!Kill
    BY <2>5 DEF Drive!Kill, Drive!disk, Drive!budget
  <2> QED
    BY <2>1, <2>2, <2>3, <2>4, <2>5
<1>2. DriverTypes'
  <2>1. stalled' \in BOOLEAN
    BY <1>1 DEF DriverInv, DriverTypes
  <2>2. code' \in {-1, 0, 1} /\ pc' \in {"off", "append", "ship", "close", "done"} /\ unsent' \subseteq pending'
    BY <1>1 DEF DriverInv, DriverTypes, Drive!Verdict
  <2> QED
    BY <1>1, <2>1, <2>2 DEF DriverInv, DriverTypes
<1>3. Nested'
  BY <1>1 DEF DriverInv, Nested
<1>4. Planned'
  <2>1. pc' # "append"
    BY <1>1
  <2>2. pc' \in {"ship", "close"} => Len(log) = plan.first + Drive!TotalRecords(plan)
    BY <1>1 DEF DriverInv, Planned
  <2>3. ASSUME pc' = "done", code' = 0
        PROVE  Len(log) = plan.first + Drive!TotalRecords(plan) /\ commit = Len(log) - 1
    <3>1. pc = "close" /\ Drive!Verdict = 0
      BY <1>1, <2>3
    <3>2. commit = plan.first + Drive!TotalRecords(plan) - 1
      BY <3>1 DEF Drive!Verdict, Drive!ExpectedCommit
    <3>3. Len(log) = plan.first + Drive!TotalRecords(plan)
      BY <3>1 DEF DriverInv, Planned
    <3>4. plan.first \in Nat /\ Drive!TotalRecords(plan) \in Nat
      BY DriverNumbers
    <3> QED
      BY <3>2, <3>3, <3>4
  <2> QED
    BY <1>1, <2>1, <2>2, <2>3 DEF DriverInv, Planned, Drive!TotalRecords, Drive!KindAt
<1>5. Held'
  <2>1. pc' # "append" /\ pc' # "ship"
    BY <1>1
  <2>2. Drive!Connected' => pc = "ship" /\ UNCHANGED <<pending, unsent>>
    BY <1>1 DEF Drive!Connected
  <2>3. ~Drive!Connected' => pending' = {}
    BY <1>1 DEF Drive!Connected, DriverInv, Held
  <2> QED
    BY <1>1, <2>1, <2>2, <2>3 DEF DriverInv, Held, Drive!Connected
<1>6. SentOnce'
  BY <1>1 DEF DriverInv, SentOnce
<1> QED
  BY <1>2, <1>3, <1>4, <1>5, <1>6 DEF DriverInv

LEMMA DriverStep == DriverInv /\ (Drive!Next \/ UNCHANGED driverVars) => DriverInv'
<1> SUFFICES ASSUME DriverInv, Drive!Next \/ UNCHANGED driverVars PROVE DriverInv'
  OBVIOUS
<1>1. ASSUME NEW keep \in BOOLEAN, NEW data \in Drive!Dataset, Drive!Begin(keep, data) PROVE DriverInv'
  BY <1>1, BeginKeeps
<1>2. ASSUME NEW taken \in BOOLEAN, Drive!Carry(taken) PROVE DriverInv'
  BY <1>2, CarryKeeps
<1>3. ASSUME NEW a \in Drive!SeqNo, Drive!ReadAck(a) PROVE DriverInv'
  BY <1>3, ReadAckKeeps
<1>4. ASSUME UNCHANGED driverVars PROVE DriverInv'
  BY <1>4 DEF driverVars, DriverInv, DriverTypes, Nested, Planned, Held, SentOnce,
              Drive!KindAt, Drive!TotalRecords, Drive!ToSend, Drive!Connected
<1> QED
  BY <1>1, <1>2, <1>3, <1>4, AppendKeeps, ConnectKeeps, PumpKeeps, LeaveKeeps, BreakKeeps DEF Drive!Next

LEMMA DriverInitially == Init => DriverInv
<1> SUFFICES ASSUME Drive!Init PROVE DriverInv
  BY DEF Init
<1>1. MaxSeq \in Nat
  BY ToolsAssumption DEF Drive!DriverAssumption
<1>2. /\ log = <<>> /\ commit = -1 /\ topic = [s \in Drive!SeqNo |-> 0] /\ pc = "off"
      /\ plan = [first |-> 0, data |-> [signals |-> 0, objects |-> 0], backlog |-> 0]
      /\ sent = 0 /\ next = 0 /\ stalled = FALSE /\ code = -1
      /\ pending = {} /\ unsent = {} /\ start = -1 /\ error = FALSE /\ breaks = 0
  BY DEF Drive!Init, Drive!None
<1>3. Len(log) = 0 /\ log \in Seq({"signal", "object"})
  BY <1>2
<1>4. DriverTypes
  <2>1. plan \in Plan
    BY <1>2 DEF Plan, Drive!Dataset
  <2>2. stalled \in BOOLEAN /\ error \in BOOLEAN
    BY <1>2, Zenon
  <2> QED
    BY <1>1, <1>2, <1>3, <2>1, <2>2 DEF DriverTypes
<1>5. Nested /\ SentOnce
  BY <1>1, <1>2, <1>3 DEF Nested, SentOnce, Drive!SeqNo
<1>6. Planned /\ Held
  BY <1>2, <1>3 DEF Planned, Held, Drive!Connected
<1> QED
  BY <1>4, <1>5, <1>6 DEF DriverInv

------------------------------------------------------------------------------
(* Driver: what the invariant says.                                        *)

LEMMA DriverShape == DriverInv => Drive!TypeOK
<1> SUFFICES ASSUME DriverInv PROVE Drive!TypeOK
  OBVIOUS
<1>1. pending \subseteq (commit + 1)..(next - 1)
  BY DEF DriverInv, Held
<1>2. pc = "ship" => Drive!ToSend - sent = Len(log) - next
  BY DEF DriverInv, Held
<1> QED
  BY <1>1, <1>2 DEF DriverInv, DriverTypes, Drive!TypeOK, Drive!NextSeq, Drive!None

\* A set of seqs that is an interval has no gaps.
LEMMA NoGaps ==
  ASSUME NEW n \in Int, NEW T, T = 0..(n - 1)
  PROVE  Drive!Gaps(T) = {}
<1>1. CASE T = {}
  BY <1>1 DEF Drive!Gaps
<1>2. CASE T # {}
  <2>1. Drive!Min(T) \in 0..(n - 1) /\ Drive!Max(T) \in 0..(n - 1)
    <3>1. n - 1 \in Int
      OBVIOUS
    <3>2. 0 \in Int /\ T \subseteq 0..(n - 1)
      OBVIOUS
    <3>3. Drive!Min(T) \in T /\ Drive!Max(T) \in T
      BY <1>2, <3>1, <3>2, DriveMin
    <3> QED
      BY <3>3
  <2> QED
    BY <1>2, <2>1 DEF Drive!Gaps
<1> QED
  BY <1>1, <1>2

LEMMA CompleteWhenDone == DriverInv => Drive!SuccessIsComplete
<1> SUFFICES ASSUME DriverInv, pc = "done", code = 0
             PROVE  /\ \A s \in 0..(Len(log) - 1) : topic[s] > 0
                    /\ (plan.first = 0 /\ breaks = 0) => Drive!Verify
  BY DEF Drive!SuccessIsComplete, Drive!NextSeq
<1> DEFINE m == plan.data.signals
<1>1. /\ Len(log) \in Nat /\ Drive!SeqNo = 0..MaxSeq /\ MaxSeq \in Nat
      /\ m \in 0..1 /\ plan.data.objects \in 0..2
  BY DriverNumbers
<1>2. Len(log) = plan.first + m + plan.data.objects /\ commit = Len(log) - 1 /\ Len(log) <= MaxSeq + 1
  <2>1. Len(log) = plan.first + Drive!TotalRecords(plan) /\ commit = Len(log) - 1 /\ Len(log) <= MaxSeq + 1
    BY DEF DriverInv, Planned, DriverTypes
  <2>2. plan.first \in Nat
    BY DriverNumbers
  <2> QED
    BY <1>1, <2>1, <2>2 DEF Drive!TotalRecords
<1>3. \A s \in 0..(Len(log) - 1) : topic[s] > 0
  <2>1. \A s \in 0..(Len(log) - 1) : s \in Drive!SeqNo /\ s <= commit
    BY <1>1, <1>2
  <2> QED
    BY <2>1 DEF DriverInv, Nested
<1>4. ASSUME plan.first = 0, breaks = 0 PROVE Drive!Verify
  <2>1. \A s \in 0..(Len(log) - 1) : log[s + 1] = IF s < m THEN "signal" ELSE "object"
    <3>1. \A s \in 0..(Len(log) - 1) : log[s + 1] = Drive!KindAt(plan, s)
      BY <1>4 DEF DriverInv, Planned
    <3>2. \A s : Drive!KindAt(plan, s) = IF s < 0 + m THEN "signal" ELSE "object"
      BY <1>4 DEF Drive!KindAt
    <3>3. 0 + m = m
      BY <1>1
    <3> QED
      BY <3>1, <3>2, <3>3
  <2>2. Drive!SeqsOf({"signal", "object"}) = 0..(Len(log) - 1)
    <3>1. \A s \in 0..MaxSeq : s < Len(log) <=> s \in 0..(Len(log) - 1)
      BY <1>1
    <3>2. \A s \in 0..(Len(log) - 1) : log[s + 1] \in {"signal", "object"} /\ s \in 0..MaxSeq
      BY <1>1, <1>2, <2>1
    <3> QED
      BY <1>1, <1>3, <3>1, <3>2 DEF Drive!SeqsOf, Drive!NextSeq
  <2>3. Drive!SeqsOf({"signal"}) = 0..(m - 1)
    <3>1. \A s \in 0..MaxSeq : s < Len(log) <=> s \in 0..(Len(log) - 1)
      BY <1>1
    <3>2. \A s \in 0..(Len(log) - 1) : s \in 0..MaxSeq /\ (log[s + 1] \in {"signal"} <=> s < m)
      BY <1>1, <1>2, <2>1
    <3>3. \A s : s \in 0..(m - 1) <=> s \in 0..(Len(log) - 1) /\ s < m
      BY <1>1, <1>2, <1>4
    <3>4. \A s : s \in Drive!SeqsOf({"signal"}) <=>
                   s \in 0..MaxSeq /\ topic[s] > 0 /\ s < Len(log) /\ log[s + 1] \in {"signal"}
      BY <1>1 DEF Drive!SeqsOf, Drive!NextSeq
    <3>5. \A s : s \in Drive!SeqsOf({"signal"}) <=> s \in 0..(m - 1)
      BY <1>3, <3>1, <3>2, <3>3, <3>4, Zenon
    <3> HIDE DEF m
    <3> QED
      BY <3>5
  <2>4. \A s \in Drive!SeqsOf({"signal"}) : topic[s] = 1
    <3> SUFFICES ASSUME NEW s \in Drive!SeqsOf({"signal"}) PROVE topic[s] = 1
      OBVIOUS
    <3>1. s \in Drive!SeqNo /\ topic[s] > 0
      BY DEF Drive!SeqsOf
    <3>2. topic[s] <= 1 /\ topic[s] \in Nat
      BY <1>4, <3>1 DEF DriverInv, SentOnce, DriverTypes
    <3> QED
      BY <3>1, <3>2
  <2>5. m \in Int
    BY <1>1
  <2> HIDE DEF m
  <2> QED
    BY <1>1, <2>2, <2>3, <2>4, <2>5, NoGaps DEF Drive!Verify
<1> QED
  BY <1>3, <1>4

\* The driver's counts are those of its log and its stream; a run of it that returns 0
\* leaves every record of the log in Kafka, the backlog of earlier runs included, and the
\* verifier agrees on what a first run over an unbroken stream left.
THEOREM SuccessMeansComplete == Spec => []SuccessIsComplete
<1>1. DriverInv /\ [Next]_<<subject, driverVars, loopVars, campaignVars, clipVars, series>> => DriverInv'
  BY DriverStep DEF Next
<1>2. DriverInv => SuccessIsComplete
  BY DriverShape, CompleteWhenDone DEF SuccessIsComplete
<1> QED
  BY <1>1, <1>2, DriverInitially, PTL DEF Spec

------------------------------------------------------------------------------
(* Clips: the inductive invariant.                                         *)

ClipsTypes ==
  /\ Clip!IsDataset(chain) /\ chain \in [Clip!Item -> [key : BOOLEAN, scene : Clip!Scene]]
  /\ phase \in {"idle", "extract", "write"} /\ args.scenes \in 0..2
  /\ clip \in Nat \ {0} /\ (phase = "write" => clip \in Clip!Scene)
  /\ DOMAIN clips = Clip!Scene

\* No file holds more than its scene has.
Inside == \A s \in Clip!Scene : clips[s].raw \subseteq Clip!Canonical(s)

\* What a run found of a scene it has converted, and what the file holds.
Converted(m) ==
  /\ m.scene \in Clip!Scene /\ m.meta = Clip!Meta(m.scene)
  /\ clips[m.scene] = [whole |-> TRUE, raw |-> Clip!Written(m.scene),
                       signals |-> Clip!Signals(m.scene)]

\* While a run goes on, and after it until the next one, the files are its own.
Fresh ==
  /\ phase # "idle" => last = Clip!NoArgs /\ \A m \in metas : Converted(m) /\ m.scene < clip
  /\ last # Clip!NoArgs => last = args /\ manifest = metas /\ \A m \in metas : Converted(m)
  /\ \A m \in manifest : m.scene \in Clip!Scene

ClipsInv == ClipsTypes /\ Inside /\ Fresh

\* A scene goes from its first keyframe to its last, and between them there is nothing
\* of another one.
LEMMA WalkIsScene ==
  ASSUME ClipsTypes, NEW s \in Clip!Scene
  PROVE  Clip!Walk(s) \subseteq Clip!Canonical(s)
<1> DEFINE a == Clip!Min(Clip!KeysOf(s))
           b == Clip!Max(Clip!KeysOf(s))
<1>1. MaxChain \in Nat /\ Clip!Item = 1..MaxChain
  BY ToolsAssumption DEF Clip!ClipsAssumption, Clip!Item
<1>2. /\ \A i \in Clip!Item : chain[i].scene \in {1, 2}
      /\ \A i, j \in Clip!Keys : i < j => chain[i].scene <= chain[j].scene
      /\ \E i \in Clip!Keys : chain[i].scene = s
      /\ \A i \in Clip!Item \ Clip!Keys : \E k \in Clip!Keys :
           /\ chain[i].scene = chain[k].scene
           /\ \/ k < i /\ ~\E j \in Clip!Keys : k < j /\ j < i
              \/ i < k /\ ~\E j \in Clip!Keys : i < j /\ j < k
  BY DEF ClipsTypes, Clip!IsDataset, Clip!Keys, Clip!Scene
<1>3. Clip!KeysOf(s) \subseteq 1..MaxChain /\ Clip!KeysOf(s) # {} /\ Clip!Keys \subseteq 1..MaxChain
  BY <1>1, <1>2 DEF Clip!KeysOf, Clip!Keys
<1>4. /\ a \in Clip!KeysOf(s) /\ b \in Clip!KeysOf(s)
  <2>1. Clip!Min(Clip!KeysOf(s)) = Min(Clip!KeysOf(s)) /\ Clip!Max(Clip!KeysOf(s)) = Max(Clip!KeysOf(s))
    BY DEF Clip!Min, Clip!Max, Min, Max
  <2>2. 1 \in Int /\ MaxChain \in Int
    BY <1>1
  <2>3. Min(Clip!KeysOf(s)) \in Clip!KeysOf(s)
    BY <1>3, <2>2, MinIsLeast
  <2>4. Max(Clip!KeysOf(s)) \in Clip!KeysOf(s)
    BY <1>3, <2>2, MaxIsGreatest
  <2> QED
    BY <2>1, <2>3, <2>4
<1>5. Clip!Walk(s) = {i \in Clip!Item : a <= i /\ i <= b}
  BY DEF Clip!Walk
<1> HIDE DEF a, b
<1>6. a \in Clip!Keys /\ b \in Clip!Keys /\ chain[a].scene = s /\ chain[b].scene = s
  BY <1>4 DEF Clip!KeysOf
<1>7. ASSUME NEW k \in Clip!Keys, a <= k, k <= b PROVE chain[k].scene = s
  <2>1. k \in 1..MaxChain /\ a \in 1..MaxChain /\ b \in 1..MaxChain
    BY <1>3, <1>6
  <2>2. chain[k].scene \in {1, 2} /\ s \in {1, 2}
    BY <1>1, <1>2, <2>1 DEF Clip!Scene
  <2>3. a = k \/ a < k
    BY <1>7, <2>1
  <2>4. k = b \/ k < b
    BY <1>7, <2>1
  <2>5. a < k => s <= chain[k].scene
    BY <1>2, <1>6
  <2>6. k < b => chain[k].scene <= s
    BY <1>2, <1>6
  <2> QED
    BY <1>6, <2>2, <2>3, <2>4, <2>5, <2>6
<1>8. ASSUME NEW i \in Clip!Item, a <= i, i <= b PROVE chain[i].scene = s
  <2>1. i \in 1..MaxChain /\ a \in 1..MaxChain /\ b \in 1..MaxChain
    BY <1>1, <1>3, <1>6
  <2>2. CASE i \in Clip!Keys
    BY <1>7, <1>8, <2>2
  <2>3. CASE i \notin Clip!Keys
    <3>1. PICK k \in Clip!Keys :
            /\ chain[i].scene = chain[k].scene
            /\ \/ k < i /\ ~\E j \in Clip!Keys : k < j /\ j < i
               \/ i < k /\ ~\E j \in Clip!Keys : i < j /\ j < k
      BY <1>2, <2>3
    <3>2. k \in 1..MaxChain /\ a < i /\ i < b
      BY <1>3, <1>6, <1>8, <2>1, <2>3
    <3>3. a <= k /\ k <= b
      <4>1. k < i => ~(k < a)
        BY <1>6, <2>1, <3>1, <3>2
      <4>2. i < k => ~(b < k)
        BY <1>6, <2>1, <3>1, <3>2
      <4> QED
        BY <2>1, <3>1, <3>2, <4>1, <4>2
    <3> QED
      BY <1>7, <3>1, <3>3
  <2> QED
    BY <2>2, <2>3
<1> QED
  BY <1>5, <1>8 DEF Clip!Canonical

LEMMA WrittenInside ==
  ASSUME ClipsTypes, NEW s \in Clip!Scene
  PROVE  Clip!Written(s) \subseteq Clip!Canonical(s)
BY WalkIsScene DEF Clip!Written, Clip!Raw

LEMMA ClipsStep == ClipsInv /\ (Clip!Next \/ UNCHANGED clipVars) => ClipsInv'
<1> SUFFICES ASSUME ClipsInv, Clip!Next \/ UNCHANGED clipVars PROVE ClipsInv'
  OBVIOUS
<1>0. /\ ClipsTypes /\ Inside /\ Fresh
      /\ clip \in Nat \ {0} /\ args.scenes \in 0..2 /\ Clip!Scene = {1, 2}
  BY DEF ClipsInv, ClipsTypes, Clip!Scene
<1>1. ASSUME NEW a \in [raw : BOOLEAN, sweeps : BOOLEAN, scenes : Clip!Scene], Clip!Start(a)
      PROVE  ClipsInv'
  <2>1. /\ phase' = "extract" /\ args' = a /\ clip' = 1 /\ metas' = {} /\ last' = Clip!NoArgs
        /\ UNCHANGED <<chain, lost, clips, manifest>> /\ a.scenes \in 0..2
    BY <1>0, <1>1 DEF Clip!Start, Clip!dataset
  <2>2. ClipsTypes'
    BY <1>0, <2>1 DEF ClipsTypes
  <2>3. Inside'
    BY <1>0, <2>1 DEF Inside, Clip!Canonical
  <2>4. Fresh'
    BY <1>0, <2>1 DEF Fresh
  <2> QED
    BY <2>2, <2>3, <2>4 DEF ClipsInv
<1>2. ASSUME Clip!OpenClip PROVE ClipsInv'
  <2>1. /\ phase = "extract" /\ phase' = "write" /\ clip \in Clip!Scene
        /\ clips' = [clips EXCEPT ![clip] = Clip!NoClip]
        /\ UNCHANGED <<chain, lost, args, clip, metas, manifest, last>>
    BY <1>0, <1>2 DEF Clip!OpenClip, Clip!dataset
  <2>2. ClipsTypes'
    BY <1>0, <2>1 DEF ClipsTypes
  <2>3. Inside'
    <3>1. Clip!NoClip.raw = {}
      BY DEF Clip!NoClip
    <3>2. \A s \in Clip!Scene : clips'[s] = IF s = clip THEN Clip!NoClip ELSE clips[s]
      BY <1>0, <2>1 DEF ClipsTypes
    <3> QED
      BY <1>0, <2>1, <3>1, <3>2 DEF Inside, Clip!Canonical
  <2>4. \A m \in metas : Converted(m)' /\ m.scene < clip
    <3> SUFFICES ASSUME NEW m \in metas PROVE Converted(m)' /\ m.scene < clip
      OBVIOUS
    <3>1. Converted(m) /\ m.scene < clip
      BY <1>0, <2>1 DEF Fresh
    <3>2. m.scene # clip /\ m.scene \in Clip!Scene
      BY <1>0, <3>1 DEF Converted
    <3>3. clips'[m.scene] = clips[m.scene]
      BY <1>0, <2>1, <3>2 DEF ClipsTypes
    <3> QED
      BY <2>1, <3>1, <3>3 DEF Converted, Clip!Meta, Clip!Written, Clip!Signals, Clip!Raw, Clip!Walk, Clip!KeysOf, Clip!Keys
  <2>5. Fresh'
    BY <1>0, <2>1, <2>4 DEF Fresh
  <2> QED
    BY <2>2, <2>3, <2>5 DEF ClipsInv
<1>3. ASSUME Clip!FinishClip PROVE ClipsInv'
  <2> DEFINE file == [whole |-> TRUE, raw |-> Clip!Written(clip), signals |-> Clip!Signals(clip)]
             found == [scene |-> clip, meta |-> Clip!Meta(clip)]
  <2>1. /\ phase = "write" /\ phase' = "extract" /\ clip \in Clip!Scene /\ clip' = clip + 1
        /\ clips' = [clips EXCEPT ![clip] = file] /\ metas' = metas \cup {found}
        /\ UNCHANGED <<chain, lost, args, manifest, last>>
    BY <1>0, <1>3 DEF Clip!FinishClip, Clip!dataset, ClipsTypes
  <2>2. \A s \in Clip!Scene : clips'[s] = IF s = clip THEN file ELSE clips[s]
    BY <1>0, <2>1 DEF ClipsTypes
  <2>3. ClipsTypes'
    <3>1. clip' \in Nat \ {0} /\ DOMAIN clips' = Clip!Scene
      BY <1>0, <2>1 DEF ClipsTypes
    <3> QED
      BY <1>0, <2>1, <3>1 DEF ClipsTypes
  <2>4. Inside'
    <3>1. file.raw \subseteq Clip!Canonical(clip)
      BY <1>0, <2>1, WrittenInside
    <3>2. \A s : Clip!Canonical(s)' = Clip!Canonical(s)
      BY <2>1 DEF Clip!Canonical
    <3> QED
      BY <1>0, <2>1, <2>2, <3>1, <3>2 DEF Inside
  <2>5. \A s : Clip!Meta(s)' = Clip!Meta(s) /\ Clip!Written(s)' = Clip!Written(s) /\ Clip!Signals(s)' = Clip!Signals(s)
    BY <2>1 DEF Clip!Meta, Clip!Written, Clip!Signals, Clip!Raw, Clip!Walk, Clip!KeysOf, Clip!Keys
  <2>6. \A m \in metas' : Converted(m)' /\ m.scene < clip'
    <3> SUFFICES ASSUME NEW m \in metas' PROVE Converted(m)' /\ m.scene < clip'
      OBVIOUS
    <3>1. CASE m \in metas
      <4>1. Converted(m) /\ m.scene < clip /\ m.scene \in Clip!Scene
        BY <1>0, <2>1, <3>1 DEF Fresh, Converted
      <4>2. m.scene # clip /\ m.scene < clip'
        BY <1>0, <2>1, <4>1
      <4>3. clips'[m.scene] = clips[m.scene]
        BY <2>2, <4>1, <4>2
      <4> QED
        BY <2>5, <4>1, <4>2, <4>3 DEF Converted
    <3>2. CASE m = found
      <4>1. m.scene = clip /\ m.meta = Clip!Meta(clip) /\ clips'[clip] = file /\ clip < clip'
        BY <1>0, <2>1, <2>2, <3>2
      <4> QED
        BY <2>1, <2>5, <4>1 DEF Converted
    <3> QED
      BY <2>1, <3>1, <3>2
  <2>7. Fresh'
    <3>1. last' = Clip!NoArgs /\ \A m \in manifest : m.scene \in Clip!Scene
      BY <1>0, <2>1 DEF Fresh
    <3> QED
      BY <2>1, <2>6, <3>1 DEF Fresh
  <2> QED
    BY <2>3, <2>4, <2>7 DEF ClipsInv
<1>4. ASSUME \/ Clip!WriteManifest \/ Clip!Die \/ UNCHANGED clipVars PROVE ClipsInv'
  <2>1. /\ UNCHANGED <<chain, lost, args, clip, metas, clips>>
        /\ \/ phase = "extract" /\ phase' = "idle" /\ manifest' = metas /\ last' = args
           \/ phase # "idle" /\ phase' = "idle" /\ UNCHANGED <<manifest, last>>
           \/ UNCHANGED <<phase, manifest, last>>
    BY <1>4 DEF Clip!WriteManifest, Clip!Die, clipVars, Clip!dataset
  <2>2. ClipsTypes' /\ Inside'
    BY <1>0, <2>1 DEF ClipsTypes, Inside, Clip!Canonical
  <2>3. \A m : Converted(m)' <=> Converted(m)
    BY <2>1 DEF Converted, Clip!Meta, Clip!Written, Clip!Signals, Clip!Raw, Clip!Walk, Clip!KeysOf, Clip!Keys
  <2>4. Fresh'
    <3>1. CASE phase = "extract" /\ phase' = "idle" /\ manifest' = metas /\ last' = args
      <4>1. \A m \in metas : Converted(m)' /\ m.scene \in Clip!Scene
        BY <1>0, <2>3, <3>1 DEF Fresh, Converted
      <4> QED
        BY <2>1, <3>1, <4>1 DEF Fresh
    <3>2. CASE phase # "idle" /\ phase' = "idle" /\ UNCHANGED <<manifest, last>>
      BY <1>0, <2>1, <3>2 DEF Fresh
    <3>3. CASE UNCHANGED <<phase, manifest, last>>
      BY <1>0, <2>1, <2>3, <3>3 DEF Fresh
    <3> QED
      BY <2>1, <3>1, <3>2, <3>3
  <2> QED
    BY <2>2, <2>4 DEF ClipsInv
<1> QED
  BY <1>1, <1>2, <1>3, <1>4 DEF Clip!Next

LEMMA ClipsInitially == Clip!Init => ClipsInv
<1> SUFFICES ASSUME Clip!Init PROVE ClipsInv
  OBVIOUS
<1>1. ClipsTypes
  BY DEF Clip!Init, ClipsTypes, Clip!NoArgs
<1>2. Inside
  BY DEF Clip!Init, Inside, Clip!NoClip
<1>3. Fresh
  BY DEF Clip!Init, Fresh
<1> QED
  BY <1>1, <1>2, <1>3 DEF ClipsInv

\* A clip that is inside its scene and as large is all of it.
LEMMA AsLarge ==
  ASSUME NEW s, NEW T, T \subseteq Clip!Canonical(s),
         Clip!Cardinality(T) = Clip!Cardinality(Clip!Canonical(s))
  PROVE  T = Clip!Canonical(s)
<1>1. \A S : Clip!Cardinality(S) = Cardinality(S)
  BY DEF Clip!Cardinality, Cardinality
<1>2. IsFiniteSet(Clip!Canonical(s))
  <2>1. MaxChain \in Int /\ Clip!Canonical(s) \subseteq 1..MaxChain
    BY ToolsAssumption DEF Clip!ClipsAssumption, Clip!Canonical, Clip!Item
  <2>2. IsFiniteSet(1..MaxChain)
    BY <2>1, FS_Interval
  <2> QED
    BY <2>1, <2>2, FS_Subset
<1> QED
  BY <1>1, <1>2, FS_Subset

LEMMA VerifierIsRight == ClipsInv => Clip!VerifierAgrees
<1> SUFFICES ASSUME ClipsInv PROVE Clip!VerifierAgrees
  OBVIOUS
<1>1. ASSUME Clip!Verified, NEW m \in manifest PROVE clips[m.scene].raw = Clip!Canonical(m.scene)
  <2>1. m.scene \in Clip!Scene
    BY DEF ClipsInv, Fresh
  <2>2. clips[m.scene].raw \subseteq Clip!Canonical(m.scene)
    BY <2>1 DEF ClipsInv, Inside
  <2>3. Clip!Cardinality(clips[m.scene].raw) = Clip!Cardinality(Clip!Canonical(m.scene))
    BY <1>1 DEF Clip!Verified, Clip!ClipVerified
  <2> QED
    BY <2>2, <2>3, AsLarge
<1>2. ASSUME last.raw, last.sweeps, lost = {},
             \A i \in Clip!Item : i \in Clip!Min(Clip!KeysOf(chain[i].scene))..Clip!Max(Clip!KeysOf(chain[i].scene)),
             NEW m \in manifest
      PROVE  Clip!ClipVerified(m.scene, m.meta)
  <2>1. last # Clip!NoArgs
    BY <1>2 DEF Clip!NoArgs
  <2>2. args.raw /\ args.sweeps /\ Converted(m)
    BY <1>2, <2>1 DEF ClipsInv, Fresh
  <2> DEFINE c == m.scene
  <2>3. Clip!Written(c) = Clip!Walk(c) /\ Clip!Raw(c) = Clip!Walk(c)
    <3>1. Clip!Raw(c) = Clip!Walk(c)
      BY <2>2 DEF Clip!Raw
    <3> QED
      BY <1>2, <2>2, <3>1 DEF Clip!Written
  <2>4. Clip!Walk(c) = Clip!Canonical(c)
    <3>1. Clip!Walk(c) \subseteq Clip!Canonical(c)
      BY <2>2, WalkIsScene DEF Converted, ClipsInv
    <3>2. ASSUME NEW i \in Clip!Canonical(c) PROVE i \in Clip!Walk(c)
      <4>1. i \in Clip!Item /\ chain[i].scene = c
        BY DEF Clip!Canonical
      <4>2. i \in Clip!Min(Clip!KeysOf(c))..Clip!Max(Clip!KeysOf(c))
        BY <1>2, <4>1
      <4> QED
        BY <4>1, <4>2 DEF Clip!Walk
    <3> QED
      BY <3>1, <3>2
  <2>5. /\ clips[c].whole /\ clips[c].raw = Clip!Walk(c) /\ clips[c].signals = Clip!Signals(c)
        /\ m.meta.signals = Clip!Signals(c) /\ m.meta.n = Clip!Cardinality(Clip!Walk(c))
        /\ m.meta.topic = (Clip!Walk(c) # {})
    BY <2>2, <2>3 DEF Converted, Clip!Meta
  <2> QED
    BY <2>4, <2>5 DEF Clip!ClipVerified
<1> QED
  BY <1>1, <1>2 DEF Clip!VerifierAgrees, Clip!Verified

\* A clip verify_mcap.py passes holds every sample_data of its scene and nothing else,
\* whatever runs of the converter ended early before; and it passes what a full
\* conversion of a dataset with all its files has written.
THEOREM VerifierIsSound == Spec => []VerifierAgrees
<1> DEFINE Inv == subject = "clips" => ClipsInv
<1>1. Init => Inv
  BY ClipsInitially DEF Init
<1>2. Inv /\ [Next]_<<subject, driverVars, loopVars, campaignVars, clipVars, series>> => Inv'
  BY ClipsStep DEF Next
<1>3. Inv => VerifierAgrees
  BY VerifierIsRight DEF VerifierAgrees
<1> QED
  BY <1>1, <1>2, <1>3, PTL DEF Spec

------------------------------------------------------------------------------
(* Loopback: the inductive invariant.                                      *)

Top == win.lastSeen

LoopTypes ==
  /\ walNext \in 0..(MaxSeq + 1) /\ committed \in -1..MaxSeq /\ shipNext \in Nat
  /\ inSend \in BOOLEAN /\ failFrom \in 0..(MaxSeq + 1)
  /\ began.commit \in -1..committed /\ began.copies \in [Loop!SeqNo -> Nat]
  /\ copies \in [Loop!SeqNo -> Nat] /\ passed \in [Loop!SeqNo -> Nat]
  /\ committed < shipNext /\ shipNext <= walNext /\ (inSend => shipNext < walNext)
  /\ committed <= Top

\* The lines of the log have no hole, and SeqDedup has seen each seq of them once.
InOrder ==
  /\ win = [bootId |-> IF Top = -1 THEN "none" ELSE "boot", lastSeen |-> Top,
            contiguous |-> Top, lost |-> 0, bits |-> win.bits]
  /\ Top \in -1..MaxSeq /\ win.bits \subseteq 0..(W - 1) /\ base = -1
  /\ \A k \in 0..Top : Loop!Dedup!Slot(k) \in win.bits
  /\ \A s \in Loop!SeqNo : passed[s] = IF s <= Top THEN 1 ELSE 0
  /\ \A s \in Loop!SeqNo : copies[s] > 0 <=> s <= Top

\* The tracker has completed what this process wrote, in order, up to the failure.
Tracked ==
  /\ tracker = Loop!NoTracker =>
       ~inSend /\ shipNext = began.commit + 1 /\ committed = began.commit
  /\ tracker # Loop!NoTracker =>
       /\ tracker = [start |-> began.commit + 1, ack |-> tracker.ack, last |-> committed, done |-> {}]
       /\ tracker.ack \in committed..Top /\ tracker.ack < Loop!Reached
       /\ tracker.ack = Loop!Reached - 1 \/ failFrom <= tracker.ack + 1

\* What this process added to the log.
Rewritten ==
  \A s \in Loop!SeqNo :
    copies[s] - began.copies[s] =
      IF began.commit < s /\ s < Loop!Reached /\ s < failFrom THEN 1 ELSE 0

LoopInv == LoopTypes /\ InOrder /\ Tracked /\ Rewritten

------------------------------------------------------------------------------
(* Loopback: each step keeps it.                                           *)

LEMMA LoopNumbers ==
  /\ MaxSeq \in Nat /\ W \in Nat \ {0} /\ MaxStarts \in Nat
  /\ Loop!SeqNo = 0..MaxSeq /\ Loop!Dedup!SeqNo = 0..MaxSeq /\ Loop!None = -1
BY ToolsAssumption DEF Loop!LoopbackAssumption, Loop!SeqNo, Loop!Dedup!SeqNo, Loop!None

\* SeqDedup takes the seq after the last one without counting a loss.
LEMMA AdvanceByOne ==
  ASSUME NEW T \in Int, T >= -1, NEW b, b \subseteq 0..(W - 1), NEW n \in Int, n = T + 1
  PROVE  Loop!Dedup!Advance([bootId |-> "boot", lastSeen |-> T, contiguous |-> T, lost |-> 0,
                             bits |-> b], n) =
           [bootId |-> "boot", lastSeen |-> n, contiguous |-> n, lost |-> 0,
            bits |-> b \cup {Loop!Dedup!Slot(n)}]
<1>0. PICK w : w = [bootId |-> "boot", lastSeen |-> T, contiguous |-> T, lost |-> 0, bits |-> b]
  OBVIOUS
<1>1. W \in Int /\ W > 0
  BY LoopNumbers
<1>2. w.lastSeen = T /\ w.contiguous = T /\ w.lost = 0 /\ w.bits = b /\ w.bootId = "boot"
  BY <1>0
<1>3. Loop!Dedup!Missed(w, n) = {}
  <2> SUFFICES ASSUME NEW m \in Loop!Dedup!Missed(w, n) PROVE FALSE
    OBVIOUS
  <2>1. m \in (w.contiguous + 1)..(n - W)
    BY Zenon DEF Loop!Dedup!Missed
  <2> QED
    BY <1>1, <1>2, <2>1
<1>4. Loop!Dedup!Cardinality({}) = 0
  <2>1. Loop!Dedup!Cardinality({}) = Cardinality({})
    BY DEF Loop!Dedup!Cardinality, Cardinality
  <2> QED
    BY <2>1, FS_EmptySet
<1>5. Loop!Dedup!Reused(w, n) = {Loop!Dedup!Slot(n)}
  <2>1. (T + 1)..n = {n}
    OBVIOUS
  <2> QED
    BY <1>2, <2>1 DEF Loop!Dedup!Reused
<1> DEFINE bits == b \cup {Loop!Dedup!Slot(n)}
           v == [bootId |-> "boot", lastSeen |-> n, contiguous |-> T, lost |-> 0, bits |-> bits]
<1>6. Loop!Dedup!Advance(w, n) = Loop!Dedup!Pulled(v)
  <2>1. /\ (IF n - W > w.contiguous THEN n - W ELSE w.contiguous) = T
        /\ w.lost + 0 = 0
    BY <1>1, <1>2
  <2>2. (w.bits \ Loop!Dedup!Reused(w, n)) \cup {Loop!Dedup!Slot(n)} = bits
    <3>1. (b \ {Loop!Dedup!Slot(n)}) \cup {Loop!Dedup!Slot(n)} = b \cup {Loop!Dedup!Slot(n)}
      BY Zenon
    <3> QED
      BY <1>2, <1>5, <3>1, Zenon
  <2>3. w.lost + Loop!Dedup!Cardinality(Loop!Dedup!Missed(w, n)) = 0
    BY <1>3, <1>4, <2>1, Zenon
  <2> HIDE DEF bits
  <2>4. [w EXCEPT !.lastSeen = n, !.contiguous = T, !.lost = 0, !.bits = bits] = v
    <3> DEFINE u == [w EXCEPT !.lastSeen = n, !.contiguous = T, !.lost = 0, !.bits = bits]
               Fields == {"bootId", "lastSeen", "contiguous", "lost", "bits"}
    <3>1. u.bits = bits /\ v.bits = bits
      BY <1>0
    <3>2. u.lost = 0 /\ v.lost = 0
      BY <1>0
    <3>3. u.contiguous = T /\ v.contiguous = T
      BY <1>0
    <3>4. u.lastSeen = n /\ v.lastSeen = n
      BY <1>0
    <3>5. u.bootId = "boot" /\ v.bootId = "boot"
      BY <1>0
    <3>6. DOMAIN u = Fields /\ DOMAIN v = Fields
      BY <1>0
    <3>7. u = [k \in DOMAIN u |-> u[k]] /\ v = [k \in DOMAIN v |-> v[k]]
      BY Zenon
    <3> HIDE DEF u, v
    <3>8. \A k \in Fields : u[k] = v[k]
      BY <3>1, <3>2, <3>3, <3>4, <3>5
    <3>9. u = v
      BY <3>6, <3>7, <3>8
    <3> QED
      BY <3>9 DEF u
  <2> HIDE DEF v
  <2>5. Loop!Dedup!Advance(w, n) =
          Loop!Dedup!Pulled([w EXCEPT !.lastSeen = n, !.contiguous = T, !.lost = 0, !.bits = bits])
    BY <2>1, <2>2, <2>3, Zenon DEF Loop!Dedup!Advance
  <2> QED
    BY <2>4, <2>5, Zenon
<1>7. Loop!Dedup!Test(v, n)
  BY DEF Loop!Dedup!Test
<1>8. (CHOOSE c \in T..n :
         /\ \A m \in (T + 1)..c : Loop!Dedup!Test(v, m)
         /\ c < n => ~Loop!Dedup!Test(v, c + 1)) = n
  <2> HIDE DEF v
  <2>1. \A c \in T..n : c = T \/ c = n
    OBVIOUS
  <2>2. n \in T..n /\ \A m \in (T + 1)..n : m = n
    OBVIOUS
  <2> QED
    BY <1>7, <2>1, <2>2
<1>9. Loop!Dedup!Pulled(v) = [v EXCEPT !.contiguous = n]
  BY <1>8 DEF Loop!Dedup!Pulled
<1>10. [v EXCEPT !.contiguous = n] =
         [bootId |-> "boot", lastSeen |-> n, contiguous |-> n, lost |-> 0, bits |-> bits]
  OBVIOUS
<1> QED
  BY <1>0, <1>6, <1>9, <1>10, Zenon

\* What the harness writes is the next seq, which goes downstream, or one it has
\* written, which does not.
LEMMA DedupTakes ==
  ASSUME LoopTypes, InOrder, NEW n \in Loop!SeqNo, n <= Top + 1,
         Loop!Dedup!ProcessElement("boot", n), copies' = [copies EXCEPT ![n] = @ + 1]
  PROVE  /\ InOrder' /\ Top' \in {Top, n} /\ n <= Top' /\ Top <= Top'
         /\ \/ UNCHANGED passed
            \/ passed[n] = 0 /\ passed' = [passed EXCEPT ![n] = 1]
<1> USE LoopNumbers
<1> DEFINE slot == Loop!Dedup!Slot(n)
<1>0. /\ Top \in -1..MaxSeq /\ n \in 0..MaxSeq /\ n \in Int /\ Top \in Int
      /\ win.lastSeen = Top /\ win.bits \subseteq 0..(W - 1) /\ base = -1
      /\ win.bootId = (IF Top = -1 THEN "none" ELSE "boot")
      /\ copies \in [0..MaxSeq -> Nat] /\ passed \in [0..MaxSeq -> Nat]
      /\ \A s \in 0..MaxSeq : passed[s] = IF s <= Top THEN 1 ELSE 0
      /\ \A s \in 0..MaxSeq : copies[s] > 0 <=> s <= Top
      /\ \A k \in 0..Top : Loop!Dedup!Slot(k) \in win.bits
  BY DEF InOrder, LoopTypes, Top
<1>1. slot \in 0..(W - 1)
  BY <1>0 DEF Loop!Dedup!Slot
<1>2. \A s \in 0..MaxSeq : copies'[s] = IF s = n THEN copies[s] + 1 ELSE copies[s]
  BY <1>0
<1>3. CASE n = Top + 1
  <2> DEFINE b == IF Top = -1 THEN {} ELSE win.bits
             w == [bootId |-> "boot", lastSeen |-> Top, contiguous |-> Top, lost |-> 0, bits |-> b]
  <2>1. Loop!Dedup!Advance(w, n) =
          [bootId |-> "boot", lastSeen |-> n, contiguous |-> n, lost |-> 0, bits |-> b \cup {slot}]
    <3>1. PICK T \in Int : T = Top
      BY <1>0
    <3>2. b \subseteq 0..(W - 1) /\ T >= -1 /\ n \in Int /\ n = T + 1
      BY <1>0, <1>3, <3>1
    <3>3. w = [bootId |-> "boot", lastSeen |-> T, contiguous |-> T, lost |-> 0, bits |-> b]
      BY <3>1
    <3>4. PICK x, y : x = w /\ y = b
      OBVIOUS
    <3> HIDE DEF b, w
    <3>5. /\ y \subseteq 0..(W - 1)
          /\ x = [bootId |-> "boot", lastSeen |-> T, contiguous |-> T, lost |-> 0, bits |-> y]
      BY <3>2, <3>3, <3>4, Zenon
    <3>6. Loop!Dedup!Advance(x, n) =
            [bootId |-> "boot", lastSeen |-> n, contiguous |-> n, lost |-> 0, bits |-> y \cup {slot}]
      <4> HIDE DEF slot
      <4>1. Loop!Dedup!Advance([bootId |-> "boot", lastSeen |-> T, contiguous |-> T, lost |-> 0,
                                bits |-> y], n) =
              [bootId |-> "boot", lastSeen |-> n, contiguous |-> n, lost |-> 0,
               bits |-> y \cup {Loop!Dedup!Slot(n)}]
        BY <3>2, <3>5, AdvanceByOne
      <4> QED
        BY <3>5, <4>1, Zenon DEF slot
    <3> QED
      BY <3>4, <3>6, Zenon
  <2>2. /\ win' = Loop!Dedup!Advance(w, n) /\ base' = -1
        /\ passed' = [s \in 0..MaxSeq |-> IF s <= n THEN 1 ELSE 0]
    <3>1. CASE Top = -1
      <4>1. Loop!Dedup!Judge(win, "boot", n) = "FIRST"
        BY <1>0, <3>1 DEF Loop!Dedup!Judge
      <4>2. Loop!Dedup!OpenWindow("boot", n)
        BY <4>1 DEF Loop!Dedup!ProcessElement, Loop!Dedup!Accept, Loop!Dedup!Late, Loop!Dedup!Drop
      <4>3. n = 0
        BY <1>3, <3>1
      <4>4. Loop!Dedup!Reset("boot", n) = w
        BY <3>1, <4>3 DEF Loop!Dedup!Reset
      <4>5. \A s \in 0..MaxSeq : (s <= n <=> s = n)
        BY <4>3
      <4> HIDE DEF w
      <4> QED
        BY <4>2, <4>3, <4>4, <4>5 DEF Loop!Dedup!OpenWindow
    <3>2. CASE Top # -1
      <4>1. Loop!Dedup!Judge(win, "boot", n) = "ACCEPT"
        BY <1>0, <1>3, <3>2 DEF Loop!Dedup!Judge
      <4>2. Loop!Dedup!Accept("boot", n)
        BY <4>1 DEF Loop!Dedup!ProcessElement, Loop!Dedup!OpenWindow, Loop!Dedup!Late, Loop!Dedup!Drop
      <4>3. win = w
        BY <3>2 DEF InOrder
      <4>4. passed' = [passed EXCEPT ![n] = @ + 1]
        BY <4>2 DEF Loop!Dedup!Accept
      <4>5. \A s \in 0..MaxSeq : passed'[s] = IF s <= n THEN 1 ELSE 0
        BY <1>0, <1>3, <4>4
      <4>6. passed' = [s \in 0..MaxSeq |-> IF s <= n THEN 1 ELSE 0]
        BY <1>0, <4>4, <4>5
      <4> HIDE DEF w
      <4> QED
        BY <1>0, <4>2, <4>3, <4>6 DEF Loop!Dedup!Accept
    <3> QED
      BY <3>1, <3>2
  <2>3. /\ win'.lastSeen = n /\ win'.bits = b \cup {slot}
        /\ win' = [bootId |-> "boot", lastSeen |-> n, contiguous |-> n, lost |-> 0,
                   bits |-> b \cup {slot}]
    <3> HIDE DEF b, w, slot
    <3>1. win' = [bootId |-> "boot", lastSeen |-> n, contiguous |-> n, lost |-> 0,
                  bits |-> b \cup {slot}]
      BY <2>1, <2>2, Zenon
    <3> QED
      BY <3>1
  <2>4. Top' = n /\ n # -1
    BY <1>0, <2>3 DEF Top
  <2>5. \A k \in 0..n : Loop!Dedup!Slot(k) \in b \cup {slot}
    BY <1>0, <1>3
  <2>6. win' = [bootId |-> IF Top' = -1 THEN "none" ELSE "boot", lastSeen |-> Top',
                contiguous |-> Top', lost |-> 0, bits |-> win'.bits]
    BY <2>3, <2>4
  <2>7. Top' \in -1..MaxSeq /\ win'.bits \subseteq 0..(W - 1) /\ base' = -1
    <3>1. b \subseteq 0..(W - 1)
      BY <1>0
    <3> HIDE DEF b, slot
    <3>2. win'.bits \subseteq 0..(W - 1)
      BY <1>1, <2>3, <3>1, Zenon
    <3>3. Top' \in -1..MaxSeq
      BY <1>0, <2>4
    <3> QED
      BY <2>2, <3>2, <3>3
  <2>8. \A k \in 0..Top' : Loop!Dedup!Slot(k) \in win'.bits
    BY <2>3, <2>4, <2>5
  <2>9. \A s \in 0..MaxSeq : passed'[s] = IF s <= Top' THEN 1 ELSE 0
    BY <2>2, <2>4
  <2>10. \A s \in 0..MaxSeq : copies'[s] > 0 <=> s <= Top'
    BY <1>0, <1>2, <1>3, <2>4
  <2>11. passed[n] = 0 /\ passed' = [passed EXCEPT ![n] = 1]
    <3>1. \A s \in 0..MaxSeq : s <= n <=> s <= Top \/ s = n
      BY <1>0, <1>3
    <3>2. passed[n] = 0
      BY <1>0, <1>3
    <3>3. \A s \in 0..MaxSeq :
            (IF s <= n THEN 1 ELSE 0) = [passed EXCEPT ![n] = 1][s]
      BY <1>0, <1>3, <3>1
    <3>4. [passed EXCEPT ![n] = 1] \in [0..MaxSeq -> {0, 1}]
      BY <1>0
    <3>5. [passed EXCEPT ![n] = 1] = [s \in 0..MaxSeq |-> IF s <= n THEN 1 ELSE 0]
      BY <3>3, <3>4
    <3> QED
      BY <2>2, <3>2, <3>5
  <2>12. InOrder'
    BY <2>6, <2>7, <2>8, <2>9, <2>10 DEF InOrder, Loop!Dedup!Slot
  <2> QED
    BY <1>0, <1>3, <2>4, <2>11, <2>12
<1>4. CASE n <= Top
  <2>1. Loop!Dedup!Judge(win, "boot", n) \in {"TOO_OLD", "DUPLICATE"}
    <3>1. win.bootId = "boot" /\ Loop!Dedup!Test(win, n)
      BY <1>0, <1>4 DEF Loop!Dedup!Test
    <3>2. CASE n <= Top - W
      <4>1. Loop!Dedup!Judge(win, "boot", n) = "TOO_OLD"
        BY <1>0, <1>4, <3>1, <3>2 DEF Loop!Dedup!Judge
      <4> QED
        BY <4>1
    <3>3. CASE n > Top - W
      <4>1. Loop!Dedup!Judge(win, "boot", n) = "DUPLICATE"
        BY <1>0, <1>4, <3>1, <3>3 DEF Loop!Dedup!Judge
      <4> QED
        BY <4>1
    <3> QED
      BY <1>0, <3>2, <3>3
  <2>2. UNCHANGED <<win, base, passed>>
    BY <2>1 DEF Loop!Dedup!ProcessElement, Loop!Dedup!OpenWindow, Loop!Dedup!Accept,
                Loop!Dedup!Late, Loop!Dedup!Drop, Loop!Dedup!windowVars
  <2>3. \A s \in 0..MaxSeq : copies'[s] > 0 <=> s <= Top
    BY <1>0, <1>2, <1>4
  <2>4. Top' = Top
    BY <2>2 DEF Top
  <2>5. InOrder'
    BY <2>2, <2>3, <2>4 DEF InOrder, Loop!Dedup!Slot
  <2> QED
    BY <1>0, <1>4, <2>2, <2>4, <2>5
<1> QED
  BY <1>0, <1>3, <1>4

\* A tracker without a hole goes on without one.
LEMMA TrackerTakes ==
  ASSUME NEW a \in Int, NEW s, NEW l
  PROVE  Loop!Complete([start |-> s, ack |-> a, last |-> l, done |-> {}], a + 1) =
           [start |-> s, ack |-> a + 1, last |-> l, done |-> {}]
<1> DEFINE t == [start |-> s, ack |-> a, last |-> l, done |-> {}]
<1>1. t.ack = a /\ t.done = {} /\ ~(a + 1 <= a)
  OBVIOUS
<1>2. (CHOOSE c \in {a} \cup {a + 1} :
         (a + 1)..c \subseteq {a + 1} /\ c + 1 \notin {a + 1}) = a + 1
  <2>1. (a + 1)..(a + 1) \subseteq {a + 1} /\ a + 1 + 1 \notin {a + 1}
    OBVIOUS
  <2> QED
    BY <2>1
<1>3. {d \in {a + 1} : d > a + 1} = {} /\ {} \cup {a + 1} = {a + 1}
  OBVIOUS
<1>4. Loop!Complete(t, a + 1) = [t EXCEPT !.ack = a + 1, !.done = {}]
  <2> HIDE DEF t
  <2>1. t.done \cup {a + 1} = {a + 1} /\ {t.ack} \cup {a + 1} = {a} \cup {a + 1} /\ t.ack + 1 = a + 1
    BY <1>1
  <2> DEFINE done == t.done \cup {a + 1}
             top == CHOOSE c \in {t.ack} \cup done : (t.ack + 1)..c \subseteq done /\ c + 1 \notin done
  <2>2. Loop!Complete(t, a + 1) = [t EXCEPT !.ack = top, !.done = {d \in done : d > top}]
    BY <1>1, Zenon DEF Loop!Complete
  <2>3. top = a + 1
    BY <1>2, <2>1
  <2>4. {d \in done : d > top} = {}
    <3> HIDE DEF top
    <3> QED
      BY <1>3, <2>1, <2>3
  <2> HIDE DEF done, top
  <2> QED
    BY <2>2, <2>3, <2>4
<1> QED
  BY <1>4

\* The tracker that send() completes a record with.
LEMMA OpenedIs ==
  ASSUME LoopInv, ~inSend
  PROVE  /\ Loop!Opened(shipNext) # Loop!NoTracker
         /\ Loop!Opened(shipNext) = [start |-> began.commit + 1, ack |-> Loop!Opened(shipNext).ack,
                                    last |-> committed, done |-> {}]
         /\ Loop!Opened(shipNext).ack \in committed..Top /\ Loop!Opened(shipNext).ack < shipNext
         /\ \/ Loop!Opened(shipNext).ack = shipNext - 1
            \/ failFrom <= Loop!Opened(shipNext).ack + 1
<1> USE LoopNumbers
<1>0. /\ committed \in Int /\ shipNext \in Int /\ began.commit \in -1..committed
      /\ committed <= Top /\ Top \in Int /\ Loop!Reached = shipNext
      /\ Loop!NoTracker.start = -1
  BY DEF LoopInv, LoopTypes, InOrder, Loop!Reached, Loop!NoTracker, Loop!None
<1>1. CASE tracker = Loop!NoTracker
  <2>1. shipNext = began.commit + 1 /\ committed = began.commit
    BY <1>1 DEF LoopInv, Tracked
  <2>2. Loop!Opened(shipNext) =
          [start |-> shipNext, ack |-> shipNext - 1, last |-> shipNext - 1, done |-> {}]
    BY <1>1 DEF Loop!Opened, Loop!NewTracker
  <2>3. PICK o : o = Loop!Opened(shipNext)
    OBVIOUS
  <2>4. /\ o = [start |-> shipNext, ack |-> shipNext - 1, last |-> shipNext - 1, done |-> {}]
        /\ o.start = shipNext /\ o.ack = shipNext - 1
    BY <2>2, <2>3
  <2>5. o.start # -1 /\ o.ack = committed /\ shipNext - 1 = committed
    BY <1>0, <2>1, <2>4
  <2> QED
    <3>1. o # Loop!NoTracker
      BY <1>0, <2>5
    <3>2. began.commit + 1 = shipNext /\ committed = shipNext - 1 /\ o.ack = shipNext - 1
      BY <1>0, <2>1, <2>4
    <3>3. o = [start |-> began.commit + 1, ack |-> o.ack, last |-> committed, done |-> {}]
      BY <2>4, <3>2, Zenon
    <3>4. o.ack \in committed..Top /\ o.ack < shipNext
      BY <1>0, <3>2
    <3> QED
      BY <2>3, <3>1, <3>2, <3>3, <3>4, Zenon
<1>2. CASE tracker # Loop!NoTracker
  <2>1. Loop!Opened(shipNext) = tracker
    BY <1>2 DEF Loop!Opened
  <2> QED
    BY <1>0, <1>2, <2>1 DEF LoopInv, Tracked
<1> QED
  BY <1>1, <1>2

LEMMA WriteKeeps ==
  ASSUME LoopInv, Loop!Send, Loop!Write PROVE LoopInv'
<1> USE LoopNumbers
<1> DEFINE o == Loop!Opened(shipNext)
<1>0. /\ LoopTypes /\ InOrder /\ Tracked /\ Rewritten /\ ~inSend
      /\ inSend' = TRUE /\ shipNext < walNext /\ shipNext < failFrom
      /\ walNext' = walNext /\ committed' = committed /\ shipNext' = shipNext
      /\ failFrom' = failFrom /\ began' = began
      /\ tracker' = Loop!Complete(o, shipNext)
      /\ copies' = [copies EXCEPT ![shipNext] = @ + 1]
      /\ Loop!Dedup!ProcessElement("boot", shipNext)
  BY DEF LoopInv, Loop!Send, Loop!Write
<1>1. /\ walNext \in 0..(MaxSeq + 1) /\ committed \in -1..MaxSeq /\ shipNext \in Nat
      /\ failFrom \in 0..(MaxSeq + 1) /\ began.commit \in -1..committed
      /\ began.copies \in [0..MaxSeq -> Nat] /\ copies \in [0..MaxSeq -> Nat]
      /\ passed \in [0..MaxSeq -> Nat] /\ Top \in -1..MaxSeq
      /\ committed < shipNext /\ committed <= Top
  BY <1>0 DEF LoopTypes, InOrder
<1>2. PICK t : t = o
  OBVIOUS
<1>3. /\ t # Loop!NoTracker
      /\ t = [start |-> began.commit + 1, ack |-> t.ack, last |-> committed, done |-> {}]
      /\ t.ack \in committed..Top /\ t.ack < shipNext
      /\ t.ack = shipNext - 1 \/ failFrom <= t.ack + 1
  BY <1>0, <1>2, OpenedIs
<1>4. t.ack = shipNext - 1 /\ shipNext <= Top + 1 /\ shipNext \in 0..MaxSeq
  BY <1>0, <1>1, <1>3
<1>5. tracker' = [start |-> began.commit + 1, ack |-> shipNext, last |-> committed, done |-> {}]
  <2>0. shipNext - 1 \in Int /\ began.commit + 1 \in Int /\ committed \in Int
    BY <1>1
  <2>1. PICK a \in Int, s \in Int, l \in Int : a = shipNext - 1 /\ s = began.commit + 1 /\ l = committed
    BY <2>0, Zenon
  <2>2. Loop!Complete([start |-> s, ack |-> a, last |-> l, done |-> {}], a + 1) =
          [start |-> s, ack |-> a + 1, last |-> l, done |-> {}]
    BY <2>1, TrackerTakes
  <2>3. a + 1 = shipNext /\ t = [start |-> s, ack |-> a, last |-> l, done |-> {}]
    <3>1. a + 1 = shipNext
      BY <1>1, <2>1
    <3> QED
      BY <1>3, <1>4, <2>1, <3>1, Zenon
  <2> HIDE DEF o
  <2> QED
    BY <1>0, <1>2, <2>1, <2>2, <2>3, Zenon
<1>6. /\ InOrder' /\ shipNext <= Top' /\ Top <= Top' /\ Top' \in Int
      /\ passed' \in [0..MaxSeq -> Nat]
  <2>1. /\ InOrder' /\ Top' \in {Top, shipNext} /\ shipNext <= Top' /\ Top <= Top'
        /\ \/ UNCHANGED passed
           \/ passed[shipNext] = 0 /\ passed' = [passed EXCEPT ![shipNext] = 1]
    <3>1. PICK n \in Loop!SeqNo : n = shipNext
      BY <1>4
    <3>2. /\ n <= Top + 1 /\ Loop!Dedup!ProcessElement("boot", n)
          /\ copies' = [copies EXCEPT ![n] = @ + 1]
      BY <1>0, <1>4, <3>1
    <3>3. /\ InOrder' /\ Top' \in {Top, n} /\ n <= Top' /\ Top <= Top'
          /\ \/ UNCHANGED passed
             \/ passed[n] = 0 /\ passed' = [passed EXCEPT ![n] = 1]
      BY <1>0, <3>2, DedupTakes
    <3> QED
      BY <3>1, <3>3
  <2>2. passed' \in [0..MaxSeq -> Nat]
    <3>1. CASE passed' = passed
      BY <1>1, <3>1
    <3>2. CASE passed' = [passed EXCEPT ![shipNext] = 1]
      BY <1>1, <3>2
    <3> QED
      BY <2>1, <3>1, <3>2
  <2> QED
    BY <1>1, <2>1, <2>2
<1>7. LoopTypes'
  <2>1. copies' \in [0..MaxSeq -> Nat]
    BY <1>0, <1>1
  <2>2. committed <= Top'
    BY <1>1, <1>6
  <2>3. inSend' \in BOOLEAN
    BY <1>0, Zenon
  <2> QED
    BY <1>0, <1>1, <1>6, <2>1, <2>2, <2>3 DEF LoopTypes, Loop!SeqNo
<1>8. Loop!Reached = shipNext /\ Loop!Reached' = shipNext + 1
  BY <1>0 DEF Loop!Reached
<1>9. Tracked'
  <2>1. tracker'.start = began.commit + 1 /\ tracker'.ack = shipNext /\ Loop!NoTracker.start = -1
    BY <1>5 DEF Loop!NoTracker, Loop!None
  <2>2. tracker' # Loop!NoTracker
    <3>1. began.commit + 1 # -1
      BY <1>1
    <3> QED
      BY <2>1, <3>1, Zenon
  <2>3. shipNext \in committed..Top' /\ shipNext < shipNext + 1 /\ shipNext = shipNext + 1 - 1
    BY <1>1, <1>6
  <2> QED
    BY <1>0, <1>5, <1>8, <2>1, <2>2, <2>3 DEF Tracked, Loop!NoTracker
<1>10. Rewritten'
  <2> SUFFICES ASSUME NEW s \in 0..MaxSeq
               PROVE copies'[s] - began.copies[s] =
                       IF began.commit < s /\ s < shipNext + 1 /\ s < failFrom THEN 1 ELSE 0
    BY <1>0, <1>8 DEF Rewritten, Loop!SeqNo
  <2>1. copies[s] - began.copies[s] =
          IF began.commit < s /\ s < shipNext /\ s < failFrom THEN 1 ELSE 0
    BY <1>0, <1>8 DEF Rewritten
  <2>2. copies[s] \in Nat /\ began.copies[s] \in Nat
    BY <1>1
  <2>3. CASE s = shipNext
    <3>1. copies'[s] = copies[s] + 1 /\ began.commit < s /\ s < failFrom
      BY <1>0, <1>1, <2>3
    <3>2. ~(s < shipNext) /\ s < shipNext + 1
      BY <1>1, <2>3
    <3>3. copies[s] - began.copies[s] = 0
      BY <2>1, <3>2
    <3>4. PICK c \in Nat, b \in Nat : c = copies[s] /\ b = began.copies[s]
      BY <2>2
    <3>5. copies'[s] - began.copies[s] = 1
      <4>1. c - b = 0 => c + 1 - b = 1
        OBVIOUS
      <4> QED
        BY <3>1, <3>3, <3>4, <4>1
    <3> QED
      BY <3>1, <3>2, <3>5
  <2>4. CASE s # shipNext
    <3>1. copies'[s] = copies[s] /\ (s < shipNext + 1 <=> s < shipNext)
      BY <1>0, <1>1, <2>4
    <3> QED
      BY <2>1, <3>1
  <2> QED
    BY <2>3, <2>4
<1> QED
  BY <1>6, <1>7, <1>9, <1>10 DEF LoopInv

\* A step that leaves the log alone leaves SeqDedup alone.
LEMMA LogStays ==
  ASSUME InOrder, UNCHANGED Loop!log
  PROVE  /\ InOrder' /\ Top' = Top /\ copies' = copies /\ passed' = passed
<1>1. win' = win /\ base' = base /\ copies' = copies /\ passed' = passed
  BY DEF Loop!log
<1> QED
  BY <1>1 DEF InOrder, Top, Loop!Dedup!Slot, Loop!SeqNo

LEMMA WriteFailsKeeps ==
  ASSUME LoopInv, Loop!Send, Loop!WriteFails PROVE LoopInv'
<1> USE LoopNumbers
<1>0. /\ LoopTypes /\ InOrder /\ Tracked /\ Rewritten /\ ~inSend
      /\ inSend' = inSend /\ shipNext < walNext /\ shipNext >= failFrom
      /\ walNext' = walNext /\ committed' = committed /\ shipNext' = shipNext + 1
      /\ failFrom' = failFrom /\ began' = began /\ tracker' = Loop!Opened(shipNext)
      /\ UNCHANGED Loop!log
  BY DEF LoopInv, Loop!Send, Loop!WriteFails
<1>1. /\ walNext \in 0..(MaxSeq + 1) /\ committed \in -1..MaxSeq /\ shipNext \in Nat
      /\ failFrom \in 0..(MaxSeq + 1) /\ began.commit \in -1..committed
      /\ Top \in -1..MaxSeq /\ committed < shipNext /\ committed <= Top
  BY <1>0 DEF LoopTypes, InOrder
<1>2. InOrder' /\ Top' = Top /\ copies' = copies /\ passed' = passed
  BY <1>0, LogStays
<1>3. LoopTypes'
  <2>1. shipNext + 1 \in Nat /\ committed < shipNext + 1 /\ shipNext + 1 <= walNext
    BY <1>0, <1>1
  <2> QED
    BY <1>0, <1>2, <2>1 DEF LoopTypes, Loop!SeqNo
<1>4. Loop!Reached = shipNext /\ Loop!Reached' = shipNext + 1
  BY <1>0 DEF Loop!Reached
<1>5. Tracked'
  <2>1. /\ tracker' # Loop!NoTracker
        /\ tracker' = [start |-> began.commit + 1, ack |-> tracker'.ack,
                       last |-> committed, done |-> {}]
        /\ tracker'.ack \in committed..Top /\ tracker'.ack < shipNext
        /\ tracker'.ack = shipNext - 1 \/ failFrom <= tracker'.ack + 1
    BY <1>0, OpenedIs
  <2>2. tracker'.ack < shipNext + 1 /\ failFrom <= tracker'.ack + 1
    BY <1>0, <1>1, <2>1
  <2> QED
    BY <1>0, <1>2, <1>4, <2>1, <2>2 DEF Tracked, Loop!NoTracker
<1>6. Rewritten'
  <2> SUFFICES ASSUME NEW s \in 0..MaxSeq
               PROVE copies[s] - began.copies[s] =
                       IF began.commit < s /\ s < shipNext + 1 /\ s < failFrom THEN 1 ELSE 0
    BY <1>0, <1>2, <1>4 DEF Rewritten, Loop!SeqNo
  <2>1. s < failFrom => (s < shipNext + 1 <=> s < shipNext)
    BY <1>0, <1>1
  <2> QED
    BY <1>0, <1>4, <2>1 DEF Rewritten
<1> QED
  BY <1>2, <1>3, <1>5, <1>6 DEF LoopInv

\* take() and flush_ack() give the ack that the tracker has, or none.
LEMMA AckKeeps ==
  ASSUME LoopInv, tracker # Loop!NoTracker, NEW late \in BOOLEAN, Loop!Acknowledge(tracker, late)
  PROVE  /\ tracker' = [start |-> began.commit + 1, ack |-> tracker.ack, last |-> committed', done |-> {}]
         /\ tracker' # Loop!NoTracker /\ tracker'.ack = tracker.ack
         /\ \/ committed' = committed
            \/ committed < tracker.ack /\ committed' = tracker.ack
         /\ committed' \in committed..tracker.ack
<1> USE LoopNumbers
<1>0. /\ committed \in Int /\ Top \in Int /\ tracker.ack \in committed..Top
      /\ tracker = [start |-> began.commit + 1, ack |-> tracker.ack, last |-> committed, done |-> {}]
  BY DEF LoopInv, LoopTypes, InOrder, Tracked
<1>1. PICK a \in Int : a = tracker.ack
  BY <1>0
<1>2. tracker = [start |-> began.commit + 1, ack |-> a, last |-> committed, done |-> {}]
  BY <1>0, <1>1, Zenon
<1>3. tracker.last = committed
  BY <1>2
<1>4. CASE Loop!Due(tracker, late)
  <2>1. a > committed
    BY <1>1, <1>3, <1>4 DEF Loop!Due, Loop!HasNews
  <2>2. /\ tracker' = [tracker EXCEPT !.last = a]
        /\ committed' = IF a < committed THEN committed ELSE a
    BY <1>1, <1>4 DEF Loop!Acknowledge, Loop!OnAck, Loop!Emitted
  <2>3. committed' = a
    BY <1>0, <2>1, <2>2
  <2>4. tracker' = [start |-> began.commit + 1, ack |-> a, last |-> a, done |-> {}]
    BY <1>2, <2>2
  <2>5. tracker'.start = began.commit + 1 /\ tracker'.ack = a
    BY <2>4
  <2>6. tracker' # Loop!NoTracker
    <3>1. tracker.start = began.commit + 1 /\ began.commit \in -1..committed
      BY <1>2 DEF LoopInv, LoopTypes
    <3>2. began.commit + 1 # -1
      BY <1>0, <3>1
    <3> QED
      BY <2>5, <3>2 DEF Loop!NoTracker, Loop!None
  <2> QED
    BY <1>0, <1>1, <2>1, <2>3, <2>4, <2>5, <2>6
<1>5. CASE ~Loop!Due(tracker, late)
  <2>1. tracker' = tracker /\ committed' = committed
    BY <1>5 DEF Loop!Acknowledge
  <2> QED
    BY <1>0, <1>2, <2>1
<1> QED
  BY <1>4, <1>5

\* And no more than that is what the rest of send() and flush_ack() do to the state.
LEMMA AcknowledgeKeeps ==
  ASSUME LoopInv, tracker # Loop!NoTracker, NEW late \in BOOLEAN, Loop!Acknowledge(tracker, late),
         UNCHANGED <<walNext, failFrom, began>>, UNCHANGED Loop!log,
         inSend' = FALSE, shipNext' = Loop!Reached
  PROVE  LoopInv'
<1> USE LoopNumbers
<1>0. /\ LoopTypes /\ InOrder /\ Tracked /\ Rewritten
      /\ walNext' = walNext /\ failFrom' = failFrom /\ began' = began
  BY DEF LoopInv
<1>1. /\ walNext \in 0..(MaxSeq + 1) /\ committed \in -1..MaxSeq /\ shipNext \in Nat
      /\ failFrom \in 0..(MaxSeq + 1) /\ began.commit \in -1..committed
      /\ Top \in -1..MaxSeq /\ committed < shipNext /\ committed <= Top
      /\ shipNext <= walNext /\ (inSend => shipNext < walNext) /\ inSend \in BOOLEAN
  BY <1>0 DEF LoopTypes, InOrder
<1>2. InOrder' /\ Top' = Top /\ copies' = copies /\ passed' = passed
  BY <1>0, LogStays
<1>3. Loop!Reached \in Nat /\ Loop!Reached <= walNext /\ Loop!Reached' = Loop!Reached
  BY <1>1 DEF Loop!Reached
<1>4. /\ tracker' = [start |-> began.commit + 1, ack |-> tracker.ack, last |-> committed', done |-> {}]
      /\ tracker' # Loop!NoTracker /\ tracker'.ack = tracker.ack
      /\ committed' \in committed..tracker.ack
  BY AckKeeps
<1>5. /\ tracker.ack \in committed..Top /\ tracker.ack < Loop!Reached
      /\ tracker.ack = Loop!Reached - 1 \/ failFrom <= tracker.ack + 1
  BY <1>0 DEF Tracked
<1>6. LoopTypes'
  <2>1. /\ committed' \in -1..MaxSeq /\ began.commit \in -1..committed'
        /\ committed' < Loop!Reached /\ committed' <= Top
    BY <1>1, <1>3, <1>4, <1>5
  <2> QED
    BY <1>0, <1>1, <1>2, <1>3, <2>1 DEF LoopTypes, Loop!SeqNo
<1>7. Tracked'
  <2>1. tracker.ack \in committed'..Top
    BY <1>1, <1>4, <1>5
  <2> QED
    BY <1>0, <1>2, <1>3, <1>4, <1>5, <2>1 DEF Tracked, Loop!NoTracker
<1>8. Rewritten'
  BY <1>0, <1>2, <1>3 DEF Rewritten, Loop!SeqNo
<1> QED
  BY <1>2, <1>6, <1>7, <1>8 DEF LoopInv

LEMMA TakeKeeps ==
  ASSUME LoopInv, NEW late \in BOOLEAN, Loop!Take(late) PROVE LoopInv'
<1>1. tracker # Loop!NoTracker /\ Loop!Reached = shipNext + 1
  BY DEF Loop!Take, LoopInv, Tracked, Loop!Reached
<1>2. /\ Loop!Acknowledge(tracker, late) /\ UNCHANGED <<walNext, failFrom, began>>
      /\ UNCHANGED Loop!log /\ inSend' = FALSE /\ shipNext' = Loop!Reached
  BY <1>1 DEF Loop!Take
<1> QED
  BY <1>1, <1>2, AcknowledgeKeeps

LEMMA FlushAckKeeps == ASSUME LoopInv, Loop!FlushAck PROVE LoopInv'
<1>1. tracker # Loop!NoTracker /\ Loop!Reached = shipNext /\ inSend = FALSE
  <2>1. inSend \in BOOLEAN /\ ~inSend
    BY DEF LoopInv, LoopTypes, Loop!FlushAck
  <2>2. inSend = FALSE
    BY <2>1, Zenon
  <2> QED
    BY <2>1, <2>2 DEF Loop!FlushAck, Loop!Reached
<1>2. PICK late \in BOOLEAN : late = TRUE
  BY Zenon
<1>3. /\ Loop!Acknowledge(tracker, late) /\ UNCHANGED <<walNext, failFrom, began>>
      /\ UNCHANGED Loop!log /\ inSend' = FALSE /\ shipNext' = Loop!Reached
  <2>1. Loop!Acknowledge(tracker, late)
    BY <1>2, Zenon DEF Loop!FlushAck
  <2>2. inSend' = FALSE
    BY <1>1, Zenon DEF Loop!FlushAck
  <2> QED
    BY <1>1, <2>1, <2>2 DEF Loop!FlushAck
<1> QED
  BY <1>1, <1>3, AcknowledgeKeeps

LEMMA AppendRecordKeeps == ASSUME LoopInv, Loop!AppendRecord PROVE LoopInv'
<1> USE LoopNumbers
<1>1. /\ walNext \in 0..MaxSeq /\ walNext' = walNext + 1 /\ committed' = committed
      /\ UNCHANGED <<shipNext, inSend, tracker, failFrom, began>> /\ UNCHANGED Loop!log
  BY DEF Loop!AppendRecord, Loop!process
<1>2. InOrder' /\ Top' = Top /\ copies' = copies /\ passed' = passed
  BY <1>1, LogStays DEF LoopInv
<1>3. LoopTypes'
  <2>1. shipNext \in Nat /\ shipNext <= walNext /\ (inSend => shipNext < walNext)
    BY DEF LoopInv, LoopTypes
  <2>2. walNext + 1 \in 0..(MaxSeq + 1) /\ shipNext <= walNext + 1 /\ (inSend => shipNext < walNext + 1)
    BY <1>1, <2>1
  <2> QED
    BY <1>1, <1>2, <2>2 DEF LoopInv, LoopTypes, Loop!SeqNo
<1>4. Loop!Reached' = Loop!Reached
  BY <1>1 DEF Loop!Reached
<1>5. Tracked'
  BY <1>1, <1>2, <1>4 DEF LoopInv, Tracked, Loop!NoTracker
<1>6. Rewritten'
  BY <1>1, <1>2, <1>4 DEF LoopInv, Rewritten, Loop!SeqNo
<1> QED
  BY <1>2, <1>3, <1>5, <1>6 DEF LoopInv

LEMMA LoopRestartKeeps ==
  ASSUME LoopInv, NEW from \in 0..(MaxSeq + 1), Loop!Restart(from) PROVE LoopInv'
<1> USE LoopNumbers
<1>1. /\ shipNext' = committed + 1 /\ inSend' = FALSE /\ tracker' = Loop!NoTracker
      /\ failFrom' = from /\ began' = [commit |-> committed, copies |-> copies]
      /\ walNext' = walNext /\ committed' = committed /\ UNCHANGED Loop!log
  BY DEF Loop!Restart, Loop!ResumePoint, Loop!disk
<1>2. InOrder' /\ Top' = Top /\ copies' = copies /\ passed' = passed
  BY <1>1, LogStays DEF LoopInv
<1>3. /\ walNext \in 0..(MaxSeq + 1) /\ committed \in -1..MaxSeq /\ shipNext \in Nat
      /\ committed < shipNext /\ shipNext <= walNext /\ copies \in [0..MaxSeq -> Nat]
      /\ passed \in [0..MaxSeq -> Nat] /\ committed <= Top
  BY DEF LoopInv, LoopTypes
<1>4. began'.commit = committed /\ began'.copies = copies
  BY <1>1
<1>5. LoopTypes'
  <2>1. committed + 1 \in Nat /\ committed < committed + 1 /\ committed + 1 <= walNext
        /\ committed \in -1..committed
    BY <1>3
  <2>2. inSend' \in BOOLEAN
    BY <1>1, Zenon
  <2> QED
    BY <1>1, <1>2, <1>3, <1>4, <2>1, <2>2 DEF LoopTypes, Loop!SeqNo
<1>6. Tracked'
  BY <1>1, <1>4 DEF Tracked, Loop!NoTracker
<1>7. Rewritten'
  <2>1. Loop!Reached' = committed + 1
    BY <1>1 DEF Loop!Reached
  <2> SUFFICES ASSUME NEW s \in 0..MaxSeq
               PROVE copies[s] - copies[s] =
                       IF committed < s /\ s < committed + 1 /\ s < from THEN 1 ELSE 0
    BY <1>1, <1>2, <1>4, <2>1 DEF Rewritten, Loop!SeqNo
  <2>2. ~(committed < s /\ s < committed + 1) /\ copies[s] \in Nat
    BY <1>3
  <2> QED
    BY <2>2
<1> QED
  BY <1>2, <1>5, <1>6, <1>7 DEF LoopInv

LEMMA LoopStutters == ASSUME LoopInv, UNCHANGED loopVars PROVE LoopInv'
<1>1. /\ UNCHANGED <<walNext, committed, shipNext, inSend, tracker, failFrom, began>>
      /\ UNCHANGED Loop!log
  BY DEF loopVars, Loop!log
<1>2. InOrder' /\ Top' = Top /\ copies' = copies /\ passed' = passed
  BY <1>1, LogStays DEF LoopInv
<1>3. Loop!Reached' = Loop!Reached
  BY <1>1 DEF Loop!Reached
<1>4. LoopTypes'
  BY <1>1, <1>2 DEF LoopInv, LoopTypes, Loop!SeqNo
<1>5. Tracked'
  BY <1>1, <1>2, <1>3 DEF LoopInv, Tracked, Loop!NoTracker
<1>6. Rewritten'
  BY <1>1, <1>2, <1>3 DEF LoopInv, Rewritten, Loop!SeqNo
<1> QED
  BY <1>2, <1>4, <1>5, <1>6 DEF LoopInv

LEMMA LoopStep == LoopInv /\ (Loop!Next \/ UNCHANGED loopVars) => LoopInv'
<1> SUFFICES ASSUME LoopInv, Loop!Next \/ UNCHANGED loopVars PROVE LoopInv'
  OBVIOUS
<1>1. CASE UNCHANGED loopVars
  BY <1>1, LoopStutters
<1>2. CASE Loop!AppendRecord
  BY <1>2, AppendRecordKeeps
<1>3. CASE Loop!Send
  <2>1. Loop!WriteFails \/ Loop!Write
    BY <1>3 DEF Loop!Send
  <2> QED
    BY <1>3, <2>1, WriteKeeps, WriteFailsKeeps
<1>4. CASE Loop!FlushAck
  BY <1>4, FlushAckKeeps
<1>5. ASSUME NEW late \in BOOLEAN, Loop!Take(late) PROVE LoopInv'
  BY <1>5, TakeKeeps
<1>6. ASSUME NEW from \in 0..(MaxSeq + 1), Loop!Restart(from) PROVE LoopInv'
  BY <1>6, LoopRestartKeeps
<1> QED
  BY <1>1, <1>2, <1>3, <1>4, <1>5, <1>6 DEF Loop!Next

LEMMA LoopInitially == Init => LoopInv
<1> SUFFICES ASSUME Loop!Init PROVE LoopInv
  BY DEF Init
<1> USE LoopNumbers
<1>1. /\ walNext = 0 /\ committed = -1 /\ shipNext = 0 /\ inSend = FALSE
      /\ tracker = Loop!NoTracker /\ failFrom \in 0..(MaxSeq + 1)
      /\ copies = [s \in 0..MaxSeq |-> 0] /\ began = [commit |-> -1, copies |-> copies]
      /\ win = [bootId |-> "none", lastSeen |-> -1, contiguous |-> -1, lost |-> 0, bits |-> {}]
      /\ base = -1 /\ passed = [s \in 0..MaxSeq |-> 0]
  BY DEF Loop!Init, Loop!Dedup!WindowInit, Loop!Dedup!NewWindow
<1>2. Top = -1 /\ win.bits = {} /\ began.commit = -1 /\ began.copies = copies
  BY <1>1 DEF Top
<1>3. LoopTypes
  <2>1. inSend \in BOOLEAN
    BY <1>1, Zenon
  <2> QED
    BY <1>1, <1>2, <2>1 DEF LoopTypes
<1>4. InOrder
  <2>1. win = [bootId |-> IF Top = -1 THEN "none" ELSE "boot", lastSeen |-> Top,
               contiguous |-> Top, lost |-> 0, bits |-> win.bits]
    BY <1>1, <1>2
  <2> QED
    BY <1>1, <1>2, <2>1 DEF InOrder
<1>5. Tracked
  BY <1>1, <1>2 DEF Tracked
<1>6. Rewritten
  <2>1. Loop!Reached = 0
    BY <1>1 DEF Loop!Reached
  <2> QED
    BY <1>1, <1>2, <2>1 DEF Rewritten
<1> QED
  BY <1>3, <1>4, <1>5, <1>6 DEF LoopInv

------------------------------------------------------------------------------
(* Loopback: what the invariant says.                                      *)

LEMMA ResentExactly == LoopInv => Loop!ResendsExact
<1> SUFFICES ASSUME LoopInv PROVE Loop!ResendsExact
  OBVIOUS
<1> USE LoopNumbers
<1>1. /\ Top \in -1..MaxSeq /\ win.bits \subseteq 0..(W - 1) /\ base = -1
      /\ win = [bootId |-> IF Top = -1 THEN "none" ELSE "boot", lastSeen |-> Top,
                contiguous |-> Top, lost |-> 0, bits |-> win.bits]
      /\ passed \in [0..MaxSeq -> Nat] /\ committed < shipNext /\ shipNext <= walNext
  BY DEF LoopInv, InOrder, LoopTypes
<1>2. Loop!Logged = 0..Top
  <2>1. \A s \in 0..MaxSeq : copies[s] > 0 <=> s <= Top
    BY DEF LoopInv, InOrder
  <2> QED
    BY <1>1, <2>1 DEF Loop!Logged
<1>3. Loop!Cardinality(Loop!Logged) = Top + 1
  <2>1. Loop!Cardinality(Loop!Logged) = Cardinality(Loop!Logged)
    BY DEF Loop!Cardinality, Cardinality
  <2>2. PICK n \in Nat : n = Top + 1
    BY <1>1
  <2>3. Cardinality(0..(0 + n - 1)) = n
    BY RunSize
  <2>4. 0 + n - 1 = Top
    BY <1>1, <2>2
  <2> QED
    BY <1>2, <2>1, <2>2, <2>3, <2>4
<1>4. Loop!Logged = 0..(Loop!Cardinality(Loop!Logged) - 1)
  <2>1. PICK c : c = Top + 1
    OBVIOUS
  <2>2. c - 1 = Top
    BY <1>1, <2>1
  <2>3. Loop!Cardinality(Loop!Logged) = c
    BY <1>3, <2>1, Zenon
  <2> QED
    BY <1>2, <2>2, <2>3, Zenon
<1>5. Loop!Dedup!WindowTypeOK
  <2>1. win \in [bootId : {"boot"} \cup {"none"}, lastSeen : -1..MaxSeq,
                contiguous : -1..MaxSeq, lost : Nat, bits : SUBSET (0..(W - 1))]
    <3>1. (IF Top = -1 THEN "none" ELSE "boot") \in {"boot"} \cup {"none"}
      OBVIOUS
    <3> QED
      BY <1>1, <3>1
  <2> QED
    BY <1>1, <2>1 DEF Loop!Dedup!WindowTypeOK
<1> QED
  BY <1>1, <1>4, <1>5 DEF LoopInv, Rewritten, Loop!ResendsExact

\* The log of the loopback harness never has a hole, and a process writes again exactly
\* what lies between the COMMIT it started from and the end of the log then, once,
\* wherever a write starts to fail and wherever the processes are killed.
THEOREM ResendsAreExact == Spec => []ResendsExact
<1>1. LoopInv /\ [Next]_<<subject, driverVars, loopVars, campaignVars, clipVars, series>> => LoopInv'
  BY LoopStep DEF Next
<1>2. LoopInv => ResendsExact
  BY ResentExactly DEF ResendsExact
<1> QED
  BY <1>1, <1>2, LoopInitially, PTL DEF Spec

\* An ack that is given is an acknowledgement of ExactlyOnce.
LEMMA AckImplements ==
  ASSUME LoopInv, tracker # Loop!NoTracker, NEW late \in BOOLEAN, Loop!Acknowledge(tracker, late),
         walNext' = walNext, UNCHANGED Loop!log
  PROVE  [Loop!Abstract!Next]_(Loop!Abstract!vars)
<1> USE LoopNumbers
<1>1. \/ committed' = committed
      \/ committed < tracker.ack /\ committed' = tracker.ack
  BY AckKeeps
<1>2. passed' = passed
  BY DEF Loop!log
<1>3. CASE committed' = committed
  BY <1>2, <1>3 DEF Loop!Abstract!vars
<1>4. CASE committed < tracker.ack /\ committed' = tracker.ack
  <2>1. /\ Top \in -1..MaxSeq /\ tracker.ack \in committed..Top /\ tracker.ack < Loop!Reached
        /\ committed \in -1..MaxSeq /\ walNext \in 0..(MaxSeq + 1) /\ shipNext \in Nat
        /\ shipNext <= walNext /\ (inSend => shipNext < walNext)
        /\ \A s \in 0..MaxSeq : passed[s] = IF s <= Top THEN 1 ELSE 0
    BY DEF LoopInv, LoopTypes, InOrder, Tracked
  <2>2. Loop!Reached <= walNext /\ Loop!Reached \in Int
    BY <2>1 DEF Loop!Reached
  <2>3. PICK a \in 0..MaxSeq : a = tracker.ack
    BY <1>4, <2>1
  <2>4. /\ committed < a /\ a < walNext /\ committed' = a
        /\ \A s \in 0..a : passed[s] = 1
    BY <1>4, <2>1, <2>2, <2>3
  <2>5. Loop!Abstract!Acknowledge(a)
    BY <1>2, <2>4 DEF Loop!Abstract!Acknowledge
  <2> QED
    BY <2>3, <2>5 DEF Loop!Abstract!Next, Loop!Abstract!SeqNo
<1> QED
  BY <1>1, <1>3, <1>4

\* Every step of the harness is one of ExactlyOnce or none.
LEMMA LoopImplements ==
  ASSUME LoopInv, Loop!Next \/ UNCHANGED loopVars
  PROVE  [Loop!Abstract!Next]_(Loop!Abstract!vars)
<1> USE LoopNumbers
<1>1. CASE UNCHANGED loopVars
  BY <1>1 DEF loopVars, Loop!Abstract!vars
<1>2. CASE Loop!AppendRecord
  <2>1. /\ walNext \in 0..MaxSeq /\ walNext' = walNext + 1 /\ committed' = committed
        /\ passed' = passed
    BY <1>2 DEF Loop!AppendRecord, Loop!log
  <2>2. Loop!Abstract!Issue(0)
    BY <2>1 DEF Loop!Abstract!Issue
  <2>3. 0 \in 0..(walNext + 1)
    BY <2>1
  <2> QED
    BY <2>2, <2>3 DEF Loop!Abstract!Next
<1>3. CASE Loop!Send
  <2>1. CASE Loop!WriteFails
    BY <1>3, <2>1 DEF Loop!Send, Loop!WriteFails, Loop!log, Loop!Abstract!vars
  <2>2. CASE Loop!Write
    <3>1. /\ walNext' = walNext /\ committed' = committed /\ ~inSend /\ shipNext < walNext
          /\ shipNext < failFrom /\ copies' = [copies EXCEPT ![shipNext] = @ + 1]
          /\ Loop!Dedup!ProcessElement("boot", shipNext)
      BY <1>3, <2>2 DEF Loop!Send, Loop!Write
    <3>2. /\ Loop!Opened(shipNext).ack \in committed..Top /\ Loop!Opened(shipNext).ack < shipNext
          /\ \/ Loop!Opened(shipNext).ack = shipNext - 1
             \/ failFrom <= Loop!Opened(shipNext).ack + 1
      BY <3>1, OpenedIs
    <3>3. /\ LoopTypes /\ InOrder /\ Top \in -1..MaxSeq /\ walNext \in 0..(MaxSeq + 1)
          /\ shipNext \in Nat /\ failFrom \in 0..(MaxSeq + 1) /\ committed \in -1..MaxSeq
      BY DEF LoopInv, LoopTypes, InOrder
    <3>4. PICK n \in Loop!SeqNo : n = shipNext
      BY <3>1, <3>3
    <3>5. n <= Top + 1
      BY <3>1, <3>2, <3>3, <3>4
    <3>6. Loop!Dedup!ProcessElement("boot", n) /\ copies' = [copies EXCEPT ![n] = @ + 1]
      BY <3>1, <3>4
    <3>7. \/ UNCHANGED passed
          \/ passed[n] = 0 /\ passed' = [passed EXCEPT ![n] = 1]
      BY <3>3, <3>5, <3>6, DedupTakes
    <3>8. CASE UNCHANGED passed
      BY <3>1, <3>8 DEF Loop!Abstract!vars
    <3>9. CASE passed[n] = 0 /\ passed' = [passed EXCEPT ![n] = 1]
      <4>1. Loop!Abstract!Deliver(n)
        BY <3>1, <3>4, <3>9 DEF Loop!Abstract!Deliver
      <4> QED
        BY <4>1 DEF Loop!Abstract!Next, Loop!Abstract!SeqNo
    <3> QED
      BY <3>7, <3>8, <3>9
  <2> QED
    BY <1>3, <2>1, <2>2 DEF Loop!Send
<1>4. CASE Loop!FlushAck
  <2>1. PICK late \in BOOLEAN : late = TRUE
    BY Zenon
  <2>2. tracker # Loop!NoTracker /\ walNext' = walNext /\ UNCHANGED Loop!log
    BY <1>4 DEF Loop!FlushAck
  <2>3. Loop!Acknowledge(tracker, late)
    BY <1>4, <2>1, Zenon DEF Loop!FlushAck
  <2> QED
    BY <2>2, <2>3, AckImplements
<1>5. ASSUME NEW late \in BOOLEAN, Loop!Take(late)
      PROVE  [Loop!Abstract!Next]_(Loop!Abstract!vars)
  <2>1. /\ Loop!Acknowledge(tracker, late) /\ walNext' = walNext /\ UNCHANGED Loop!log
        /\ tracker # Loop!NoTracker
    BY <1>5 DEF Loop!Take, LoopInv, Tracked
  <2> QED
    BY <2>1, AckImplements
<1>6. ASSUME NEW from \in 0..(MaxSeq + 1), Loop!Restart(from)
      PROVE  [Loop!Abstract!Next]_(Loop!Abstract!vars)
  BY <1>6 DEF Loop!Restart, Loop!disk, Loop!log, Loop!Abstract!vars
<1> QED
  BY <1>1, <1>2, <1>3, <1>4, <1>5, <1>6 DEF Loop!Next

\* The loopback harness implements ExactlyOnce, as the path it stands in for does: read
\* through SeqDedup its log holds each record once, and COMMIT covers only what it holds.
THEOREM HarnessImplementsExactlyOnce == Spec => ImplementsExactlyOnce
<1>1. Init => Loop!Abstract!Init
  BY DEF Init, Loop!Init, Loop!Abstract!Init, Loop!Dedup!WindowInit, Loop!None,
         Loop!Dedup!SeqNo, Loop!Abstract!SeqNo
<1>2. LoopInv /\ [Next]_<<subject, driverVars, loopVars, campaignVars, clipVars, series>>
        => LoopInv' /\ [Loop!Abstract!Next]_(Loop!Abstract!vars)
  BY LoopStep, LoopImplements DEF Next
<1> QED
  BY <1>1, <1>2, LoopInitially, PTL
     DEF Spec, ImplementsExactlyOnce, Loop!ImplementsExactlyOnce, Loop!Abstract!Spec
=============================================================================
