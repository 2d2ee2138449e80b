-------------------------- MODULE Pipeline_proofs --------------------------
(***************************************************************************)
(* For any stocks, sales, forecasts and number of retries: the analyses a  *)
(* human sees are those with doubtful sources, and what is learnt is what  *)
(* was approved.                                                           *)
(***************************************************************************)
EXTENDS Pipeline, TLAPS

(* The sources for which ReviewIffDoubtful asks for a review.              *)
Doubtful(r) ==
  \/ location = "valid" /\ r.forecast = Down
  \/ r.stock = Down
  \/ 20 * r.stock < 99 * 30

BeforeCheckpoint == {"collect", "aggregate", "tools", "decide", "checkpoint"}
Ending == {"finish", "webhook"}
Stopped == {"over", "retry", "failed"}

Control ==
  /\ location \in {"valid", "invalid"}
  /\ place \in BeforeCheckpoint \cup Approved \cup Ending \cup Asked \cup Stopped
  /\ attempt \in Nat
  /\ place \in BeforeCheckpoint \cup Approved => attempt \notin reviewed
  /\ place \in Asked => attempt \in reviewed

(* What is known of the first readings, from place to place.               *)
ReadingsDecide ==
  /\ place \in BeforeCheckpoint \ {"collect"} => read \in Readings
  /\ place = "aggregate" => outputs = [a \in Agents |-> RunAgent(a, read)]
  /\ place \in {"tools", "decide", "checkpoint"} => (RequiresHuman(insights) <=> Doubtful(read))
  /\ ReviewIffDoubtful

(* The decisions a resumption brings into a record: none, so what a done   *)
(* job has in its record is what the worker has put there.                 *)
NothingIsResumed ==
  /\ \A m \in resume : m.decision = None
  /\ place \in BeforeCheckpoint \cup Asked \cup {"retry"} => final = None

(* What the worker holds of an approved decision.                          *)
Decided ==
  /\ place = "checkpoint" => text \in {"model", "static"}
  /\ place \in Approved => final = text /\ text \in {"model", "static"}
  /\ place = "finish" /\ final # "error" =>
       /\ final = text /\ text \in {"model", "static"}
       /\ memory = [attempt |-> attempt, forecast |-> outputs.sales.adjusted]
  /\ status = "done" /\ decision # None => place \in {"webhook", "over"}

(* An attempt stores nothing before it is approved, and nothing later.     *)
OnlyApprovedIsStored ==
  /\ rows \subseteq 0..attempt /\ reviewed \subseteq 0..attempt
  /\ memory # None => memory.attempt \in 0..attempt
  /\ place \in BeforeCheckpoint =>
       attempt \notin rows /\ (memory # None => memory.attempt # attempt)
  /\ LearntIffApproved

IInv == Control /\ ReadingsDecide /\ NothingIsResumed /\ Decided /\ OnlyApprovedIsStored

------------------------------------------------------------------------------
(* What the agents, the aggregator and the checkpoint compute              *)

(* Without a forecast of the sales agent the stock is divided by 30 units  *)
(* a day, and neither packaging nor capacity raises an alert.              *)
LEMMA ProductionWithoutSales ==
  ASSUME NEW stock \in Nat \cup {Down}
  PROVE  LET production == ProductionAgent(NoOutput, stock)
         IN  /\ production.days_of_stock < 50 <=> stock = Down \/ 20 * stock < 99 * 30
             /\ ~ReorderNeeded(production)
             /\ CanMeetDemand(production)
             /\ production.source = "live"
<1> DEFINE production == ProductionAgent(NoOutput, stock)
<1>1. /\ production.days_of_stock = (2 * (1000 * StockQty(stock)) + 3000) \div (2 * 3000)
      /\ production.days_of_packaging = (2 * (1000 * PACKAGING_STOCK) + 3000) \div (2 * 3000)
      /\ production.capacity_gap = 100 * DAILY_CAPACITY - 3000
      /\ production.source = "live"
  BY DEF ProductionAgent, Rounded
<1>2. production.days_of_stock < 50 <=> stock = Down \/ 20 * stock < 99 * 30
  <2>1. (2 * (1000 * 0) + 3000) \div (2 * 3000) < 50
    OBVIOUS
  <2>2. ASSUME stock \in Nat
        PROVE  (2 * (1000 * stock) + 3000) \div (2 * 3000) < 50 <=> 20 * stock < 99 * 30
    BY <2>2
  <2>3. CASE stock = Down
    BY <1>1, <2>1, <2>3 DEF StockQty
  <2>4. CASE stock # Down
    BY <1>1, <2>2, <2>4 DEF StockQty
  <2> QED
    BY <2>3, <2>4
<1>3. ~ReorderNeeded(production) /\ CanMeetDemand(production)
  BY <1>1 DEF ReorderNeeded, CanMeetDemand, DAILY_CAPACITY, PACKAGING_STOCK, LEAD_TIME_DAYS
<1> QED
  BY <1>1, <1>2, <1>3

(* Only a weather agent that falls back marks its output.                  *)
LEMMA FallbackIsWeather ==
  ASSUME NEW r \in Readings, location \in {"valid", "invalid"}
  PROVE  FallbackUsed([a \in Agents |-> RunAgent(a, r)])
           <=> location = "valid" /\ r.forecast = Down
<1> DEFINE weather == WeatherAgent(location, r.forecast)
           sales == SalesAgent(NoOutput, r.sold)
           production == ProductionAgent(NoOutput, r.stock)
           first == [a \in Agents |-> RunAgent(a, r)]
<1>1. first.weather = weather /\ first.sales = sales /\ first.production = production
  BY DEF Agents, RunAgent
<1>2. sales.source = "live" /\ production.source = "live"
  BY DEF SalesAgent, ProductionAgent
<1>3. weather # NoOutput /\ weather.source = "fallback" <=> location = "valid" /\ r.forecast = Down
  <2>1. CASE location = "invalid"
    BY <2>1 DEF WeatherAgent
  <2>2. CASE location = "valid" /\ r.forecast = Down
    <3>1. weather = [max_temp |-> 33, rain_days |-> 2, source |-> "fallback"]
      BY <2>2 DEF WeatherAgent
    <3> QED
      BY <2>2, <3>1, ConstantsAssumption
  <2>3. CASE location = "valid" /\ r.forecast # Down
    BY <2>3 DEF WeatherAgent
  <2> QED
    BY <2>1, <2>2, <2>3
<1> QED
  BY <1>1, <1>2, <1>3 DEF FallbackUsed

(* A human is asked after the first readings just when they are doubtful.  *)
LEMMA ReviewOfReadings ==
  ASSUME NEW r \in Readings, location \in {"valid", "invalid"}
  PROVE  RequiresHuman(Aggregated([a \in Agents |-> RunAgent(a, r)])) <=> Doubtful(r)
<1> DEFINE first == [a \in Agents |-> RunAgent(a, r)]
           production == ProductionAgent(NoOutput, r.stock)
           alerts == Alerts(first.weather, production)
           found == Aggregated(first)
<1>1. first.production = production
  BY DEF Agents, RunAgent
<1>2. found = [alerts |-> alerts, urgency |-> Urgency(alerts),
               source |-> IF FallbackUsed(first) THEN "fallback" ELSE "live"]
  BY <1>1 DEF Aggregated
<1>3. r.stock \in Nat \cup {Down}
  BY ConstantsAssumption DEF Readings
<1>4. /\ "STOCK_CRITICAL" \in alerts <=> r.stock = Down \/ 20 * r.stock < 99 * 30
      /\ "REORDER_PACKAGING_NOW" \notin alerts
      /\ "CAPACITY_INSUFFICIENT" \notin alerts
  BY <1>3, ProductionWithoutSales DEF Alerts
<1>5. "STOCK_CRITICAL" \notin alerts => Urgency(alerts) # "HIGH"
  BY <1>4 DEF Urgency
<1>6. found.source = "fallback" <=> location = "valid" /\ r.forecast = Down
  BY <1>2, FallbackIsWeather
<1>7. found.alerts = alerts /\ found.urgency = Urgency(alerts)
  BY <1>2
<1>8. CASE "STOCK_CRITICAL" \in alerts
  BY <1>4, <1>7, <1>8 DEF RequiresHuman, Confidence, Minus, Doubtful
<1>9. CASE "STOCK_CRITICAL" \notin alerts
  BY <1>4, <1>5, <1>6, <1>7, <1>9 DEF RequiresHuman, Confidence, Minus, Doubtful
<1> QED
  BY <1>8, <1>9

------------------------------------------------------------------------------
(* The invariant                                                           *)

LEMMA InitIsSound == Init => IInv
BY DEF Init, IInv, Control, ReadingsDecide, NothingIsResumed, Decided, OnlyApprovedIsStored,
       ReviewIffDoubtful, LearntIffApproved, BeforeCheckpoint, Approved, Asked, Ending, Stopped

LEMMA StepKeepsControl ==
  ASSUME IInv, [Next]_vars
  PROVE  Control'
<1> USE DEF IInv, Control, BeforeCheckpoint, Approved, Asked, Ending, Stopped, GoesTo
<1>1. CASE UNCHANGED vars
  BY <1>1 DEF vars
<1>2. CASE Collect \/ Aggregate \/ RunTools \/ CallLLM \/ LLMRaises \/ Approve
  BY <1>2 DEF Collect, Aggregate, RunTools, CallLLM, LLMRaises, Approve
<1>3. CASE StoreVector \/ SaveMemory \/ FinishJob
  BY <1>3 DEF StoreVector, SaveMemory, FinishJob
<1>4. CASE Ask
  BY <1>4 DEF Ask
<1>5. CASE MarkPending \/ StorePartial \/ Schedule \/ LastCall
  BY <1>5 DEF MarkPending, StorePartial, Schedule, LastCall
<1>6. CASE Fail
  BY <1>6 DEF Fail
<1>7. CASE Retry
  <2>1. attempt + 1 \notin reviewed
    BY DEF OnlyApprovedIsStored
  <2> QED
    BY <1>7, <2>1 DEF Retry
<1>8. CASE \E m \in resume : Resume(m)
  BY <1>8 DEF Resume
<1> QED
  BY <1>1, <1>2, <1>3, <1>4, <1>5, <1>6, <1>7, <1>8 DEF Next, Step

LEMMA StepKeepsReadings ==
  ASSUME IInv, [Next]_vars
  PROVE  ReadingsDecide'
<1> USE DEF IInv, Control, ReadingsDecide, BeforeCheckpoint, Approved, Asked, Ending, Stopped,
            GoesTo, ReviewIffDoubtful, Doubtful
<1>1. CASE UNCHANGED vars
  BY <1>1 DEF vars, RunAgent
<1>2. CASE Collect
  <2>1. PICK r \in Readings : read' = r /\ outputs' = [a \in Agents |-> RunAgent(a, r)]
    BY <1>2 DEF Collect
  <2> QED
    BY <1>2, <2>1 DEF Collect, RunAgent
<1>3. CASE Aggregate
  BY <1>3, ReviewOfReadings DEF Aggregate
<1>4. CASE RunTools \/ CallLLM
  BY <1>4 DEF RunTools, CallLLM
<1>5. CASE LLMRaises
  BY <1>5 DEF LLMRaises
<1>6. CASE Approve \/ StoreVector \/ SaveMemory
  BY <1>6 DEF Approve, StoreVector, SaveMemory
<1>7. CASE FinishJob
  BY <1>7 DEF FinishJob
<1>8. CASE Ask
  BY <1>8 DEF Ask
<1>9. CASE MarkPending \/ StorePartial \/ Schedule \/ LastCall
  BY <1>9 DEF MarkPending, StorePartial, Schedule, LastCall
<1>10. CASE Fail \/ Retry
  BY <1>10 DEF Fail, Retry
<1>11. CASE \E m \in resume : Resume(m)
  BY <1>11 DEF Resume, RunAgent
<1> QED
  BY <1>1, <1>2, <1>3, <1>4, <1>5, <1>6, <1>7, <1>8, <1>9, <1>10, <1>11 DEF Next, Step

LEMMA StepKeepsResumptions ==
  ASSUME IInv, [Next]_vars
  PROVE  NothingIsResumed'
<1> USE DEF IInv, NothingIsResumed, BeforeCheckpoint, Asked, GoesTo
<1>1. CASE UNCHANGED vars
  BY <1>1 DEF vars
<1>2. CASE Collect \/ Aggregate \/ RunTools \/ CallLLM \/ LLMRaises \/ Approve
  BY <1>2 DEF Collect, Aggregate, RunTools, CallLLM, LLMRaises, Approve
<1>3. CASE StoreVector \/ SaveMemory \/ FinishJob
  BY <1>3 DEF StoreVector, SaveMemory, FinishJob
<1>4. CASE Ask \/ MarkPending \/ StorePartial \/ LastCall
  BY <1>4 DEF Ask, MarkPending, StorePartial, LastCall
<1>5. CASE Schedule
  BY <1>5 DEF Schedule
<1>6. CASE Fail
  BY <1>6 DEF Fail
<1>7. CASE Retry
  BY <1>7 DEF Retry, Control
<1>8. CASE \E m \in resume : Resume(m)
  BY <1>8 DEF Resume
<1> QED
  BY <1>1, <1>2, <1>3, <1>4, <1>5, <1>6, <1>7, <1>8 DEF Next, Step

LEMMA StepKeepsDecided ==
  ASSUME IInv, [Next]_vars
  PROVE  Decided'
<1> USE DEF IInv, Decided, Approved, GoesTo, job, learnt
<1>1. CASE UNCHANGED vars
  BY <1>1 DEF vars
<1>2. CASE Collect \/ Aggregate \/ RunTools \/ CallLLM
  BY <1>2 DEF Collect, Aggregate, RunTools, CallLLM
<1>3. CASE LLMRaises \/ Approve
  BY <1>3 DEF LLMRaises, Approve
<1>4. CASE StoreVector \/ SaveMemory
  BY <1>4 DEF StoreVector, SaveMemory
<1>5. CASE FinishJob
  BY <1>5 DEF FinishJob
<1>6. CASE Ask \/ MarkPending \/ StorePartial \/ Schedule \/ LastCall
  BY <1>6 DEF Ask, MarkPending, StorePartial, Schedule, LastCall
<1>7. CASE Fail
  BY <1>7 DEF Fail
<1>8. CASE Retry
  BY <1>8 DEF Retry
<1>9. CASE \E m \in resume : Resume(m)
  BY <1>9 DEF Resume, NothingIsResumed
<1> QED
  BY <1>1, <1>2, <1>3, <1>4, <1>5, <1>6, <1>7, <1>8, <1>9 DEF Next, Step

LEMMA StepKeepsStored ==
  ASSUME IInv, [Next]_vars
  PROVE  OnlyApprovedIsStored'
<1> USE DEF IInv, Control, OnlyApprovedIsStored, Decided, BeforeCheckpoint, Approved, Asked,
            GoesTo, job, learnt, LearntIffApproved
<1>1. CASE UNCHANGED vars
  BY <1>1 DEF vars
<1>2. CASE Collect \/ Aggregate \/ RunTools \/ CallLLM
  BY <1>2 DEF Collect, Aggregate, RunTools, CallLLM
<1>3. CASE LLMRaises
  BY <1>3 DEF LLMRaises
<1>4. CASE Approve
  BY <1>4 DEF Approve
<1>5. CASE StoreVector
  BY <1>5 DEF StoreVector
<1>6. CASE SaveMemory
  BY <1>6 DEF SaveMemory
<1>7. CASE FinishJob
  BY <1>7 DEF FinishJob
<1>8. CASE Ask
  <2>1. /\ place = "checkpoint" /\ place' = "mark"
        /\ reviewed' = reviewed \cup {attempt}
        /\ UNCHANGED <<status, decision, outputs, text, attempt, rows, memory>>
    BY <1>8 DEF Ask
  <2>2. attempt \notin rows /\ (memory # None => memory.attempt # attempt)
    BY <2>1
  <2>3. reviewed' \cap rows' = {}
    BY <2>1, <2>2
  <2>4. reviewed' \subseteq 0..attempt'
    <3>1. attempt \in 0..attempt /\ reviewed \subseteq 0..attempt
      OBVIOUS
    <3> HIDE DEF IInv
    <3> QED
      BY <2>1, <3>1
  <2> QED
    BY <2>1, <2>2, <2>3, <2>4
<1>9. CASE MarkPending \/ StorePartial \/ Schedule \/ LastCall
  BY <1>9 DEF MarkPending, StorePartial, Schedule, LastCall
<1>10. CASE Fail
  BY <1>10 DEF Fail
<1>11. CASE Retry
  BY <1>11 DEF Retry
<1>12. CASE \E m \in resume : Resume(m)
  BY <1>12 DEF Resume, NothingIsResumed
<1> QED
  BY <1>1, <1>2, <1>3, <1>4, <1>5, <1>6, <1>7, <1>8, <1>9, <1>10, <1>11, <1>12 DEF Next, Step

(* IInv holds in every reachable state.                                    *)
LEMMA AlwaysSound == Spec => []IInv
<1>1. IInv /\ [Next]_vars => IInv'
  BY StepKeepsControl, StepKeepsReadings, StepKeepsResumptions, StepKeepsDecided,
     StepKeepsStored DEF IInv
<1> QED
  BY <1>1, InitIsSound, PTL DEF Spec

(* Whatever stocks, sales and weather the sources return and whichever of  *)
(* them fail, hitl_checkpoint leaves to a human just the analyses whose    *)
(* first readings are doubtful.                                            *)
THEOREM DoubtfulAnalysesAreReviewed == Spec => []ReviewIffDoubtful
<1>1. IInv => ReviewIffDoubtful
  BY DEF IInv, ReadingsDecide
<1> QED
  BY <1>1, AlwaysSound, PTL

(* However often an analysis is retried, and whichever resumptions of      *)
(* earlier attempts are pending, run_decision_agent leaves in the two      *)
(* memories nothing that was left to a human, and a job that is done with  *)
(* a decision in its record has it in the memory too.                      *)
THEOREM ApprovedDecisionsAreLearnt == Spec => []LearntIffApproved
<1>1. IInv => LearntIffApproved
  BY DEF IInv, OnlyApprovedIsStored
<1> QED
  BY <1>1, AlwaysSound, PTL
=============================================================================
