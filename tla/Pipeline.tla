------------------------------ MODULE Pipeline ------------------------------
(***************************************************************************)
(* The analysis of one supply_chain job: three agents read the weather and *)
(* the ERP in parallel (core/orchestrator.py), the aggregator derives      *)
(* alerts, the decision agent has the language model choose tools, which   *)
(* read everything again, asks it for a decision, and passes the           *)
(* checkpoint: with enough confidence the decision is learnt and ends the  *)
(* job, otherwise a human decides (sectors/supply_chain, core/tools.py,    *)
(* core/hitl.py, core/llm.py, core/erpuiux_connector.py, worker.py).       *)
(*                                                                         *)
(* Every agent works on a copy of the state, so the agents of one phase    *)
(* are one step; the sources may change between the two phases, and any of *)
(* them may be down.  An exception at any call has the whole analysis      *)
(* retried.  Overlapping writes of the job's record, the reviewer's answer *)
(* and the breaker of the weather service are in JobLifecycle, Hitl and    *)
(* CircuitBreaker.                                                         *)
(***************************************************************************)
EXTENDS Integers, FiniteSets

CONSTANTS
  Stocks,       \* actual_qty of the ERP's bin
  Sales,        \* total_qty sold in 30 days
  Forecasts,    \* [max_temp, rain_days] of the next 7 days
  Down,         \* a source that raises, times out or has no record
  NoOutput,     \* an agent that raised: its key is absent
  None,
  MaxRetries    \* max_retries of process_analysis_job, 2 in the code

ASSUME ConstantsAssumption ==
  /\ Stocks \subseteq Nat /\ Sales \subseteq Nat
  /\ Forecasts \subseteq [max_temp : Int, rain_days : 0..7]
  /\ Down \notin Stocks /\ Down \notin Sales /\ Down \notin Forecasts
  /\ NoOutput \notin [max_temp : Int, rain_days : 0..7, source : {"live", "fallback"}]
  /\ MaxRetries \in Nat

(* round(n / d)                                                            *)
Rounded(n, d) == (2 * n + d) \div (2 * d)

------------------------------------------------------------------------------
(* core/erpuiux_connector.py: errors are caught and become zeros.          *)

(* Mutant of StockQty: the default of the production agent's own fallback. *)
StockQtyAssumed(stock) == IF stock = Down THEN 1200 ELSE stock

StockQty(stock) == IF stock = Down THEN 0 ELSE stock

SoldQty(sold) == IF sold = Down THEN 0 ELSE sold

------------------------------------------------------------------------------
(* The agents, each with the output of another that it finds in its state. *)

(* run_weather_agent; it raises for a location that is not a string.       *)
WeatherAgent(location, forecast) ==
  IF location = "invalid" THEN NoOutput
  ELSE IF forecast = Down THEN [max_temp |-> 33, rain_days |-> 2, source |-> "fallback"]
  ELSE [max_temp |-> forecast.max_temp, rain_days |-> forecast.rain_days, source |-> "live"]

HeatWave(weather) == weather # NoOutput /\ weather.max_temp > 35

(* WEATHER_MULTIPLIERS, in hundredths                                      *)
Multiplier(weather) ==
  IF HeatWave(weather) THEN 140
  ELSE IF weather # NoOutput /\ weather.rain_days > 10 THEN 85
  ELSE 100

(* run_sales_agent: the forecast, and the daily average in hundredths.     *)
(* The ERP's zeros are not an exception, so the source is always live.     *)
SalesAgent(weather, sold) ==
  [adjusted |-> Rounded(SoldQty(sold) * Multiplier(weather), 100),
   daily |-> Rounded(100 * SoldQty(sold), 30), source |-> "live"]

DAILY_CAPACITY == 150
PACKAGING_STOCK == 5000
LEAD_TIME_DAYS == 5

(* run_production_agent: days in tenths, units a day in hundredths, 30 a    *)
(* day without a forecast                                                  *)
ProductionAgent(sales, stock) ==
  LET demand == IF sales = NoOutput THEN 3000 ELSE IF sales.daily = 0 THEN 3000 ELSE sales.daily
      Days(qty) == Rounded(1000 * qty, demand)
  IN  [days_of_stock |-> Days(StockQty(stock)),
       days_of_packaging |-> Days(PACKAGING_STOCK),
       capacity_gap |-> 100 * DAILY_CAPACITY - demand,
       source |-> "live"]

ReorderNeeded(production) == production.days_of_packaging < 10 * LEAD_TIME_DAYS
CanMeetDemand(production) == production.capacity_gap >= 0

(* aggregate: alerts, urgency and fallback data                            *)
Alerts(weather, production) ==
  {a \in {"STOCK_CRITICAL", "STOCK_LOW", "REORDER_PACKAGING_NOW",
          "CAPACITY_INSUFFICIENT", "HEAT_WAVE_DEMAND_SURGE"} :
     \/ a = "STOCK_CRITICAL" /\ production.days_of_stock < 50
     \/ a = "STOCK_LOW" /\ production.days_of_stock \in 50..99
     \/ a = "REORDER_PACKAGING_NOW" /\ ReorderNeeded(production)
     \/ a = "CAPACITY_INSUFFICIENT" /\ ~CanMeetDemand(production)
     \/ a = "HEAT_WAVE_DEMAND_SURGE" /\ HeatWave(weather)}

Urgency(alerts) ==
  IF alerts \cap {"STOCK_CRITICAL", "REORDER_PACKAGING_NOW", "CAPACITY_INSUFFICIENT"} # {} THEN "HIGH"
  ELSE IF "STOCK_LOW" \in alerts THEN "MEDIUM" ELSE "LOW"

FallbackUsed(outputs) ==
  \E o \in {outputs.weather, outputs.sales, outputs.production} :
    o # NoOutput /\ o.source = "fallback"

Aggregated(outputs) ==
  LET alerts == Alerts(outputs.weather, outputs.production)
  IN  [alerts |-> alerts, urgency |-> Urgency(alerts),
       source |-> IF FallbackUsed(outputs) THEN "fallback" ELSE "live"]

Minus(percent, condition) == IF condition THEN percent ELSE 0

(* evaluate_confidence, in percent                                         *)
Confidence(insights) ==
  100 - Minus(30, "STOCK_CRITICAL" \in insights.alerts)
      - Minus(25, "CAPACITY_INSUFFICIENT" \in insights.alerts)
      - Minus(20, insights.urgency = "HIGH" /\ Cardinality(insights.alerts) >= 3)
      - Minus(25, insights.source = "fallback")

(* HITL_CONFIDENCE_THRESHOLD                                               *)
RequiresHuman(insights) == Confidence(insights) < 80

------------------------------------------------------------------------------
VARIABLES
  location,    \* of the request: "valid" or "invalid"
  place,       \* where the worker is
  outputs,     \* state["agent_outputs"] of the three agents
  insights,    \* state["aggregated_insights"]
  text,        \* decision_text: "model", or "static" if no model answers
  final,       \* state["final_decision"]
  status,      \* the job's status
  decision,    \* final_decision in the result of the job's record
  resume,      \* the resume_hitl_job messages: attempt and decision
  rows, memory,     \* attempts whose decision is in decision_memory; the last
                    \* decision: attempt and forecast
  attempt,     \* 0, or the number of retries
  read, reviewed    \* history: what phase 1 has read; attempts left to a human

learnt == <<rows, memory>>
job == <<status, decision>>
vars == <<location, place, outputs, insights, text, final, job, resume, learnt,
          attempt, read, reviewed>>

Agents == {"weather", "sales", "production"}
NoOutputs == [a \in Agents |-> NoOutput]
NoInsights == [alerts |-> {}, urgency |-> "LOW", source |-> "live"]
Readings == [stock : Stocks \cup {Down}, sold : Sales \cup {Down}, forecast : Forecasts \cup {Down}]

(* An agent, as a tool or in parallel, runs on a copy of the state without *)
(* outputs, so it finds none of the others'.                               *)
RunAgent(a, r) ==
  CASE a = "weather" -> WeatherAgent(location, r.forecast)
    [] a = "sales" -> SalesAgent(NoOutput, r.sold)
    [] a = "production" -> ProductionAgent(NoOutput, r.stock)

(* _select_tools: any agents, or none if the model names rag_tool alone.   *)
Selections == SUBSET Agents

TypeOK ==
  /\ location \in {"valid", "invalid"}
  /\ place \in {"collect", "aggregate", "tools", "decide", "checkpoint", "row", "memory",
                "finish", "webhook", "mark", "partial", "schedule", "mapping",
                "over", "retry", "failed"}
  /\ insights.source \in {"live", "fallback"}
  /\ text \in {"none", "model", "static"}
  /\ {final, decision} \subseteq {None, "model", "static", "error", "rejection"}
  /\ status \in {"running", "pending_human", "done", "rejected", "error"}
  /\ rows \subseteq 0..attempt /\ reviewed \subseteq 0..attempt
  /\ attempt \in 0..MaxRetries
  /\ read = None \/ read \in Readings

Init ==
  /\ location \in {"valid", "invalid"}
  /\ place = "collect" /\ outputs = NoOutputs /\ insights = NoInsights
  /\ text = "none" /\ final = None
  /\ status = "running" /\ decision = None /\ resume = {}
  /\ rows = {} /\ memory = None
  /\ attempt = 0 /\ read = None /\ reviewed = {}

GoesTo(from, to) == place = from /\ place' = to

(* make_parallel_node: each agent gets a copy of the empty state, and what *)
(* raised leaves no output.                                                *)
Collect ==
  /\ GoesTo("collect", "aggregate")
  /\ \E r \in Readings : read' = r /\ outputs' = [a \in Agents |-> RunAgent(a, r)]
  /\ UNCHANGED <<location, insights, text, final, job, resume, learnt, attempt, reviewed>>

Aggregate ==
  /\ GoesTo("aggregate", "tools")
  /\ insights' = Aggregated(outputs)
  /\ UNCHANGED <<location, outputs, text, final, job, resume, learnt, attempt, read, reviewed>>

(* run_tools_parallel: what the chosen tools return replaces the outputs;  *)
(* one that raised leaves them alone.  The insights stay those of the      *)
(* first readings.                                                         *)
RunTools ==
  /\ GoesTo("tools", "decide")
  /\ \E tools \in Selections, r \in Readings :
       outputs' = [a \in Agents |->
                     IF a \in tools /\ RunAgent(a, r) # NoOutput THEN RunAgent(a, r) ELSE outputs[a]]
  /\ UNCHANGED <<location, insights, text, final, job, resume, learnt, attempt, read, reviewed>>

(* call_llm: a text of one of three models, or else a static one           *)
CallLLM ==
  /\ GoesTo("decide", "checkpoint")
  /\ text' \in {"model", "static"}
  /\ UNCHANGED <<location, outputs, insights, final, job, resume, learnt, attempt, read, reviewed>>

(* The client cannot be built: the analysis ends in error, with a result.  *)
LLMRaises ==
  /\ GoesTo("decide", "finish")
  /\ final' = "error"
  /\ UNCHANGED <<location, outputs, insights, text, job, resume, learnt, attempt, read, reviewed>>

(* hitl_checkpoint, approved at once                                       *)
Approve ==
  /\ GoesTo("checkpoint", "row")
  /\ ~RequiresHuman(insights)
  /\ final' = text
  /\ UNCHANGED <<location, outputs, insights, text, job, resume, learnt, attempt, read, reviewed>>

(* Mutant of Ask: the decision is remembered before it is reviewed.        *)
AskAndRemember ==
  /\ GoesTo("checkpoint", "mark")
  /\ RequiresHuman(insights)
  /\ reviewed' = reviewed \cup {attempt}
  /\ memory' = [attempt |-> attempt, forecast |-> outputs.sales.adjusted]
  /\ UNCHANGED <<location, outputs, insights, text, final, job, resume, rows, attempt, read>>

(* request_human_validation: SETEX of the request, which is sent to the    *)
(* reviewer; state["final_decision"] stays None.                           *)
Ask ==
  /\ GoesTo("checkpoint", "mark")
  /\ RequiresHuman(insights)
  /\ reviewed' = reviewed \cup {attempt}
  /\ UNCHANGED <<location, outputs, insights, text, final, job, resume, learnt, attempt, read>>

(* update_job(PENDING_HUMAN)                                               *)
MarkPending ==
  /\ GoesTo("mark", "partial")
  /\ status' = "pending_human"
  /\ UNCHANGED <<location, outputs, insights, text, final, decision, resume, learnt, attempt,
                 read, reviewed>>

(* update_job(PENDING_HUMAN, result): a partial result, with no decision   *)
StorePartial ==
  /\ GoesTo("partial", "schedule")
  /\ status' = "pending_human" /\ decision' = None
  /\ UNCHANGED <<location, outputs, insights, text, final, resume, learnt, attempt, read, reviewed>>

(* Mutant of Schedule: the resumption is not scheduled.                    *)
ScheduleNothing ==
  /\ GoesTo("schedule", "mapping")
  /\ UNCHANGED <<location, outputs, insights, text, final, job, resume, learnt, attempt, read,
                 reviewed>>

(* resume_hitl_job.apply_async, with result["final_decision"]              *)
Schedule ==
  /\ GoesTo("schedule", "mapping")
  /\ resume' = resume \cup {[attempt |-> attempt, decision |-> final]}
  /\ UNCHANGED <<location, outputs, insights, text, final, job, learnt, attempt, read, reviewed>>

(* SETEX hitl:job:<job_id>, or the webhook of a finished job: a call more  *)
(* that may fail.                                                          *)
LastCall ==
  /\ GoesTo("mapping", "over") \/ GoesTo("webhook", "over")
  /\ UNCHANGED <<location, outputs, insights, text, final, job, resume, learnt, attempt, read,
                 reviewed>>

(* store_decision_vector, best effort                                      *)
StoreVector ==
  /\ GoesTo("row", "memory")
  /\ rows' \in {rows, rows \cup {attempt}}
  /\ UNCHANGED <<location, outputs, insights, text, final, job, resume, memory, attempt, read, reviewed>>

(* save_decision_memory(recommendation=sales)                              *)
SaveMemory ==
  /\ GoesTo("memory", "finish")
  /\ memory' = [attempt |-> attempt, forecast |-> outputs.sales.adjusted]
  /\ UNCHANGED <<location, outputs, insights, text, final, job, resume, rows, attempt, read, reviewed>>

(* update_job(DONE, result), or ERROR with the result of an analysis that  *)
(* ended in error                                                          *)
FinishJob ==
  /\ GoesTo("finish", "webhook")
  /\ status' = IF final = "error" THEN "error" ELSE "done"
  /\ decision' = final
  /\ UNCHANGED <<location, outputs, insights, text, final, resume, learnt, attempt, read, reviewed>>

(* An exception (Redis, the broker, the graph): ERROR, and a retry as long *)
(* as there are any left; the soft time limit has none.                    *)
Fail ==
  /\ place \notin {"over", "retry", "failed"}
  /\ status' = "error"
  /\ place' \in IF attempt < MaxRetries THEN {"retry", "failed"} ELSE {"failed"}
  /\ outputs' = NoOutputs /\ insights' = NoInsights
  /\ text' = "none" /\ final' = None /\ read' = None
  /\ UNCHANGED <<location, decision, resume, learnt, attempt, reviewed>>

(* The retry is received: RUNNING, and from the beginning.                 *)
Retry ==
  /\ GoesTo("retry", "collect")
  /\ attempt' = attempt + 1
  /\ status' = "running"
  /\ UNCHANGED <<location, outputs, insights, text, final, decision, resume, learnt, read, reviewed>>

(* resume_hitl_job with the reviewer's verdict or the fallback: it looks   *)
(* neither at the job's status nor for the attempt that scheduled it, and  *)
(* its result replaces what is there.                                      *)
Resume(m) ==
  /\ m \in resume /\ resume' = resume \ {m}
  /\ \/ status' = "done" /\ decision' = m.decision
     \/ status' = "rejected" /\ decision' = "rejection"
  /\ UNCHANGED <<location, place, outputs, insights, text, final, learnt, attempt, read, reviewed>>

Step ==
  \/ Collect \/ Aggregate \/ RunTools \/ CallLLM \/ LLMRaises
  \/ Approve \/ StoreVector \/ SaveMemory \/ FinishJob
  \/ Ask \/ MarkPending \/ StorePartial \/ Schedule \/ LastCall \/ Retry
  \/ \E m \in resume : Resume(m)

Next == Step \/ Fail

Spec == Init /\ [][Next]_vars

(* The worker goes on: every source has a timeout of its own, the job has  *)
(* one of 300 seconds, and the resumption is due after its countdown.      *)
FairSpec == Spec /\ WF_vars(Step)

------------------------------------------------------------------------------
Asked == {"mark", "partial", "schedule", "mapping"}
Approved == {"row", "memory"}

(* Which analyses a human sees, by the sources and not by the flags the    *)
(* four modules in between hand on: those for which the weather service    *)
(* or the stock could not be read, or the stock lasts less than 4.95 days  *)
(* (days are rounded) of 30 units.  Nothing else the first readings can be *)
(* leads to a review, and nothing the tools read afterwards.               *)
ReviewIffDoubtful ==
  place \in Asked \cup Approved =>
    (place \in Asked <=>
       \/ location = "valid" /\ read.forecast = Down
       \/ read.stock = Down
       \/ 20 * read.stock < 99 * 30)

(* Of an attempt that was left to a human nothing is learnt, and a job     *)
(* that is done with a decision in its record has learnt that one: the     *)
(* forecast it was made with is the last decision to compare outcomes      *)
(* with.  However many attempts failed before, whatever they had stored,   *)
(* and whichever of their resumptions are still to come.                   *)
LearntIffApproved ==
  /\ reviewed \cap rows = {}
  /\ memory # None => memory.attempt \notin reviewed
  /\ status = "done" /\ decision # None =>
       /\ decision = text /\ text \in {"model", "static"}
       /\ memory = [attempt |-> attempt, forecast |-> outputs.sales.adjusted]

(* Every analysis ends, with a decision, a rejection or an error.          *)
AnalysisEnds == <>[](status \in {"done", "rejected", "error"})

------------------------------------------------------------------------------
(* Statements of the repository's texts that the code does not keep.       *)

(* worker.py: "Store full result snapshot so resume_hitl_job can finalise":*)
(* an approved review ends with the decision that was reviewed.            *)
ApprovedReviewKeepsDecision ==
  place = "over" /\ status = "done" /\ attempt \in reviewed => decision = text

(* ARCHITECTURE.md: "confidence >= 0.80 -> auto-approve -> job DONE", for  *)
(* an analysis whose worker came to its end without an error.              *)
AutoApprovedIsDone ==
  place = "over" /\ final \in {"model", "static"} => status = "done" /\ decision = final
=============================================================================
