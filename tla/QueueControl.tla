---------------------------- MODULE QueueControl ----------------------------
(***************************************************************************)
(* Backpressure: the counters queue:global:depth and queue:tenant:<t>:depth *)
(* of core/queue_control.py, the POST /analyze handlers that check and     *)
(* increment them (api/main.py) and the workers that decrement them in the *)
(* finally block of process_analysis_job (worker.py).  Each Redis command  *)
(* is a step; a counter is checked long before it is incremented, and read *)
(* before it is decremented.                                               *)
(*                                                                         *)
(* Jobs appear as messages only: what an attempt does to its record and    *)
(* its lock is in JobLifecycle.  An attempt that fails is retried or not;  *)
(* the number of retries of one job is counted there, not here.            *)
(***************************************************************************)
EXTENDS Integers, FiniteSets

CONSTANTS
  Tenants, Handlers, Workers, NoTenant,
  MaxQueue,        \* MAX_QUEUE_SIZE, 100 in the code
  MaxTenantQueue,  \* MAX_TENANT_QUEUE, 10 in the code
  MaxRequests,     \* bound: requests that pass the global check
  MaxRetries,      \* bound: retries of all jobs, automatic ones and requested ones
  MaxFaults        \* bound: requests and tasks that do not end

ASSUME TenantsAssumption == NoTenant \notin Tenants

ASSUME FiniteProcesses ==
  /\ IsFiniteSet(Handlers) /\ Handlers # {}
  /\ IsFiniteSet(Workers) /\ Workers # {}

ASSUME LimitsAssumption == MaxQueue \in Nat \ {0} /\ MaxTenantQueue \in Nat \ {0}

ASSUME BoundsAssumption ==
  /\ MaxRequests \in Nat
  /\ MaxRetries \in Nat
  /\ MaxFaults \in Nat

VARIABLES
  globalDepth,   \* queue:global:depth, 0 if absent
  tenantDepth,   \* queue:tenant:<t>:depth, 0 if absent
  tenantKey,     \* that key: absent, or present with or without a TTL
  apiAt, apiTenant,   \* the place of a request in its handler, and its tenant
  waiting,       \* waiting[t]: messages of tenant t in the broker
  failed,        \* failed[t]: jobs of tenant t that ended in error
  staleLocks,    \* staleLocks[t]: job locks left by lost workers
  at, task,      \* the place of a worker in its task, and its tenant
  leaked,        \* history: global increments whose decrement will never run
  cutShort,      \* history: requests lost between INCR and EXPIRE of the tenant's key
  requests, retries, faults   \* used part of each bound

counters == <<globalDepth, tenantDepth, tenantKey>>
api == <<apiAt, apiTenant>>
broker == <<waiting, failed, staleLocks>>
worker == <<at, task>>
history == <<leaked, cutShort>>
bounds == <<requests, retries, faults>>
vars == <<counters, api, broker, worker, history, bounds>>

ApiPlaces == {"idle", "checkTenant", "incrGlobal", "incrTenant", "expire", "publish"}
Places == {"idle", "running", "getGlobal", "decrGlobal", "getTenant", "decrTenant"}

TypeOK ==
  /\ globalDepth \in Int
  /\ tenantDepth \in [Tenants -> Int]
  /\ tenantKey \in [Tenants -> {"absent", "persistent", "expiring"}]
  /\ apiAt \in [Handlers -> ApiPlaces]
  /\ apiTenant \in [Handlers -> Tenants \cup {NoTenant}]
  /\ waiting \in [Tenants -> Nat]
  /\ failed \in [Tenants -> Nat]
  /\ staleLocks \in [Tenants -> Nat]
  /\ at \in [Workers -> Places]
  /\ task \in [Workers -> Tenants \cup {NoTenant}]
  /\ leaked \in Nat /\ cutShort \in Nat
  /\ requests \in 0..MaxRequests
  /\ retries \in 0..MaxRetries
  /\ faults \in 0..MaxFaults

Init ==
  /\ globalDepth = 0
  /\ tenantDepth = [t \in Tenants |-> 0]
  /\ tenantKey = [t \in Tenants |-> "absent"]
  /\ apiAt = [h \in Handlers |-> "idle"]
  /\ apiTenant = [h \in Handlers |-> NoTenant]
  /\ waiting = [t \in Tenants |-> 0]
  /\ failed = [t \in Tenants |-> 0]
  /\ staleLocks = [t \in Tenants |-> 0]
  /\ at = [w \in Workers |-> "idle"]
  /\ task = [w \in Workers |-> NoTenant]
  /\ leaked = 0 /\ cutShort = 0
  /\ requests = 0 /\ retries = 0 /\ faults = 0

------------------------------------------------------------------------------
(* POST /analyze                                                           *)

HandlerAt(h, place) == apiAt[h] = place

HandlerGoesTo(h, place) ==
  /\ apiAt' = [apiAt EXCEPT ![h] = place]
  /\ UNCHANGED apiTenant

HandlerEnds(h) ==
  /\ apiAt' = [apiAt EXCEPT ![h] = "idle"]
  /\ apiTenant' = [apiTenant EXCEPT ![h] = NoTenant]

(* Mutant of PassGlobal: > instead of >= in the refusal.                   *)
PassGlobalAtLimit(h, t) ==
  /\ HandlerAt(h, "idle")
  /\ globalDepth <= MaxQueue
  /\ requests < MaxRequests
  /\ requests' = requests + 1
  /\ apiAt' = [apiAt EXCEPT ![h] = "checkTenant"]
  /\ apiTenant' = [apiTenant EXCEPT ![h] = t]
  /\ UNCHANGED <<counters, broker, worker, history, retries, faults>>

(* check_backpressure, GET queue:global:depth.  A request that is refused  *)
(* here (503) changes nothing.                                             *)
PassGlobal(h, t) ==
  /\ HandlerAt(h, "idle")
  /\ globalDepth < MaxQueue
  /\ requests < MaxRequests
  /\ requests' = requests + 1
  /\ apiAt' = [apiAt EXCEPT ![h] = "checkTenant"]
  /\ apiTenant' = [apiTenant EXCEPT ![h] = t]
  /\ UNCHANGED <<counters, broker, worker, history, retries, faults>>

(* ... GET queue:tenant:<t>:depth, then create_job.                        *)
PassTenant(h) ==
  /\ HandlerAt(h, "checkTenant")
  /\ tenantDepth[apiTenant[h]] < MaxTenantQueue
  /\ HandlerGoesTo(h, "incrGlobal")
  /\ UNCHANGED <<counters, broker, worker, history, bounds>>

RefuseTenant(h) ==
  /\ HandlerAt(h, "checkTenant")
  /\ tenantDepth[apiTenant[h]] >= MaxTenantQueue
  /\ HandlerEnds(h)
  /\ UNCHANGED <<counters, broker, worker, history, bounds>>

(* increment_queue: INCR, INCR, EXPIRE                                     *)
IncrementGlobal(h) ==
  /\ HandlerAt(h, "incrGlobal")
  /\ globalDepth' = globalDepth + 1
  /\ HandlerGoesTo(h, "incrTenant")
  /\ UNCHANGED <<tenantDepth, tenantKey, broker, worker, history, bounds>>

(* INCR and DECR create an absent key without a TTL.                       *)
Touched(key) == IF key = "absent" THEN "persistent" ELSE key

IncrementTenant(h) ==
  /\ HandlerAt(h, "incrTenant")
  /\ tenantDepth' = [tenantDepth EXCEPT ![apiTenant[h]] = @ + 1]
  /\ tenantKey' = [tenantKey EXCEPT ![apiTenant[h]] = Touched(@)]
  /\ HandlerGoesTo(h, "expire")
  /\ UNCHANGED <<globalDepth, broker, worker, history, bounds>>

(* Mutant of SetTTL: no EXPIRE.                                            *)
SetNoTTL(h) ==
  /\ HandlerAt(h, "expire")
  /\ HandlerGoesTo(h, "publish")
  /\ UNCHANGED <<counters, broker, worker, history, bounds>>

SetTTL(h) ==
  /\ HandlerAt(h, "expire")
  /\ tenantKey' = [tenantKey EXCEPT ![apiTenant[h]] =
                     IF @ = "absent" THEN "absent" ELSE "expiring"]
  /\ HandlerGoesTo(h, "publish")
  /\ UNCHANGED <<globalDepth, tenantDepth, broker, worker, history, bounds>>

Publish(h) ==
  /\ HandlerAt(h, "publish")
  /\ waiting' = [waiting EXCEPT ![apiTenant[h]] = @ + 1]
  /\ HandlerEnds(h)
  /\ UNCHANGED <<counters, failed, staleLocks, worker, history, bounds>>

ContinueRequest(h) ==
  PassTenant(h) \/ RefuseTenant(h) \/ IncrementGlobal(h) \/ IncrementTenant(h)
    \/ SetTTL(h) \/ Publish(h)

Retry == retries < MaxRetries /\ retries' = retries + 1

(* POST /jobs/{id}/retry: a message, and no increment.                     *)
RetryJob(t) ==
  /\ failed[t] > 0
  /\ Retry
  /\ failed' = [failed EXCEPT ![t] = @ - 1]
  /\ waiting' = [waiting EXCEPT ![t] = @ + 1]
  /\ UNCHANGED <<counters, api, staleLocks, worker, history, requests, faults>>

------------------------------------------------------------------------------
(* process_analysis_job                                                    *)

At(w, place) == at[w] = place

GoTo(w, place) ==
  /\ at' = [at EXCEPT ![w] = place]
  /\ UNCHANGED task

TaskEnds(w) ==
  /\ at' = [at EXCEPT ![w] = "idle"]
  /\ task' = [task EXCEPT ![w] = NoTenant]

(* Mutant of Receive: delivered although no message waits.                 *)
ReceiveAnyway(w, t) ==
  /\ At(w, "idle")
  /\ waiting' = [waiting EXCEPT ![t] = @ - 1]
  /\ at' = [at EXCEPT ![w] = "running"]
  /\ task' = [task EXCEPT ![w] = t]
  /\ UNCHANGED <<counters, api, failed, staleLocks, history, bounds>>

(* A message whose job is not locked by a lost attempt (see Skip).         *)
Receive(w, t) ==
  /\ At(w, "idle")
  /\ waiting[t] > staleLocks[t]
  /\ waiting' = [waiting EXCEPT ![t] = @ - 1]
  /\ at' = [at EXCEPT ![w] = "running"]
  /\ task' = [task EXCEPT ![w] = t]
  /\ UNCHANGED <<counters, api, failed, staleLocks, history, bounds>>

(* Mutant of Finish: no finally block, only a failure decrements.          *)
FinishUncounted(w) ==
  /\ At(w, "running")
  /\ TaskEnds(w)
  /\ UNCHANGED <<counters, api, broker, history, bounds>>

(* The job is done, or waits for a human: the finally block begins.        *)
Finish(w) ==
  /\ At(w, "running")
  /\ GoTo(w, "getGlobal")
  /\ UNCHANGED <<counters, api, broker, history, bounds>>

(* The attempt fails and self.retry publishes the next one; the finally    *)
(* block runs all the same.                                                *)
FailAndRetry(w) ==
  /\ At(w, "running")
  /\ Retry
  /\ waiting' = [waiting EXCEPT ![task[w]] = @ + 1]
  /\ GoTo(w, "getGlobal")
  /\ UNCHANGED <<counters, api, failed, staleLocks, history, requests, faults>>

(* Mutant of FailForGood: no finally block, only a success decrements.     *)
FailUncounted(w) ==
  /\ At(w, "running")
  /\ failed' = [failed EXCEPT ![task[w]] = @ + 1]
  /\ TaskEnds(w)
  /\ UNCHANGED <<counters, api, waiting, staleLocks, history, bounds>>

FailForGood(w) ==
  /\ At(w, "running")
  /\ failed' = [failed EXCEPT ![task[w]] = @ + 1]
  /\ GoTo(w, "getGlobal")
  /\ UNCHANGED <<counters, api, waiting, staleLocks, history, bounds>>

(* Mutant of GetGlobal: DECR whatever the value.                           *)
GetGlobalUnguarded(w) ==
  /\ At(w, "getGlobal")
  /\ GoTo(w, "decrGlobal")
  /\ UNCHANGED <<counters, api, broker, history, bounds>>

(* decrement_queue: GET and, if the value was positive, DECR, twice.       *)
GetGlobal(w) ==
  /\ At(w, "getGlobal")
  /\ GoTo(w, IF globalDepth > 0 THEN "decrGlobal" ELSE "getTenant")
  /\ UNCHANGED <<counters, api, broker, history, bounds>>

DecrementGlobal(w) ==
  /\ At(w, "decrGlobal")
  /\ globalDepth' = globalDepth - 1
  /\ GoTo(w, "getTenant")
  /\ UNCHANGED <<tenantDepth, tenantKey, api, broker, history, bounds>>

GetTenant(w) ==
  /\ At(w, "getTenant")
  /\ IF tenantDepth[task[w]] > 0 THEN GoTo(w, "decrTenant") ELSE TaskEnds(w)
  /\ UNCHANGED <<counters, api, broker, history, bounds>>

DecrementTenant(w) ==
  /\ At(w, "decrTenant")
  /\ tenantDepth' = [tenantDepth EXCEPT ![task[w]] = @ - 1]
  /\ tenantKey' = [tenantKey EXCEPT ![task[w]] = Touched(@)]
  /\ TaskEnds(w)
  /\ UNCHANGED <<globalDepth, api, broker, history, bounds>>

ContinueTask(w) ==
  Finish(w) \/ FailAndRetry(w) \/ FailForGood(w) \/ GetGlobal(w) \/ DecrementGlobal(w)
    \/ GetTenant(w) \/ DecrementTenant(w)

------------------------------------------------------------------------------
(* Redis expires the tenant's counter an hour after the last increment.    *)
ExpireTenant(t) ==
  /\ tenantKey[t] = "expiring"
  /\ tenantDepth' = [tenantDepth EXCEPT ![t] = 0]
  /\ tenantKey' = [tenantKey EXCEPT ![t] = "absent"]
  /\ UNCHANGED <<globalDepth, api, broker, worker, history, bounds>>

(* A request or a task that does not end.                                  *)
Fault == faults < MaxFaults /\ faults' = faults + 1

(* The global increment is done, its decrement is not.                     *)
HandlerOwes(h) == apiAt[h] \in {"incrTenant", "expire", "publish"}
WorkerOwes(w) == at[w] \in {"running", "getGlobal", "decrGlobal"}

(* The API process dies, or a Redis call of the handler raises.            *)
LoseHandler(h) ==
  /\ ~HandlerAt(h, "idle")
  /\ Fault
  /\ HandlerEnds(h)
  /\ leaked' = IF HandlerOwes(h) THEN leaked + 1 ELSE leaked
  /\ cutShort' = IF HandlerAt(h, "expire") THEN cutShort + 1 ELSE cutShort
  /\ UNCHANGED <<counters, broker, worker, requests, retries>>

(* The hard time limit, or an error of Redis in the finally block: the     *)
(* message is acknowledged and the rest of the finally block does not run. *)
AbortTask(w) ==
  /\ ~At(w, "idle")
  /\ Fault
  /\ TaskEnds(w)
  /\ leaked' = IF WorkerOwes(w) THEN leaked + 1 ELSE leaked
  /\ UNCHANGED <<cutShort, counters, api, broker, requests, retries>>

(* The process is lost and the message comes back, to find the lock of the *)
(* lost attempt if that attempt had not released it.                       *)
LoseWorker(w) ==
  /\ ~At(w, "idle")
  /\ Fault
  /\ waiting' = [waiting EXCEPT ![task[w]] = @ + 1]
  /\ staleLocks' = IF At(w, "running")
                     THEN [staleLocks EXCEPT ![task[w]] = @ + 1]
                     ELSE staleLocks
  /\ TaskEnds(w)
  /\ UNCHANGED <<counters, api, failed, history, requests, retries>>

(* "already running - skipping duplicate": returns before the try block,   *)
(* whose finally would have decremented.                                   *)
Skip(t) ==
  /\ waiting[t] > 0 /\ staleLocks[t] > 0
  /\ waiting' = [waiting EXCEPT ![t] = @ - 1]
  /\ staleLocks' = [staleLocks EXCEPT ![t] = @ - 1]
  /\ leaked' = leaked + 1
  /\ UNCHANGED <<cutShort, counters, api, failed, worker, bounds>>

ExpireLock(t) ==
  /\ staleLocks[t] > 0
  /\ staleLocks' = [staleLocks EXCEPT ![t] = @ - 1]
  /\ UNCHANGED <<counters, api, waiting, failed, worker, history, bounds>>

Next ==
  \/ \E h \in Handlers :
       ContinueRequest(h) \/ LoseHandler(h) \/ \E t \in Tenants : PassGlobal(h, t)
  \/ \E w \in Workers :
       \/ ContinueTask(w) \/ AbortTask(w) \/ LoseWorker(w)
       \/ \E t \in Tenants : Receive(w, t)
  \/ \E t \in Tenants : RetryJob(t) \/ ExpireTenant(t) \/ Skip(t) \/ ExpireLock(t)

Spec == Init /\ [][Next]_vars

(* Started requests and tasks go on (JobLifecycle), a free worker takes a  *)
(* waiting message, Redis expires keys.  No client has to send anything.   *)
Fairness ==
  /\ \A h \in Handlers : WF_vars(ContinueRequest(h))
  /\ \A w \in Workers : WF_vars(ContinueTask(w) \/ \E t \in Tenants : Receive(w, t))
  /\ \A t \in Tenants : WF_vars(ExpireTenant(t)) /\ WF_vars(ExpireLock(t))

FairSpec == Spec /\ Fairness

------------------------------------------------------------------------------
(* The check and the increment are not atomic, so the limits are exceeded, *)
(* but by no more than the requests that run at the same time.             *)
OvershootBounded ==
  /\ globalDepth <= MaxQueue + Cardinality(Handlers) - 1
  /\ \A t \in Tenants : tenantDepth[t] <= MaxTenantQueue + Cardinality(Handlers) - 1

(* The read and the decrement are not atomic, so the counters become       *)
(* negative, but by no more than the workers that finish at the same time; *)
(* the tenant's may expire under all of them.                              *)
UndershootBounded ==
  /\ globalDepth >= 1 - Cardinality(Workers)
  /\ \A t \in Tenants : tenantDepth[t] >= 0 - Cardinality(Workers)

(* The messages in the broker, those of one tenant numbered.               *)
Messages == UNION {{t} \X (1..waiting[t]) : t \in Tenants}

OwingHandlers == {h \in Handlers : HandlerOwes(h)}
OwingWorkers == {w \in Workers : WorkerOwes(w)}

(* Increments that a message or a process still stands for.                *)
UnderWay ==
  Cardinality(OwingHandlers) + Cardinality(Messages) + Cardinality(OwingWorkers)

(* worker.py: "queue counters never drift upward": the global counter is   *)
(* never above the jobs under way, except for the finally blocks that did  *)
(* not run.  Retries, manual retries, redeliveries and expiry only lower   *)
(* it.                                                                     *)
DriftIsLeaked == globalDepth <= UnderWay + leaked

(* check_backpressure: "System at capacity ... Try again in a few minutes":*)
(* if every finally block runs, the full queue admits requests again.      *)
CapacityReturns ==
  globalDepth >= MaxQueue ~> globalDepth < MaxQueue \/ leaked > 0

(* check_backpressure: "Your queue is full ... Wait for current jobs to    *)
(* complete": whatever was leaked, the tenant is admitted again, since its *)
(* counter expires.  INCR and EXPIRE are two commands, so this rests on    *)
(* fewer than MaxTenantQueue handlers being lost between them.             *)
TenantLifts ==
  \A t \in Tenants :
    tenantDepth[t] >= MaxTenantQueue
      ~> tenantDepth[t] < MaxTenantQueue \/ cutShort >= MaxTenantQueue
==============================================================================
