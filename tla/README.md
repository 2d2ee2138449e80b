# TLA+ verification of the multi-agent platform

The platform takes analysis requests over HTTP, runs them as Celery tasks, asks a human
when the result is uncertain, and keeps all of its state in Redis. Every component is
short; what is hard is that several API requests and several worker processes share the
same keys, read them and write them in separate commands, crash in between, and receive
some messages twice. That is what these modules are about. File and line references are to
the repository's sources.

## 1. Inventory

| Component | State | Operations | Shares it with |
|---|---|---|---|
| Worker tasks (`worker.py`) | the place of each process in its task | `process_analysis_job`, `resume_hitl_job`, `_push_to_dlq` | every key below |
| Job records (`core/jobs.py`) | `job:<id>`: status, result, error | `create_job`, `update_job` (GET, then SETEX of the whole record), `get_job`, `list_jobs` | API handlers, workers |
| Job lock (`core/job_locking.py`) | `job_lock:<id>`, 400 s TTL, no owner | `acquire` (SET NX EX), `release` (DEL) | workers |
| Backpressure (`core/queue_control.py`) | `queue:global:depth`, `queue:tenant:<t>:depth` (TTL 3600 s) | `check_backpressure`, `increment_queue`, `decrement_queue` | API handlers, workers |
| Circuit breaker (`core/circuit_breaker.py`) | `circuit:<name>`: state, failures, opened_at (TTL one day) | `is_available`, `record_success`, `record_failure`, `protect` | all analyses |
| Human review (`core/hitl.py`, `api/hitl_routes.py`) | `hitl:approval:<request>`, `hitl:job:<job>`, a message with a countdown | `request_human_validation`, `approve`, `reject`, `respond_by_job`, `resolve_hitl` | worker, reviewers |
| API (`api/main.py`) | none of its own | `analyze`, `retry_job`, `record_outcome`, reads | everything |
| Broker (Celery on Redis) | messages; `acks_late`, `reject_on_worker_lost` | deliver, redeliver, acknowledge, retry | workers |
| Idempotency (`core/idempotency.py`) | `idempotency:<t>:<key>` | check before, store after a submission | API |
| Rate limit (`core/rate_limiting.py`) | `ratelimit:<t>:<window>` | INCR, EXPIRE, compare | API |
| Decision memory (`core/memory.py`, `core/memory_safety.py`) | `memory:<t>:<sector>:<product>:last_decision`, its reset log | save a decision; save, reject or reset on an outcome; the factor derived from it | pipeline, `record_outcome` |
| Vector memory (`core/rag_memory.py`) | table `decision_memory` | insert a decision, set an accuracy, search | pipeline, `record_outcome` |
| Pipeline (`core/orchestrator.py`, `core/tools.py`, `sectors/supply_chain/*`) | the state of one analysis | parallel agents, aggregation, tool selection, second run, decision, checkpoint | breaker, memories, review, ERP, LLM |
| ERP and LLM (`core/erpuiux_connector.py`, `core/llm.py`) | none | read stock and sales; ask a model | pipeline |
| Others | | cost alerts, roles and audit log, secrets, database pool, unused connectors, tracing, schemas, KPIs, dashboard | see section 8 |

How they interact: `POST /analyze` creates the record, counts the job, publishes a message.
A worker takes the message, takes the lock or skips, writes RUNNING, runs the pipeline and
writes DONE or ERROR; or it writes PENDING_HUMAN and publishes `resume_hitl_job` with a
countdown. A failure is archived and retried. The lock is released and the counters
decremented in a `finally` block. `POST /jobs/{id}/retry` writes QUEUED and publishes
again. Reviewers write the approval key, which `resume_hitl_job` reads once.

What makes each component correct:

* lock: one executor at a time, although the key has no owner and expires; no execution
  loses its key to another one;
* job: it ends in a final status, its failure is archived and explained, its result is
  there, retries do not multiply;
* counters: they stay near their limits and near the truth, and a full queue opens again;
* breaker: its state and its counter agree, a failed test reopens it, outages are noticed
  and recovered services are used;
* review: nothing is decided before the deadline, the last answer decides, the review ends,
  and its outcome is not decided anew without a redelivery and an answer;
* submission: one job per idempotency key as far as the code can promise it, a bounded
  number of requests per minute, no answer of `POST /analyze` without a message in the
  broker, and a known set of other jobs without one;
* outcomes: a correction is that of its own forecast and within range, the two memories
  stay in step and come back into step, an accuracy goes to the row it belongs to, a
  completed job stays completed;
* pipeline: exactly the doubtful analyses reach a human, exactly the approved ones are
  learnt, each one ends.

The list of hazards, each at the line where it bites and with the properties that cover
it, is in `PROJECT.json`.

## 2. Modules

| Module | Models | State and actions |
|---|---|---|
| `SingleExecution` | what `core/job_locking.py` promises | the executor of each job; `Begin`, `End` |
| `JobLock` | the lock with its clock, for several jobs | key expiry, a history of who set it, where each worker is; `Acquire`, `Skip`, `LeaveBody`, `Release`, `Return`, `Die`, `Tick` |
| `JobLifecycle` | one job: record, handlers, messages, both tasks | every `update_job` is `ReadRecord` and `WriteRecord`, driven by the table `Updates` of its nine callers; `Raise`, `PushToDLQ`, `Requeue`, `Release`, ...; the faults `LoseHandler`, `LoseWorker`, `AbortTask`, `AbortExcept` |
| `QueueControl` | the two counters | each Redis command is an action: `PassGlobal`, `PassTenant`, `IncrementGlobal`, `IncrementTenant`, `SetTTL`, `GetGlobal`, `DecrementGlobal`, ... |
| `BreakerDiagram` | the state diagram of `ARCHITECTURE.md:369-377` | its four arrows |
| `CircuitBreaker` | one breaker, several processes, one service | `ReadState`, `Admit`, `Reject`, `Test`, `EndCall`, `RecordSuccess`, `RecordFailure`, expiry, faults |
| `Hitl` | one review | the worker's five steps, the review endpoints, the resumption with redelivery, `Tick` |
| `Submission` | `POST /analyze` of one tenant | one action per command: `PassKey`, `Replay`, `Count` (INCR), `Expire` (EXPIRE), `CheckQueue`, `CreateJob`, `Publish`, `Store`, `Answer`, `Lose`; the clock in fractions of a rate limit window, with the expiry of the counters |
| `Outcomes`, `MCOutcomes` | what is learnt about one product | the worker's `InsertRow`, `SaveMemory` and record updates, with `Fail` between any two of them; the handler's `GetJob`, `Measure`, `Reset`, `SetMemory`, `UpdateRow`, `WriteJob`; the two reads of a summary, `HearAccuracy` and `HearFactor`; `Accuracy`, `Anomalous`, `BelowFloor`, `Factor`, `Note` on scaled integers |
| `Pipeline`, `MCPipeline` | one analysis, from its sources to its job's result | the agents, the aggregation and the confidence as operators on what the sources return; `Collect`, `Aggregate`, `RunTools`, `CallLLM`, then `Approve`, `StoreVector`, `SaveMemory`, `FinishJob`, or `Ask`, `MarkPending`, `StorePartial`, `Schedule`, `LastCall`; `Fail` at any of them, `Retry`, `Resume` |
| `*_proofs` | theorems about the module they extend | |

Definitions keep the names of the code where they can; `map` in `PROJECT.json` gives the
lines of each. Operators whose comment begins with "Mutant of" are not part of the models:
each is the form that a plausible bug would give to the definition after it, and shows
that the property it is listed with does notice that bug.

How the modules fit together. All of them describe the same worker from different sides.
`JobLock` has the real-time argument of the lock; `JobLifecycle` uses its result, as the
guard of `ExpireLock` (the key expires only while nobody executes the job), and drops the
clock. `JobLifecycle` leaves the counters to `QueueControl` and the contents of a review
to `Hitl`; those two leave the job's record to `JobLifecycle`. `Submission` stops at the
published message, where `JobLifecycle` begins, and takes the answer of the backpressure
check as a choice. `Pipeline` is what `JobLifecycle!Analyse` chooses among, with the
content that `JobLifecycle` drops; `Outcomes` has the same worker reduced to what touches
the learnt data, and the job's record as `record_outcome` sees it. No counter or key of one
module is read by another one's code, so their product has no behaviour that matters and
that the parts lack; what crosses the borders are messages and choices (retry or not,
pending or not, approved or not), and each module takes them as nondeterministic.

Abstractions that matter:

* `update_job` is two steps in `JobLifecycle`. In `Hitl` it is one: the two tasks that
  write there cannot be at it at the same time before the deadline, and after it each
  write carries its whole content.
* `run_analysis` is a choice of its outcomes: pending, done, an inconclusive status that
  the worker stores as an error, an exception, a soft timeout.
* Time appears only where an order depends on it: TTL and hard limit in `JobLock`, the
  recovery timeout in `CircuitBreaker`, TTLs and countdown in `Hitl`. Elsewhere a key
  with a TTL may expire at any moment the code does not exclude.
* A retry's countdown is left out: its message may come at any moment.
* The seven days after which a job record expires are left out.
* `record_outcome` also writes a job record back. It only accepts completed jobs, so it is
  in `Outcomes`, with every write that can meet a completed job there (a redelivery of a
  finished job's message), and not in `JobLifecycle`.
* `Pipeline`: the agents of one phase share nothing (`deepcopy`), so each phase is one
  step; the sources may change between the phases. Temperatures, stocks and sales are a few
  values on each side of every threshold. Generated text is `"model"` or `"static"`.
  A failed attempt leaves its resumption in the broker. That the record of an error may
  itself fail to be written is in `JobLifecycle`.
* `Outcomes`: demands and forecasts are whole units; accuracies and factors are rounded to
  thousandths, as in the code. Decisions are numbered; the code has no such number. The
  bounded `requests` are those of `POST /outcomes`, `GET` and `DELETE /memory`.
* `Submission`: a job is in `tenant:jobs`, and so in the answer of `GET /jobs`, from
  `CreateJob` on: `1..created` is that set.

## 3. Runs

Nine runs must pass, three show a disagreement between a text of the repository and the
code. Symmetry is used in `MCOutcomes` only, where no liveness is checked; its action
property quantifies over all jobs and handlers.

| Run | Bounds | Shows |
|---|---|---|
| `JobLock` | 2 jobs, 2 workers, TTL 3, hard limit 2, clock to 6 | single execution, ownership, the refinement of `SingleExecution` |
| `JobLifecycle_quiet` | 2 workers, 1 handler, 2 retries, 2 raised errors outside the analysis, no process lost | the job ends, is archived, its lock is released |
| `JobLifecycle_faults` | 2 workers, 1 handler, 1 automatic retry, 1 manual retry, 1 fault, 1 raised error | record, executions and retries stay consistent |
| `JobLifecycle_requeue` | 1 manual retry, no fault | violation: a retried job is queued for ever |
| `CircuitBreaker` | 2 processes, threshold 3, recovery 2, 2 lost processes or failed writes, 1 expiry | coherence, the diagram up to late writes, both liveness properties |
| `QueueControl` | 1 tenant, 2 handlers, 2 workers, limits 1, 3 requests, 1 retry, 1 fault | bounds of the counters, and their return |
| `Hitl` | 2 reviewers, 2 resuming processes, timeout 2, answer TTL 2, 1 redelivery | deadline, freshness, the end of the review, who can change its outcome |
| `Hitl_reject` | the same without redelivery | violation: a confirmed rejection ends as an approval |
| `Submission` | 2 handlers, 1 key or none, limit 1, windows of 2 slots, 5 slots, 3 requests | jobs per key, jobs without a message, requests per interval, on time and late |
| `MCOutcomes` | 2 jobs, 2 handlers, forecasts 10, 40, demands 12, 17, 1 failure or redelivery, 2 requests | sound corrections and summaries, rows in step, accuracies in their rows, completed jobs |
| `MCPipeline` | stocks 148, 149, 900, sales 600, two forecasts, each source possibly down, 2 retries | who is reviewed, what is learnt, the end |
| `MCPipeline_approval` | the same without retries | violation: an approved review has no decision |

What the properties of `Hitl`, `Submission`, `Outcomes` and `Pipeline` mean.

* `ReviewEnds` says that from some time on the job is done or rejected, and no more: which
  of the two may still change when the message comes back. `OutcomeStands` says when:
  only after a redelivery, and only if a human has answered, since the answer may have
  expired, come after the first reading or been replaced. It does happen, within the bounds
  of this run (section 7).
* `KnownJobIsQueued`: however a submission is cut short, a job that `POST /analyze` tells
  a client, at once or in a replay, has its message in the broker, because the answer is
  stored and given only after the publication. `GET /jobs` lists a job earlier: the jobs
  without a message that it can show are those whose request is between `create_job` and
  `apply_async`, or was lost there, and there are no others.
* `JobsPerKeyBounded`: one job per key unless a request with it was looked up while another
  one was on its way, or was lost just before the answer was stored; even then no more than
  the handlers and such losses together.
* `AdmissionBounded`: a request is admitted at its INCR, on the counter of the window whose
  time it took before. In any interval as long as a window, twice the limit can be admitted
  of the two windows the interval touches, and besides at most one request for each handler
  that took its time in an older window: such a request may find its counter expired and
  starting again. So the promise of the limit holds up to requests that are delayed by more
  than the rest of their window.
* `CorrectionIsSound`: a memory with an accuracy has that of its own forecast and demand, at
  least 0.4, and a factor between 0.7 and 1.3 in the right direction, although each writer
  puts back a record it read earlier. A summary reads the memory twice and can mix two
  records; still, when it calls the last forecast too high or too low, this is true of the
  record the factor came from, and only a summary during which the record changed can leave
  the direction of an error out.
* `RowsFollowMemory`: the newest row and the memory are of the same decision as long as no
  two of the three updates (save, measure, reset) overlap, no insert fails and no worker
  ends between its row and its memory. Each of these parts the two; the first analysis
  afterwards that nobody disturbs between its two writes brings them together again (the
  history variable `calm`). `AccuracyGoesToItsRow`: while they are in step, an accuracy is
  written to the row of the decision that was measured. Nothing but the order links the two
  stores, so neither holds without the condition.
* `CompletionSurvivesOutcomes`: the stale write of `record_outcome` cannot undo a
  completion, since it accepts completed jobs only.
* `ReviewIffDoubtful` says in terms of the sources which analyses are reviewed, across the
  connector, the agents, the aggregator and the checkpoint. It takes the code's reading of
  an outage as given (section 7), and so states it.
* `LearntIffApproved`: nothing of an attempt that was left to a human is learnt, and a job
  that is done with a decision in its record has that decision as its last one, whatever
  earlier attempts stored, published or left behind when they failed.

Why the bounds are enough. Two processes are what it takes to interleave a read and a
write; a third adds none of the races named in the hazards, and the theorems below do
away with the number altogether where it matters. Every limit is reached and exceeded:

* in `JobLock` the clock passes two full TTLs;
* in `QueueControl` three requests meet limits of one, both handlers pass the check at the
  last place, both workers read a counter of one, and one fault is enough to leave a
  tenant's counter at its limit (tenants share the global counter only, so one of them is
  enough here; the proofs take any number);
* in `CircuitBreaker` the threshold of the code is used, so that failures of two processes
  have to add up to it, and two processes can be lost in succession;
* in `Hitl` the answer's TTL can run out before the resumption reads it;
* in `Submission` three windows begin, the limit is reached and
  exceeded in each, and a request that took the time in the first one can count in the
  second or in the third, after the counter of its window has expired. Three requests are
  the least that could break the bound of two in an interval, on time or late, and the
  least that could make more jobs for a key than there are handlers. A second key would not meet the
  first one anywhere;
* in `MCOutcomes` the pairs of forecast and demand cover a forecast that is too low (10 and
  12, accuracy 0.8), one below the floor (10 and 17, 0.3), one that is too high (40 and 17,
  0.425, just above the floor) and an anomaly (40 and 12, less than a third). Exact forecasts
  and a forecast of 0, which disables every check, are in the proof of `CorrectionIsSound`
  for all forecasts and demands. One failure parts row and memory and leaves the other
  analysis to bring them together; two requests are enough for an outcome in each analysis,
  or one between the two reads of a summary;
* in `MCPipeline` 148 and 149 units differ by the rounding of 4.93 and 4.97 days to 4.9 and
  5.0, 900 is a sufficient stock, 35 and 36 degrees are on both sides of the heat wave; a
  source that is down gives the zeros. Confidences on both sides of 80 % occur.

`MaxFaults`, `MaxRaises`, `MaxManualRetries`, `MaxRequests`, `MaxRetries` (of
`QueueControl`), `MaxReruns`, `MaxQuietDays`, `MaxRedeliveries`, `LastSlot` and `MaxTime`
bound how often the environment acts and nothing else; `MaxRetries` of `JobLifecycle` and
`Pipeline` is `max_retries` in the code. The deadlock check is switched off where the
system may rest, with all jobs ended and every bound used up: in `JobLifecycle`,
`QueueControl`, `Submission`, `Outcomes` and `Pipeline`. In the others something (time, a
new request) can always happen.

## 4. Fairness

Weak fairness only, and only for what runs by itself: a started request goes on
(`ContinueHandler`, `ContinueRequest`), a process goes on with its task and an idle one
takes a waiting message (`WorkerStep`, `ContinueTask`, `Receive`, `Resolve`, `Step` of
`Pipeline`), time passes and Redis expires keys (`Tick`, `ExpireLock`, `ExpireTenant`). The
soft and hard time limits (`worker.py:47-48`) are what justifies it for tasks: none runs
for ever; in `Pipeline` every source has a timeout of its own as well, and the resumption
is due after its countdown. A fault, a client's request or a reviewer's answer is never
assumed. `RecoveredServiceIsUsed` and `OutageIsNoticed` need requests to keep coming and say
so in their own premise.

## 5. Proofs

TLAPS checks these for every value of the constants that the assumptions allow; they are
listed in `PROJECT.json`, the lemmas they rest on are in the modules.

* `JobLock_proofs`. The inductive invariant is `TypeOK /\ HolderOwnsLiveLock`: whoever
  executes `j` set its key last, and the key lives `LockTTL` from a moment not before the
  task started. A release deletes the key of the releasing worker because that worker owns
  it; the clock cannot reach the expiry because it stops at the hard limit. From it follow
  `MutualExclusion`, `OnlyHolderDeletesLock` and the refinement `ImplementsPromise` (each
  step maps to `Begin`, `End` or a stutter). Assumption: `LockTTL > HardLimit`, the comment
  at `job_locking.py:23`; it is a default that the environment variable can break.
* `JobLifecycle_proofs`. Five arguments, each with an invariant of its own.
  `CompletedJobHasResult` and `ErrorIsExplained` are not inductive, since `update_job` may
  write back an old record; the invariant says the same of every snapshot held by a worker
  or a handler (`RecordsExplained`), and the lemma `UpdatedIsExplained` that no caller of
  `update_job` breaks it. `OneExecutionAtATime` needs `ExecutionHoldsLock`;
  `LockIsHeldByExecution` is the converse, inductive as long as no fault has happened,
  because then only `Release` ends an execution. `SettledJobIsTerminal` needs to know who
  will still write a final status (`GoesOn`), and that a message is skipped only when the
  execution in its way has done so already or has not come that far (`LateIsSettled`).
  `FailedJobIsArchived`: the message of a failure, in the record or in a snapshot, has been
  archived or its worker is about to (`Archived`). `AttemptsBounded` counts the executions
  still to come as three sets of pairs of an owner (message, task, request) and an attempt:
  with the attempts made, they never outnumber `MaxRetries + 1` per job, manual retry and
  fault (`Counted`).
* `CircuitBreaker_proofs`. `StateMatchesCounter` together with the types of all snapshots
  is inductive: each write is computed from one sound snapshot. `FailedTestReopens`
  follows, as `record_failure` opens the circuit because the counter it read had reached
  the threshold. `FollowsDiagramUnlessLate` needs also that only an OPEN record has a time
  (`TimedRecords`); then a write computed from the current record is an arrow of
  `BreakerDiagram` or leaves state and time alone, one lemma for each method.
* `QueueControl_proofs`. Overshoot: the counter plus the handlers that have passed the
  check and not yet incremented is at most the limit plus the other handlers; undershoot:
  the counter is bounded below by the workers that have read a positive value and not yet
  decremented. Both count processes by place, hence the lemmas on cardinalities.
  `DriftIsLeaked` is inductive once the set of messages is known to be finite: an increment
  is handed from the handler to the message to the task, or to `leaked`. Its corollary
  `IdleSystemHasCapacity` is the part of `CapacityReturns` that needs no fairness: when
  nothing is left to do and nothing has leaked, the next request is admitted.
* `Hitl_proofs`. The invariant ties each timer to the history that explains it
  (`KeyIsFreshAnswer`, `Timers`): the TTL of the key to the age of the answer, and both the
  key and the countdown to the time since the question. `OutcomeStands` needs besides that
  without a redelivery there is one message or one reading and it precedes the final status,
  and that without an answer every reading is the fallback. Assumption:
  `Timeout <= AnswerTTL`, which holds in the defaults (3600 and 3600).
* `Submission_proofs`. `KnownJobIsQueued` with: from the publication to the answer a handler
  holds a job that is in the broker, and each job created is in the broker, held before the
  publication, or dropped. `AdmissionBounded`: the admissions of a window at a time inside
  of it are at most its counter and at most the limit, since the counter outlives its
  window, and an interval touches two windows; the late ones are of different handlers,
  because a handler that takes the time again takes it later. `JobsPerKeyBounded`: an unraced key has one request under way or one job
  (`Unraced`); in any case each job belongs to a handler that still holds it or was told
  that the key is new, or to a loss (`JobsHaveRequests`). No assumption on the limits.
* `Outcomes_proofs`. `CompletionSurvivesOutcomes` with the same of the stale copies: what an
  outcome request holds is a completed record. `CorrectionIsSound` says of the memory what
  the invariant says of every record that can still be written back or is half read for a
  summary; the rest is arithmetic on the rounded quotients (`RoundedBounds`,
  `FactorBounds`, `DirectionOfCorrection`), for all forecasts and demands.
  `RowsFollowMemory` and `AccuracyGoesToItsRow` need what each process in the middle of its
  updates relies on while `calm` is "yes" or "mending": the newest row is of the decision it
  made or read. Assumptions: `None` is not a number, forecasts and demands are natural
  numbers.
* `Pipeline_proofs`. Two lemmas compute the outcome of one set of readings through the
  connector, the agents, the aggregator and the confidence, for every stock and forecast:
  `ProductionWithoutSales` and `FallbackIsWeather`, hence `ReviewOfReadings`. The invariant
  carries that verdict from place to place (`ReadingsDecide`), says that an attempt stores
  nothing before it is approved (`OnlyApprovedIsStored`) and that no resumption carries a
  decision (`NothingIsResumed`), so that the decision of a done job is one the worker itself
  has put there (`Decided`). Assumption: `NoOutput` is not an output of the weather agent.

The type invariants of `CircuitBreaker` and `Hitl` are proved and not checked by a run. Every
invariant and every action property that a passing run checks is proved, and so are
the refinement of `SingleExecution` and, up to late writes, that of `BreakerDiagram`. Only
model-checked: all liveness (`EventuallyTerminal`, `ReviewEnds`,
`CapacityReturns`, `TenantLifts`, `RecoveredServiceIsUsed`, `OutageIsNoticed`,
`AnalysisEnds`), which rests on fairness and ENABLED and is out of the prover's reach.

## 6. Disagreements shown by a run

1. A retry accepted before the failing execution released its lock stays `queued`
   (`JobLifecycle_requeue`), against `README.md:160` and the endpoint's own answer.
2. A rejection from the dashboard can be confirmed and lost (`Hitl_reject`), against
   `ARCHITECTURE.md:406-409`.
3. An approved review ends without its decision (`MCPipeline_approval`), against
   `worker.py:131`: `decision_agent.py:187` sets `final_decision` to None while the review
   is pending, `worker.py:142` passes it on, `worker.py:207` overwrites the snapshot.

## 7. Observations without a run

Where a statement is named, it is defined at the end of the module, as not kept by the
code; TLC finds it violated with the constants of the run named, but for those given.

Jobs and locks:

* A job whose worker is lost stays `running`, against `tests/test_chaos.py:11` and
  `worker.py:113-115`, which takes every message that meets a lock for a duplicate: the
  lost worker's message comes back at once, is skipped because of the lock of the lost
  execution, and is acknowledged. `SkippedIsDuplicate` of `JobLifecycle`, with the constants of
  `JobLifecycle_requeue` but `MaxFaults = 1`, `MaxManualRetries = 0`.
* If a call after `worker.py:140` fails, as the `setex` of line 149 can, the attempt is
  retried with its resumption pending. The retry may be approved at once and done; the
  resumption of the first attempt then overwrites the record with a rejection, or with
  done and no decision, against `ARCHITECTURE.md:398` ("auto-approve → job DONE").
  `AutoApprovedIsDone` of `Pipeline`, with the constants of `MCPipeline_approval` but
  `MaxRetries = 1`.
* A worker lost after the release and before the acknowledgement has its finished job
  executed again, against `job_locking.py:4`.
* An analysis that ends with status "error" is not archived (`worker.py:154`), although
  `TECHNICAL_DESCRIPTION.md:105` sends failed jobs to the dead letter queue.

Queues and requests:

* The global counter keeps what an interrupted request or a killed task has added, and has
  no TTL, against `queue_control.py:47` ("Try again in a few minutes") and `worker.py:9-10`:
  after `MAX_QUEUE_SIZE` such events every request is refused.
* The tenant's limit counts submissions and not retries; attempts beyond the first
  decrement what was never added, so the counters underestimate the work.
* Two requests with one key at the same time, or a retry after a loss, create two jobs,
  against `idempotency.py:4-10`.
* The rate limit's window is fixed and not sliding (`README.md:100`,
  `rate_limiting.py:12`): twice the limit passes around a boundary, and besides it requests
  that took the time in an older window, whose counter may have expired and start again. A
  request refused by the backpressure check stays counted.
* `GET /jobs` lists a job from `create_job` on. One whose request is lost before
  `apply_async` is listed as queued, by every later `GET /jobs` until its record expires, and is
  never executed.

Breaker:

* Late writes take transitions the diagram of `ARCHITECTURE.md:369-377` does not have: the
  success of a call admitted while CLOSED moves OPEN to CLOSED before the timeout, a failure
  that read an older record writes that record's state over the current one.
  `FollowsDiagramUnlessLate` says that nothing else does.
* HALF_OPEN admits every process, not "one request" (`circuit_breaker.py:93`).

Review:

* `resume_hitl_job` takes no lock and does not look at the job, so that a second delivery,
  after the answer has expired or was replaced, turns a rejected job into a done one or
  the reverse, against `core/hitl.py:12` ("checks the Redis key once and finalises the
  job"). `OutcomeIsFinal` of `Hitl`, with the constants of `Hitl`.
* With `HITL_TIMEOUT_SECONDS` above 3600 an early answer expires unread (the TTL at
  `hitl_routes.py:39` is fixed) and the fallback decides. `AnswerOutlivesWait` excludes it.
* The dashboard calls `/hitl/{job}/respond` (`frontend/index.html:1193`), the route is
  `/hitl/respond/{job_id}`.

Outcomes:

* An outcome is measured on the last decision of the product, whichever job made it, against
  `DOCUMENTATION.md:323` and `api/main.py:255-256`: the job's id is not used
  (`api/main.py:274`). `OutcomeMeasuresItsJob` of `Outcomes`, with the constants of
  `MCOutcomes` but `MaxReruns = 0`.
* A reviewed job never saves a decision, so its outcome is always measured on another one.
* A summary (`GET /memory`, or in the prompt) can take its accuracy from one record and its
  factor from another: for example an accuracy of 0.85 with no direction.
* An outcome that was being measured while another analysis saved its decision overwrites
  that decision, or deletes it; until the next analysis of the product nothing remembers it.
* A demand of 1.6 to 3 times the forecast is below the floor and deletes the memory; one
  above 3 times is an anomaly and leaves it.
* Rows never get an accuracy below the floor, so the searched history shows good decisions
  only.
* The adjustment factor is shown to the model and never applied to a forecast
  (`sales_agent.py:50`), against `TECHNICAL_DESCRIPTION.md`, section 4.

Pipeline:

* The weather multiplier never reaches a forecast: both runs of the sales agent have no
  weather to read (`orchestrator.py:61`, `tools.py:93`), against `TECHNICAL_DESCRIPTION.md`,
  section 4. For the same reason the demand of the production agent is always 30 a day, and
  the alerts on packaging and capacity never occur. `rain_days > 10` cannot happen in a
  forecast of 7 days.
* An outage of the ERP gives zeros marked live. A stock of zero is critical and reaches a
  human; sales of zero do not, and the approved decision stores a forecast of 0, which
  disables the check of its outcome.
* A weather agent that raises (a location that is not a string) leaves no output and no
  flag, and so does not lower the confidence, unlike one that falls back.
* The confidence is that of the first readings; the decision and the stored forecast are
  those of the second.
* The static text of a model outage is approved and learnt like a decision.
* A retry after the insert leaves a row of the failed attempt, which the next outcome may be
  written to.
* `STOCK_CRITICAL` is below 5 days (`aggregator_agent.py:15`), 7 in `ARCHITECTURE.md:232`,
  and a stock of 149 units counts as 5.0 days.
* `ARCHITECTURE.md:364-366` puts supply_chain on the heavy queue, `queue_control.py:28-29`
  on the light one, and retries go to the heavy one (`worker.py:52`).

## 8. Not modelled

* Components that only read or validate (KPIs, statistics, schemas, tracing), that keep no
  state others depend on (audit log, cost totals, static roles), whose content is numeric
  or cryptographic (embeddings and search, secrets), and what does not run in the service
  (dashboard, demo data, maintenance scripts, `connectors.py` and `erpnext_connector.py`,
  which nothing calls).
* Generated text, and which of the three models wrote it.
* `_run_async` and the event loop of a process: what a lost loop does to the next call
  depends on libraries outside of the repository; an error there is one of the exceptions
  any step may raise.
* The dead letter queue's cut to 500 entries and the 50 the endpoint reads: two constants
  decide what a tenant can miss, no order of steps does.
* Tenants: each model has one, except `QueueControl`, where they share a counter. Keys and
  queries of all other components carry the tenant's id.
* Expiry after 1, 7 and 30 days (stored answers, job records, memories).

## 9. Plan

Modelled and proved, in the order of what most depends on it: lock, job, counters, breaker,
review, submission, outcomes, pipeline. Left: to derive the guard of `ExpireLock` in
`JobLifecycle`, which restates the result of `JobLock`, from a refinement between the two;
and the safety cores of the liveness properties (what must hold of a state from which the
awaited step could not be taken), as `IdleSystemHasCapacity` is one for `CapacityReturns`.
