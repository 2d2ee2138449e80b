----------------------------- MODULE JobLifecycle -----------------------------
(***************************************************************************)
(* The life of one job: the record job:<id> in Redis (core/jobs.py), the   *)
(* API handlers that create and retry it (api/main.py), the broker's       *)
(* messages, and the workers that run process_analysis_job and             *)
(* resume_hitl_job (worker.py).  Jobs share no key but the queue counters  *)
(* and the dead letter queue, so one job is enough here; QueueControl      *)
(* models the counters.                                                    *)
(*                                                                         *)
(* update_job is a GET followed by a SETEX of the whole record, so it is   *)
(* two steps and the second writes back whatever the first has seen.       *)
(*                                                                         *)
(* The job lock is the one of JobLock, with its clock replaced by what     *)
(* that module proves of it: the key can expire only while nobody executes *)
(* the job.                                                                *)
(***************************************************************************)
EXTENDS Naturals

CONSTANTS
  Workers,          \* prefork worker processes, of every queue
  Handlers,         \* concurrent requests of the API server
  NoRecord,
  MaxRetries,       \* max_retries = 2 of process_analysis_job
  MaxManualRetries, \* bound: accepted POST /jobs/{id}/retry
  MaxFaults,        \* bound: processes lost, kills, errors inside a handler
  MaxRaises         \* bound: exceptions and soft timeouts after the analysis

Statuses == {"queued", "running", "pending_human", "done", "rejected", "error"}
Terminal == {"done", "rejected", "error"}

(* What job["result"] holds: nothing, the snapshot stored while a human is *)
(* asked, the result of a complete analysis, the result of one that ended  *)
(* with status "error", or the outcome of the human review.                *)
Results == {"none", "partial", "full", "inconclusive", "reviewed"}

(* job["error"]: nothing, or the message the except blocks store.          *)
Errors == {"none", "timeout", "exception"}

JobRecord == [status : Statuses, result : Results, error : Errors]

ASSUME NoRecordAssumption == NoRecord \notin JobRecord

ASSUME BoundsAssumption ==
  /\ MaxRetries \in Nat
  /\ MaxManualRetries \in Nat
  /\ MaxFaults \in Nat
  /\ MaxRaises \in Nat

VARIABLES
  record,     \* job:<id>: status, which result, which error
  lock,       \* EXISTS job_lock:<id>
  messages,   \* messages[r]: process_analysis_job messages with request.retries = r
  resumes,    \* resume_hitl_job messages
  at,         \* at[w]: the place of worker w in its task
  retries,    \* retries[w]: request.retries of its message
  seen,       \* seen[w]: the record update_job has read and not yet written
  apiAt,      \* apiAt[h]: the place of request h in its handler
  apiSeen,    \* apiSeen[h]: as seen, for update_job in the retry handler
  dlq,        \* entries of this job in dlq:failed_jobs
  attempts,   \* history: executions begun
  manual, faults, raises   \* used part of each bound

worker == <<at, retries, seen>>
api == <<apiAt, apiSeen>>
vars == <<record, lock, messages, resumes, worker, api, dlq,
          attempts, manual, faults, raises>>
history == <<attempts, manual>>

(* The update_job calls, each named after the place of its caller: the     *)
(* status it writes, the result and error ("none": left as they are), and  *)
(* the place of the caller when it returns.                                *)
Update(from, status, result, error, to) ==
  [from |-> from, status |-> status, result |-> result, error |-> error, to |-> to]

Updates ==
  {Update("running",      "running",       "none",         "none",      "analysis"),
   Update("pending",      "pending_human", "none",         "none",      "partial"),
   Update("partial",      "pending_human", "partial",      "none",      "schedule"),
   Update("finish",       "done",          "full",         "none",      "notify"),
   Update("inconclusive", "error",         "inconclusive", "none",      "notify"),
   Update("timeout",      "error",         "none",         "timeout",   "timeoutDLQ"),
   Update("failed",       "error",         "none",         "exception", "failedDLQ"),
   Update("approved",     "done",          "reviewed",     "none",      "resumed"),
   Update("declined",     "rejected",      "reviewed",     "none",      "resumed")}

UpdatePlaces == {u.from : u \in Updates}

TryPlaces == {"running", "analysis", "pending", "partial", "schedule", "mapping",
              "finish", "inconclusive", "notify"}
ExceptPlaces == {"timeout", "timeoutDLQ", "failed", "failedDLQ", "requeue"}
ResumePlaces == {"resolve", "approved", "declined", "resumed"}
Places == {"idle", "received", "release", "decrement"}
            \cup TryPlaces \cup ExceptPlaces \cup ResumePlaces

(* The places between a successful acquire and the return of the release.  *)
ExecutionPlaces == TryPlaces \cup ExceptPlaces \cup {"release"}
Executing == {w \in Workers : at[w] \in ExecutionPlaces}

TypeOK ==
  /\ record \in JobRecord \cup {NoRecord}
  /\ lock \in {"free", "held"}
  /\ messages \in [0..MaxRetries -> Nat]
  /\ resumes \in Nat
  /\ at \in [Workers -> Places]
  /\ retries \in [Workers -> 0..MaxRetries]
  /\ seen \in [Workers -> JobRecord \cup {NoRecord}]
  /\ apiAt \in [Handlers -> {"idle", "created", "checked", "read", "requeued"}]
  /\ apiSeen \in [Handlers -> JobRecord \cup {NoRecord}]
  /\ dlq \in Nat /\ attempts \in Nat
  /\ manual \in 0..MaxManualRetries
  /\ faults \in 0..MaxFaults
  /\ raises \in 0..MaxRaises

Init ==
  /\ record = NoRecord
  /\ lock = "free"
  /\ messages = [r \in 0..MaxRetries |-> 0]
  /\ resumes = 0
  /\ at = [w \in Workers |-> "idle"]
  /\ retries = [w \in Workers |-> 0]
  /\ seen = [w \in Workers |-> NoRecord]
  /\ apiAt = [h \in Handlers |-> "idle"]
  /\ apiSeen = [h \in Handlers |-> NoRecord]
  /\ dlq = 0
  /\ attempts = 0
  /\ manual = 0 /\ faults = 0 /\ raises = 0

------------------------------------------------------------------------------
(* API handlers                                                            *)

HandlerGoesTo(h, place, rec) ==
  /\ apiAt' = [apiAt EXCEPT ![h] = place]
  /\ apiSeen' = [apiSeen EXCEPT ![h] = rec]

(* POST /analyze: create_job, one Redis pipeline.                          *)
CreateJob(h) ==
  /\ record = NoRecord
  /\ apiAt[h] = "idle"
  /\ record' = [status |-> "queued", result |-> "none", error |-> "none"]
  /\ HandlerGoesTo(h, "created", NoRecord)
  /\ UNCHANGED <<lock, messages, resumes, worker, dlq, history, faults, raises>>

(* POST /analyze: apply_async, after increment_queue; no retry count yet.  *)
Enqueue(h) ==
  /\ apiAt[h] = "created"
  /\ messages' = [messages EXCEPT ![0] = @ + 1]
  /\ HandlerGoesTo(h, "idle", NoRecord)
  /\ UNCHANGED <<record, lock, resumes, worker, dlq, history, faults, raises>>

(* POST /jobs/{id}/retry: get_job, accepted only if the job is in error.   *)
CheckRetry(h) ==
  /\ apiAt[h] = "idle"
  /\ record # NoRecord /\ record.status = "error"
  /\ manual < MaxManualRetries
  /\ manual' = manual + 1
  /\ HandlerGoesTo(h, "checked", NoRecord)
  /\ UNCHANGED <<record, lock, messages, resumes, worker, dlq,
                 attempts, faults, raises>>

(* ... update_job(QUEUED), read and write ...                              *)
ReadForRetry(h) ==
  /\ apiAt[h] = "checked"
  /\ HandlerGoesTo(h, "read", record)
  /\ UNCHANGED <<record, lock, messages, resumes, worker, dlq, history,
                 faults, raises>>

Requeued(rec) ==
  [status |-> "queued", result |-> rec.result, error |-> rec.error]

WriteForRetry(h) ==
  /\ apiAt[h] = "read"
  /\ record' = Requeued(apiSeen[h])
  /\ HandlerGoesTo(h, "requeued", NoRecord)
  /\ UNCHANGED <<lock, messages, resumes, worker, dlq, history, faults, raises>>

(* ... process_analysis_job.delay.                                         *)
PublishRetry(h) ==
  /\ apiAt[h] = "requeued"
  /\ messages' = [messages EXCEPT ![0] = @ + 1]
  /\ HandlerGoesTo(h, "idle", NoRecord)
  /\ UNCHANGED <<record, lock, resumes, worker, dlq, history, faults, raises>>

ContinueHandler(h) ==
  Enqueue(h) \/ ReadForRetry(h) \/ WriteForRetry(h) \/ PublishRetry(h)

(* The API process dies or its Redis call raises: the request is abandoned.*)
LoseHandler(h) ==
  /\ apiAt[h] # "idle"
  /\ faults < MaxFaults
  /\ faults' = faults + 1
  /\ HandlerGoesTo(h, "idle", NoRecord)
  /\ UNCHANGED <<record, lock, messages, resumes, worker, dlq, history, raises>>

------------------------------------------------------------------------------
(* The worker: process_analysis_job                                        *)

At(w, place) == at[w] = place

GoTo(w, place) ==
  /\ at' = [at EXCEPT ![w] = place]
  /\ seen' = [seen EXCEPT ![w] = NoRecord]
  /\ UNCHANGED retries

Finished(w) ==
  /\ at' = [at EXCEPT ![w] = "idle"]
  /\ seen' = [seen EXCEPT ![w] = NoRecord]
  /\ retries' = [retries EXCEPT ![w] = 0]

(* Mutant of Receive: a message is delivered once more than it was sent.   *)
ReceiveTooOften(w, r) ==
  /\ At(w, "idle")
  /\ messages' = [messages EXCEPT ![r] = @ - 1]
  /\ at' = [at EXCEPT ![w] = "received"]
  /\ retries' = [retries EXCEPT ![w] = r]
  /\ UNCHANGED <<seen, record, lock, resumes, api, dlq, history, faults, raises>>

Receive(w, r) ==
  /\ At(w, "idle")
  /\ messages[r] > 0
  /\ messages' = [messages EXCEPT ![r] = @ - 1]
  /\ at' = [at EXCEPT ![w] = "received"]
  /\ retries' = [retries EXCEPT ![w] = r]
  /\ UNCHANGED <<seen, record, lock, resumes, api, dlq, history, faults, raises>>

Acquire(w) ==
  /\ At(w, "received")
  /\ lock = "free"
  /\ lock' = "held"
  /\ attempts' = attempts + 1
  /\ GoTo(w, "running")
  /\ UNCHANGED <<record, messages, resumes, api, dlq, manual,
                 faults, raises>>

(* "already running - skipping duplicate": the task returns and its        *)
(* message is acknowledged.                                                *)
Skip(w) ==
  /\ At(w, "received")
  /\ lock = "held"
  /\ Finished(w)
  /\ UNCHANGED <<record, lock, messages, resumes, api, dlq, history,
                 faults, raises>>

(* update_job, wherever it is called from: GET, then SETEX.                *)
ReadRecord(w) ==
  /\ at[w] \in UpdatePlaces
  /\ seen[w] = NoRecord
  /\ seen' = [seen EXCEPT ![w] = record]
  /\ UNCHANGED <<at, retries, record, lock, messages, resumes, api, dlq, history,
                 faults, raises>>

(* Mutant of Updated: the result is not stored with its status.            *)
UpdatedStatusOnly(rec, u) ==
  [status |-> u.status,
   result |-> rec.result,
   error  |-> IF u.error = "none" THEN rec.error ELSE u.error]

Updated(rec, u) ==
  [status |-> u.status,
   result |-> IF u.result = "none" THEN rec.result ELSE u.result,
   error  |-> IF u.error = "none" THEN rec.error ELSE u.error]

WriteRecord(w) ==
  \E u \in Updates :
    /\ At(w, u.from)
    /\ seen[w] # NoRecord
    /\ record' = Updated(seen[w], u)
    /\ GoTo(w, u.to)
    /\ UNCHANGED <<lock, messages, resumes, api, dlq, history, faults, raises>>

(* run_analysis returns with status "pending_human", "done" or "error".    *)
Analyse(w) ==
  /\ At(w, "analysis")
  /\ \E place \in {"pending", "finish", "inconclusive"} : GoTo(w, place)
  /\ UNCHANGED <<record, lock, messages, resumes, api, dlq, history,
                 faults, raises>>

(* Mutant of ScheduleResume: nobody is scheduled to finish the job.        *)
ForgetResume(w) ==
  /\ At(w, "schedule")
  /\ GoTo(w, "mapping")
  /\ UNCHANGED <<resumes, record, lock, messages, api, dlq, history, faults, raises>>

ScheduleResume(w) ==
  /\ At(w, "schedule")
  /\ resumes' = resumes + 1
  /\ GoTo(w, "mapping")
  /\ UNCHANGED <<record, lock, messages, api, dlq, history, faults, raises>>

(* Mutant of EndTry: the lock is not released in a finally block.          *)
EndTryUnreleased(w) ==
  /\ at[w] \in {"mapping", "notify"}
  /\ GoTo(w, "decrement")
  /\ UNCHANGED <<record, lock, messages, resumes, api, dlq, history,
                 faults, raises>>

(* SETEX hitl:job:<id> (see Hitl), or the webhook, which swallows its own  *)
(* errors: the try block ends.                                             *)
EndTry(w) ==
  /\ at[w] \in {"mapping", "notify"}
  /\ GoTo(w, "release")
  /\ UNCHANGED <<record, lock, messages, resumes, api, dlq, history,
                 faults, raises>>

(* Mutant of Raise: the except blocks archive but do not store the error.  *)
RaiseWithoutUpdate(w) ==
  /\ at[w] \in TryPlaces
  /\ At(w, "analysis") \/ raises < MaxRaises
  /\ raises' = IF At(w, "analysis") THEN raises ELSE raises + 1
  /\ GoTo(w, "failedDLQ") \/ GoTo(w, "timeoutDLQ")
  /\ UNCHANGED <<record, lock, messages, resumes, api, dlq, history, faults>>

(* An exception or SoftTimeLimitExceeded in the try block.  During the     *)
(* analysis this is the normal failure of a job; elsewhere it takes an     *)
(* error of Redis or of the broker, and is bounded.                        *)
Raise(w) ==
  /\ at[w] \in TryPlaces
  /\ At(w, "analysis") \/ raises < MaxRaises
  /\ raises' = IF At(w, "analysis") THEN raises ELSE raises + 1
  /\ GoTo(w, "failed") \/ GoTo(w, "timeout")
  /\ UNCHANGED <<record, lock, messages, resumes, api, dlq, history, faults>>

(* Mutant of PushToDLQ: the soft timeout is not archived.                  *)
PushExceptionsOnly(w) ==
  /\ at[w] \in {"failedDLQ", "timeoutDLQ"}
  /\ dlq' = IF At(w, "failedDLQ") THEN dlq + 1 ELSE dlq
  /\ GoTo(w, IF At(w, "failedDLQ") THEN "requeue" ELSE "release")
  /\ UNCHANGED <<record, lock, messages, resumes, api, history, faults, raises>>

(* _push_to_dlq; a soft timeout then notifies and is not retried.          *)
PushToDLQ(w) ==
  /\ at[w] \in {"failedDLQ", "timeoutDLQ"}
  /\ dlq' = dlq + 1
  /\ GoTo(w, IF At(w, "failedDLQ") THEN "requeue" ELSE "release")
  /\ UNCHANGED <<record, lock, messages, resumes, api, history, faults, raises>>

(* Mutant of Requeue: delay() instead of retry(), the count starts again.  *)
RequeueAnew(w) ==
  /\ At(w, "requeue")
  /\ messages' = [messages EXCEPT ![0] = @ + 1]
  /\ GoTo(w, "release")
  /\ UNCHANGED <<record, lock, resumes, api, dlq, history, faults, raises>>

(* self.retry: a new message with retries + 1, unless they are exhausted,  *)
(* in which case the original exception is raised.                         *)
Requeue(w) ==
  /\ At(w, "requeue")
  /\ messages' = IF retries[w] < MaxRetries
                   THEN [messages EXCEPT ![retries[w] + 1] = @ + 1]
                   ELSE messages
  /\ GoTo(w, "release")
  /\ UNCHANGED <<record, lock, resumes, api, dlq, history, faults, raises>>

Release(w) ==
  /\ At(w, "release")
  /\ lock' = "free"
  /\ GoTo(w, "decrement")
  /\ UNCHANGED <<record, messages, resumes, api, dlq, history, faults, raises>>

(* decrement_queue (see QueueControl); the task ends, acks_late acknowledges.*)
Acknowledge(w) ==
  /\ at[w] \in {"decrement", "resumed"}
  /\ Finished(w)
  /\ UNCHANGED <<record, lock, messages, resumes, api, dlq, history,
                 faults, raises>>

------------------------------------------------------------------------------
(* The worker: resume_hitl_job                                             *)

(* The countdown is over.                                                  *)
ReceiveResume(w) ==
  /\ At(w, "idle")
  /\ resumes > 0
  /\ resumes' = resumes - 1
  /\ GoTo(w, "resolve")
  /\ UNCHANGED <<record, lock, messages, api, dlq, history, faults, raises>>

(* resolve_hitl: a human's answer or the fallback (see Hitl).              *)
Resolve(w) ==
  /\ At(w, "resolve")
  /\ GoTo(w, "approved") \/ GoTo(w, "declined")
  /\ UNCHANGED <<record, lock, messages, resumes, api, dlq, history,
                 faults, raises>>

------------------------------------------------------------------------------
(* Faults                                                                  *)

(* The process is lost: task_reject_on_worker_lost puts the message back.  *)
LoseWorker(w) ==
  /\ ~At(w, "idle")
  /\ faults < MaxFaults
  /\ faults' = faults + 1
  /\ IF at[w] \in ResumePlaces
       THEN resumes' = resumes + 1 /\ UNCHANGED messages
       ELSE /\ messages' = [messages EXCEPT ![retries[w]] = @ + 1]
            /\ UNCHANGED resumes
  /\ Finished(w)
  /\ UNCHANGED <<record, lock, api, dlq, history, raises>>

(* The hard time limit, when the soft one was swallowed, or an error of    *)
(* Redis outside the try block (acquire, finally) or in resume_hitl_job:   *)
(* the message is acknowledged and the rest of the task does not run.      *)
AbortTask(w) ==
  /\ ~At(w, "idle")
  /\ faults < MaxFaults
  /\ faults' = faults + 1
  /\ Finished(w)
  /\ UNCHANGED <<record, lock, messages, resumes, api, dlq, history, raises>>

(* An error of Redis, or the soft time limit, in an except block: what is  *)
(* left of that block is skipped, the finally block runs.                  *)
AbortExcept(w) ==
  /\ at[w] \in ExceptPlaces
  /\ faults < MaxFaults
  /\ faults' = faults + 1
  /\ GoTo(w, "release")
  /\ UNCHANGED <<record, lock, messages, resumes, api, dlq, history, raises>>

(* Mutant of ExpireLock: LOCK_TTL is shorter than the task.                *)
ExpireLockEarly ==
  /\ lock = "held"
  /\ lock' = "free"
  /\ UNCHANGED <<record, messages, resumes, worker, api, dlq, history,
                 faults, raises>>

(* The key left by a lost execution expires after LOCK_TTL.                *)
ExpireLock ==
  /\ lock = "held"
  /\ Executing = {}
  /\ lock' = "free"
  /\ UNCHANGED <<record, messages, resumes, worker, api, dlq, history,
                 faults, raises>>

------------------------------------------------------------------------------
WorkerStep(w) ==
  \/ \E r \in 0..MaxRetries : Receive(w, r)
  \/ Acquire(w) \/ Skip(w)
  \/ ReadRecord(w) \/ WriteRecord(w)
  \/ Analyse(w) \/ ScheduleResume(w) \/ EndTry(w)
  \/ PushToDLQ(w) \/ Requeue(w)
  \/ Release(w) \/ Acknowledge(w)
  \/ ReceiveResume(w) \/ Resolve(w)

Next ==
  \/ \E h \in Handlers :
       CreateJob(h) \/ CheckRetry(h) \/ ContinueHandler(h) \/ LoseHandler(h)
  \/ \E w \in Workers :
       WorkerStep(w) \/ Raise(w) \/ LoseWorker(w) \/ AbortTask(w) \/ AbortExcept(w)
  \/ ExpireLock

Spec == Init /\ [][Next]_vars

(* A started request goes on, a free worker takes a waiting message and    *)
(* the time limits end every task; Redis expires keys.  Nothing makes a    *)
(* client send a request, and no fault has to happen.                      *)
Fairness ==
  /\ \A h \in Handlers : WF_vars(ContinueHandler(h))
  /\ \A w \in Workers : WF_vars(WorkerStep(w))
  /\ WF_vars(ExpireLock)

FairSpec == Spec /\ Fairness

------------------------------------------------------------------------------
(* What GET /jobs/{id} shows.                                              *)
Status == IF record = NoRecord THEN "absent" ELSE record.status

(* Nothing is under way for the job: what the client reads now is final    *)
(* unless somebody sends a new request.                                    *)
Settled ==
  /\ record # NoRecord
  /\ \A r \in 0..MaxRetries : messages[r] = 0
  /\ resumes = 0
  /\ \A w \in Workers : at[w] = "idle"
  /\ \A h \in Handlers : apiAt[h] = "idle"

(* A job shown as done or rejected carries a result, whatever snapshots    *)
(* were written over each other: update_job writes both in one SETEX and   *)
(* no later writer sets a result back without the status.                  *)
CompletedJobHasResult ==
  Status \in {"done", "rejected"}
    => record.result \in {"full", "reviewed"}

(* A job shown in error says why: an error message or the result of an     *)
(* analysis that ended in error.                                           *)
ErrorIsExplained ==
  Status = "error"
    => record.error # "none" \/ record.result = "inconclusive"

(* Whatever crashes and retries do, two executions never overlap.          *)
OneExecutionAtATime == \A v, w \in Executing : v = w

(* Automatic retries do not multiply: every accepted request, and every    *)
(* redelivery, costs at most 1 + max_retries executions.                   *)
AttemptsBounded == attempts <= (MaxRetries + 1) * (1 + manual + faults)

(* Until a fault happens the lock is held by a running execution only:     *)
(* every path out of the try block releases it.                            *)
LockIsHeldByExecution == faults = 0 /\ lock = "held" => Executing # {}

(* Without faults and manual retries, a job for which nothing is under way *)
(* any more has reached a final status ("not stuck").                      *)
SettledJobIsTerminal == faults = 0 /\ manual = 0 /\ Settled => Status \in Terminal

(* Until a fault happens, a job that is settled in error without an        *)
(* inconclusive result is in the dead letter queue, retried or not.        *)
FailedJobIsArchived ==
  faults = 0 /\ Settled /\ Status = "error" /\ record.result # "inconclusive" => dlq > 0

(* A created job ends in a final status and stays there.                   *)
EventuallyTerminal ==
  <>[](Status \in Terminal \cup {"absent"})

------------------------------------------------------------------------------
(* Statements of the repository's texts that the code does not keep.       *)

(* The retry endpoint answers "requeued", and tests/test_chaos.py says     *)
(* "job marked ERROR, not zombie": a job does not stay queued or running   *)
(* for ever.                                                               *)
WaitingJobEnds ==
  Status \in {"queued", "running"} ~> Status \notin {"queued", "running"}

(* worker.py: "already running - skipping duplicate": a message is given   *)
(* up only while another worker executes the job.                          *)
SkippedIsDuplicate ==
  [][\A w \in Workers : Skip(w) => Executing # {}]_vars
==============================================================================
