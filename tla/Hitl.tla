-------------------------------- MODULE Hitl --------------------------------
(***************************************************************************)
(* The human review of one decision with low confidence.  The worker that  *)
(* analyses the job stores hitl:approval:<request_id> = "pending", fires   *)
(* the webhook, marks the job PENDING_HUMAN, schedules resume_hitl_job and *)
(* stores hitl:job:<job_id> (core/hitl.py, worker.py).  Reviewers answer   *)
(* through the API (api/hitl_routes.py): with the request they were sent,  *)
(* or from the dashboard with the job.  When its countdown is over,        *)
(* resume_hitl_job reads the answer once and finalises the job.            *)
(*                                                                         *)
(* Time is relative: each Redis key has the time it has left to live, the  *)
(* message the rest of its countdown.  update_job is one step here, since  *)
(* each of its calls in this module writes status and result together; the *)
(* job's other writers are in JobLifecycle, with the errors that end a     *)
(* task early.                                                             *)
(***************************************************************************)
EXTENDS Naturals, FiniteSets

CONSTANTS
  Reviewers,        \* requests to the review endpoints that run at the same time
  Resumers,         \* processes that execute resume_hitl_job
  Timeout,          \* HITL_TIMEOUT_SECONDS, 3600 by default
  AnswerTTL,        \* the TTL of an answer, 3600 in the code
  Fallback,         \* HITL_FALLBACK_APPROVE: the verdict if nobody answers
  MaxRedeliveries   \* bound: deliveries of resume_hitl_job beyond the first

Verdicts == {"approved", "rejected"}

ASSUME ConstantsAssumption ==
  /\ IsFiniteSet(Reviewers)
  /\ Timeout \in Nat \ {0}
  /\ AnswerTTL \in Nat \ {0}
  /\ Fallback \in Verdicts
  /\ MaxRedeliveries \in Nat

(* So in the defaults; a longer Timeout lets an answer expire unread.      *)
ASSUME AnswerOutlivesWait == Timeout <= AnswerTTL

VARIABLES
  place,         \* where the analysing worker is
  status,        \* status of the job's record
  approval,      \* hitl:approval:<request_id>, "none" if absent
  approvalTTL,   \* time it has left
  mappingTTL,    \* time hitl:job:<job_id> has left, 0 if absent
  resumes,       \* resume_hitl_job messages in the broker
  countdown,     \* time until they are due
  at, verdict,   \* the place of a reviewer's request, and its verdict
  resuming,      \* resuming[w]: the verdict w has read and not yet written
  redeliveries,  \* used part of the bound
  given, age,    \* history: the last answer stored for the request, its age
  waited,        \* history: time since the human was asked
  accepted,      \* history: answers accepted by approve and reject
  promised       \* history: the last answer confirmed while the job was pending

job == <<place, status>>
keys == <<approval, approvalTTL, mappingTTL>>
messages == <<resumes, countdown, redeliveries>>
review == <<at, verdict>>
history == <<given, age, waited, accepted, promised>>
vars == <<job, keys, messages, review, resuming, history>>

Places == {"checkpoint", "webhook", "mark", "schedule", "mapping", "over"}

TypeOK ==
  /\ place \in Places
  /\ status \in {"running", "pending_human", "done", "rejected"}
  /\ approval \in Verdicts \cup {"none", "pending"}
  /\ approvalTTL \in 0..AnswerTTL
  /\ mappingTTL \in 0..Timeout
  /\ resumes \in Nat
  /\ countdown \in 0..Timeout
  /\ at \in [Reviewers -> {"idle", "checked", "mapped", "unmapped"}]
  /\ verdict \in [Reviewers -> Verdicts]
  /\ resuming \in [Resumers -> Verdicts \cup {"none"}]
  /\ redeliveries \in 0..MaxRedeliveries
  /\ given \in Verdicts \cup {"none"}
  /\ age \in 0..AnswerTTL
  /\ waited \in 0..Timeout
  /\ accepted \in Nat
  /\ promised \in Verdicts \cup {"none"}

Init ==
  /\ place = "checkpoint" /\ status = "running"
  /\ approval = "none" /\ approvalTTL = 0 /\ mappingTTL = 0
  /\ resumes = 0 /\ countdown = 0 /\ redeliveries = 0
  /\ at = [v \in Reviewers |-> "idle"]
  /\ verdict = [v \in Reviewers |-> "approved"]
  /\ resuming = [w \in Resumers |-> "none"]
  /\ given = "none" /\ age = 0 /\ waited = 0 /\ accepted = 0 /\ promised = "none"

------------------------------------------------------------------------------
(* The analysing worker                                                    *)

GoesTo(p) == place' = p

(* request_human_validation: SETEX, then the webhook, which tells the      *)
(* reviewers the request_id.                                               *)
Ask ==
  /\ place = "checkpoint" /\ GoesTo("webhook")
  /\ approval' = "pending" /\ approvalTTL' = Timeout
  /\ UNCHANGED <<status, mappingTTL, messages, review, resuming, history>>

(* The webhook returns, or fails and is ignored.                           *)
Notify ==
  /\ place = "webhook" /\ GoesTo("mark")
  /\ UNCHANGED <<status, keys, messages, review, resuming, history>>

(* Both calls of update_job(PENDING_HUMAN).                                *)
MarkPending ==
  /\ place = "mark" /\ GoesTo("schedule")
  /\ status' = "pending_human"
  /\ UNCHANGED <<keys, messages, review, resuming, history>>

(* Mutant of Schedule: no countdown.                                       *)
ScheduleAtOnce ==
  /\ place = "schedule" /\ GoesTo("mapping")
  /\ resumes' = resumes + 1 /\ countdown' = 0
  /\ UNCHANGED <<status, keys, redeliveries, review, resuming, history>>

(* Mutant of Schedule: only the answer of a human resumes the job.         *)
ScheduleNothing ==
  /\ place = "schedule" /\ GoesTo("mapping")
  /\ UNCHANGED <<status, keys, messages, review, resuming, history>>

Schedule ==
  /\ place = "schedule" /\ GoesTo("mapping")
  /\ resumes' = resumes + 1 /\ countdown' = Timeout
  /\ UNCHANGED <<status, keys, redeliveries, review, resuming, history>>

StoreMapping ==
  /\ place = "mapping" /\ GoesTo("over")
  /\ mappingTTL' = Timeout
  /\ UNCHANGED <<status, approval, approvalTTL, messages, review, resuming, history>>

Analysis == Ask \/ Notify \/ MarkPending \/ Schedule \/ StoreMapping

------------------------------------------------------------------------------
(* The review endpoints                                                    *)

ReviewerGoesTo(v, p) ==
  /\ at' = [at EXCEPT ![v] = p]
  /\ UNCHANGED verdict

(* The endpoint answers 200.                                               *)
Confirm(v) ==
  /\ ReviewerGoesTo(v, "idle")
  /\ promised' = IF status = "pending_human" THEN verdict[v] ELSE promised

(* Mutant of StoreAnswer: SET with KEEPTTL, the request's own lifetime.    *)
StoreAnswerKeepTTL(v) ==
  /\ approval' = verdict[v] /\ approvalTTL' = approvalTTL
  /\ given' = verdict[v] /\ age' = 0

(* SETEX hitl:approval:<request_id>                                        *)
StoreAnswer(v) ==
  /\ approval' = verdict[v] /\ approvalTTL' = AnswerTTL
  /\ given' = verdict[v] /\ age' = 0

(* Mutant of Check: no 409, an answer can be replaced.                     *)
CheckExists(v, d) ==
  /\ at[v] = "idle"
  /\ place # "checkpoint"
  /\ approval # "none"
  /\ at' = [at EXCEPT ![v] = "checked"]
  /\ verdict' = [verdict EXCEPT ![v] = d]
  /\ UNCHANGED <<job, keys, messages, resuming, history>>

(* POST /hitl/approve or /hitl/reject: GET; if the key is absent (404) or  *)
(* holds an answer (409), nothing happens.                                 *)
Check(v, d) ==
  /\ at[v] = "idle"
  /\ place # "checkpoint"
  /\ approval = "pending"
  /\ at' = [at EXCEPT ![v] = "checked"]
  /\ verdict' = [verdict EXCEPT ![v] = d]
  /\ UNCHANGED <<job, keys, messages, resuming, history>>

Answer(v) ==
  /\ at[v] = "checked"
  /\ StoreAnswer(v)
  /\ Confirm(v)
  /\ accepted' = accepted + 1
  /\ UNCHANGED <<job, mappingTTL, messages, resuming, waited>>

(* POST /hitl/respond/{job_id}: GET hitl:job:<job_id>                      *)
FindRequest(v, d) ==
  /\ at[v] = "idle"
  /\ at' = [at EXCEPT ![v] = IF mappingTTL > 0 THEN "mapped" ELSE "unmapped"]
  /\ verdict' = [verdict EXCEPT ![v] = d]
  /\ UNCHANGED <<job, keys, messages, resuming, history>>

(* ... and SETEX, whatever the key holds.                                  *)
Respond(v) ==
  /\ at[v] = "mapped"
  /\ StoreAnswer(v)
  /\ Confirm(v)
  /\ UNCHANGED <<job, mappingTTL, messages, resuming, waited, accepted>>

(* Without the mapping the answer is stored under the job's own id, where  *)
(* nobody looks for it.                                                    *)
RespondInVain(v) ==
  /\ at[v] = "unmapped"
  /\ Confirm(v)
  /\ UNCHANGED <<job, keys, messages, resuming, given, age, waited, accepted>>

------------------------------------------------------------------------------
(* resume_hitl_job                                                         *)

(* What resolve_hitl makes of the key.                                     *)
Resolved == IF approval \in Verdicts THEN approval ELSE Fallback

(* Mutant of Resolve: the message stays in the queue.                      *)
ResolveUnacknowledged(w) ==
  /\ resumes > 0 /\ countdown = 0
  /\ resuming[w] = "none"
  /\ resuming' = [resuming EXCEPT ![w] = Resolved]
  /\ UNCHANGED <<job, keys, messages, review, history>>

Resolve(w) ==
  /\ resumes > 0 /\ countdown = 0
  /\ resuming[w] = "none"
  /\ resumes' = resumes - 1
  /\ resuming' = [resuming EXCEPT ![w] = Resolved]
  /\ UNCHANGED <<job, keys, countdown, redeliveries, review, history>>

Finish(w) ==
  /\ resuming[w] # "none"
  /\ status' = IF resuming[w] = "approved" THEN "done" ELSE "rejected"
  /\ resuming' = [resuming EXCEPT ![w] = "none"]
  /\ UNCHANGED <<place, keys, messages, review, history>>

Redelivery ==
  /\ redeliveries < MaxRedeliveries
  /\ redeliveries' = redeliveries + 1
  /\ resumes' = resumes + 1

(* The process is lost before it acknowledges the message.                 *)
LoseResumer(w) ==
  /\ resuming[w] # "none"
  /\ Redelivery
  /\ resuming' = [resuming EXCEPT ![w] = "none"]
  /\ UNCHANGED <<job, keys, countdown, review, history>>

(* The message comes back although it is executed, or was: the process is  *)
(* lost after its last write, or the broker's visibility timeout, one hour *)
(* like the countdown, is over.                                            *)
Redeliver ==
  /\ place \in {"mapping", "over"}
  /\ Redelivery
  /\ UNCHANGED <<job, keys, countdown, review, resuming, history>>

------------------------------------------------------------------------------
Decreased(n) == IF n > 0 THEN n - 1 ELSE 0
Increased(n, bound) == IF n < bound THEN n + 1 ELSE n

Tick ==
  /\ approvalTTL' = Decreased(approvalTTL)
  /\ approval' = IF approvalTTL > 1 THEN approval ELSE "none"
  /\ mappingTTL' = Decreased(mappingTTL)
  /\ countdown' = Decreased(countdown)
  /\ age' = IF given = "none" THEN age ELSE Increased(age, AnswerTTL)
  /\ waited' = IF place = "checkpoint" THEN waited ELSE Increased(waited, Timeout)
  /\ UNCHANGED <<job, resumes, redeliveries, review, resuming, given, accepted, promised>>

Next ==
  \/ Analysis \/ Redeliver \/ Tick
  \/ \E v \in Reviewers :
       \/ \E d \in Verdicts : Check(v, d) \/ FindRequest(v, d)
       \/ Answer(v) \/ Respond(v) \/ RespondInVain(v)
  \/ \E w \in Resumers : Resolve(w) \/ Finish(w) \/ LoseResumer(w)

Spec == Init /\ [][Next]_vars

(* The worker goes on, a free process takes a message that is due, time    *)
(* passes.  Nobody has to answer.                                          *)
Fairness ==
  /\ WF_vars(Analysis)
  /\ WF_vars(Tick)
  /\ \A w \in Resumers : WF_vars(Resolve(w) \/ Finish(w))

FairSpec == Spec /\ Fairness

------------------------------------------------------------------------------
(* resume_hitl_job decides as the last answer says, if one was stored less *)
(* than AnswerTTL ago, by whichever endpoint, as soon as the webhook was   *)
(* sent ("Store BEFORE sending webhook to avoid race"); else it falls back.*)
OutcomeIsFreshAnswer ==
  [][\A w \in Resumers :
       resuming[w] = "none" /\ resuming'[w] # "none" =>
         resuming'[w] = IF given # "none" /\ age < AnswerTTL THEN given ELSE Fallback]_vars

(* expires_at in the webhook: until then the request is known, and nothing *)
(* decides without the human.                                              *)
ReviewWindow ==
  place # "checkpoint" /\ waited < Timeout =>
    /\ approval # "none"
    /\ status \in {"running", "pending_human"}
    /\ \A w \in Resumers : resuming[w] = "none"

(* "Already processed": approve and reject accept one answer, and besides  *)
(* it only those of requests that had passed the check before it was       *)
(* stored.                                                                 *)
AcceptedBounded == accepted <= Cardinality(Reviewers)

Final == {"done", "rejected"}

(* Answered or not, lost or delivered several times, the review ends: from *)
(* some time on the job is done or rejected, though one may replace the    *)
(* other as long as the message comes back.                                *)
ReviewEnds == <>[](status \in Final)

(* resume_hitl_job takes no lock and does not look at the job: delivered a *)
(* second time it decides again.  It can decide otherwise only if a human  *)
(* has answered, whose answer has expired, came after the first reading or *)
(* replaced another; the fallback and a single delivery are decided once.  *)
OutcomeStands ==
  [][(status \in Final /\ status' # status) => redeliveries > 0 /\ given # "none"]_vars

------------------------------------------------------------------------------
(* Statements of the repository's texts that the code does not keep.       *)

(* core/hitl.py: "resume_hitl_job() checks the Redis key once and          *)
(* finalises the job."                                                     *)
OutcomeIsFinal == [][(status \in Final) => status' = status]_vars

(* ARCHITECTURE.md: a job PENDING_HUMAN, answered by POST                  *)
(* /hitl/respond/{job_id} with action "reject", becomes REJECTED.          *)
RejectionHolds == promised = "rejected" => status # "done"
==============================================================================
