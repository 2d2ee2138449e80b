------------------------------ MODULE Outcomes ------------------------------
(***************************************************************************)
(* What the platform learns about one product of one tenant.  An analysis  *)
(* ends by inserting a row into decision_memory (core/rag_memory.py) and   *)
(* overwriting the last decision in Redis (core/memory.py), then its job   *)
(* is marked done.  The client reports the demand that came true with      *)
(* POST /outcomes/{job_id} (api/main.py, core/memory_safety.py): it is     *)
(* compared with the last decision, whichever job made that one, and       *)
(* written into the memory, the newest row and the job's record, each      *)
(* with reads before and awaits in between.  An analysis may fail, or lose *)
(* its process, between any two of its steps, and starts again.            *)
(*                                                                         *)
(* Demands are whole units; accuracies and factors are in thousandths, as  *)
(* the code rounds them.  The memory's 30 days and the record's 7 days are *)
(* longer than the horizon.  How often a job is tried, and the wait of a   *)
(* reviewed one, are in JobLifecycle and Hitl.                             *)
(***************************************************************************)
EXTENDS Integers, Sequences, FiniteSets

CONSTANTS
  Jobs,          \* analyses of the product
  Handlers,      \* outcome requests that run at the same time
  Predictions,   \* adjusted_30_days; 0 if the sales agent had no data
  Demands,       \* actual_demand
  None,
  MaxReruns,     \* bound: redeliveries and retries
  MaxRequests    \* bound: POST /outcomes/{job_id}, GET and DELETE /memory/{product_id}

ASSUME ConstantsAssumption ==
  /\ IsFiniteSet(Jobs) /\ IsFiniteSet(Handlers)
  /\ Predictions \subseteq Nat /\ Demands \subseteq Nat
  /\ None \notin Int
  /\ MaxReruns \in Nat /\ MaxRequests \in Nat

Completed == {"done", "rejected"}

------------------------------------------------------------------------------
(* Arithmetic of core/memory_safety.py and core/memory.py                  *)

Distance(a, p) == IF a >= p THEN a - p ELSE p - a

(* round(n / d, 3)                                                         *)
Thousandths(n, d) == (2000 * n + d) \div (2 * d)

(* 1 - abs(actual - predicted) / predicted                                 *)
Accuracy(a, p) == Thousandths(p - Distance(a, p), p)

(* ratio > 3 or ratio < 1/3                                                *)
Anomalous(a, p) == p > 0 /\ (a > 3 * p \/ 3 * a < p)

(* accuracy < ACCURACY_FLOOR, 0.40                                         *)
BelowFloor(a, p) == p > 0 /\ 10 * Distance(a, p) > 6 * p

(* get_adjustment_factor                                                   *)
Factor(m) ==
  IF m.accuracy = None \/ m.accuracy >= 900 \/ m.predicted = 0 \/ m.actual = 0
    THEN 1000
    ELSE LET f == Thousandths(m.predicted + m.actual, 2 * m.predicted)
         IN  IF f < 500 THEN 500 ELSE IF f > 1500 THEN 1500 ELSE f

(* _generate_memory_note                                                   *)
Note(accuracy, adjustment) ==
  IF accuracy = None THEN "no data"
  ELSE IF accuracy >= 900 THEN "accurate"
  ELSE IF adjustment < 1000 THEN "too optimistic"
  ELSE IF adjustment > 1000 THEN "too conservative"
  ELSE "plain"

------------------------------------------------------------------------------
NoMemory == [id |-> 0, predicted |-> 0, actual |-> None, accuracy |-> None]
Records == [status : {"queued", "running", "done", "rejected", "error"},
            outcome : Demands \cup {None}]
NoRecord == [status |-> "queued", outcome |-> None]

VARIABLES
  record,      \* job:<job_id>
  memory,      \* memory:<tenant>:<sector>:<product>:last_decision, its id 0 if absent
  rows,        \* decision_memory, the newest last: the decision it stores and
               \* its accuracy
  resetLog,    \* length of memory:...:reset_log
  work, copy,  \* the place of each job's worker; the outcome in the record it
               \* has read and writes back
  made,        \* the number of the last decision it made
  at, req,     \* the place of each handler, and its request: job and demand
  snapshot,    \* the status in the record it has read and writes back
  found,       \* the memory it has read, with its outcome
  decisions, reruns, requests,   \* decisions made; used part of each bound
  calm,        \* history: "yes" while the learnt data are updated one at a time;
               \* "no" once that is over; "mending" while an analysis that nobody
               \* disturbs is between its row and its memory
  kept         \* history: outcomes confirmed since the job last ran

jobs == <<record, work, copy>>
learnt == <<memory, rows, calm>>
handlers == <<at, req, snapshot, found>>
bounds == <<reruns, requests>>
vars == <<jobs, learnt, resetLog, made, handlers, decisions, bounds, kept>>

Init ==
  /\ record = [j \in Jobs |-> NoRecord]
  /\ memory = NoMemory /\ rows = <<>> /\ resetLog = 0
  /\ work = [j \in Jobs |-> "begin"] /\ copy = [j \in Jobs |-> None]
  /\ made = [j \in Jobs |-> 0] /\ decisions = 0
  /\ at = [h \in Handlers |-> "idle"]
  /\ req = [h \in Handlers |-> None]
  /\ snapshot = [h \in Handlers |-> "queued"]
  /\ found = [h \in Handlers |-> NoMemory]
  /\ reruns = 0 /\ requests = 0
  /\ calm = "yes" /\ kept = {}

(* Someone is between two steps that must see the same last decision.      *)
Saving(j) == work[j] = "save"
Measuring(h) == at[h] \in {"reset", "set", "row"}
NobodySaves == \A j \in Jobs : ~Saving(j)
NobodyMeasures == \A h \in Handlers : ~Measuring(h)

------------------------------------------------------------------------------
(* The worker of job j                                                     *)

WorkerGoesTo(j, from, to) == work[j] = from /\ work' = [work EXCEPT ![j] = to]

(* update_job: GET, before RUNNING, before the final status and after an   *)
(* exception.                                                              *)
ReadRecord(j) ==
  /\ \/ WorkerGoesTo(j, "begin", "run")
     \/ WorkerGoesTo(j, "end", "finish")
     \/ WorkerGoesTo(j, "end reviewed", "finish reviewed")
     \/ WorkerGoesTo(j, "fail", "failed")
  /\ copy' = [copy EXCEPT ![j] = record[j].outcome]
  /\ UNCHANGED <<record, learnt, resetLog, made, handlers, decisions, bounds, kept>>

(* update_job: SETEX; a reviewer's verdict may be to reject.  A failed     *)
(* attempt is followed by the next one, if there is one.                   *)
WriteRecord(j) ==
  /\ \E status \in {"running", "done", "rejected", "error"} :
       /\ \/ status = "running" /\ WorkerGoesTo(j, "run", "analyse")
          \/ status = "done" /\ WorkerGoesTo(j, "finish", "over")
          \/ status \in Completed /\ WorkerGoesTo(j, "finish reviewed", "over")
          \/ status = "error" /\ WorkerGoesTo(j, "failed", "begin")
       /\ record' = [record EXCEPT ![j] = [status |-> status, outcome |-> copy[j]]]
  /\ copy' = [copy EXCEPT ![j] = None]
  /\ UNCHANGED <<learnt, resetLog, made, handlers, decisions, bounds, kept>>

(* A decision with low confidence goes to a human: nothing is learnt.      *)
LeaveToReview(j) ==
  /\ WorkerGoesTo(j, "analyse", "end reviewed")
  /\ UNCHANGED <<record, copy, learnt, resetLog, made, handlers, decisions, bounds, kept>>

(* store_decision_vector: INSERT; its errors are swallowed.                *)
InsertRow(j) ==
  /\ WorkerGoesTo(j, "analyse", "save")
  /\ decisions' = decisions + 1
  /\ made' = [made EXCEPT ![j] = decisions + 1]
  /\ \/ /\ rows' = Append(rows, [id |-> decisions + 1, accuracy |-> None])
        /\ calm' = IF ~(NobodySaves /\ NobodyMeasures) THEN "no"
                   ELSE IF calm = "yes" THEN "yes" ELSE "mending"
     \/ UNCHANGED rows /\ calm' = "no"
  /\ UNCHANGED <<record, copy, memory, resetLog, handlers, bounds, kept>>

(* Mutant of SaveMemory: SET NX, a memory is not overwritten.              *)
SaveFirstMemory(j) ==
  /\ WorkerGoesTo(j, "save", "end")
  /\ \E p \in Predictions :
       memory' = IF memory.id # 0 THEN memory
                 ELSE [id |-> made[j], predicted |-> p, actual |-> None, accuracy |-> None]
  /\ calm' = IF calm = "no" \/ ~NobodyMeasures THEN "no" ELSE "yes"
  /\ UNCHANGED <<record, copy, made, rows, resetLog, handlers, decisions, bounds, kept>>

(* save_decision_memory: SETEX                                             *)
SaveMemory(j) ==
  /\ WorkerGoesTo(j, "save", "end")
  /\ \E p \in Predictions :
       memory' = [id |-> made[j], predicted |-> p, actual |-> None, accuracy |-> None]
  /\ calm' = IF calm = "no" \/ ~NobodyMeasures THEN "no" ELSE "yes"
  /\ UNCHANGED <<record, copy, made, rows, resetLog, handlers, decisions, bounds, kept>>

(* An exception, or the loss of the process: the job is retried, or its    *)
(* message redelivered, from the beginning.                                *)
Fail(j) ==
  /\ reruns < MaxReruns /\ reruns' = reruns + 1
  /\ \E to \in {"fail", "begin"} : work' = [work EXCEPT ![j] = to]
  /\ work[j] \notin {"begin", "over"}
  /\ copy' = [copy EXCEPT ![j] = None]
  /\ calm' = IF Saving(j) THEN "no" ELSE calm
  /\ UNCHANGED <<record, memory, rows, resetLog, made, handlers, decisions, requests, kept>>

(* The process is lost before it acknowledges the message.                 *)
Rerun(j) ==
  /\ WorkerGoesTo(j, "over", "begin")
  /\ reruns < MaxReruns /\ reruns' = reruns + 1
  /\ kept' = kept \ {j}
  /\ UNCHANGED <<record, copy, learnt, resetLog, made, handlers, decisions, requests>>

Worker(j) ==
  ReadRecord(j) \/ WriteRecord(j) \/ LeaveToReview(j) \/ InsertRow(j) \/ SaveMemory(j)

------------------------------------------------------------------------------
(* POST /outcomes/{job_id}                                                 *)

HandlerGoesTo(h, from, to) == at[h] = from /\ at' = [at EXCEPT ![h] = to]

Ends(h) ==
  /\ at' = [at EXCEPT ![h] = "idle"]
  /\ req' = [req EXCEPT ![h] = None]
  /\ snapshot' = [snapshot EXCEPT ![h] = "queued"]
  /\ found' = [found EXCEPT ![h] = NoMemory]

Take(h, j, a) ==
  /\ HandlerGoesTo(h, "idle", "measure")
  /\ requests < MaxRequests /\ requests' = requests + 1
  /\ req' = [req EXCEPT ![h] = [job |-> j, demand |-> a]]
  /\ snapshot' = [snapshot EXCEPT ![h] = record[j].status]
  /\ UNCHANGED <<jobs, learnt, resetLog, made, found, decisions, reruns, kept>>

(* Mutant of GetJob: the status is not checked.                            *)
GetAnyJob(h, j, a) == Take(h, j, a)

(* get_job; 400 unless the job is completed                                *)
GetJob(h, j, a) == record[j].status \in Completed /\ Take(h, j, a)

(* The memory with the demand that came true; a prediction of 0 is not     *)
(* measured and leaves the accuracy as it was.                             *)
WithOutcome(m, a) ==
  [m EXCEPT !.actual = a, !.accuracy = IF m.predicted > 0 THEN Accuracy(a, m.predicted) ELSE @]

(* save_actual_outcome_safe: GET, and what is to be done about the memory  *)
Measure(h) ==
  LET a == req[h].demand
      p == memory.predicted
      skip == memory.id = 0 \/ Anomalous(a, p)
  IN  /\ at[h] = "measure"
      /\ \/ skip /\ HandlerGoesTo(h, "measure", "job") /\ UNCHANGED found
         \/ /\ ~skip
            /\ HandlerGoesTo(h, "measure", IF BelowFloor(a, p) THEN "reset" ELSE "set")
            /\ found' = [found EXCEPT ![h] = WithOutcome(memory, a)]
      /\ calm' = IF NobodySaves THEN calm ELSE "no"
      /\ UNCHANGED <<jobs, memory, rows, resetLog, made, req, snapshot, decisions, bounds, kept>>

(* reset_memory, for an accuracy below the floor: DEL                      *)
Reset(h) ==
  /\ HandlerGoesTo(h, "reset", "log")
  /\ memory' = NoMemory
  /\ found' = [found EXCEPT ![h] = NoMemory]
  /\ UNCHANGED <<jobs, rows, calm, resetLog, made, req, snapshot, decisions, bounds, kept>>

(* ... LPUSH                                                               *)
LogReset(h) ==
  /\ \/ HandlerGoesTo(h, "log", "job") /\ UNCHANGED <<req, snapshot, found>>
     \/ at[h] = "manual log" /\ Ends(h)
  /\ resetLog' = resetLog + 1
  /\ UNCHANGED <<jobs, learnt, made, decisions, bounds, kept>>

(* Mutant of SetMemory: the outcome is put into the current record.        *)
SetMemoryFields(h) ==
  /\ HandlerGoesTo(h, "set", "row")
  /\ memory' = [memory EXCEPT !.actual = found[h].actual, !.accuracy = found[h].accuracy]
  /\ UNCHANGED <<jobs, rows, calm, resetLog, made, req, snapshot, found, decisions, bounds, kept>>

(* SETEX of the record read before                                         *)
SetMemory(h) ==
  /\ HandlerGoesTo(h, "set", "row")
  /\ memory' = found[h]
  /\ UNCHANGED <<jobs, rows, calm, resetLog, made, req, snapshot, found, decisions, bounds, kept>>

(* Mutant of UpdateRow: ORDER BY created_at without DESC.                  *)
UpdateOldestRow(h) ==
  /\ HandlerGoesTo(h, "row", "job")
  /\ \/ /\ found[h].accuracy # None /\ rows # <<>>
        /\ rows' = [rows EXCEPT ![1].accuracy = found[h].accuracy]
     \/ UNCHANGED rows
  /\ found' = [found EXCEPT ![h] = NoMemory]
  /\ UNCHANGED <<jobs, memory, calm, resetLog, made, req, snapshot, decisions, bounds, kept>>

(* The accuracy goes to the newest row of the product, if there is one; in *)
(* DEMO_MODE it does not, and errors are swallowed.                        *)
UpdateRow(h) ==
  /\ HandlerGoesTo(h, "row", "job")
  /\ \/ /\ found[h].accuracy # None /\ rows # <<>>
        /\ rows' = [rows EXCEPT ![Len(rows)].accuracy = found[h].accuracy]
     \/ UNCHANGED rows
  /\ found' = [found EXCEPT ![h] = NoMemory]
  /\ UNCHANGED <<jobs, memory, calm, resetLog, made, req, snapshot, decisions, bounds, kept>>

(* SETEX of the job read at the beginning, then the audit log              *)
WriteJob(h) ==
  LET j == req[h].job
  IN  /\ at[h] = "job" /\ Ends(h)
      /\ record' = [record EXCEPT ![j] = [status |-> snapshot[h], outcome |-> req[h].demand]]
      /\ kept' = IF work[j] = "over" THEN kept \cup {j} ELSE kept
      /\ UNCHANGED <<work, copy, learnt, resetLog, made, decisions, bounds>>

(* DELETE /memory/{product_id}: DEL                                        *)
ManualReset(h) ==
  /\ HandlerGoesTo(h, "idle", "manual log")
  /\ requests < MaxRequests /\ requests' = requests + 1
  /\ memory' = NoMemory
  /\ UNCHANGED <<jobs, rows, calm, resetLog, made, req, snapshot, found,
                 decisions, reruns, kept>>

(* get_memory_summary, for GET /memory/{product_id} or for the prompt of a *)
(* decision: GET of the memory, for the accuracy                           *)
HearAccuracy(h) ==
  /\ memory.id # 0
  /\ HandlerGoesTo(h, "idle", "summary")
  /\ requests < MaxRequests /\ requests' = requests + 1
  /\ found' = [found EXCEPT ![h] = memory]
  /\ UNCHANGED <<jobs, learnt, resetLog, made, req, snapshot, decisions, reruns, kept>>

(* ... and again for the factor, which ends the summary                    *)
HearFactor(h) ==
  /\ at[h] = "summary" /\ Ends(h)
  /\ UNCHANGED <<jobs, learnt, resetLog, made, decisions, bounds, kept>>

(* What it says if the factor is read now.                                 *)
Heard(h) == Note(found[h].accuracy, Factor(memory))

(* An error of Redis, or the end of the process.                           *)
Lose(h) ==
  /\ at[h] # "idle" /\ Ends(h)
  /\ UNCHANGED <<jobs, learnt, resetLog, made, decisions, bounds, kept>>

Handle(h) ==
  \/ Measure(h) \/ Reset(h) \/ LogReset(h) \/ SetMemory(h) \/ UpdateRow(h) \/ WriteJob(h)

Next ==
  \/ \E j \in Jobs : Worker(j) \/ Fail(j) \/ Rerun(j)
  \/ \E h \in Handlers :
       \/ \E j \in Jobs, a \in Demands : GetJob(h, j, a)
       \/ Handle(h) \/ ManualReset(h) \/ HearAccuracy(h) \/ HearFactor(h) \/ Lose(h)

Spec == Init /\ [][Next]_vars

------------------------------------------------------------------------------
TypeOK ==
  /\ record \in [Jobs -> Records] /\ copy \in [Jobs -> Demands \cup {None}]
  /\ memory.predicted \in Predictions \cup {0}
  /\ \A i \in DOMAIN rows : rows[i].id \in 1..decisions
  /\ snapshot \in [Handlers -> Completed \cup {"queued"}]

(* Whatever writes overtake each other, a memory with an accuracy has that *)
(* of its own forecast, never below the floor, and the factor derived from *)
(* it is between -30% and +30% and has the direction of the error: a       *)
(* record is only ever replaced as a whole.  A summary is less than that,  *)
(* because its accuracy and its factor are read one after the other: when  *)
(* it calls the last forecast too high or too low, that is true of the     *)
(* record the factor was read from; that it says so of every forecast      *)
(* below 90% holds only if the record has not changed in between.          *)
CorrectionIsSound ==
  LET p == memory.predicted
      a == memory.actual
      f == Factor(memory)
  IN  /\ memory.accuracy # None =>
           /\ p > 0 /\ memory.accuracy = Accuracy(a, p) /\ memory.accuracy >= 400
           /\ f \in 700..1300
           /\ memory.accuracy < 900 => f # 1000 /\ (f < 1000 <=> a < p)
      /\ \A h \in Handlers : at[h] = "summary" =>
           /\ Heard(h) = "too optimistic" => a < p
           /\ Heard(h) = "too conservative" => a > p
           /\ found[h] = memory => Heard(h) # "plain"

(* While the learnt data are updated one at a time, the newest row is that *)
(* of the last decision.  Two that overlap, an INSERT that fails, or a     *)
(* worker that ends between its row and its memory, part the two; the next *)
(* analysis that nobody disturbs between its two writes brings them        *)
(* together again.  The code keeps them in step by their order only: no    *)
(* identifier links them.                                                  *)
RowsFollowMemory ==
  calm = "yes" /\ memory.id # 0 /\ NobodySaves => rows # <<>> /\ rows[Len(rows)].id = memory.id

(* ... and as long as they are in step, an accuracy is written to the row  *)
(* of the decision that was measured.                                      *)
AccuracyGoesToItsRow ==
  [][(calm = "yes" /\ Len(rows') = Len(rows)) =>
       \A i \in DOMAIN rows :
         rows'[i] # rows[i] => \E h \in Handlers : at[h] = "row" /\ found[h].id = rows[i].id]_vars

(* A job whose worker is through stays completed although handlers write   *)
(* back records they read long ago, and unless it runs again a confirmed   *)
(* outcome stays in it.                                                    *)
CompletionSurvivesOutcomes ==
  \A j \in Jobs :
    /\ work[j] = "over" => record[j].status \in Completed
    /\ j \in kept => record[j].outcome # None

------------------------------------------------------------------------------
(* A statement of the repository's texts that the code does not keep.      *)

(* DOCUMENTATION.md: "Record the actual result after acting on a           *)
(* recommendation."  An outcome is compared with the forecast of the       *)
(* recommendation it is reported for.                                      *)
OutcomeMeasuresItsJob ==
  [][\A h \in Handlers :
       at[h] = "measure" /\ at'[h] \in {"reset", "set"} /\ made[req[h].job] # 0 =>
         found'[h].id = made[req[h].job]]_vars
=============================================================================
