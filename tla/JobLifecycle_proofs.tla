------------------------- MODULE JobLifecycle_proofs -------------------------
(***************************************************************************)
(* What holds of a job's record and of its executions for any number of    *)
(* workers and requests and any number of faults and retries, and what     *)
(* holds besides as long as no fault has happened.                         *)
(***************************************************************************)
EXTENDS JobLifecycle, FiniteSetTheorems, TLAPS

USE BoundsAssumption, NoRecordAssumption

(* A record that explains its own status.                                  *)
Explained(rec) ==
  /\ rec.status \in {"done", "rejected"} => rec.result \in {"full", "reviewed"}
  /\ rec.status = "error" => rec.error # "none" \/ rec.result = "inconclusive"

(* Stale snapshots are explained too: writing one back cannot break the    *)
(* record.                                                                 *)
RecordsExplained ==
  /\ record # NoRecord => Explained(record)
  /\ \A w \in Workers : seen[w] # NoRecord => Explained(seen[w])
  /\ \A h \in Handlers : apiSeen[h] # NoRecord => Explained(apiSeen[h])

(* A retry request past its check knows a record.                          *)
RetrySeesRecord ==
  \A h \in Handlers :
    /\ apiAt[h] = "checked" => record # NoRecord
    /\ apiAt[h] = "read" => apiSeen[h] # NoRecord

(* Whoever executes holds the lock, alone.                                 *)
ExecutionHoldsLock ==
  /\ Executing # {} => lock = "held"
  /\ OneExecutionAtATime

------------------------------------------------------------------------------
(* The table of update_job calls.                                          *)
LEMMA UpdateTable ==
  ASSUME NEW u \in Updates
  PROVE  /\ u.from \in Places /\ u.to \in Places
         /\ u.status \in Statuses /\ u.result \in Results /\ u.error \in Errors
         /\ u.to \in ExecutionPlaces <=> u.from \in ExecutionPlaces
  BY DEF Updates, Update, Statuses, Results, Errors, Places, TryPlaces, ExceptPlaces,
         ResumePlaces, ExecutionPlaces

LEMMA UpdatedRecord ==
  ASSUME NEW rec \in JobRecord, NEW u \in Updates
  PROVE  Updated(rec, u) \in JobRecord
  BY UpdateTable DEF Updated, JobRecord

(* update_job keeps a record explained, from whatever it has read.         *)
LEMMA UpdatedIsExplained ==
  ASSUME NEW rec \in JobRecord, NEW u \in Updates, Explained(rec)
  PROVE  Explained(Updated(rec, u))
  BY DEF Updated, Explained, JobRecord, Updates, Update

------------------------------------------------------------------------------
TInv == TypeOK /\ RetrySeesRecord

LEMMA InitTInv == Init => TInv
  BY DEF Init, TInv, TypeOK, RetrySeesRecord, Places

LEMMA StepTInv == TInv /\ [Next]_vars => TInv'
<1> SUFFICES ASSUME TInv, [Next]_vars PROVE TInv'
  OBVIOUS
<1> USE DEF TInv, TypeOK, RetrySeesRecord, worker, api, history
<1>1. ASSUME NEW h \in Handlers, CreateJob(h)
      PROVE  TInv'
  BY <1>1 DEF CreateJob, HandlerGoesTo, JobRecord, Statuses, Results, Errors
<1>2. ASSUME NEW h \in Handlers, CheckRetry(h)
      PROVE  TInv'
  BY <1>2 DEF CheckRetry, HandlerGoesTo
<1>3. ASSUME NEW h \in Handlers, Enqueue(h)
      PROVE  TInv'
  BY <1>3 DEF Enqueue, HandlerGoesTo
<1>4. ASSUME NEW h \in Handlers, PublishRetry(h)
      PROVE  TInv'
  BY <1>4 DEF PublishRetry, HandlerGoesTo
<1>5. ASSUME NEW h \in Handlers, ReadForRetry(h)
      PROVE  TInv'
  BY <1>5 DEF ReadForRetry, HandlerGoesTo
<1>6. ASSUME NEW h \in Handlers, WriteForRetry(h)
      PROVE  TInv'
  <2>1. apiSeen[h] \in JobRecord
    BY <1>6 DEF WriteForRetry
  <2>2. Requeued(apiSeen[h]) \in JobRecord
    BY <2>1 DEF Requeued, JobRecord, Statuses
  <2> QED
    BY <1>6, <2>2 DEF WriteForRetry, HandlerGoesTo
<1>7. ASSUME NEW h \in Handlers, LoseHandler(h)
      PROVE  TInv'
  BY <1>7 DEF LoseHandler, HandlerGoesTo
<1>8. ASSUME NEW w \in Workers, NEW r \in 0..MaxRetries, Receive(w, r)
      PROVE  TInv'
  BY <1>8 DEF Receive, At, Places
<1>9. ASSUME NEW w \in Workers, Acquire(w)
      PROVE  TInv'
  BY <1>9 DEF Acquire, GoTo, Places, TryPlaces
<1>10. ASSUME NEW w \in Workers, Skip(w)
       PROVE  TInv'
  BY <1>10 DEF Skip, Finished, Places
<1>11. ASSUME NEW w \in Workers, ReadRecord(w)
       PROVE  TInv'
  BY <1>11 DEF ReadRecord
<1>12. ASSUME NEW w \in Workers, WriteRecord(w)
       PROVE  TInv'
  <2>1. PICK u \in Updates :
          /\ seen[w] # NoRecord
          /\ record' = Updated(seen[w], u)
          /\ GoTo(w, u.to)
    BY <1>12 DEF WriteRecord
  <2>2. record' \in JobRecord /\ u.to \in Places
    BY <2>1, UpdatedRecord, UpdateTable
  <2> QED
    BY <1>12, <2>1, <2>2 DEF WriteRecord, GoTo
<1>13. ASSUME NEW w \in Workers, Analyse(w)
       PROVE  TInv'
  BY <1>13 DEF Analyse, GoTo, Places, TryPlaces
<1>14. ASSUME NEW w \in Workers, ScheduleResume(w)
       PROVE  TInv'
  BY <1>14 DEF ScheduleResume, GoTo, Places, TryPlaces
<1>15. ASSUME NEW w \in Workers, EndTry(w)
       PROVE  TInv'
  BY <1>15 DEF EndTry, GoTo, Places
<1>16. ASSUME NEW w \in Workers, PushToDLQ(w)
       PROVE  TInv'
  BY <1>16 DEF PushToDLQ, GoTo, Places, ExceptPlaces
<1>17. ASSUME NEW w \in Workers, Requeue(w)
       PROVE  TInv'
  BY <1>17 DEF Requeue, GoTo, Places
<1>18. ASSUME NEW w \in Workers, Release(w)
       PROVE  TInv'
  BY <1>18 DEF Release, GoTo, Places
<1>19. ASSUME NEW w \in Workers, Acknowledge(w)
       PROVE  TInv'
  BY <1>19 DEF Acknowledge, Finished, Places
<1>20. ASSUME NEW w \in Workers, ReceiveResume(w)
       PROVE  TInv'
  BY <1>20 DEF ReceiveResume, GoTo, Places, ResumePlaces, At
<1>21. ASSUME NEW w \in Workers, Resolve(w)
       PROVE  TInv'
  BY <1>21 DEF Resolve, GoTo, Places, ResumePlaces
<1>22. ASSUME NEW w \in Workers, Raise(w)
       PROVE  TInv'
  <2>1. raises' \in 0..MaxRaises
    BY <1>22 DEF Raise, At
  <2>2. PICK place \in {"failed", "timeout"} : GoTo(w, place)
    BY <1>22 DEF Raise
  <2> QED
    BY <1>22, <2>1, <2>2 DEF Raise, GoTo, Places, ExceptPlaces
<1>23. ASSUME NEW w \in Workers, LoseWorker(w)
       PROVE  TInv'
  <2>1. resumes' \in Nat /\ messages' \in [0..MaxRetries -> Nat]
    <3>1. CASE at[w] \in ResumePlaces
      BY <1>23, <3>1 DEF LoseWorker
    <3>2. CASE at[w] \notin ResumePlaces
      <4>1. retries[w] \in 0..MaxRetries /\ messages[retries[w]] \in Nat
        OBVIOUS
      <4>2. /\ messages' = [messages EXCEPT ![retries[w]] = messages[retries[w]] + 1]
            /\ resumes' = resumes
        BY <1>23, <3>2 DEF LoseWorker
      <4>3. messages[retries[w]] + 1 \in Nat
        BY <4>1
      <4> QED
        BY <4>1, <4>2, <4>3
    <3> QED
      BY <3>1, <3>2
  <2> QED
    BY <1>23, <2>1 DEF LoseWorker, Finished, Places
<1>24. ASSUME NEW w \in Workers, AbortTask(w)
       PROVE  TInv'
  BY <1>24 DEF AbortTask, Finished, Places
<1>25. ASSUME NEW w \in Workers, AbortExcept(w)
       PROVE  TInv'
  BY <1>25 DEF AbortExcept, GoTo, Places
<1>26. CASE ExpireLock \/ UNCHANGED vars
  BY <1>26 DEF ExpireLock, vars
<1> QED
  BY <1>1, <1>2, <1>3, <1>4, <1>5, <1>6, <1>7, <1>8, <1>9, <1>10, <1>11,
     <1>12, <1>13, <1>14, <1>15, <1>16, <1>17, <1>18, <1>19, <1>20, <1>21,
     <1>22, <1>23, <1>24, <1>25, <1>26
     DEF Next, WorkerStep, ContinueHandler

(* Types are respected in every reachable state.                           *)
THEOREM TypeCorrect == Spec => []TypeOK
<1>1. TInv => TypeOK
  BY DEF TInv
<1> QED
  BY <1>1, InitTInv, StepTInv, PTL DEF Spec

------------------------------------------------------------------------------
(* Only these steps read or write a record; the others keep the record and *)
(* keep or drop the snapshots.                                             *)
RecordStep ==
  \/ \E h \in Handlers : CreateJob(h) \/ ReadForRetry(h) \/ WriteForRetry(h)
  \/ \E w \in Workers : ReadRecord(w) \/ WriteRecord(w)

LEMMA OtherStepsKeepRecords ==
  ASSUME TInv, [Next]_vars, ~RecordStep
  PROVE  /\ record' = record
         /\ \A w \in Workers : seen'[w] \in {seen[w], NoRecord}
         /\ \A h \in Handlers : apiSeen'[h] \in {apiSeen[h], NoRecord}
<1> USE DEF TInv, TypeOK, worker, api
<1>1. ASSUME NEW h \in Handlers,
             CheckRetry(h) \/ Enqueue(h) \/ PublishRetry(h) \/ LoseHandler(h)
      PROVE  /\ record' = record /\ seen' = seen
             /\ apiSeen' = [apiSeen EXCEPT ![h] = NoRecord]
  BY <1>1 DEF CheckRetry, Enqueue, PublishRetry, LoseHandler, HandlerGoesTo
<1>2. ASSUME NEW w \in Workers,
             \/ Acquire(w) \/ Skip(w) \/ Analyse(w) \/ ScheduleResume(w)
             \/ EndTry(w) \/ PushToDLQ(w) \/ Requeue(w) \/ Release(w)
             \/ Acknowledge(w) \/ ReceiveResume(w) \/ Resolve(w) \/ Raise(w)
             \/ LoseWorker(w) \/ AbortTask(w) \/ AbortExcept(w)
      PROVE  /\ record' = record /\ apiSeen' = apiSeen
             /\ seen' = [seen EXCEPT ![w] = NoRecord]
  BY <1>2, Zenon DEF Acquire, Skip, Analyse, ScheduleResume, EndTry, PushToDLQ, Requeue,
              Release, Acknowledge, ReceiveResume, Resolve, Raise, LoseWorker,
              AbortTask, AbortExcept, GoTo, Finished
<1>3. ASSUME NEW w \in Workers, NEW r \in 0..MaxRetries, Receive(w, r)
      PROVE  record' = record /\ seen' = seen /\ apiSeen' = apiSeen
  BY <1>3 DEF Receive
<1>4. CASE ExpireLock \/ UNCHANGED vars
  BY <1>4 DEF ExpireLock, vars
<1>5. CASE Next
  <2>1. CASE \E h \in Handlers :
               CheckRetry(h) \/ Enqueue(h) \/ PublishRetry(h) \/ LoseHandler(h)
    BY <1>1, <2>1
  <2>2. CASE \E w \in Workers :
               \/ Acquire(w) \/ Skip(w) \/ Analyse(w) \/ ScheduleResume(w)
               \/ EndTry(w) \/ PushToDLQ(w) \/ Requeue(w) \/ Release(w)
               \/ Acknowledge(w) \/ ReceiveResume(w) \/ Resolve(w) \/ Raise(w)
               \/ LoseWorker(w) \/ AbortTask(w) \/ AbortExcept(w)
    BY <1>2, <2>2
  <2>3. CASE \E w \in Workers : \E r \in 0..MaxRetries : Receive(w, r)
    BY <1>3, <2>3
  <2> QED
    BY <1>4, <1>5, <2>1, <2>2, <2>3
       DEF Next, WorkerStep, ContinueHandler, RecordStep
<1> QED
  BY <1>4, <1>5

EInv == TInv /\ RecordsExplained

LEMMA InitEInv == Init => EInv
  BY InitTInv DEF Init, EInv, RecordsExplained

LEMMA StepEInv == EInv /\ [Next]_vars => EInv'
<1> SUFFICES ASSUME EInv, [Next]_vars PROVE RecordsExplained'
  BY StepTInv DEF EInv
<1> USE DEF EInv, RecordsExplained, TInv, TypeOK
<1>1. ASSUME NEW h \in Handlers, CreateJob(h)
      PROVE  RecordsExplained'
  BY <1>1 DEF CreateJob, HandlerGoesTo, Explained, worker
<1>2. ASSUME NEW h \in Handlers, ReadForRetry(h)
      PROVE  RecordsExplained'
  BY <1>2 DEF ReadForRetry, HandlerGoesTo, worker
<1>3. ASSUME NEW h \in Handlers, WriteForRetry(h)
      PROVE  RecordsExplained'
  <2>1. Explained(Requeued(apiSeen[h]))
    BY DEF Requeued, Explained
  <2> QED
    BY <1>3, <2>1 DEF WriteForRetry, HandlerGoesTo, worker
<1>4. ASSUME NEW w \in Workers, ReadRecord(w)
      PROVE  RecordsExplained'
  BY <1>4 DEF ReadRecord, api
<1>5. ASSUME NEW w \in Workers, WriteRecord(w)
      PROVE  RecordsExplained'
  <2>1. PICK u \in Updates :
          /\ seen[w] # NoRecord
          /\ record' = Updated(seen[w], u)
          /\ GoTo(w, u.to)
    BY <1>5 DEF WriteRecord
  <2>2. Explained(record')
    BY <2>1, UpdatedIsExplained
  <2> QED
    BY <1>5, <2>1, <2>2 DEF WriteRecord, GoTo, api
<1>6. CASE ~RecordStep
  BY <1>6, OtherStepsKeepRecords
<1> QED
  BY <1>1, <1>2, <1>3, <1>4, <1>5, <1>6 DEF RecordStep

(* A job shown as completed always has the result that goes with it, and   *)
(* one shown in error says why, whatever is lost or repeated.              *)
THEOREM CompletedJobsHaveResults == Spec => []CompletedJobHasResult
<1>1. EInv => CompletedJobHasResult
  BY DEF EInv, RecordsExplained, Explained, CompletedJobHasResult, Status
<1> QED
  BY <1>1, InitEInv, StepEInv, PTL DEF Spec

THEOREM ErrorsAreExplained == Spec => []ErrorIsExplained
<1>1. EInv => ErrorIsExplained
  BY DEF EInv, RecordsExplained, Explained, ErrorIsExplained, Status
<1> QED
  BY <1>1, InitEInv, StepEInv, PTL DEF Spec

------------------------------------------------------------------------------
(* The lock excludes: a step starts an execution only by taking a free     *)
(* lock, and frees the lock only when no other execution is left.          *)
LInv == TInv /\ ExecutionHoldsLock

LEMMA InitLInv == Init => LInv
  BY InitTInv
     DEF Init, LInv, ExecutionHoldsLock, OneExecutionAtATime, Executing,
         ExecutionPlaces, TryPlaces, ExceptPlaces

(* All the other steps keep the lock and start no execution.                *)
LEMMA OtherStepsStartNoExecution ==
  ASSUME TInv, [Next]_vars, ~ExpireLock,
         ~\E w \in Workers : Acquire(w) \/ Release(w)
  PROVE  lock' = lock /\ Executing' \subseteq Executing
<1> USE DEF TInv, TypeOK, worker, Executing
<1>1. ASSUME NEW h \in Handlers,
             \/ CreateJob(h) \/ CheckRetry(h) \/ Enqueue(h) \/ PublishRetry(h)
             \/ ReadForRetry(h) \/ WriteForRetry(h) \/ LoseHandler(h)
      PROVE  lock' = lock /\ at' = at
  BY <1>1, Zenon DEF CreateJob, CheckRetry, Enqueue, PublishRetry, ReadForRetry,
              WriteForRetry, LoseHandler, HandlerGoesTo
<1>2. ASSUME NEW w \in Workers,
             \/ \E r \in 0..MaxRetries : Receive(w, r)
             \/ Skip(w) \/ Acknowledge(w) \/ ReceiveResume(w) \/ Resolve(w)
             \/ LoseWorker(w) \/ AbortTask(w)
      PROVE  /\ lock' = lock
             /\ \E p \in {"received", "idle", "resolve", "approved", "declined"} :
                  at' = [at EXCEPT ![w] = p]
  BY <1>2, Zenon DEF Receive, Skip, Acknowledge, ReceiveResume, Resolve, LoseWorker,
              AbortTask, GoTo, Finished
<1>3. ASSUME NEW w \in Workers,
             \/ Analyse(w) \/ ScheduleResume(w) \/ EndTry(w) \/ PushToDLQ(w)
             \/ Requeue(w) \/ Raise(w) \/ AbortExcept(w)
      PROVE  /\ lock' = lock
             /\ at[w] \in ExecutionPlaces
             /\ \A v \in Workers : v # w => at'[v] = at[v]
  <2>1. lock' = lock
    BY <1>3, Zenon DEF Analyse, ScheduleResume, EndTry, PushToDLQ, Requeue, Raise,
                AbortExcept
  <2>2. at[w] \in ExecutionPlaces
    BY <1>3 DEF Analyse, ScheduleResume, EndTry, PushToDLQ, Requeue, Raise,
                AbortExcept, At, ExecutionPlaces, TryPlaces, ExceptPlaces
  <2>3. \A v \in Workers : v # w => at'[v] = at[v]
    BY <1>3 DEF Analyse, ScheduleResume, EndTry, PushToDLQ, Requeue, Raise,
                AbortExcept, GoTo
  <2> QED
    BY <2>1, <2>2, <2>3
<1>4. ASSUME NEW w \in Workers, ReadRecord(w)
      PROVE  lock' = lock /\ at' = at
  BY <1>4 DEF ReadRecord
<1>5. ASSUME NEW w \in Workers, WriteRecord(w)
      PROVE  lock' = lock /\ Executing' \subseteq Executing
  <2>1. PICK u \in Updates : At(w, u.from) /\ GoTo(w, u.to) /\ lock' = lock
    BY <1>5 DEF WriteRecord
  <2> QED
    BY <2>1, UpdateTable DEF At, GoTo
<1>6. CASE UNCHANGED vars
  BY <1>6 DEF vars
<1>7. CASE Next
  <2>1. ASSUME NEW w \in Workers,
               \/ \E r \in 0..MaxRetries : Receive(w, r)
               \/ Skip(w) \/ Acknowledge(w) \/ ReceiveResume(w) \/ Resolve(w)
               \/ LoseWorker(w) \/ AbortTask(w)
        PROVE  lock' = lock /\ Executing' \subseteq Executing
    BY <1>2, <2>1 DEF ExecutionPlaces, TryPlaces, ExceptPlaces
  <2>2. ASSUME NEW w \in Workers,
               \/ Analyse(w) \/ ScheduleResume(w) \/ EndTry(w) \/ PushToDLQ(w)
               \/ Requeue(w) \/ Raise(w) \/ AbortExcept(w)
        PROVE  lock' = lock /\ Executing' \subseteq Executing
    BY <1>3, <2>2
  <2> QED
    BY <1>1, <1>4, <1>5, <1>7, <2>1, <2>2
       DEF Next, WorkerStep, ContinueHandler
<1> QED
  BY <1>6, <1>7

LEMMA StepLInv == LInv /\ [Next]_vars => LInv'
<1> SUFFICES ASSUME LInv, [Next]_vars PROVE ExecutionHoldsLock'
  BY StepTInv DEF LInv
<1> USE DEF LInv, ExecutionHoldsLock, OneExecutionAtATime
<1>1. ASSUME NEW w \in Workers, Acquire(w)
      PROVE  ExecutionHoldsLock'
  <2>1. Executing = {} /\ lock' = "held"
    BY <1>1 DEF Acquire
  <2>2. Executing' \subseteq {w}
    BY <1>1, <2>1 DEF Acquire, GoTo, Executing, TInv, TypeOK
  <2> QED
    BY <2>1, <2>2
<1>2. ASSUME NEW w \in Workers, Release(w)
      PROVE  ExecutionHoldsLock'
  <2>1. Executing \subseteq {w}
    BY <1>2 DEF Release, At, Executing, ExecutionPlaces
  <2>2. Executing' = {}
    BY <1>2, <2>1
       DEF Release, GoTo, Executing, ExecutionPlaces, TryPlaces, ExceptPlaces,
           TInv, TypeOK
  <2> QED
    BY <2>2
<1>3. CASE ExpireLock
  BY <1>3 DEF ExpireLock, worker, Executing
<1>4. CASE ~ExpireLock /\ ~\E w \in Workers : Acquire(w) \/ Release(w)
  BY <1>4, OtherStepsStartNoExecution
<1> QED
  BY <1>1, <1>2, <1>3, <1>4

THEOREM ExecutionsNeverOverlap == Spec => []OneExecutionAtATime
<1>1. LInv => OneExecutionAtATime
  BY DEF LInv, ExecutionHoldsLock
<1> QED
  BY <1>1, InitLInv, StepLInv, PTL DEF Spec

------------------------------------------------------------------------------
(* Without faults                                                          *)

(* A step after which no fault has been used is none of the faults.        *)
LEMMA FaultlessSteps ==
  ASSUME TInv, [Next]_vars, faults' = 0
  PROVE  /\ faults = 0
         /\ \/ \E h \in Handlers : CreateJob(h) \/ CheckRetry(h) \/ ContinueHandler(h)
            \/ \E w \in Workers : WorkerStep(w) \/ Raise(w)
            \/ ExpireLock \/ UNCHANGED vars
<1>0. faults \in Nat
  BY DEF TInv, TypeOK
<1>1. ASSUME NEW h \in Handlers, LoseHandler(h) PROVE FALSE
  BY <1>0, <1>1 DEF LoseHandler
<1>2. ASSUME NEW w \in Workers, LoseWorker(w) \/ AbortTask(w) \/ AbortExcept(w) PROVE FALSE
  BY <1>0, <1>2 DEF LoseWorker, AbortTask, AbortExcept
<1>3. ASSUME NEW h \in Handlers, CreateJob(h) \/ CheckRetry(h) \/ ContinueHandler(h)
      PROVE  faults' = faults
  BY <1>3, Zenon DEF CreateJob, CheckRetry, ContinueHandler, Enqueue, ReadForRetry,
                     WriteForRetry, PublishRetry
<1>4. ASSUME NEW w \in Workers, WorkerStep(w) \/ Raise(w)
      PROVE  faults' = faults
  BY <1>4, Zenon DEF WorkerStep, Raise, Receive, Acquire, Skip, ReadRecord, WriteRecord,
                     Analyse, ScheduleResume, EndTry, PushToDLQ, Requeue, Release,
                     Acknowledge, ReceiveResume, Resolve
<1>5. CASE ExpireLock \/ UNCHANGED vars
  BY <1>5 DEF ExpireLock, vars
<1>6. CASE \E h \in Handlers : CreateJob(h) \/ CheckRetry(h) \/ ContinueHandler(h)
  BY <1>3, <1>6
<1>7. CASE \E w \in Workers : WorkerStep(w) \/ Raise(w)
  BY <1>4, <1>7
<1> QED
  BY <1>1, <1>2, <1>5, <1>6, <1>7 DEF Next

(* Only the release ends an execution.                                     *)
LEMMA FaultlessStepsEndNoExecution ==
  ASSUME TInv, [Next]_vars, faults' = 0, ~ExpireLock,
         ~\E w \in Workers : Acquire(w) \/ Release(w)
  PROVE  lock' = lock /\ Executing \subseteq Executing'
<1> USE DEF TInv, TypeOK, worker, Executing
<1>1. lock' = lock
  BY OtherStepsStartNoExecution
<1>2. ASSUME NEW h \in Handlers, CreateJob(h) \/ CheckRetry(h) \/ ContinueHandler(h)
      PROVE  at' = at
  BY <1>2, Zenon DEF CreateJob, CheckRetry, ContinueHandler, Enqueue, ReadForRetry,
                     WriteForRetry, PublishRetry
<1>3. ASSUME NEW w \in Workers, ReadRecord(w) PROVE at' = at
  BY <1>3 DEF ReadRecord
<1>4. ASSUME NEW w \in Workers, WriteRecord(w) PROVE Executing \subseteq Executing'
  <2>1. PICK u \in Updates : At(w, u.from) /\ GoTo(w, u.to)
    BY <1>4 DEF WriteRecord
  <2> QED
    BY <2>1, UpdateTable DEF At, GoTo
<1>5. ASSUME NEW w \in Workers,
             \/ Analyse(w) \/ ScheduleResume(w) \/ EndTry(w) \/ PushToDLQ(w)
             \/ Requeue(w) \/ Raise(w)
      PROVE  Executing \subseteq Executing'
  <2>1. \E p \in {"pending", "finish", "inconclusive", "mapping", "release", "requeue",
                  "failed", "timeout"} : at' = [at EXCEPT ![w] = p]
    BY <1>5 DEF Analyse, ScheduleResume, EndTry, PushToDLQ, Requeue, Raise, GoTo
  <2> QED
    BY <2>1 DEF ExecutionPlaces, TryPlaces, ExceptPlaces
<1>6. ASSUME NEW w \in Workers,
             \/ \E r \in 0..MaxRetries : Receive(w, r)
             \/ Skip(w) \/ Acknowledge(w) \/ ReceiveResume(w) \/ Resolve(w)
      PROVE  Executing \subseteq Executing'
  <2>1. at[w] \in {"idle", "received", "decrement", "resumed", "resolve"}
    BY <1>6 DEF Receive, Skip, Acknowledge, ReceiveResume, Resolve, At
  <2>2. \A v \in Workers : v # w => at'[v] = at[v]
    BY <1>6 DEF Receive, Skip, Acknowledge, ReceiveResume, Resolve, GoTo, Finished
  <2> QED
    BY <2>1, <2>2 DEF ExecutionPlaces, TryPlaces, ExceptPlaces
<1>7. CASE UNCHANGED vars
  BY <1>7 DEF vars
<1>8. CASE \E h \in Handlers : CreateJob(h) \/ CheckRetry(h) \/ ContinueHandler(h)
  BY <1>1, <1>2, <1>8
<1>9. CASE \E w \in Workers : WorkerStep(w) \/ Raise(w)
  <2>1. ASSUME NEW w \in Workers, WorkerStep(w) \/ Raise(w)
        PROVE  Executing \subseteq Executing'
    BY <1>3, <1>4, <1>5, <1>6, <2>1 DEF WorkerStep
  <2> QED
    BY <1>1, <1>9, <2>1
<1> QED
  BY <1>7, <1>8, <1>9, FaultlessSteps, Zenon

HInv == LInv /\ LockIsHeldByExecution

LEMMA InitHInv == Init => HInv
  BY InitLInv DEF Init, HInv, LockIsHeldByExecution

LEMMA StepHInv == HInv /\ [Next]_vars => HInv'
<1> SUFFICES ASSUME HInv, [Next]_vars, faults' = 0, lock' = "held" PROVE Executing' # {}
  BY StepLInv DEF HInv, LockIsHeldByExecution
<1> USE DEF HInv, LInv
<1>1. faults = 0
  BY FaultlessSteps
<1>2. ASSUME NEW w \in Workers, Acquire(w)
      PROVE  Executing' # {}
  BY <1>2 DEF Acquire, GoTo, Executing, ExecutionPlaces, TryPlaces, TInv, TypeOK
<1>3. CASE ExpireLock \/ \E w \in Workers : Release(w)
  BY <1>3 DEF ExpireLock, Release
<1>4. CASE ~ExpireLock /\ ~\E w \in Workers : Acquire(w) \/ Release(w)
  BY <1>1, <1>4, FaultlessStepsEndNoExecution DEF LockIsHeldByExecution
<1> QED
  BY <1>2, <1>3, <1>4

(* process_analysis_job leaves its try block through the release on every  *)
(* path, so a lock without an execution is left by a fault.                *)
THEOREM LocksAreHeldByExecutions == Spec => []LockIsHeldByExecution
<1>1. HInv => LockIsHeldByExecution
  BY DEF HInv
<1> QED
  BY <1>1, InitHInv, StepHInv, PTL DEF Spec

------------------------------------------------------------------------------
(* Without faults and manual retries                                       *)

(* An execution that will still write a final status or schedule the       *)
(* resume task; the places of the others come after that.                  *)
EarlyPlaces == {"running", "analysis", "pending", "partial", "schedule",
                "finish", "inconclusive", "failed", "timeout"}

ResumeUnderWay ==
  resumes > 0 \/ \E w \in Workers : at[w] \in {"resolve", "approved", "declined"}

Final == record # NoRecord /\ record.status \in Terminal

(* Somebody is bound to write the status of an unfinished job.             *)
GoesOn ==
  \/ record = NoRecord \/ Final
  \/ ResumeUnderWay
  \/ \E h \in Handlers : apiAt[h] = "created"
  \/ \E r \in 0..MaxRetries : messages[r] > 0
  \/ \E w \in Workers : at[w] \in EarlyPlaces \cup {"received"}

(* What makes it safe to skip a message: the execution that holds the lock *)
(* has finished the job, or left it to the resume task, or is early.       *)
LateIsSettled ==
  \A w \in Workers : at[w] \in ExecutionPlaces \ EarlyPlaces => Final \/ ResumeUnderWay

NoRetryRequest == \A h \in Handlers : apiAt[h] \in {"idle", "created"}

Untouched == NoRetryRequest /\ GoesOn /\ LateIsSettled

SInv == HInv /\ (faults = 0 /\ manual = 0 => Untouched)

LEMMA InitSInv == Init => SInv
  BY InitHInv
     DEF Init, SInv, Untouched, NoRetryRequest, GoesOn, LateIsSettled, ExecutionPlaces,
         TryPlaces, ExceptPlaces

(* A worker moves, nothing that is under way for the job gets lost.        *)
LEMMA MoveKeepsUntouched ==
  ASSUME TInv, Untouched, NEW w \in Workers, NEW place,
         at' = [at EXCEPT ![w] = place], record' = record, apiAt' = apiAt,
         resumes' = resumes \/ resumes' > 0,
         \A r \in 0..MaxRetries : messages[r] > 0 => messages'[r] > 0,
         at[w] \in EarlyPlaces \cup {"received"}
           => place \in EarlyPlaces \cup {"received"} \/ ResumeUnderWay',
         at[w] \in {"resolve", "approved", "declined"}
           => place \in {"resolve", "approved", "declined"},
         place \in ExecutionPlaces \ EarlyPlaces
           => at[w] \in ExecutionPlaces \ EarlyPlaces \/ ResumeUnderWay'
  PROVE  Untouched'
<1> USE DEF TInv, TypeOK
<1>1. at'[w] = place /\ \A v \in Workers : v # w => at'[v] = at[v]
  OBVIOUS
<1>2. Final' = Final
  BY DEF Final
<1>3. ResumeUnderWay => ResumeUnderWay'
  BY <1>1 DEF ResumeUnderWay
<1>4. GoesOn'
  BY <1>1, <1>2, <1>3 DEF Untouched, GoesOn
<1>5. LateIsSettled'
  BY <1>1, <1>2, <1>3 DEF Untouched, LateIsSettled
<1> QED
  BY <1>4, <1>5 DEF Untouched, NoRetryRequest

LEMMA HandlersKeepUntouched ==
  ASSUME TInv, Untouched, manual' = 0, NEW h \in Handlers,
         CreateJob(h) \/ CheckRetry(h) \/ ContinueHandler(h)
  PROVE  Untouched'
<1> USE DEF TInv, TypeOK, Untouched, NoRetryRequest, GoesOn, LateIsSettled, ResumeUnderWay,
            Final, worker, HandlerGoesTo
<1>1. CASE CreateJob(h)
  BY <1>1 DEF CreateJob
<1>2. CASE CheckRetry(h)
  BY <1>2 DEF CheckRetry
<1>3. CASE Enqueue(h)
  <2>1. messages'[0] > 0
    BY <1>3 DEF Enqueue
  <2> QED
    BY <1>3, <2>1 DEF Enqueue
<1>4. CASE ReadForRetry(h) \/ WriteForRetry(h) \/ PublishRetry(h)
  BY <1>4 DEF ReadForRetry, WriteForRetry, PublishRetry
<1> QED
  BY <1>1, <1>2, <1>3, <1>4 DEF ContinueHandler

(* update_job writes a final status, or its caller goes on.                *)
LEMMA WriteKeepsUntouched ==
  ASSUME LInv, Untouched, NEW w \in Workers, WriteRecord(w)
  PROVE  Untouched'
<1> USE DEF LInv, TInv, TypeOK
<1>1. PICK u \in Updates : /\ at[w] = u.from /\ seen[w] # NoRecord
                           /\ record' = Updated(seen[w], u)
                           /\ at' = [at EXCEPT ![w] = u.to]
                           /\ UNCHANGED <<apiAt, messages, resumes>>
  BY DEF WriteRecord, At, GoTo, api
<1>2. record' # NoRecord /\ record'.status = u.status
  BY <1>1, UpdatedRecord DEF Updated
<1>3. at'[w] = u.to /\ \A v \in Workers : v # w => at'[v] = at[v]
  BY <1>1, UpdateTable
<1>4. NoRetryRequest'
  BY <1>1 DEF Untouched, NoRetryRequest
<1>5. CASE u.status \in Terminal
  BY <1>2, <1>4, <1>5 DEF Untouched, GoesOn, LateIsSettled, Final
<1>6. CASE u.status \notin Terminal
  <2>1. u.from \in ExecutionPlaces /\ u.to \in EarlyPlaces
    BY <1>6 DEF Updates, Update, Terminal, ExecutionPlaces, TryPlaces, EarlyPlaces
  <2>2. \A v \in Workers : at[v] \in ExecutionPlaces => v = w
    BY <1>1, <2>1 DEF ExecutionHoldsLock, OneExecutionAtATime, Executing
  <2>3. LateIsSettled'
    BY <1>3, <2>1, <2>2 DEF LateIsSettled
  <2>4. GoesOn'
    BY <1>3, <2>1 DEF GoesOn
  <2> QED
    BY <1>4, <2>3, <2>4 DEF Untouched
<1> QED
  BY <1>5, <1>6

(* A message is skipped while another execution holds the lock.            *)
LEMMA SkipKeepsUntouched ==
  ASSUME HInv, faults = 0, Untouched, NEW w \in Workers, Skip(w)
  PROVE  Untouched'
<1> USE DEF HInv, LInv, TInv, TypeOK
<1>1. /\ at[w] = "received" /\ lock = "held" /\ at' = [at EXCEPT ![w] = "idle"]
      /\ UNCHANGED <<record, apiAt, messages, resumes>>
  BY DEF Skip, At, Finished, api
<1>2. PICK v \in Workers : at[v] \in ExecutionPlaces
  BY <1>1 DEF LockIsHeldByExecution, Executing
<1>3. v # w /\ at'[v] = at[v]
  BY <1>1, <1>2 DEF ExecutionPlaces, TryPlaces, ExceptPlaces
<1>4. /\ Final' = Final
      /\ ResumeUnderWay => ResumeUnderWay'
      /\ \A x \in Workers : x # w => at'[x] = at[x]
      /\ at'[w] = "idle"
  BY <1>1 DEF Final, ResumeUnderWay
<1>5. GoesOn'
  BY <1>2, <1>3, <1>4 DEF Untouched, LateIsSettled, GoesOn
<1>6. LateIsSettled'
  BY <1>4 DEF Untouched, LateIsSettled, ExecutionPlaces, TryPlaces, ExceptPlaces
<1> QED
  BY <1>1, <1>5, <1>6 DEF Untouched, NoRetryRequest

LEMMA WorkersKeepUntouched ==
  ASSUME HInv, faults = 0, Untouched, NEW w \in Workers, WorkerStep(w) \/ Raise(w)
  PROVE  Untouched'
<1> USE DEF HInv, LInv, TInv, TypeOK, api, EarlyPlaces, ExecutionPlaces, TryPlaces,
            ExceptPlaces, At
<1>1. ASSUME NEW r \in 0..MaxRetries, Receive(w, r) PROVE Untouched'
  <2>1. /\ at' = [at EXCEPT ![w] = "received"] /\ at[w] = "idle"
        /\ UNCHANGED <<record, apiAt, resumes>>
    BY <1>1 DEF Receive
  <2>2. at'[w] = "received" /\ \A v \in Workers : v # w => at'[v] = at[v]
    BY <2>1
  <2>3. GoesOn'
    BY <2>2 DEF GoesOn
  <2>4. LateIsSettled'
    BY <2>1, <2>2 DEF Untouched, LateIsSettled, Final, ResumeUnderWay
  <2> QED
    BY <2>1, <2>3, <2>4 DEF Untouched, NoRetryRequest
<1>2. CASE Acquire(w)
  BY <1>2, MoveKeepsUntouched DEF Acquire, GoTo
<1>3. CASE Skip(w)
  BY <1>3, SkipKeepsUntouched
<1>4. CASE ReadRecord(w)
  BY <1>4 DEF ReadRecord, Untouched, NoRetryRequest, GoesOn, LateIsSettled, Final,
              ResumeUnderWay
<1>5. CASE WriteRecord(w)
  BY <1>5, WriteKeepsUntouched
<1>6. CASE Analyse(w)
  BY <1>6, MoveKeepsUntouched DEF Analyse, GoTo
<1>7. CASE ScheduleResume(w)
  <2>1. ResumeUnderWay' /\ resumes' > 0
    BY <1>7 DEF ScheduleResume, ResumeUnderWay
  <2> QED
    BY <1>7, <2>1, MoveKeepsUntouched DEF ScheduleResume, GoTo
<1>8. CASE EndTry(w)
  BY <1>8, MoveKeepsUntouched DEF EndTry, GoTo
<1>9. CASE PushToDLQ(w)
  BY <1>9, MoveKeepsUntouched DEF PushToDLQ, GoTo
<1>10. CASE Requeue(w)
  <2>1. \A r \in 0..MaxRetries : messages[r] > 0 => messages'[r] > 0
    BY <1>10 DEF Requeue
  <2> QED
    BY <1>10, <2>1, MoveKeepsUntouched DEF Requeue, GoTo
<1>11. CASE Release(w)
  BY <1>11, MoveKeepsUntouched DEF Release, GoTo
<1>12. CASE Acknowledge(w)
  BY <1>12, MoveKeepsUntouched DEF Acknowledge, Finished
<1>13. CASE ReceiveResume(w)
  <2>1. /\ at' = [at EXCEPT ![w] = "resolve"] /\ at[w] = "idle"
        /\ UNCHANGED <<record, apiAt, messages>>
    BY <1>13 DEF ReceiveResume, GoTo
  <2>2. ResumeUnderWay'
    BY <2>1 DEF ResumeUnderWay
  <2> QED
    BY <2>1, <2>2 DEF Untouched, NoRetryRequest, GoesOn, LateIsSettled
<1>14. CASE Resolve(w)
  BY <1>14, MoveKeepsUntouched DEF Resolve, GoTo
<1>15. CASE Raise(w)
  <2>1. \E place \in {"failed", "timeout"} : at' = [at EXCEPT ![w] = place]
    BY <1>15 DEF Raise, GoTo
  <2>2. at[w] \in TryPlaces /\ UNCHANGED <<record, apiAt, messages, resumes>>
    BY <1>15 DEF Raise
  <2> QED
    BY <2>1, <2>2, MoveKeepsUntouched
<1> QED
  BY <1>1, <1>2, <1>3, <1>4, <1>5, <1>6, <1>7, <1>8, <1>9, <1>10, <1>11, <1>12, <1>13,
     <1>14, <1>15, Zenon DEF WorkerStep

LEMMA ManualGrows == ASSUME TInv, [Next]_vars, manual' = 0 PROVE manual = 0
<1> USE DEF history
<1>1. ASSUME NEW h \in Handlers, CheckRetry(h) PROVE manual' = manual + 1
  BY <1>1 DEF CheckRetry
<1>2. ASSUME NEW h \in Handlers, CreateJob(h) \/ ContinueHandler(h) \/ LoseHandler(h)
      PROVE  manual' = manual
  BY <1>2, Zenon DEF CreateJob, ContinueHandler, Enqueue, ReadForRetry, WriteForRetry,
                     PublishRetry, LoseHandler
<1>3. ASSUME NEW w \in Workers,
             WorkerStep(w) \/ Raise(w) \/ LoseWorker(w) \/ AbortTask(w) \/ AbortExcept(w)
      PROVE  manual' = manual
  BY <1>3, Zenon DEF WorkerStep, Raise, Receive, Acquire, Skip, ReadRecord, WriteRecord,
                     Analyse, ScheduleResume, EndTry, PushToDLQ, Requeue, Release,
                     Acknowledge, ReceiveResume, Resolve, LoseWorker, AbortTask, AbortExcept
<1>4. CASE ExpireLock \/ UNCHANGED vars
  BY <1>4 DEF ExpireLock, vars
<1>5. manual \in Nat
  BY DEF TInv, TypeOK
<1>6. \/ \E h \in Handlers : CheckRetry(h) \/ CreateJob(h) \/ ContinueHandler(h) \/ LoseHandler(h)
      \/ \E w \in Workers :
           WorkerStep(w) \/ Raise(w) \/ LoseWorker(w) \/ AbortTask(w) \/ AbortExcept(w)
      \/ ExpireLock \/ UNCHANGED vars
  BY Zenon DEF Next
<1> QED
  BY <1>1, <1>2, <1>3, <1>4, <1>5, <1>6

LEMMA StepSInv == SInv /\ [Next]_vars => SInv'
<1> SUFFICES ASSUME SInv, [Next]_vars, faults' = 0, manual' = 0 PROVE Untouched'
  BY StepHInv DEF SInv
<1>1. HInv /\ TInv
  BY DEF SInv, HInv, LInv
<1>2. faults = 0 /\ Untouched
  BY <1>1, FaultlessSteps, ManualGrows DEF SInv
<1>3. CASE ExpireLock \/ UNCHANGED vars
  <2>1. UNCHANGED <<record, resumes, apiAt, messages, at>>
    BY <1>3 DEF ExpireLock, vars, worker, api
  <2> QED
    BY <1>2, <2>1 DEF Untouched, NoRetryRequest, GoesOn, LateIsSettled, Final, ResumeUnderWay
<1>4. ASSUME NEW h \in Handlers, CreateJob(h) \/ CheckRetry(h) \/ ContinueHandler(h)
      PROVE  Untouched'
  BY <1>1, <1>2, <1>4, HandlersKeepUntouched
<1>5. ASSUME NEW w \in Workers, WorkerStep(w) \/ Raise(w)
      PROVE  Untouched'
  BY <1>1, <1>2, <1>5, WorkersKeepUntouched
<1> QED
  BY <1>1, <1>3, <1>4, <1>5, FaultlessSteps

(* A job is not stuck: when nothing is under way for it any more it has a  *)
(* final status, although messages are skipped while the lock is held and  *)
(* attempts, retries and the resume task write over each other's records.  *)
THEOREM SettledJobsAreTerminal == Spec => []SettledJobIsTerminal
<1>1. SInv => SettledJobIsTerminal
  <2> SUFFICES ASSUME SInv, faults = 0, manual = 0, Settled PROVE Final
    BY DEF SettledJobIsTerminal, Status, Final, Settled
  <2>1. Untouched /\ TInv
    BY DEF SInv, HInv, LInv
  <2> QED
    BY <2>1 DEF Untouched, GoesOn, ResumeUnderWay, Settled, EarlyPlaces, TInv, TypeOK
<1> QED
  BY <1>1, InitSInv, StepSInv, PTL DEF Spec

------------------------------------------------------------------------------
(* The dead letter queue                                                   *)

(* A record with the message of an except block.                           *)
Failed(rec) == rec # NoRecord /\ rec.error # "none"

FailureKnown ==
  \/ Failed(record)
  \/ \E w \in Workers : Failed(seen[w])
  \/ \E h \in Handlers : Failed(apiSeen[h])

(* Wherever the message of a failure is, the failure has been archived or  *)
(* is about to be: update_job comes first in both except blocks.           *)
Archived == dlq > 0 \/ \E w \in Workers : at[w] \in {"failedDLQ", "timeoutDLQ"}

AInv == EInv /\ (faults = 0 /\ FailureKnown => Archived)

LEMMA InitAInv == Init => AInv
  BY InitEInv DEF Init, AInv, FailureKnown, Failed

(* A worker leaves the two places by archiving only.                       *)
LEMMA ArchivedStays ==
  ASSUME TInv, [Next]_vars, faults' = 0, Archived
  PROVE  Archived'
<1> USE DEF TInv, TypeOK, worker, Archived
<1>1. ASSUME NEW h \in Handlers, CreateJob(h) \/ CheckRetry(h) \/ ContinueHandler(h)
      PROVE  dlq' = dlq /\ at' = at
  BY <1>1, Zenon DEF CreateJob, CheckRetry, ContinueHandler, Enqueue, ReadForRetry,
                     WriteForRetry, PublishRetry
<1>2. ASSUME NEW w \in Workers, PushToDLQ(w) PROVE dlq' > 0
  BY <1>2 DEF PushToDLQ
<1>3. ASSUME NEW w \in Workers, WriteRecord(w)
      PROVE  /\ dlq' = dlq /\ at[w] \notin {"failedDLQ", "timeoutDLQ"}
             /\ \A v \in Workers : v # w => at'[v] = at[v]
  BY <1>3 DEF WriteRecord, At, GoTo, Updates, Update
<1>4. ASSUME NEW w \in Workers, ReadRecord(w) PROVE dlq' = dlq /\ at' = at
  BY <1>4 DEF ReadRecord
<1>5. ASSUME NEW w \in Workers,
             \/ \E r \in 0..MaxRetries : Receive(w, r)
             \/ Acquire(w) \/ Skip(w) \/ Analyse(w) \/ ScheduleResume(w) \/ EndTry(w)
             \/ Requeue(w) \/ Release(w) \/ Acknowledge(w) \/ ReceiveResume(w)
             \/ Resolve(w) \/ Raise(w)
      PROVE  /\ dlq' = dlq /\ at[w] \notin {"failedDLQ", "timeoutDLQ"}
             /\ \A v \in Workers : v # w => at'[v] = at[v]
  <2>1. dlq' = dlq
    BY <1>5, Zenon DEF Receive, Acquire, Skip, Analyse, ScheduleResume, EndTry, Requeue,
                       Release, Acknowledge, ReceiveResume, Resolve, Raise
  <2>2. at[w] \notin {"failedDLQ", "timeoutDLQ"}
    BY <1>5 DEF Receive, Acquire, Skip, Analyse, ScheduleResume, EndTry, Requeue, Release,
                Acknowledge, ReceiveResume, Resolve, Raise, At, TryPlaces
  <2>3. \A v \in Workers : v # w => at'[v] = at[v]
    BY <1>5 DEF Receive, Acquire, Skip, Analyse, ScheduleResume, EndTry, Requeue, Release,
                Acknowledge, ReceiveResume, Resolve, Raise, GoTo, Finished
  <2> QED
    BY <2>1, <2>2, <2>3
<1>6. CASE ExpireLock \/ UNCHANGED vars
  BY <1>6 DEF ExpireLock, vars
<1>7. CASE \E h \in Handlers : CreateJob(h) \/ CheckRetry(h) \/ ContinueHandler(h)
  BY <1>1, <1>7
<1>8. ASSUME NEW w \in Workers, WorkerStep(w) \/ Raise(w) PROVE Archived'
  <2>1. \/ dlq' > 0
        \/ dlq' = dlq /\ at' = at
        \/ /\ dlq' = dlq /\ at[w] \notin {"failedDLQ", "timeoutDLQ"}
           /\ \A v \in Workers : v # w => at'[v] = at[v]
    BY <1>2, <1>3, <1>4, <1>5, <1>8, Zenon DEF WorkerStep
  <2> QED
    BY <2>1
<1> QED
  BY <1>6, <1>7, <1>8, FaultlessSteps

(* A failure becomes known when update_job stores it, before it is archived.*)
LEMMA NewFailureIsArchived ==
  ASSUME TInv, [Next]_vars, ~FailureKnown, FailureKnown'
  PROVE  Archived'
<1> USE DEF TInv, TypeOK, FailureKnown, Failed
<1>1. ASSUME NEW h \in Handlers, CreateJob(h) \/ ReadForRetry(h) PROVE FALSE
  <2>1. CASE CreateJob(h)
    <3>1. /\ record'.error = "none" /\ seen' = seen
          /\ apiSeen' = [apiSeen EXCEPT ![h] = NoRecord]
      BY <2>1 DEF CreateJob, HandlerGoesTo, worker
    <3> QED
      BY <3>1
  <2>2. CASE ReadForRetry(h)
    <3>1. record' = record /\ seen' = seen /\ apiSeen' = [apiSeen EXCEPT ![h] = record]
      BY <2>2 DEF ReadForRetry, HandlerGoesTo, worker
    <3> QED
      BY <3>1
  <2> QED
    BY <1>1, <2>1, <2>2
<1>2. ASSUME NEW h \in Handlers, WriteForRetry(h) PROVE FALSE
  <2>1. apiSeen[h] # NoRecord /\ apiSeen[h].error = "none"
    BY <1>2 DEF WriteForRetry, RetrySeesRecord
  <2>2. record'.error = "none"
    BY <1>2, <2>1 DEF WriteForRetry, Requeued
  <2> QED
    BY <1>2, <2>2 DEF WriteForRetry, HandlerGoesTo, worker
<1>3. ASSUME NEW w \in Workers, ReadRecord(w) PROVE FALSE
  BY <1>3 DEF ReadRecord, api
<1>4. ASSUME NEW w \in Workers, WriteRecord(w) PROVE Archived'
  <2>1. PICK u \in Updates : /\ seen[w] # NoRecord /\ record' = Updated(seen[w], u)
                             /\ at' = [at EXCEPT ![w] = u.to]
                             /\ seen' = [seen EXCEPT ![w] = NoRecord] /\ apiSeen' = apiSeen
    BY <1>4 DEF WriteRecord, GoTo, api
  <2>2. Failed(record')
    BY <2>1
  <2>3. seen[w].error = "none" /\ record'.error = IF u.error = "none" THEN "none" ELSE u.error
    BY <2>1 DEF Updated
  <2>4. u.to \in {"failedDLQ", "timeoutDLQ"}
    BY <2>2, <2>3 DEF Updates, Update
  <2>5. at'[w] = u.to
    BY <2>1, UpdateTable
  <2> QED
    BY <2>4, <2>5 DEF Archived
<1>5. CASE ~RecordStep
  BY <1>5, OtherStepsKeepRecords
<1> QED
  BY <1>1, <1>2, <1>3, <1>4, <1>5 DEF RecordStep

LEMMA StepAInv == AInv /\ [Next]_vars => AInv'
<1> SUFFICES ASSUME AInv, [Next]_vars, faults' = 0, FailureKnown' PROVE Archived'
  BY StepEInv DEF AInv
<1>1. TInv /\ faults = 0
  BY FaultlessSteps DEF AInv, EInv
<1> QED
  BY <1>1, ArchivedStays, NewFailureIsArchived DEF AInv

(* A failed job that is left alone is in the dead letter queue, however    *)
(* often it was retried, unless a fault hit the except block.              *)
THEOREM FailedJobsAreArchived == Spec => []FailedJobIsArchived
<1>1. AInv => FailedJobIsArchived
  <2> SUFFICES ASSUME AInv, faults = 0, Settled, record.status = "error",
                      record.result # "inconclusive"
               PROVE  dlq > 0
    BY DEF FailedJobIsArchived, Settled, Status
  <2>1. Failed(record)
    BY DEF AInv, EInv, RecordsExplained, Explained, Failed, Settled
  <2>2. Archived
    BY <2>1 DEF AInv, FailureKnown
  <2> QED
    BY <2>2 DEF Archived, Settled
<1> QED
  BY <1>1, InitAInv, StepAInv, PTL DEF Spec

------------------------------------------------------------------------------
(* Attempts                                                                *)

(* The executions that are still to come are counted by the elements of    *)
(* three sets.  Each message and each task holds one element <<owner, r>>  *)
(* for each attempt r its job may still begin, each request those of the   *)
(* message it will publish.                                                *)
InMessages ==
  {t \in ((0..MaxRetries) \X (Nat \ {0})) \X (0..MaxRetries) :
     t[1][2] <= messages[t[1][1]] /\ t[2] >= t[1][1]}

InTasks ==
  {t \in Workers \X (0..MaxRetries) :
     \/ at[t[1]] = "received" /\ t[2] >= retries[t[1]]
     \/ at[t[1]] \in ExecutionPlaces \ {"release"} /\ t[2] > retries[t[1]]}

InRequests == {t \in Handlers \X (0..MaxRetries) : apiAt[t[1]] # "idle"}

(* The job itself, its manual retries and the faults: what the attempts    *)
(* are charged to.                                                         *)
Charges == (IF record = NoRecord THEN 0 ELSE 1) + manual + faults

Counted ==
  /\ IsFiniteSet(InMessages) /\ IsFiniteSet(InTasks) /\ IsFiniteSet(InRequests)
  /\ attempts + Cardinality(InMessages) + Cardinality(InTasks) + Cardinality(InRequests)
       <= (MaxRetries + 1) * Charges

(* The elements of one owner.                                              *)
Owned(o, n) == {o} \X (n..MaxRetries)

LEMMA OwnedSize ==
  ASSUME NEW o, NEW n \in 0..(MaxRetries + 1)
  PROVE  IsFiniteSet(Owned(o, n)) /\ Cardinality(Owned(o, n)) = MaxRetries + 1 - n
<1> MaxRetries \in Nat
  BY BoundsAssumption
<1>1. IsFiniteSet({o}) /\ Cardinality({o}) = 1
  BY FS_Singleton
<1>2. IsFiniteSet(n..MaxRetries) /\ Cardinality(n..MaxRetries) = MaxRetries + 1 - n
  BY FS_Interval
<1>3. /\ IsFiniteSet({o} \X (n..MaxRetries))
      /\ Cardinality({o} \X (n..MaxRetries)) = Cardinality({o}) * Cardinality(n..MaxRetries)
  BY <1>1, <1>2, FS_Product
<1> QED
  BY <1>1, <1>2, <1>3 DEF Owned

LEMMA OwnedAdded ==
  ASSUME NEW S, IsFiniteSet(S), NEW o, NEW n \in 0..(MaxRetries + 1),
         S \cap Owned(o, n) = {}
  PROVE  /\ IsFiniteSet(S \cup Owned(o, n))
         /\ Cardinality(S \cup Owned(o, n)) = Cardinality(S) + (MaxRetries + 1 - n)
<1> MaxRetries \in Nat
  BY BoundsAssumption
<1>1. Cardinality(S \cap Owned(o, n)) = 0 /\ Cardinality(S) \in Nat
  BY FS_EmptySet, FS_CardinalityType
<1>2. IsFiniteSet(Owned(o, n)) /\ Cardinality(Owned(o, n)) = MaxRetries + 1 - n
  BY OwnedSize
<1>3. /\ IsFiniteSet(S \cup Owned(o, n))
      /\ Cardinality(S \cup Owned(o, n)) =
           Cardinality(S) + Cardinality(Owned(o, n)) - Cardinality(S \cap Owned(o, n))
  BY <1>2, FS_Union
<1> QED
  BY <1>1, <1>2, <1>3

LEMMA OwnedRemoved ==
  ASSUME NEW S, IsFiniteSet(S), NEW o, NEW n \in 0..(MaxRetries + 1),
         Owned(o, n) \subseteq S
  PROVE  /\ IsFiniteSet(S \ Owned(o, n))
         /\ Cardinality(S \ Owned(o, n)) = Cardinality(S) - (MaxRetries + 1 - n)
<1>1. S \cap Owned(o, n) = Owned(o, n)
  OBVIOUS
<1>2. Cardinality(Owned(o, n)) = MaxRetries + 1 - n
  BY OwnedSize
<1>3. /\ IsFiniteSet(S \ Owned(o, n))
      /\ Cardinality(S \ Owned(o, n)) = Cardinality(S) - Cardinality(S \cap Owned(o, n))
  BY FS_Difference
<1> QED
  BY <1>1, <1>2, <1>3

LEMMA MessageAdded ==
  ASSUME TInv, IsFiniteSet(InMessages), NEW r \in 0..MaxRetries,
         messages' = [messages EXCEPT ![r] = messages[r] + 1]
  PROVE  /\ IsFiniteSet(InMessages')
         /\ Cardinality(InMessages') = Cardinality(InMessages) + (MaxRetries + 1 - r)
<1> DEFINE o == <<r, messages[r] + 1>>
<1>1. messages \in [0..MaxRetries -> Nat] /\ messages[r] + 1 \in Nat \ {0}
  BY DEF TInv, TypeOK
<1>2. InMessages' = InMessages \cup Owned(o, r)
  BY <1>1 DEF InMessages, Owned
<1>3. InMessages \cap Owned(o, r) = {}
  BY <1>1 DEF InMessages, Owned
<1>4. r \in 0..(MaxRetries + 1)
  BY BoundsAssumption
<1> QED
  BY <1>2, <1>3, <1>4, OwnedAdded

LEMMA MessageRemoved ==
  ASSUME TInv, IsFiniteSet(InMessages), NEW r \in 0..MaxRetries, messages[r] > 0,
         messages' = [messages EXCEPT ![r] = messages[r] - 1]
  PROVE  /\ IsFiniteSet(InMessages')
         /\ Cardinality(InMessages') = Cardinality(InMessages) - (MaxRetries + 1 - r)
<1> DEFINE o == <<r, messages[r]>>
<1>1. messages \in [0..MaxRetries -> Nat] /\ messages[r] \in Nat \ {0}
  BY DEF TInv, TypeOK
<1>2. InMessages' = InMessages \ Owned(o, r)
  BY <1>1 DEF InMessages, Owned
<1>3. Owned(o, r) \subseteq InMessages
  BY <1>1 DEF InMessages, Owned
<1>4. r \in 0..(MaxRetries + 1)
  BY BoundsAssumption
<1> QED
  BY <1>2, <1>3, <1>4, OwnedRemoved

LEMMA RequestAdded ==
  ASSUME TInv, IsFiniteSet(InRequests), NEW h \in Handlers, apiAt[h] = "idle",
         NEW place, place # "idle", apiAt' = [apiAt EXCEPT ![h] = place]
  PROVE  /\ IsFiniteSet(InRequests')
         /\ Cardinality(InRequests') = Cardinality(InRequests) + (MaxRetries + 1)
<1>1. apiAt'[h] = place /\ \A g \in Handlers : g # h => apiAt'[g] = apiAt[g]
  BY DEF TInv, TypeOK
<1>2. InRequests' = InRequests \cup Owned(h, 0)
  BY <1>1 DEF InRequests, Owned
<1>3. InRequests \cap Owned(h, 0) = {}
  BY DEF InRequests, Owned
<1>4. 0 \in 0..(MaxRetries + 1)
  BY BoundsAssumption
<1> QED
  BY <1>2, <1>3, <1>4, OwnedAdded

LEMMA RequestRemoved ==
  ASSUME TInv, IsFiniteSet(InRequests), NEW h \in Handlers, apiAt[h] # "idle",
         apiAt' = [apiAt EXCEPT ![h] = "idle"]
  PROVE  /\ IsFiniteSet(InRequests')
         /\ Cardinality(InRequests') = Cardinality(InRequests) - (MaxRetries + 1)
<1>1. apiAt'[h] = "idle" /\ \A g \in Handlers : g # h => apiAt'[g] = apiAt[g]
  BY DEF TInv, TypeOK
<1>2. InRequests' = InRequests \ Owned(h, 0)
  BY <1>1 DEF InRequests, Owned
<1>3. Owned(h, 0) \subseteq InRequests
  BY DEF InRequests, Owned
<1>4. 0 \in 0..(MaxRetries + 1)
  BY BoundsAssumption
<1> QED
  BY <1>2, <1>3, <1>4, OwnedRemoved

(* A received message may still begin its own attempt, a running one only  *)
(* the retries after it.                                                   *)
LEMMA TaskAdded ==
  ASSUME TInv, IsFiniteSet(InTasks), NEW w \in Workers, NEW r \in 0..MaxRetries,
         at[w] = "idle", at' = [at EXCEPT ![w] = "received"],
         retries' = [retries EXCEPT ![w] = r]
  PROVE  /\ IsFiniteSet(InTasks')
         /\ Cardinality(InTasks') = Cardinality(InTasks) + (MaxRetries + 1 - r)
<1>1. /\ at'[w] = "received" /\ retries'[w] = r
      /\ \A v \in Workers : v # w => at'[v] = at[v] /\ retries'[v] = retries[v]
  BY DEF TInv, TypeOK
<1>2. InTasks' = InTasks \cup Owned(w, r)
  BY <1>1 DEF InTasks, Owned, ExecutionPlaces, TryPlaces, ExceptPlaces, TInv, TypeOK
<1>3. InTasks \cap Owned(w, r) = {}
  BY DEF InTasks, Owned, ExecutionPlaces, TryPlaces, ExceptPlaces
<1>4. r \in 0..(MaxRetries + 1)
  BY BoundsAssumption
<1> QED
  BY <1>2, <1>3, <1>4, OwnedAdded

LEMMA TaskBegins ==
  ASSUME TInv, IsFiniteSet(InTasks), NEW w \in Workers, at[w] = "received",
         at' = [at EXCEPT ![w] = "running"], retries' = retries
  PROVE  /\ IsFiniteSet(InTasks')
         /\ Cardinality(InTasks') = Cardinality(InTasks) - 1
<1> DEFINE t == <<w, retries[w]>>
<1>1. /\ at'[w] = "running"
      /\ \A v \in Workers : v # w => at'[v] = at[v]
      /\ retries[w] \in 0..MaxRetries
  BY DEF TInv, TypeOK
<1>2. t \in InTasks
  BY <1>1 DEF InTasks
<1>3. InTasks' = InTasks \ {t}
  <2>1. "running" \in ExecutionPlaces \ {"release"} /\ "received" \notin ExecutionPlaces
    BY DEF ExecutionPlaces, TryPlaces, ExceptPlaces
  <2> QED
    BY <1>1, <2>1 DEF InTasks
<1> QED
  BY <1>2, <1>3, FS_RemoveElement

(* The retries of a task that has published the next one are spent.        *)
LEMMA TaskRetried ==
  ASSUME TInv, IsFiniteSet(InTasks), NEW w \in Workers, at[w] = "requeue",
         at' = [at EXCEPT ![w] = "release"], retries' = retries
  PROVE  /\ IsFiniteSet(InTasks')
         /\ Cardinality(InTasks') = Cardinality(InTasks) - (MaxRetries - retries[w])
<1>1. /\ at'[w] = "release"
      /\ \A v \in Workers : v # w => at'[v] = at[v]
      /\ retries[w] \in 0..MaxRetries
  BY DEF TInv, TypeOK
<1> DEFINE n == retries[w] + 1
<1>2. n \in 0..(MaxRetries + 1) /\ MaxRetries + 1 - n = MaxRetries - retries[w]
  BY <1>1, BoundsAssumption
<1>3. "requeue" \in ExecutionPlaces \ {"release"} /\ "received" # "requeue"
  BY DEF ExecutionPlaces, ExceptPlaces
<1>4. Owned(w, n) \subseteq InTasks
  BY <1>1, <1>3, BoundsAssumption DEF InTasks, Owned
<1>5. InTasks' = InTasks \ Owned(w, n)
  BY <1>1, <1>3, BoundsAssumption DEF InTasks, Owned
<1> QED
  BY <1>2, <1>4, <1>5, OwnedRemoved

(* No other move of a task adds to what it may begin.                      *)
LEMMA TaskMoves ==
  ASSUME TInv, IsFiniteSet(InTasks), NEW w \in Workers, NEW p, p # "received",
         at' = [at EXCEPT ![w] = p],
         \A v \in Workers : v # w => retries'[v] = retries[v],
         p \in ExecutionPlaces \ {"release"}
           => at[w] \in ExecutionPlaces \ {"release"} /\ retries'[w] = retries[w]
  PROVE  IsFiniteSet(InTasks') /\ Cardinality(InTasks') <= Cardinality(InTasks)
<1>1. at'[w] = p /\ \A v \in Workers : v # w => at'[v] = at[v]
  BY DEF TInv, TypeOK
<1>2. InTasks' \subseteq InTasks
  BY <1>1 DEF InTasks
<1> QED
  BY <1>2, FS_Subset

(* A step that charges d more may add that many attempts.                  *)
LEMMA Balance ==
  ASSUME TInv, TInv', Counted, NEW d \in {0, 1}, Charges' = Charges + d,
         IsFiniteSet(InMessages'), IsFiniteSet(InTasks'), IsFiniteSet(InRequests'),
         attempts' + Cardinality(InMessages') + Cardinality(InTasks')
                   + Cardinality(InRequests')
           <= attempts + Cardinality(InMessages) + Cardinality(InTasks)
                       + Cardinality(InRequests) + (MaxRetries + 1) * d
  PROVE  Counted'
<1>1. Charges \in Nat /\ attempts \in Nat /\ attempts' \in Nat
  BY BoundsAssumption DEF TInv, TypeOK, Charges
<1>2. /\ Cardinality(InMessages) \in Nat /\ Cardinality(InTasks) \in Nat
      /\ Cardinality(InRequests) \in Nat /\ Cardinality(InMessages') \in Nat
      /\ Cardinality(InTasks') \in Nat /\ Cardinality(InRequests') \in Nat
  BY FS_CardinalityType DEF Counted
<1>3. (MaxRetries + 1) * (Charges + d) = (MaxRetries + 1) * Charges + (MaxRetries + 1) * d
  BY <1>1, BoundsAssumption
<1>4. (MaxRetries + 1) * Charges \in Nat /\ (MaxRetries + 1) * d \in Nat
  BY <1>1, BoundsAssumption
<1> HIDE DEF Charges
<1>5. attempts' + Cardinality(InMessages') + Cardinality(InTasks')
        + Cardinality(InRequests') <= (MaxRetries + 1) * Charges'
  BY <1>1, <1>2, <1>3, <1>4 DEF Counted
<1> QED
  BY <1>5 DEF Counted

(* A step that changes none of the sets.                                   *)
LEMMA SameMessages == messages' = messages => InMessages' = InMessages
  BY DEF InMessages

LEMMA SameTasks == at' = at /\ retries' = retries => InTasks' = InTasks
  BY DEF InTasks

LEMMA SameRequests == apiAt' = apiAt => InRequests' = InRequests
  BY DEF InRequests

LEMMA SameCharges ==
  record' = record /\ manual' = manual /\ faults' = faults => Charges' = Charges
  BY DEF Charges

LEMMA Sizes ==
  ASSUME TInv, Counted
  PROVE  /\ Charges \in Nat /\ attempts \in Nat
         /\ Cardinality(InMessages) \in Nat /\ Cardinality(InTasks) \in Nat
         /\ Cardinality(InRequests) \in Nat
  BY FS_CardinalityType DEF TInv, TypeOK, Charges, Counted

LEMMA HandlersKeepCount ==
  ASSUME TInv, TInv', Counted, NEW h \in Handlers,
         CreateJob(h) \/ CheckRetry(h) \/ ContinueHandler(h) \/ LoseHandler(h)
  PROVE  Counted'
<1> USE Sizes, BoundsAssumption DEF history, worker
<1>t. TypeOK /\ TypeOK'
  BY DEF TInv
<1>c. IsFiniteSet(InMessages) /\ IsFiniteSet(InTasks) /\ IsFiniteSet(InRequests)
  BY DEF Counted
<1>1. CASE CreateJob(h)
  <2>1. IsFiniteSet(InRequests') /\ Cardinality(InRequests') = Cardinality(InRequests) + (MaxRetries + 1)
    BY <1>1, <1>c, RequestAdded DEF CreateJob, HandlerGoesTo
  <2>2. InMessages' = InMessages /\ InTasks' = InTasks /\ attempts' = attempts
    BY <1>1, SameMessages, SameTasks DEF CreateJob
  <2>3. record' # NoRecord
    BY <1>1, NoRecordAssumption DEF CreateJob, JobRecord, Statuses, Results, Errors
  <2>4. Charges' = Charges + 1
    BY <1>1, <1>t, <2>3 DEF CreateJob, Charges, TypeOK
  <2> QED
    BY <2>1, <2>2, <2>4, <1>c, Balance
<1>2. CASE CheckRetry(h)
  <2>1. IsFiniteSet(InRequests') /\ Cardinality(InRequests') = Cardinality(InRequests) + (MaxRetries + 1)
    BY <1>2, <1>c, RequestAdded DEF CheckRetry, HandlerGoesTo
  <2>2. InMessages' = InMessages /\ InTasks' = InTasks /\ attempts' = attempts
    BY <1>2, SameMessages, SameTasks DEF CheckRetry
  <2>4. Charges' = Charges + 1
    BY <1>2, <1>t DEF CheckRetry, Charges, TypeOK
  <2> QED
    BY <2>1, <2>2, <2>4, <1>c, Balance
<1>3. CASE Enqueue(h) \/ PublishRetry(h)
  <2>1. apiAt[h] # "idle" /\ apiAt' = [apiAt EXCEPT ![h] = "idle"]
    BY <1>3 DEF Enqueue, PublishRetry, HandlerGoesTo
  <2>2. 0 \in 0..MaxRetries /\ messages' = [messages EXCEPT ![0] = messages[0] + 1]
    BY <1>3 DEF Enqueue, PublishRetry
  <2>3. IsFiniteSet(InRequests') /\ Cardinality(InRequests') = Cardinality(InRequests) - (MaxRetries + 1)
    BY <2>1, <1>c, RequestRemoved
  <2>4. IsFiniteSet(InMessages') /\ Cardinality(InMessages') = Cardinality(InMessages) + (MaxRetries + 1 - 0)
    BY <2>2, <1>c, MessageAdded
  <2>5. InTasks' = InTasks /\ Charges' = Charges + 0 /\ attempts' = attempts
    BY <1>3, SameTasks, SameCharges DEF Enqueue, PublishRetry
  <2> QED
    BY <2>3, <2>4, <2>5, <1>c, Balance
<1>4. CASE ReadForRetry(h) \/ WriteForRetry(h)
  <2>1. InRequests' = InRequests
    BY <1>4, <1>t DEF ReadForRetry, WriteForRetry, HandlerGoesTo, InRequests, TypeOK
  <2>2. InMessages' = InMessages /\ InTasks' = InTasks /\ attempts' = attempts
    BY <1>4, SameMessages, SameTasks DEF ReadForRetry, WriteForRetry
  <2>3. record' = record \/ record' # NoRecord
    <3>1. CASE WriteForRetry(h)
      <4>1. apiSeen[h] \in JobRecord
        BY <3>1, <1>t DEF WriteForRetry, TInv, RetrySeesRecord, TypeOK
      <4>2. Requeued(apiSeen[h]) \in JobRecord
        BY <4>1 DEF Requeued, JobRecord, Statuses
      <4> QED
        BY <3>1, <4>2, NoRecordAssumption DEF WriteForRetry
    <3> QED
      BY <1>4, <3>1 DEF ReadForRetry
  <2>4. PICK d \in {0, 1} : Charges' = Charges + d
    <3>1. manual' = manual /\ faults' = faults
      BY <1>4 DEF ReadForRetry, WriteForRetry
    <3> QED
      BY <1>t, <2>3, <3>1 DEF Charges, TypeOK
  <2>5. (MaxRetries + 1) * d \in Nat
    OBVIOUS
  <2> QED
    BY <2>1, <2>2, <2>4, <2>5, <1>c, Balance
<1>5. CASE LoseHandler(h)
  <2>1. IsFiniteSet(InRequests') /\ Cardinality(InRequests') = Cardinality(InRequests) - (MaxRetries + 1)
    BY <1>5, <1>c, RequestRemoved DEF LoseHandler, HandlerGoesTo
  <2>2. InMessages' = InMessages /\ InTasks' = InTasks /\ attempts' = attempts
    BY <1>5, SameMessages, SameTasks DEF LoseHandler
  <2>3. Charges' = Charges + 1
    BY <1>5, <1>t DEF LoseHandler, Charges, TypeOK
  <2> QED
    BY <2>1, <2>2, <2>3, <1>c, Balance
<1> QED
  BY <1>1, <1>2, <1>3, <1>4, <1>5 DEF ContinueHandler

(* The steps of a task that neither take nor publish a message.            *)
LEMMA MovesKeepCount ==
  ASSUME TInv, TInv', Counted, NEW w \in Workers,
         messages' = messages, apiAt' = apiAt, attempts' = attempts,
         record' # NoRecord \/ record' = record, manual' = manual,
         faults' = faults, IsFiniteSet(InTasks'),
         Cardinality(InTasks') <= Cardinality(InTasks)
  PROVE  Counted'
<1> USE Sizes, BoundsAssumption
<1>t. TypeOK /\ TypeOK'
  BY DEF TInv
<1>1. InMessages' = InMessages /\ InRequests' = InRequests
  BY SameMessages, SameRequests
<1>2. PICK d \in {0, 1} : Charges' = Charges + d
  BY <1>t DEF Charges, TypeOK
<1>3. (MaxRetries + 1) * d \in Nat /\ Cardinality(InTasks') \in Nat
  BY FS_CardinalityType
<1> QED
  BY <1>1, <1>2, <1>3, Balance DEF Counted

(* The steps that do, and the beginning of an execution.                   *)
LEMMA TransfersKeepCount ==
  ASSUME TInv, TInv', Counted, NEW w \in Workers,
         \/ \E r \in 0..MaxRetries : Receive(w, r)
         \/ Acquire(w) \/ Requeue(w)
  PROVE  Counted'
<1> USE Sizes, BoundsAssumption DEF history, api
<1>t. TypeOK /\ TypeOK'
  BY DEF TInv
<1>c. IsFiniteSet(InMessages) /\ IsFiniteSet(InTasks) /\ IsFiniteSet(InRequests)
  BY DEF Counted
<1>u. /\ InRequests' = InRequests
      /\ Charges' = Charges + 0
  BY SameRequests, SameCharges DEF Receive, Acquire, Requeue
<1>1. ASSUME NEW r \in 0..MaxRetries, Receive(w, r)
      PROVE  Counted'
  <2>1. IsFiniteSet(InMessages') /\ Cardinality(InMessages') = Cardinality(InMessages) - (MaxRetries + 1 - r)
    BY <1>1, <1>c, MessageRemoved DEF Receive
  <2>2. IsFiniteSet(InTasks') /\ Cardinality(InTasks') = Cardinality(InTasks) + (MaxRetries + 1 - r)
    BY <1>1, <1>c, TaskAdded DEF Receive, At
  <2>3. attempts' = attempts
    BY <1>1 DEF Receive
  <2> QED
    BY <2>1, <2>2, <2>3, <1>u, <1>c, Balance
<1>2. CASE Acquire(w)
  <2>1. IsFiniteSet(InTasks') /\ Cardinality(InTasks') = Cardinality(InTasks) - 1
    BY <1>2, <1>c, TaskBegins DEF Acquire, At, GoTo
  <2>2. InMessages' = InMessages /\ attempts' = attempts + 1
    BY <1>2, SameMessages DEF Acquire
  <2> QED
    BY <2>1, <2>2, <1>u, <1>c, Balance
<1>3. CASE Requeue(w)
  <2>1. /\ IsFiniteSet(InTasks')
        /\ Cardinality(InTasks') = Cardinality(InTasks) - (MaxRetries - retries[w])
    BY <1>3, <1>c, TaskRetried DEF Requeue, At, GoTo
  <2>2. /\ IsFiniteSet(InMessages')
        /\ Cardinality(InMessages') = Cardinality(InMessages) + (MaxRetries - retries[w])
    <3>1. CASE retries[w] < MaxRetries
      <4> DEFINE r == retries[w] + 1
      <4>1. /\ r \in 0..MaxRetries /\ MaxRetries + 1 - r = MaxRetries - retries[w]
            /\ messages' = [messages EXCEPT ![r] = messages[r] + 1]
        BY <1>3, <1>t, <3>1 DEF Requeue, TypeOK
      <4> QED
        BY <4>1, <1>c, MessageAdded
    <3>2. CASE ~(retries[w] < MaxRetries)
      <4>1. messages' = messages /\ MaxRetries - retries[w] = 0
        BY <1>3, <1>t, <3>2 DEF Requeue, TypeOK
      <4> QED
        BY <4>1, <1>c, SameMessages
    <3> QED
      BY <3>1, <3>2
  <2>3. attempts' = attempts /\ MaxRetries - retries[w] \in Nat
    BY <1>3, <1>t DEF Requeue, TypeOK
  <2> QED
    BY <2>1, <2>2, <2>3, <1>u, <1>c, Balance
<1> QED
  BY <1>1, <1>2, <1>3

LEMMA WorkersKeepCount ==
  ASSUME TInv, TInv', Counted, NEW w \in Workers, WorkerStep(w) \/ Raise(w)
  PROVE  Counted'
<1> USE DEF history, api
<1>t. TypeOK /\ TypeOK' /\ IsFiniteSet(InTasks)
  BY DEF TInv, Counted
<1>p. /\ "idle" \notin ExecutionPlaces /\ "received" \notin ExecutionPlaces
      /\ "decrement" \notin ExecutionPlaces
      /\ ResumePlaces \cap ExecutionPlaces = {} /\ "received" \notin ResumePlaces
      /\ TryPlaces \subseteq ExecutionPlaces \ {"release"}
      /\ ExceptPlaces \subseteq ExecutionPlaces \ {"release"}
  BY DEF ExecutionPlaces, TryPlaces, ExceptPlaces, ResumePlaces
<1>1. CASE \/ \E r \in 0..MaxRetries : Receive(w, r)
           \/ Acquire(w) \/ Requeue(w)
  BY <1>1, TransfersKeepCount
<1>2. CASE Skip(w) \/ Acknowledge(w)
  <2>1. /\ at' = [at EXCEPT ![w] = "idle"] /\ retries' = [retries EXCEPT ![w] = 0]
        /\ messages' = messages /\ apiAt' = apiAt /\ attempts' = attempts
        /\ record' = record /\ manual' = manual /\ faults' = faults
    BY <1>2 DEF Skip, Acknowledge, Finished
  <2>2. \A v \in Workers : v # w => retries'[v] = retries[v]
    BY <2>1, <1>t DEF TypeOK
  <2>3. IsFiniteSet(InTasks') /\ Cardinality(InTasks') <= Cardinality(InTasks)
    BY <2>1, <2>2, <1>t, <1>p, TaskMoves
  <2> QED
    BY <2>1, <2>3, MovesKeepCount
<1>3. CASE ReadRecord(w)
  <2>1. InTasks' = InTasks
    BY <1>3, SameTasks DEF ReadRecord
  <2>2. Cardinality(InTasks') <= Cardinality(InTasks)
    BY <2>1, <1>t, FS_CardinalityType
  <2> QED
    BY <1>3, <1>t, <2>1, <2>2, MovesKeepCount DEF ReadRecord
<1>4. CASE WriteRecord(w)
  <2>1. PICK u \in Updates :
          /\ at[w] = u.from /\ seen[w] # NoRecord
          /\ record' = Updated(seen[w], u)
          /\ GoTo(w, u.to)
    BY <1>4 DEF WriteRecord, At
  <2>2. seen[w] \in JobRecord
    BY <2>1, <1>t DEF TypeOK
  <2>3. record' # NoRecord
    BY <2>1, <2>2, UpdatedRecord, NoRecordAssumption
  <2>4. /\ u.to # "received"
        /\ u.to \in ExecutionPlaces \ {"release"} => u.from \in ExecutionPlaces \ {"release"}
    BY <1>p, UpdateTable DEF Updates, Update
  <2>5. IsFiniteSet(InTasks') /\ Cardinality(InTasks') <= Cardinality(InTasks)
    BY <2>1, <2>4, <1>t, TaskMoves DEF GoTo
  <2>6. /\ messages' = messages /\ apiAt' = apiAt /\ attempts' = attempts
        /\ manual' = manual /\ faults' = faults
    BY <1>4 DEF WriteRecord
  <2> QED
    BY <2>3, <2>5, <2>6, MovesKeepCount
<1>5. CASE \/ Analyse(w) \/ ScheduleResume(w) \/ EndTry(w) \/ PushToDLQ(w)
           \/ Release(w) \/ ReceiveResume(w) \/ Resolve(w) \/ Raise(w)
  <2>1. PICK p : /\ GoTo(w, p) /\ p # "received"
                 /\ p \in ExecutionPlaces \ {"release"}
                      => at[w] \in ExecutionPlaces \ {"release"}
    <3>1. CASE Analyse(w) \/ ScheduleResume(w) \/ Raise(w)
      BY <1>p, <3>1 DEF Analyse, ScheduleResume, Raise, At, TryPlaces
    <3>2. CASE EndTry(w) \/ PushToDLQ(w)
      BY <1>p, <3>2 DEF EndTry, PushToDLQ, At, TryPlaces, ExceptPlaces
    <3>3. CASE Release(w) \/ ReceiveResume(w) \/ Resolve(w)
      BY <1>p, <3>3 DEF Release, ReceiveResume, Resolve, ResumePlaces
    <3> QED
      BY <1>5, <3>1, <3>2, <3>3
  <2>2. IsFiniteSet(InTasks') /\ Cardinality(InTasks') <= Cardinality(InTasks)
    BY <2>1, <1>t, TaskMoves DEF GoTo
  <2>3. /\ messages' = messages /\ apiAt' = apiAt /\ attempts' = attempts
        /\ record' = record /\ manual' = manual /\ faults' = faults
    BY <1>5 DEF Analyse, ScheduleResume, EndTry, PushToDLQ, Release, ReceiveResume,
                Resolve, Raise
  <2> QED
    BY <2>2, <2>3, MovesKeepCount
<1> QED
  BY <1>1, <1>2, <1>3, <1>4, <1>5 DEF WorkerStep

(* A fault is charged for the one message it may put back.                 *)
LEMMA FaultsKeepCount ==
  ASSUME TInv, TInv', Counted, NEW w \in Workers,
         LoseWorker(w) \/ AbortTask(w) \/ AbortExcept(w)
  PROVE  Counted'
<1> USE Sizes, BoundsAssumption DEF history, api
<1>t. TypeOK /\ TypeOK'
  BY DEF TInv
<1>c. IsFiniteSet(InMessages) /\ IsFiniteSet(InTasks) /\ IsFiniteSet(InRequests)
  BY DEF Counted
<1>1. /\ record' = record /\ manual' = manual /\ faults' = faults + 1
      /\ attempts' = attempts /\ apiAt' = apiAt
  BY DEF LoseWorker, AbortTask, AbortExcept
<1>2. InRequests' = InRequests /\ Charges' = Charges + 1
  BY <1>1, <1>t, SameRequests DEF Charges, TypeOK
<1>3. /\ IsFiniteSet(InMessages')
      /\ Cardinality(InMessages') <= Cardinality(InMessages) + (MaxRetries + 1)
      /\ Cardinality(InMessages') \in Nat
  <2>1. CASE messages' = messages
    BY <2>1, <1>c, SameMessages
  <2>2. CASE messages' = [messages EXCEPT ![retries[w]] = messages[retries[w]] + 1]
    <3>1. retries[w] \in 0..MaxRetries
      BY <1>t DEF TypeOK
    <3>2. /\ IsFiniteSet(InMessages')
          /\ Cardinality(InMessages') = Cardinality(InMessages) + (MaxRetries + 1 - retries[w])
      BY <2>2, <3>1, <1>c, MessageAdded
    <3> QED
      BY <3>1, <3>2
  <2> QED
    BY <2>1, <2>2 DEF LoseWorker, AbortTask, AbortExcept
<1>4. PICK p \in {"idle", "release"} : at' = [at EXCEPT ![w] = p]
  BY DEF LoseWorker, AbortTask, AbortExcept, Finished, GoTo
<1>5. \A v \in Workers : v # w => retries'[v] = retries[v]
  BY <1>t DEF LoseWorker, AbortTask, AbortExcept, Finished, GoTo, TypeOK
<1>6. p # "received" /\ p \notin ExecutionPlaces \ {"release"}
  BY DEF ExecutionPlaces, TryPlaces, ExceptPlaces
<1>7. /\ IsFiniteSet(InTasks') /\ Cardinality(InTasks') <= Cardinality(InTasks)
      /\ Cardinality(InTasks') \in Nat
  BY <1>4, <1>5, <1>6, <1>c, TaskMoves, FS_CardinalityType
<1> QED
  BY <1>1, <1>2, <1>3, <1>7, <1>c, Balance

NInv == TInv /\ Counted

LEMMA InitNInv == Init => NInv
<1> SUFFICES ASSUME Init PROVE Counted
  BY InitTInv DEF NInv
<1>1. InMessages = {}
  BY DEF Init, InMessages
<1>2. InTasks = {}
  BY DEF Init, InTasks, ExecutionPlaces, TryPlaces, ExceptPlaces
<1>3. InRequests = {}
  BY DEF Init, InRequests
<1>4. attempts = 0 /\ Charges = 0
  BY DEF Init, Charges
<1>5. (MaxRetries + 1) * 0 = 0
  BY BoundsAssumption
<1> QED
  BY <1>1, <1>2, <1>3, <1>4, <1>5, FS_EmptySet DEF Counted

LEMMA StepNInv == NInv /\ [Next]_vars => NInv'
<1> SUFFICES ASSUME NInv, [Next]_vars PROVE Counted'
  BY StepTInv DEF NInv
<1>1. TInv /\ TInv' /\ Counted
  BY StepTInv DEF NInv
<1>2. CASE \E h \in Handlers :
             CreateJob(h) \/ CheckRetry(h) \/ ContinueHandler(h) \/ LoseHandler(h)
  BY <1>1, <1>2, HandlersKeepCount
<1>3. CASE \E w \in Workers : WorkerStep(w) \/ Raise(w)
  BY <1>1, <1>3, WorkersKeepCount
<1>4. CASE \E w \in Workers : LoseWorker(w) \/ AbortTask(w) \/ AbortExcept(w)
  BY <1>1, <1>4, FaultsKeepCount
<1>5. CASE ExpireLock \/ UNCHANGED vars
  <2>1. /\ at' = at /\ retries' = retries /\ messages' = messages /\ apiAt' = apiAt
        /\ attempts' = attempts /\ record' = record /\ manual' = manual
        /\ faults' = faults
    BY <1>5 DEF ExpireLock, vars, worker, api, history
  <2>2. /\ InMessages' = InMessages /\ InTasks' = InTasks /\ InRequests' = InRequests
        /\ Charges' = Charges
    BY <2>1, SameMessages, SameTasks, SameRequests, SameCharges
  <2> QED
    BY <1>1, <2>1, <2>2 DEF Counted
<1> QED
  BY <1>2, <1>3, <1>4, <1>5 DEF Next

(* Whatever is lost, redelivered, skipped or retried, a job is executed at *)
(* most 1 + max_retries times for its submission, for each accepted manual *)
(* retry and for each fault.                                               *)
THEOREM AttemptsAreBounded == Spec => []AttemptsBounded
<1>1. NInv => AttemptsBounded
  <2> SUFFICES ASSUME NInv PROVE AttemptsBounded
    OBVIOUS
  <2>1. TypeOK /\ TInv /\ Counted
    BY DEF NInv, TInv
  <2>2. attempts <= (MaxRetries + 1) * Charges
    BY <2>1, Sizes, BoundsAssumption DEF Counted
  <2> DEFINE n == manual + faults
  <2>3. n \in Nat /\ (Charges = n \/ Charges = n + 1) /\ attempts \in Nat
    BY <2>1 DEF TypeOK, Charges
  <2>4. (MaxRetries + 1) * (n + 1) = (MaxRetries + 1) * n + (MaxRetries + 1)
    BY <2>3, BoundsAssumption
  <2>5. (MaxRetries + 1) * n \in Nat
    BY <2>3, BoundsAssumption
  <2>6. attempts <= (MaxRetries + 1) * (n + 1)
    BY <2>2, <2>3, <2>4, <2>5, BoundsAssumption
  <2>7. n + 1 = 1 + manual + faults
    BY <2>1 DEF TypeOK
  <2> QED
    BY <2>6, <2>7 DEF AttemptsBounded
<1> QED
  BY <1>1, InitNInv, StepNInv, PTL DEF Spec
==============================================================================
