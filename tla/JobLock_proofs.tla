---------------------------- MODULE JobLock_proofs ----------------------------
(***************************************************************************)
(* What core/job_locking.py guarantees for any number of jobs and workers  *)
(* and any LOCK_TTL greater than the hard time limit.                      *)
(***************************************************************************)
EXTENDS JobLock, TLAPS

IInv == TypeOK /\ HolderOwnsLiveLock

LEMMA InitIInv == Init => IInv
  BY ConstantsAssumption DEF Init, IInv, TypeOK, HolderOwnsLiveLock, Places

(* The key of a job that somebody executes is present, and was set by that *)
(* worker.                                                                 *)
LEMMA ExecutedIsLocked ==
  ASSUME IInv, NEW w \in Workers, NEW j \in Jobs, Executes(w, j)
  PROVE  IsLocked(j) /\ lockOwner[j] = w
  BY ConstantsAssumption, LockOutlivesTask
     DEF IInv, TypeOK, HolderOwnsLiveLock, Executes, IsLocked

(* Every step keeps the invariant: a release deletes the key of the        *)
(* releasing worker only, because that worker owns it.                     *)
LEMMA StepIInv == IInv /\ [Next]_vars => IInv'
<1> SUFFICES ASSUME IInv, [Next]_vars PROVE IInv'
  OBVIOUS
<1> USE ConstantsAssumption, LockOutlivesTask DEF IInv, TypeOK, Places
<1>1. CASE Tick
  BY <1>1 DEF Tick, HolderOwnsLiveLock
<1>2. ASSUME NEW w \in Workers, NEW j \in Jobs, Receive(w, j)
      PROVE  IInv'
  BY <1>2 DEF Receive, HolderOwnsLiveLock
<1>3. ASSUME NEW w \in Workers, Acquire(w)
      PROVE  IInv'
  <2>1. /\ task[w] \in Jobs
        /\ startedAt[w] <= now
    BY <1>3 DEF Acquire, HolderOwnsLiveLock
  <2>2. TypeOK'
    BY <1>3, <2>1 DEF Acquire
  <2>3. ASSUME NEW v \in Workers, v # w, pc[v] \in {"body", "finally"}
        PROVE  task[v] # task[w]
    BY <1>3, <2>1, <2>3, ExecutedIsLocked DEF Acquire, Executes
  <2>4. HolderOwnsLiveLock'
    BY <1>3, <2>1, <2>3 DEF Acquire, HolderOwnsLiveLock
  <2> QED
    BY <2>2, <2>4
<1>4. ASSUME NEW w \in Workers, Skip(w)
      PROVE  IInv'
  BY <1>4 DEF Skip, HolderOwnsLiveLock
<1>5. ASSUME NEW w \in Workers, LeaveBody(w)
      PROVE  IInv'
  BY <1>5 DEF LeaveBody, HolderOwnsLiveLock
<1>6. ASSUME NEW w \in Workers, Release(w)
      PROVE  IInv'
  <2>1. task[w] \in Jobs /\ lockOwner[task[w]] = w
    BY <1>6 DEF Release, HolderOwnsLiveLock
  <2>2. ASSUME NEW v \in Workers, v # w, pc[v] \in {"body", "finally"}
        PROVE  task[v] # task[w]
    BY <2>1, <2>2 DEF HolderOwnsLiveLock
  <2> QED
    BY <1>6, <2>1, <2>2 DEF Release, HolderOwnsLiveLock
<1>7. ASSUME NEW w \in Workers, Return(w)
      PROVE  IInv'
  BY <1>7 DEF Return, HolderOwnsLiveLock
<1>8. ASSUME NEW w \in Workers, Die(w)
      PROVE  IInv'
  BY <1>8 DEF Die, HolderOwnsLiveLock
<1>9. CASE UNCHANGED vars
  BY <1>9 DEF vars, HolderOwnsLiveLock
<1> QED
  BY <1>1, <1>2, <1>3, <1>4, <1>5, <1>6, <1>7, <1>8, <1>9 DEF Next

LEMMA SpecIInv == Spec => []IInv
BY InitIInv, StepIInv, PTL DEF Spec

(* Every variable keeps its type.                                          *)
THEOREM TypeCorrect == Spec => []TypeOK
<1>1. IInv => TypeOK
  BY DEF IInv
<1> QED
  BY <1>1, SpecIInv, PTL

(* Whoever executes a job set its key last, and the key outlives the task: *)
(* the release in the finally block deletes the worker's own key.          *)
THEOREM HolderAlwaysOwnsLiveLock == Spec => []HolderOwnsLiveLock
<1>1. IInv => HolderOwnsLiveLock
  BY DEF IInv
<1> QED
  BY <1>1, SpecIInv, PTL

(* At most one worker executes a job at any time.                          *)
LEMMA IInvExcludes == IInv => MutualExclusion
  BY ExecutedIsLocked DEF MutualExclusion

THEOREM JobsAreExecutedByOneWorker == Spec => []MutualExclusion
<1>1. IInv => MutualExclusion
  BY IInvExcludes
<1> QED
  BY <1>1, InitIInv, StepIInv, PTL DEF Spec

(* A live key is deleted only by the worker that set it, when it leaves    *)
(* its execution.                                                          *)
LEMMA StepDeletesOwnLock ==
  ASSUME IInv, [Next]_vars, NEW j \in Jobs,
         IsLocked(j), now' < lockExpiry[j], ~IsLocked(j)'
  PROVE  Executes(lockOwner[j], j) /\ ~Executes(lockOwner[j], j)'
<1> USE DEF IInv, TypeOK, IsLocked
<1>1. PICK w \in Workers : Release(w) /\ task[w] = j
  <2>1. ASSUME NEW w \in Workers, Acquire(w)
        PROVE  FALSE
    <3>1. task[w] \in Jobs
      BY <2>1 DEF Acquire, HolderOwnsLiveLock
    <3> QED
      BY <2>1, <3>1 DEF Acquire
  <2>2. ASSUME lockExpiry' = lockExpiry
        PROVE  FALSE
    BY <2>2
  <2>3. ASSUME NEW w \in Workers, Release(w), task[w] # j
        PROVE  FALSE
    BY <2>3 DEF Release
  <2> QED
    BY <2>1, <2>2, <2>3
       DEF Next, vars, Tick, Receive, Skip, LeaveBody, Return, Die
<1> QED
  BY <1>1 DEF Release, HolderOwnsLiveLock, Executes, Places

THEOREM OnlyTheHolderDeletes == Spec => OnlyHolderDeletesLock
<1>1. IInv /\ [Next]_vars
        => [\A j \in Jobs :
              (IsLocked(j) /\ now' < lockExpiry[j] /\ ~IsLocked(j)') =>
                /\ Executes(lockOwner[j], j)
                /\ ~Executes(lockOwner[j], j)']_vars
  BY StepDeletesOwnLock
<1> QED
  BY <1>1, InitIInv, StepIInv, PTL DEF Spec, OnlyHolderDeletesLock

------------------------------------------------------------------------------
(* The lock implements SingleExecution.  The mapping names the executor of *)
(* a job, and NoWorker when there is none.                                 *)
LEMMA HolderIsTheExecutor ==
  ASSUME MutualExclusion, NEW j \in Jobs
  PROVE  /\ \A w \in Workers : Executes(w, j) => Holder[j] = w
         /\ (\A w \in Workers : ~Executes(w, j)) => Holder[j] = NoWorker
  BY DEF MutualExclusion, Holder

LEMMA HolderIsTheExecutorNext ==
  ASSUME MutualExclusion', NEW j \in Jobs
  PROVE  /\ \A w \in Workers : Executes(w, j)' => Holder'[j] = w
         /\ (\A w \in Workers : ~Executes(w, j)') => Holder'[j] = NoWorker
  BY DEF MutualExclusion, Holder

(* A step that changes who executes which job for one worker only.         *)
LEMMA OtherJobsKeepTheirHolder ==
  ASSUME MutualExclusion, MutualExclusion', NEW j \in Jobs,
         \A w \in Workers : Executes(w, j) <=> Executes(w, j)'
  PROVE  Holder'[j] = Holder[j]
<1>1. CASE \E w \in Workers : Executes(w, j)
  BY <1>1, HolderIsTheExecutor, HolderIsTheExecutorNext
<1>2. CASE \A w \in Workers : ~Executes(w, j)
  BY <1>2, HolderIsTheExecutor, HolderIsTheExecutorNext
<1> QED
  BY <1>1, <1>2

LEMMA StepImplementsPromise ==
  ASSUME IInv, IInv', [Next]_vars
  PROVE  [Promise!Next]_Holder
<1> USE ConstantsAssumption
<1>0. MutualExclusion /\ MutualExclusion'
  BY IInvExcludes, PTL
<1>1. ASSUME \A j \in Jobs, w \in Workers : Executes(w, j) <=> Executes(w, j)'
      PROVE  Holder' = Holder
  <2>1. \A j \in Jobs : Holder'[j] = Holder[j]
    BY <1>0, <1>1, OtherJobsKeepTheirHolder
  <2> QED
    BY <2>1 DEF Holder
<1>2. ASSUME NEW w \in Workers, Acquire(w)
      PROVE  Promise!Begin(task[w], w)
  <2>1. task[w] \in Jobs
    BY <1>2 DEF Acquire, IInv, HolderOwnsLiveLock
  <2>2. \A v \in Workers : ~Executes(v, task[w])
    BY <1>2, <2>1, ExecutedIsLocked DEF Acquire
  <2>3. Holder[task[w]] = NoWorker
    BY <1>0, <2>1, <2>2, HolderIsTheExecutor
  <2>4. Executes(w, task[w])'
    BY <1>2 DEF Acquire, Executes, IInv, TypeOK
  <2>5. Holder'[task[w]] = w
    BY <1>0, <1>2, <2>1, <2>4, HolderIsTheExecutorNext DEF Acquire
  <2>6. ASSUME NEW j \in Jobs, j # task[w]
        PROVE  Holder'[j] = Holder[j]
    <3>1. \A v \in Workers : Executes(v, j) <=> Executes(v, j)'
      BY <1>2, <2>6 DEF Acquire, Executes, IInv, TypeOK
    <3> QED
      BY <1>0, <3>1, OtherJobsKeepTheirHolder
  <2> QED
    BY <2>1, <2>3, <2>5, <2>6 DEF Promise!Begin, Holder
<1>3. ASSUME NEW w \in Workers, NEW j \in Jobs, Executes(w, j), ~Executes(w, j)',
             \A v \in Workers : v # w => pc'[v] = pc[v] /\ task'[v] = task[v],
             pc'[w] \notin {"body", "finally"}
      PROVE  Promise!End(j)
  <2>1. Holder[j] = w
    BY <1>0, <1>3, HolderIsTheExecutor
  <2>2. \A v \in Workers : ~Executes(v, j)'
    BY <1>0, <1>3 DEF Executes, MutualExclusion
  <2>3. Holder'[j] = NoWorker
    BY <1>0, <2>2, HolderIsTheExecutorNext
  <2>4. ASSUME NEW i \in Jobs, i # j
        PROVE  Holder'[i] = Holder[i]
    <3>1. \A v \in Workers : Executes(v, i) <=> Executes(v, i)'
      BY <1>3, <2>4 DEF Executes
    <3> QED
      BY <1>0, <3>1, OtherJobsKeepTheirHolder
  <2> QED
    BY <2>1, <2>3, <2>4 DEF Promise!End, Holder
<1>4. ASSUME NEW w \in Workers, Release(w)
      PROVE  Promise!End(task[w])
  <2>1. task[w] \in Jobs
    BY <1>4 DEF Release, IInv, HolderOwnsLiveLock
  <2> QED
    BY <1>3, <1>4, <2>1 DEF Release, Executes, IInv, TypeOK
<1>5. ASSUME NEW w \in Workers, Die(w), pc[w] \in {"body", "finally"}
      PROVE  Promise!End(task[w])
  <2>1. task[w] \in Jobs
    BY <1>5 DEF IInv, HolderOwnsLiveLock, Places
  <2> QED
    BY <1>3, <1>5, <2>1 DEF Die, Executes, IInv, TypeOK
<1>6. ASSUME NEW w \in Workers,
             \/ \E j \in Jobs : Receive(w, j)
             \/ Skip(w) \/ LeaveBody(w) \/ Return(w)
             \/ Die(w) /\ pc[w] \notin {"body", "finally"}
      PROVE  Holder' = Holder
  BY <1>1, <1>6
     DEF Receive, Skip, LeaveBody, Return, Die, Executes, IInv, TypeOK
<1>7. CASE Tick \/ UNCHANGED vars
  BY <1>1, <1>7 DEF Tick, vars, Executes
<1>8. \A w \in Workers : pc[w] # "idle" => task[w] \in Jobs
  BY DEF IInv, HolderOwnsLiveLock
<1>9. CASE Next
  <2>1. ASSUME NEW w \in Workers, Acquire(w) \/ Release(w) \/ Die(w)
        PROVE  pc[w] # "idle"
    BY <2>1 DEF Acquire, Release, Die
  <2> QED
    BY <1>2, <1>4, <1>5, <1>6, <1>7, <1>8, <1>9, <2>1
       DEF Next, Promise!Next
<1> QED
  BY <1>7, <1>9

LEMMA InitImplementsPromise == Init => Promise!Init
  BY DEF Init, Promise!Init, Holder, Executes

THEOREM LockImplementsSingleExecution == Spec => ImplementsPromise
<1>1. IInv /\ IInv' /\ [Next]_vars => [Promise!Next]_Holder
  BY StepImplementsPromise
<1> QED
  BY <1>1, InitIInv, StepIInv, InitImplementsPromise, PTL
     DEF Spec, ImplementsPromise, Promise!Spec
==============================================================================
