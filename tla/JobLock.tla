------------------------------- MODULE JobLock -------------------------------
(***************************************************************************)
(* The job lock of core/job_locking.py as process_analysis_job             *)
(* (worker.py) uses it: SET job_lock:<id> NX EX LOCK_TTL before the body,  *)
(* an unconditional DELETE in the finally block.  The value of the key is  *)
(* the constant "locked", so the lock does not know who holds it; that a   *)
(* worker never deletes the lock of another one rests on real time only:   *)
(* LOCK_TTL (400 s) is longer than the hard time limit (360 s) after which *)
(* Celery kills the process.  Hence the clock.                             *)
(*                                                                         *)
(* The broker is left free: any job may be handed to any idle worker at    *)
(* any moment.  This covers first deliveries, automatic and manual         *)
(* retries, and redeliveries of a message whose worker was lost.           *)
(***************************************************************************)
EXTENDS Naturals

CONSTANTS
  Jobs,        \* job identifiers
  Workers,     \* prefork worker processes
  NoWorker, NoJob,
  LockTTL,     \* JOB_LOCK_TTL, 400 in the code
  HardLimit,   \* task_time_limit, 360 in the code
  MaxTime      \* bound of the clock, for model checking

ASSUME ConstantsAssumption ==
  /\ NoWorker \notin Workers
  /\ NoJob \notin Jobs
  /\ LockTTL \in Nat
  /\ HardLimit \in Nat
  /\ MaxTime \in Nat

(* The comment on LOCK_TTL: "slightly > max job timeout".                  *)
ASSUME LockOutlivesTask == LockTTL > HardLimit

VARIABLES
  now,         \* the clock Redis and the worker's parent process share
  lockExpiry,  \* lockExpiry[j]: when key job_lock:j expires, 0 if it is absent
  lockOwner,   \* lockOwner[j]: history, the worker that last set the key
  pc,          \* pc[w]: where worker w is in process_analysis_job
  task,        \* task[w]: the job it was handed
  startedAt    \* startedAt[w]: when it was handed that job

vars == <<now, lockExpiry, lockOwner, pc, task, startedAt>>

Places == {"idle", "received", "body", "finally", "released"}

TypeOK ==
  /\ now \in Nat
  /\ lockExpiry \in [Jobs -> Nat]
  /\ lockOwner \in [Jobs -> Workers \cup {NoWorker}]
  /\ pc \in [Workers -> Places]
  /\ task \in [Workers -> Jobs \cup {NoJob}]
  /\ startedAt \in [Workers -> Nat]

Init ==
  /\ now = 0
  /\ lockExpiry = [j \in Jobs |-> 0]
  /\ lockOwner = [j \in Jobs |-> NoWorker]
  /\ pc = [w \in Workers |-> "idle"]
  /\ task = [w \in Workers |-> NoJob]
  /\ startedAt = [w \in Workers |-> 0]

(* EXISTS job_lock:j                                                       *)
IsLocked(j) == now < lockExpiry[j]

(* w is between its acquire and the return of its release.                 *)
Executes(w, j) == pc[w] \in {"body", "finally"} /\ task[w] = j

(* The broker hands job j to an idle worker; its time limits start.        *)
Receive(w, j) ==
  /\ pc[w] = "idle"
  /\ pc' = [pc EXCEPT ![w] = "received"]
  /\ task' = [task EXCEPT ![w] = j]
  /\ startedAt' = [startedAt EXCEPT ![w] = now]
  /\ UNCHANGED <<now, lockExpiry, lockOwner>>

(* Mutant of Acquire: SET without NX.                                      *)
AcquireWithoutNX(w) ==
  /\ pc[w] = "received"
  /\ lockExpiry' = [lockExpiry EXCEPT ![task[w]] = now + LockTTL]
  /\ lockOwner' = [lockOwner EXCEPT ![task[w]] = w]
  /\ pc' = [pc EXCEPT ![w] = "body"]
  /\ UNCHANGED <<now, task, startedAt>>

(* Mutant of Acquire: the TTL is shorter than the time limit of a task.    *)
AcquireShortTTL(w) ==
  /\ pc[w] = "received"
  /\ ~IsLocked(task[w])
  /\ lockExpiry' = [lockExpiry EXCEPT ![task[w]] = now + 1]
  /\ lockOwner' = [lockOwner EXCEPT ![task[w]] = w]
  /\ pc' = [pc EXCEPT ![w] = "body"]
  /\ UNCHANGED <<now, task, startedAt>>

(* SET NX EX succeeds: the key was absent or had expired.                  *)
Acquire(w) ==
  /\ pc[w] = "received"
  /\ ~IsLocked(task[w])
  /\ lockExpiry' = [lockExpiry EXCEPT ![task[w]] = now + LockTTL]
  /\ lockOwner' = [lockOwner EXCEPT ![task[w]] = w]
  /\ pc' = [pc EXCEPT ![w] = "body"]
  /\ UNCHANGED <<now, task, startedAt>>

(* Mutant of Skip: the acquire stands inside the try block, so that the    *)
(* early return runs the finally block.                                    *)
SkipThroughFinally(w) ==
  /\ pc[w] = "received"
  /\ IsLocked(task[w])
  /\ pc' = [pc EXCEPT ![w] = "finally"]
  /\ UNCHANGED <<now, lockExpiry, lockOwner, task, startedAt>>

(* SET NX fails: "already running - skipping duplicate", the task returns  *)
(* before its try block.                                                   *)
Skip(w) ==
  /\ pc[w] = "received"
  /\ IsLocked(task[w])
  /\ pc' = [pc EXCEPT ![w] = "idle"]
  /\ task' = [task EXCEPT ![w] = NoJob]
  /\ UNCHANGED <<now, lockExpiry, lockOwner, startedAt>>

(* The try block ends, normally or by an exception.                        *)
LeaveBody(w) ==
  /\ pc[w] = "body"
  /\ pc' = [pc EXCEPT ![w] = "finally"]
  /\ UNCHANGED <<now, lockExpiry, lockOwner, task, startedAt>>

(* Mutant of Release: the key is expired by setting its TTL back.          *)
ReleaseByShortening(w) ==
  /\ pc[w] = "finally"
  /\ lockExpiry' = [lockExpiry EXCEPT ![task[w]] = @ - 2 * LockTTL]
  /\ pc' = [pc EXCEPT ![w] = "released"]
  /\ UNCHANGED <<now, lockOwner, task, startedAt>>

(* DELETE job_lock:j, whoever set it.                                      *)
Release(w) ==
  /\ pc[w] = "finally"
  /\ lockExpiry' = [lockExpiry EXCEPT ![task[w]] = 0]
  /\ pc' = [pc EXCEPT ![w] = "released"]
  /\ UNCHANGED <<now, lockOwner, task, startedAt>>

(* decrement_queue, then the task returns and is acknowledged.             *)
Return(w) ==
  /\ pc[w] = "released"
  /\ pc' = [pc EXCEPT ![w] = "idle"]
  /\ task' = [task EXCEPT ![w] = NoJob]
  /\ UNCHANGED <<now, lockExpiry, lockOwner, startedAt>>

(* The process dies at any point of the task, by a crash or because it     *)
(* reached the hard limit: the finally block does not run and the key      *)
(* stays until it expires.                                                 *)
Die(w) ==
  /\ pc[w] # "idle"
  /\ pc' = [pc EXCEPT ![w] = "idle"]
  /\ task' = [task EXCEPT ![w] = NoJob]
  /\ UNCHANGED <<now, lockExpiry, lockOwner, startedAt>>

(* Mutant of Tick: no time_limit on the task.                              *)
TickWithoutLimit ==
  /\ now < MaxTime
  /\ now' = now + 1
  /\ UNCHANGED <<lockExpiry, lockOwner, pc, task, startedAt>>

(* Time passes, but never beyond the hard limit of a running task: at that *)
(* moment Celery's parent process kills it.                                *)
Tick ==
  /\ now < MaxTime
  /\ \A w \in Workers : pc[w] # "idle" => now < startedAt[w] + HardLimit
  /\ now' = now + 1
  /\ UNCHANGED <<lockExpiry, lockOwner, pc, task, startedAt>>

Next ==
  \/ Tick
  \/ \E w \in Workers :
       \/ \E j \in Jobs : Receive(w, j)
       \/ Acquire(w)
       \/ Skip(w)
       \/ LeaveBody(w)
       \/ Release(w)
       \/ Return(w)
       \/ Die(w)

Spec == Init /\ [][Next]_vars

------------------------------------------------------------------------------
(* Two workers never execute the same job at once, although the lock has   *)
(* no owner, expires, and is deleted by whoever reaches the finally block  *)
(* (core/job_locking.py: "guaranteed single execution").                   *)
MutualExclusion ==
  \A v, w \in Workers, j \in Jobs : Executes(v, j) /\ Executes(w, j) => v = w

(* Why: whoever executes j set its key last, the key expires LockTTL after *)
(* a moment of its task, and the task is younger than HardLimit.           *)
HolderOwnsLiveLock ==
  \A w \in Workers :
    pc[w] # "idle" =>
      /\ task[w] \in Jobs
      /\ startedAt[w] <= now /\ now <= startedAt[w] + HardLimit
      /\ pc[w] \in {"body", "finally"} =>
           /\ lockOwner[task[w]] = w
           /\ startedAt[w] + LockTTL <= lockExpiry[task[w]]

(* A key that disappears before its expiry was deleted by the worker that  *)
(* set it, on leaving its own execution: although DELETE names no owner,   *)
(* no step of another worker, the ones skipping the job included, removes  *)
(* the key of a running execution or the one a dead worker left behind.    *)
OnlyHolderDeletesLock ==
  [][\A j \in Jobs :
       (IsLocked(j) /\ now' < lockExpiry[j] /\ ~IsLocked(j)') =>
         /\ Executes(lockOwner[j], j)
         /\ ~Executes(lockOwner[j], j)']_vars

(* The lock implements the abstract promise of SingleExecution: the        *)
(* executor of a job is the worker between its acquire and its release.    *)
Holder == [j \in Jobs |-> IF \E w \in Workers : Executes(w, j)
                            THEN CHOOSE w \in Workers : Executes(w, j)
                            ELSE NoWorker]

Promise == INSTANCE SingleExecution WITH executing <- Holder

ImplementsPromise == Promise!Spec
==============================================================================
