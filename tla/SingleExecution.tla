--------------------------- MODULE SingleExecution ---------------------------
(***************************************************************************)
(* What core/job_locking.py promises to the workers ("guaranteed single    *)
(* execution"), without saying how: at any moment a job is executed by at  *)
(* most one worker, and a worker can begin only when nobody executes it.   *)
(* JobLock implements this with one Redis key per job.                     *)
(***************************************************************************)
CONSTANTS Jobs, Workers, NoWorker

VARIABLE executing   \* executing[j]: the worker executing job j, or NoWorker

Init == executing = [j \in Jobs |-> NoWorker]

Begin(j, w) ==
  /\ executing[j] = NoWorker
  /\ executing' = [executing EXCEPT ![j] = w]

(* The execution is over: it returned, or its process died.                *)
End(j) ==
  /\ executing[j] # NoWorker
  /\ executing' = [executing EXCEPT ![j] = NoWorker]

Next == \E j \in Jobs : End(j) \/ \E w \in Workers : Begin(j, w)

Spec == Init /\ [][Next]_executing
==============================================================================
