-------------------------- MODULE Outcomes_proofs --------------------------
(***************************************************************************)
(* For any number of jobs, handlers and requests: the records that outcome *)
(* requests write back never undo the end of a job, and a confirmed        *)
(* outcome is not lost while its job does not run again; every correction  *)
(* is sound, and the newest row belongs to the last decision.              *)
(***************************************************************************)
EXTENDS Outcomes, SequenceTheorems, TLAPS

WorkPlaces == {"begin", "run", "analyse", "save", "end", "finish",
               "end reviewed", "finish reviewed", "fail", "failed", "over"}

HandlerPlaces ==
  {"idle", "measure", "reset", "log", "set", "row", "job", "manual log", "summary"}

(* Where a handler has no outcome to record.                               *)
Elsewhere == {"idle", "manual log", "summary"}

OutcomeRequests == [job : Jobs, demand : Demands]

Control ==
  /\ record \in [Jobs -> Records]
  /\ work \in [Jobs -> WorkPlaces]
  /\ copy \in [Jobs -> Demands \cup {None}]
  /\ at \in [Handlers -> HandlerPlaces]
  /\ req \in [Handlers -> OutcomeRequests \cup {None}]
  /\ snapshot \in [Handlers -> Completed \cup {"queued"}]

(* An outcome request holds the record of a job that was completed.        *)
HoldsCompletedRecord ==
  \A h \in Handlers :
    at[h] \notin Elsewhere =>
      req[h] \in OutcomeRequests /\ snapshot[h] \in Completed

(* An outcome is known to stay only while its job does not run.            *)
KeptAreOver == \A j \in kept : j \in Jobs /\ work[j] = "over"

IInv == Control /\ HoldsCompletedRecord /\ KeptAreOver /\ CompletionSurvivesOutcomes

LEMMA InitIsSound == Init => IInv
BY DEF Init, IInv, Control, HoldsCompletedRecord, KeptAreOver, CompletionSurvivesOutcomes,
       Records, NoRecord, WorkPlaces, HandlerPlaces, Completed, Elsewhere

(* None is not a demand, and a completed status is one of a record.        *)
LEMMA Values ==
  /\ \A a \in Demands : a # None
  /\ Completed \subseteq {"queued", "running", "done", "rejected", "error"}
BY ConstantsAssumption DEF Completed

LEMMA WorkerKeepsInvariant ==
  ASSUME IInv, NEW j \in Jobs, Worker(j) \/ Fail(j) \/ Rerun(j)
  PROVE  IInv'
<1> USE DEF IInv, Control, KeptAreOver, CompletionSurvivesOutcomes, WorkPlaces, WorkerGoesTo,
            handlers
<1>1. ASSUME ReadRecord(j) PROVE IInv'
  <2>1. UNCHANGED <<record, at, req, snapshot, kept>>
    BY <1>1 DEF ReadRecord
  <2>2. /\ work' \in [Jobs -> WorkPlaces]
        /\ work[j] # "over" /\ work'[j] # "over" /\ \A i \in Jobs \ {j} : work'[i] = work[i]
    BY <1>1 DEF ReadRecord
  <2>3. copy' \in [Jobs -> Demands \cup {None}]
    BY <1>1 DEF ReadRecord, Records
  <2> QED
    BY <2>1, <2>2, <2>3 DEF HoldsCompletedRecord
<1>2. ASSUME WriteRecord(j) PROVE IInv'
  <2>1. UNCHANGED <<at, req, snapshot, kept>>
    BY <1>2 DEF WriteRecord
  <2>2. PICK status \in {"running", "done", "rejected", "error"} :
          /\ work[j] # "over" /\ work' \in [Jobs -> WorkPlaces]
          /\ work'[j] = "over" => status \in Completed
          /\ \A i \in Jobs \ {j} : work'[i] = work[i]
          /\ record' = [record EXCEPT ![j] = [status |-> status, outcome |-> copy[j]]]
    BY <1>2 DEF WriteRecord, Completed
  <2>3. copy' \in [Jobs -> Demands \cup {None}]
    BY <1>2 DEF WriteRecord
  <2>4. record' \in [Jobs -> Records]
    BY <2>2 DEF Records
  <2>5. record'[j].status = status /\ \A i \in Jobs \ {j} : record'[i] = record[i]
    BY <2>2
  <2> QED
    BY <2>1, <2>2, <2>3, <2>4, <2>5 DEF HoldsCompletedRecord
<1>3. ASSUME LeaveToReview(j) \/ InsertRow(j) \/ SaveMemory(j) PROVE IInv'
  <2>1. UNCHANGED <<record, copy, at, req, snapshot, kept>>
    BY <1>3 DEF LeaveToReview, InsertRow, SaveMemory
  <2>2. /\ work' \in [Jobs -> WorkPlaces]
        /\ work[j] # "over" /\ work'[j] # "over" /\ \A i \in Jobs \ {j} : work'[i] = work[i]
    BY <1>3 DEF LeaveToReview, InsertRow, SaveMemory
  <2> QED
    BY <2>1, <2>2 DEF HoldsCompletedRecord
<1>f. ASSUME Fail(j) PROVE IInv'
  <2>1. UNCHANGED <<record, at, req, snapshot, kept>>
    BY <1>f DEF Fail
  <2>2. /\ work' \in [Jobs -> WorkPlaces]
        /\ work[j] # "over" /\ work'[j] # "over" /\ \A i \in Jobs \ {j} : work'[i] = work[i]
    BY <1>f DEF Fail
  <2>3. copy' \in [Jobs -> Demands \cup {None}]
    BY <1>f DEF Fail
  <2> QED
    BY <2>1, <2>2, <2>3 DEF HoldsCompletedRecord
<1>4. ASSUME Rerun(j) PROVE IInv'
  <2>1. UNCHANGED <<record, copy, at, req, snapshot>> /\ kept' = kept \ {j}
    BY <1>4 DEF Rerun
  <2>2. /\ work' \in [Jobs -> WorkPlaces]
        /\ work'[j] = "begin" /\ \A i \in Jobs \ {j} : work'[i] = work[i]
    BY <1>4 DEF Rerun
  <2> QED
    BY <2>1, <2>2 DEF HoldsCompletedRecord
<1> QED
  BY <1>1, <1>2, <1>3, <1>f, <1>4 DEF Worker

(* A handler that neither takes a job nor writes one back.                 *)
LEMMA ReadersKeepInvariant ==
  ASSUME IInv, NEW h \in Handlers, UNCHANGED <<jobs, kept>>,
         \/ Measure(h) \/ Reset(h) \/ LogReset(h) \/ SetMemory(h) \/ UpdateRow(h)
         \/ ManualReset(h) \/ HearAccuracy(h) \/ HearFactor(h) \/ Lose(h)
  PROVE  IInv'
<1> USE DEF IInv, Control, HandlerPlaces, Elsewhere
<1>1. ASSUME UNCHANGED <<req, snapshot>>, at' \in [Handlers -> HandlerPlaces],
             \A g \in Handlers \ {h} : at'[g] = at[g],
             at[h] \in Elsewhere => at'[h] \in Elsewhere
      PROVE  IInv'
  BY <1>1 DEF HoldsCompletedRecord, KeptAreOver, CompletionSurvivesOutcomes, jobs
<1>2. ASSUME Ends(h) PROVE IInv'
  BY <1>2 DEF Ends, HoldsCompletedRecord, KeptAreOver, CompletionSurvivesOutcomes, jobs
<1>3. CASE Measure(h)
  BY <1>1, <1>3 DEF Measure, HandlerGoesTo
<1>4. CASE Reset(h)
  BY <1>1, <1>4 DEF Reset, HandlerGoesTo
<1>5. CASE LogReset(h)
  BY <1>1, <1>2, <1>5 DEF LogReset, HandlerGoesTo
<1>6. CASE SetMemory(h) \/ UpdateRow(h)
  BY <1>1, <1>6 DEF SetMemory, UpdateRow, HandlerGoesTo
<1>7. CASE ManualReset(h) \/ HearAccuracy(h)
  BY <1>1, <1>7 DEF ManualReset, HearAccuracy, HandlerGoesTo
<1>8. CASE HearFactor(h) \/ Lose(h)
  BY <1>2, <1>8 DEF HearFactor, Lose
<1> QED
  BY <1>3, <1>4, <1>5, <1>6, <1>7, <1>8

LEMMA GetJobKeepsInvariant ==
  ASSUME IInv, NEW h \in Handlers, NEW j \in Jobs, NEW a \in Demands, GetJob(h, j, a)
  PROVE  IInv'
<1> USE DEF IInv, Control, HandlerPlaces, GetJob, Take, HandlerGoesTo
<1>1. UNCHANGED <<record, work, copy, kept>>
  BY DEF jobs
<1>2. at' \in [Handlers -> HandlerPlaces] /\ \A g \in Handlers \ {h} : at'[g] = at[g]
  OBVIOUS
<1>3. /\ req' \in [Handlers -> OutcomeRequests \cup {None}]
      /\ req'[h] \in OutcomeRequests /\ \A g \in Handlers \ {h} : req'[g] = req[g]
  BY DEF OutcomeRequests
<1>4. /\ snapshot' \in [Handlers -> Completed \cup {"queued"}]
      /\ snapshot'[h] \in Completed /\ \A g \in Handlers \ {h} : snapshot'[g] = snapshot[g]
  OBVIOUS
<1> QED
  BY <1>1, <1>2, <1>3, <1>4 DEF HoldsCompletedRecord, KeptAreOver, CompletionSurvivesOutcomes

(* The record written back is a completed one, with an outcome.            *)
LEMMA WriteJobKeepsInvariant ==
  ASSUME IInv, NEW h \in Handlers, WriteJob(h)
  PROVE  IInv'
<1> DEFINE j == req[h].job
<1> USE DEF IInv, Control
<1>1. req[h] \in OutcomeRequests /\ snapshot[h] \in Completed
  BY DEF WriteJob, HoldsCompletedRecord, Elsewhere
<1>2. j \in Jobs /\ req[h].demand \in Demands /\ req[h].demand # None
  BY <1>1, Values DEF OutcomeRequests
<1>3. UNCHANGED <<work, copy>>
  BY DEF WriteJob
<1>4. /\ at' \in [Handlers -> HandlerPlaces] /\ at'[h] = "idle"
      /\ req' \in [Handlers -> OutcomeRequests \cup {None}]
      /\ snapshot' \in [Handlers -> Completed \cup {"queued"}]
      /\ \A g \in Handlers \ {h} : at'[g] = at[g] /\ req'[g] = req[g] /\ snapshot'[g] = snapshot[g]
  BY DEF WriteJob, Ends, HandlerPlaces
<1>5. HoldsCompletedRecord'
  BY <1>4 DEF HoldsCompletedRecord, Elsewhere
<1>6. record' = [record EXCEPT ![j] = [status |-> snapshot[h], outcome |-> req[h].demand]]
  BY DEF WriteJob
<1>7. record' \in [Jobs -> Records]
  BY <1>1, <1>2, <1>6, Values DEF Records
<1>8. /\ record'[j].status \in Completed /\ record'[j].outcome # None
      /\ \A i \in Jobs \ {j} : record'[i] = record[i]
  BY <1>1, <1>2, <1>6
<1>9. kept' = IF work[j] = "over" THEN kept \cup {j} ELSE kept
  BY DEF WriteJob
<1>10. KeptAreOver'
  BY <1>2, <1>3, <1>9 DEF KeptAreOver
<1>11. CompletionSurvivesOutcomes'
  BY <1>3, <1>8, <1>9 DEF CompletionSurvivesOutcomes, KeptAreOver
<1> QED
  BY <1>3, <1>4, <1>5, <1>7, <1>10, <1>11

LEMMA StepKeepsInvariant == IInv /\ [Next]_vars => IInv'
<1> SUFFICES ASSUME IInv, [Next]_vars PROVE IInv'
  OBVIOUS
<1>1. CASE UNCHANGED vars
  BY <1>1 DEF vars, jobs, handlers, IInv, Control, HoldsCompletedRecord, KeptAreOver,
              CompletionSurvivesOutcomes
<1>2. ASSUME NEW j \in Jobs, Worker(j) \/ Fail(j) \/ Rerun(j) PROVE IInv'
  BY <1>2, WorkerKeepsInvariant
<1>3. ASSUME NEW h \in Handlers, NEW j \in Jobs, NEW a \in Demands, GetJob(h, j, a) PROVE IInv'
  BY <1>3, GetJobKeepsInvariant
<1>4. ASSUME NEW h \in Handlers,
             \/ Handle(h) \/ ManualReset(h) \/ HearAccuracy(h) \/ HearFactor(h) \/ Lose(h)
      PROVE  IInv'
  <2>1. CASE WriteJob(h)
    BY <2>1, WriteJobKeepsInvariant
  <2>2. CASE \/ Measure(h) \/ Reset(h) \/ LogReset(h) \/ SetMemory(h) \/ UpdateRow(h)
             \/ ManualReset(h) \/ HearAccuracy(h) \/ HearFactor(h) \/ Lose(h)
    <3>1. UNCHANGED <<jobs, kept>>
      BY <2>2 DEF Measure, Reset, LogReset, SetMemory, UpdateRow, ManualReset, HearAccuracy,
                  HearFactor, Lose
    <3> QED
      BY <2>2, <3>1, ReadersKeepInvariant
  <2> QED
    BY <1>4, <2>1, <2>2 DEF Handle
<1> QED
  BY <1>1, <1>2, <1>3, <1>4 DEF Next

(* A job whose worker is through stays completed and keeps its confirmed   *)
(* outcome, whatever record_outcome of api/main.py writes back, for   *)
(* any number of jobs and requests.                                        *)
THEOREM OutcomesPreserveCompletion == Spec => []CompletionSurvivesOutcomes
<1>1. IInv => CompletionSurvivesOutcomes
  BY DEF IInv
<1> QED
  BY <1>1, InitIsSound, StepKeepsInvariant, PTL DEF Spec

------------------------------------------------------------------------------
(* The correction.                                                         *)
Numbers == Int \cup {None}
Memories == [id : Nat, predicted : Nat, actual : Numbers, accuracy : Numbers]

(* An accuracy is that of the forecast and the demand beside it, and not   *)
(* below the floor.                                                        *)
Sound(m) ==
  m.accuracy # None =>
    /\ m.actual \in Nat /\ m.predicted > 0
    /\ m.accuracy = Accuracy(m.actual, m.predicted)
    /\ ~BelowFloor(m.actual, m.predicted)

LEMMA Quotients ==
  ASSUME NEW n \in Int, NEW d \in Nat \ {0}, NEW k \in Int
  PROVE  /\ n \div d \in Int
         /\ n >= k * d => n \div d >= k
         /\ n < k * d => n \div d < k
  OBVIOUS

(* Rounding to thousandths, against a bound of k thousandths.              *)
LEMMA RoundedBounds ==
  ASSUME NEW n \in Int, NEW d \in Nat \ {0}, NEW k \in Int
  PROVE  /\ Thousandths(n, d) \in Int
         /\ 2000 * n + d >= k * (2 * d) => Thousandths(n, d) >= k
         /\ 2000 * n + d < k * (2 * d) => Thousandths(n, d) < k
<1>1. 2000 * n + d \in Int /\ 2 * d \in Nat \ {0}
  OBVIOUS
<1> QED
  BY <1>1, Quotients DEF Thousandths

LEMMA FactorBounds ==
  ASSUME NEW a \in Nat, NEW p \in Nat \ {0}, NEW k \in Int
  PROVE  /\ Thousandths(p + a, 2 * p) \in Int
         /\ 2000 * (p + a) + 2 * p >= k * (4 * p) => Thousandths(p + a, 2 * p) >= k
         /\ 2000 * (p + a) + 2 * p < k * (4 * p) => Thousandths(p + a, 2 * p) < k
<1> DEFINE n == p + a
           d == 2 * p
<1>1. n \in Int /\ d \in Nat \ {0} /\ k * (2 * d) = k * (4 * p)
  OBVIOUS
<1> HIDE DEF n, d
<1>2. /\ Thousandths(n, d) \in Int
      /\ 2000 * n + d >= k * (2 * d) => Thousandths(n, d) >= k
      /\ 2000 * n + d < k * (2 * d) => Thousandths(n, d) < k
  BY <1>1, RoundedBounds
<1>3. /\ Thousandths(n, d) \in Int
      /\ 2000 * n + d >= k * (4 * p) => Thousandths(n, d) >= k
      /\ 2000 * n + d < k * (4 * p) => Thousandths(n, d) < k
  BY <1>1, <1>2
<1> QED
  BY <1>3 DEF n, d

(* Above the floor the accuracy is at least 400, and a factor is within    *)
(* 30% of one.                                                             *)
LEMMA AboveTheFloor ==
  ASSUME NEW a \in Nat, NEW p \in Nat \ {0}, 10 * Distance(a, p) <= 6 * p
  PROVE  /\ Accuracy(a, p) \in Int /\ Accuracy(a, p) >= 400
         /\ a # 0
         /\ Thousandths(p + a, 2 * p) \in 700..1300
<1> DEFINE e == p - Distance(a, p)
<1>1. e \in Int /\ 10 * e >= 4 * p /\ 10 * a >= 4 * p /\ 10 * a <= 16 * p
  BY DEF Distance
<1>2. 2000 * e + p >= 400 * (2 * p)
  BY <1>1
<1>3. Accuracy(a, p) \in Int /\ Accuracy(a, p) >= 400
  BY <1>1, <1>2, RoundedBounds DEF Accuracy
<1>5. /\ 2000 * (p + a) + 2 * p >= 700 * (4 * p)
      /\ 2000 * (p + a) + 2 * p < 1301 * (4 * p)
  BY <1>1
<1>6. /\ Thousandths(p + a, 2 * p) \in Int
      /\ Thousandths(p + a, 2 * p) >= 700 /\ Thousandths(p + a, 2 * p) < 1301
  BY <1>5, FactorBounds
<1> QED
  BY <1>1, <1>3, <1>6

(* An accuracy below 900 is an error of which the factor has the sign.     *)
LEMMA DirectionOfCorrection ==
  ASSUME NEW a \in Nat, NEW p \in Nat \ {0}, Accuracy(a, p) < 900
  PROVE  /\ a < p => Thousandths(p + a, 2 * p) < 1000
         /\ a >= p => Thousandths(p + a, 2 * p) > 1000
<1> DEFINE e == p - Distance(a, p)
<1>1. e \in Int /\ Accuracy(a, p) = Thousandths(e, p)
  BY DEF Distance, Accuracy
<1>2. 2000 * e + p < 900 * (2 * p)
  BY <1>1, RoundedBounds
<1>4. ASSUME a < p PROVE Thousandths(p + a, 2 * p) < 1000
  <2>1. e = a
    BY <1>4 DEF Distance
  <2>2. 2000 * (p + a) + 2 * p < 1000 * (4 * p)
    BY <1>2, <2>1
  <2> QED
    BY <2>2, FactorBounds
<1>5. ASSUME a >= p PROVE Thousandths(p + a, 2 * p) > 1000
  <2>1. e = 2 * p - a
    BY <1>5 DEF Distance
  <2>2. 2000 * (p + a) + 2 * p >= 1001 * (4 * p)
    BY <1>2, <2>1
  <2>3. Thousandths(p + a, 2 * p) \in Int /\ Thousandths(p + a, 2 * p) >= 1001
    BY <2>2, FactorBounds
  <2> QED
    BY <2>3
<1> QED
  BY <1>4, <1>5

(* What CorrectionIsSound says of a memory with an accuracy.               *)
Corrects(m) ==
  /\ m.predicted > 0 /\ m.accuracy = Accuracy(m.actual, m.predicted)
  /\ m.accuracy >= 400 /\ Factor(m) \in 700..1300
  /\ m.accuracy < 900 =>
       Factor(m) # 1000 /\ (Factor(m) < 1000 <=> m.actual < m.predicted)

(* ... and what the factor tells of the memory it was read from.           *)
Directs(m) ==
  /\ Factor(m) \in Int
  /\ Factor(m) < 1000 => m.actual < m.predicted
  /\ Factor(m) > 1000 => m.actual > m.predicted

LEMMA SoundMemoryCorrects ==
  ASSUME NEW m \in Memories, Sound(m), m.accuracy # None
  PROVE  m.accuracy \in Int /\ Corrects(m) /\ Directs(m)
<1> DEFINE a == m.actual
           p == m.predicted
           f == Thousandths(p + a, 2 * p)
<1>1. a \in Nat /\ p \in Nat \ {0} /\ m.accuracy = Accuracy(a, p)
  BY DEF Sound, Memories
<1>2. 10 * Distance(a, p) <= 6 * p
  BY <1>1 DEF Sound, BelowFloor, Distance
<1> HIDE DEF a, p
<1>3. m.accuracy \in Int /\ m.accuracy >= 400 /\ a # 0 /\ f \in 700..1300
  <2>1. /\ Accuracy(a, p) \in Int /\ Accuracy(a, p) >= 400
        /\ a # 0 /\ f \in 700..1300
    BY <1>1, <1>2, AboveTheFloor
  <2> QED
    BY <1>1, <2>1
<1>4. Factor(m) = IF m.accuracy >= 900 THEN 1000 ELSE f
  BY <1>1, <1>3, ConstantsAssumption DEF Factor, a, p
<1>5. m.accuracy < 900 => (a < p => f < 1000) /\ (a >= p => f > 1000)
  BY <1>1, DirectionOfCorrection
<1>6. ASSUME a = p PROVE f < 1001
  <2>1. 2000 * (p + a) + 2 * p < 1001 * (4 * p)
    BY <1>1, <1>6
  <2> QED
    BY <1>1, <2>1, FactorBounds
<1> HIDE DEF f
<1>7. Factor(m) \in 700..1300 /\ Factor(m) \in Int
  BY <1>3, <1>4
<1>8. /\ m.accuracy < 900 => Factor(m) # 1000 /\ (Factor(m) < 1000 <=> a < p)
      /\ Factor(m) < 1000 => a < p
      /\ Factor(m) > 1000 => a > p
  BY <1>1, <1>3, <1>4, <1>5, <1>6
<1>9. Corrects(m)
  BY <1>1, <1>3, <1>7, <1>8 DEF Corrects, a, p
<1>10. Directs(m)
  BY <1>7, <1>8 DEF Directs, a, p
<1> QED
  BY <1>3, <1>9, <1>10

LEMMA FactorDirects ==
  ASSUME NEW m \in Memories, Sound(m)
  PROVE  Directs(m)
<1>1. CASE m.accuracy # None
  BY <1>1, SoundMemoryCorrects
<1>2. CASE m.accuracy = None
  BY <1>2 DEF Factor, Directs
<1> QED
  BY <1>1, <1>2

(* The records that can still be written back are sound too.               *)
Memorised ==
  /\ memory \in Memories /\ Sound(memory)
  /\ found \in [Handlers -> Memories]
  /\ \A h \in Handlers : at[h] = "set" => Sound(found[h])
  /\ made \in [Jobs -> Nat] /\ decisions \in Nat

MInv == IInv /\ Memorised

LEMMA NoMemoryIsSound == NoMemory \in Memories /\ Sound(NoMemory)
  BY DEF NoMemory, Memories, Numbers, Sound

LEMMA InitMInv == Init => MInv
  BY InitIsSound, NoMemoryIsSound DEF MInv, Memorised, Init

Edited(m, a, x) == [m EXCEPT !.actual = a, !.accuracy = x]

LEMMA EditedMemory ==
  ASSUME NEW m \in Memories, NEW a \in Numbers, NEW x \in Numbers
  PROVE  /\ Edited(m, a, x) \in Memories
         /\ Edited(m, a, x).id = m.id /\ Edited(m, a, x).predicted = m.predicted
         /\ Edited(m, a, x).actual = a /\ Edited(m, a, x).accuracy = x
  BY DEF Memories, Edited

(* A prediction of 0 leaves the accuracy as it was: None.                  *)
LEMMA MeasuredIsSound ==
  ASSUME NEW m \in Memories, Sound(m), NEW a \in Demands
  PROVE  /\ WithOutcome(m, a) \in Memories
         /\ WithOutcome(m, a).id = m.id
         /\ ~BelowFloor(a, m.predicted) => Sound(WithOutcome(m, a))
<1>1. a \in Nat /\ m.predicted \in Nat
  BY ConstantsAssumption DEF Memories
<1>2. CASE m.predicted > 0
  <2>1. Accuracy(a, m.predicted) \in Int
    <3>1. m.predicted \in Nat \ {0} /\ m.predicted - Distance(a, m.predicted) \in Int
      BY <1>1, <1>2 DEF Distance
    <3> QED
      BY <3>1, RoundedBounds DEF Accuracy
  <2>2. WithOutcome(m, a) = Edited(m, a, Accuracy(a, m.predicted))
    BY <1>2 DEF WithOutcome, Edited
  <2>3. a \in Numbers /\ Accuracy(a, m.predicted) \in Numbers
    BY <1>1, <2>1 DEF Numbers
  <2>4. /\ WithOutcome(m, a) \in Memories
        /\ WithOutcome(m, a).actual = a /\ WithOutcome(m, a).predicted = m.predicted
        /\ WithOutcome(m, a).accuracy = Accuracy(a, m.predicted)
        /\ WithOutcome(m, a).id = m.id
    BY <2>2, <2>3, EditedMemory
  <2> QED
    BY <1>1, <1>2, <2>4 DEF Sound
<1>3. CASE m.predicted = 0
  <2>1. m.accuracy = None
    BY <1>1, <1>3 DEF Sound
  <2>2. WithOutcome(m, a) = Edited(m, a, m.accuracy)
    BY <1>3 DEF WithOutcome, Edited
  <2>3. a \in Numbers /\ m.accuracy \in Numbers
    BY <1>1 DEF Numbers, Memories
  <2>4. /\ WithOutcome(m, a) \in Memories
        /\ WithOutcome(m, a).accuracy = None /\ WithOutcome(m, a).id = m.id
    BY <2>1, <2>2, <2>3, EditedMemory
  <2> QED
    BY <2>4 DEF Sound
<1> QED
  BY <1>1, <1>2, <1>3

(* A handler that starts to hold no memory to be set.                      *)
LEMMA OtherPlacesKeepMemory ==
  ASSUME MInv, NEW h \in Handlers, UNCHANGED <<made, decisions>>,
         memory' \in Memories, Sound(memory'),
         NEW to, to # "set", at' = [at EXCEPT ![h] = to],
         \/ found' = found
         \/ found' = [found EXCEPT ![h] = NoMemory]
         \/ found' = [found EXCEPT ![h] = memory]
  PROVE  Memorised'
<1>1. /\ at'[h] = to /\ \A g \in Handlers : g # h => at'[g] = at[g]
      /\ found \in [Handlers -> Memories] /\ memory \in Memories
  BY DEF MInv, IInv, Control, Memorised
<1>2. /\ found' \in [Handlers -> Memories]
      /\ \A g \in Handlers : g # h => found'[g] = found[g]
  BY <1>1, NoMemoryIsSound
<1> QED
  BY <1>1, <1>2 DEF MInv, Memorised

LEMMA MeasureKeepsMemory ==
  ASSUME MInv, NEW h \in Handlers, Measure(h)
  PROVE  Memorised'
<1> DEFINE a == req[h].demand
<1>1. a \in Demands
  BY DEF Measure, MInv, IInv, HoldsCompletedRecord, Elsewhere, OutcomeRequests
<1>2. UNCHANGED <<memory, made, decisions>> /\ memory \in Memories /\ Sound(memory)
  BY DEF Measure, jobs, MInv, Memorised
<1>3. CASE HandlerGoesTo(h, "measure", "job") /\ found' = found
  BY <1>2, <1>3, OtherPlacesKeepMemory DEF HandlerGoesTo
<1>4. CASE /\ at' = [at EXCEPT ![h] = IF BelowFloor(a, memory.predicted) THEN "reset" ELSE "set"]
           /\ found' = [found EXCEPT ![h] = WithOutcome(memory, a)]
  <2>1. /\ WithOutcome(memory, a) \in Memories
        /\ ~BelowFloor(a, memory.predicted) => Sound(WithOutcome(memory, a))
    BY <1>1, <1>2, MeasuredIsSound
  <2>2. /\ found' \in [Handlers -> Memories] /\ found'[h] = WithOutcome(memory, a)
        /\ \A g \in Handlers : g # h => found'[g] = found[g] /\ at'[g] = at[g]
        /\ at'[h] = IF BelowFloor(a, memory.predicted) THEN "reset" ELSE "set"
    BY <1>4, <2>1 DEF MInv, IInv, Control, Memorised
  <2>3. at'[h] = "set" => Sound(found'[h])
    BY <2>1, <2>2
  <2> HIDE DEF a
  <2> QED
    BY <1>2, <2>2, <2>3 DEF MInv, Memorised
<1> QED
  BY <1>3, <1>4 DEF Measure, HandlerGoesTo

LEMMA StepMInv == MInv /\ [Next]_vars => MInv'
<1> SUFFICES ASSUME MInv, [Next]_vars PROVE Memorised'
  BY StepKeepsInvariant DEF MInv
<1>m. /\ memory \in Memories /\ Sound(memory) /\ made \in [Jobs -> Nat] /\ decisions \in Nat
  BY DEF MInv, Memorised
<1>1. CASE UNCHANGED vars
  BY <1>1 DEF vars, learnt, handlers, MInv, Memorised
<1>2. ASSUME NEW j \in Jobs, Worker(j) \/ Fail(j) \/ Rerun(j)
      PROVE  Memorised'
  <2>1. UNCHANGED <<at, found>>
    BY <1>2 DEF Worker, ReadRecord, WriteRecord, LeaveToReview, InsertRow, SaveMemory, Fail,
                Rerun, handlers
  <2>2. made' \in [Jobs -> Nat] /\ decisions' \in Nat
    <3>1. CASE InsertRow(j)
      BY <1>m, <3>1 DEF InsertRow
    <3>2. CASE \/ ReadRecord(j) \/ WriteRecord(j) \/ LeaveToReview(j) \/ SaveMemory(j)
               \/ Fail(j) \/ Rerun(j)
      BY <1>m, <3>2 DEF ReadRecord, WriteRecord, LeaveToReview, SaveMemory, Fail, Rerun
    <3> QED
      BY <1>2, <3>1, <3>2 DEF Worker
  <2>3. memory' \in Memories /\ Sound(memory')
    <3>1. CASE SaveMemory(j)
      <4>1. PICK p \in Predictions :
              memory' = [id |-> made[j], predicted |-> p, actual |-> None, accuracy |-> None]
        BY <3>1 DEF SaveMemory
      <4>2. made[j] \in Nat /\ p \in Nat
        BY <1>m, ConstantsAssumption
      <4> QED
        BY <4>1, <4>2 DEF Memories, Numbers, Sound
    <3>2. CASE memory' = memory
      BY <1>m, <3>2
    <3> QED
      BY <1>2, <3>1, <3>2 DEF Worker, ReadRecord, WriteRecord, LeaveToReview, InsertRow, Fail,
                              Rerun, learnt
  <2> QED
    BY <2>1, <2>2, <2>3 DEF MInv, Memorised
<1>3. ASSUME NEW h \in Handlers, NEW j \in Jobs, NEW a \in Demands, GetJob(h, j, a)
      PROVE  Memorised'
  BY <1>m, <1>3, OtherPlacesKeepMemory DEF GetJob, Take, HandlerGoesTo, learnt
<1>4. ASSUME NEW h \in Handlers, Measure(h)
      PROVE  Memorised'
  BY <1>4, MeasureKeepsMemory
<1>5. ASSUME NEW h \in Handlers,
             \/ Reset(h) \/ LogReset(h) \/ SetMemory(h) \/ UpdateRow(h) \/ WriteJob(h)
             \/ ManualReset(h) \/ HearAccuracy(h) \/ HearFactor(h) \/ Lose(h)
      PROVE  Memorised'
  <2>1. UNCHANGED <<made, decisions>>
    BY <1>5 DEF Reset, LogReset, SetMemory, UpdateRow, WriteJob, ManualReset, HearAccuracy,
                HearFactor, Lose, jobs
  <2>2. memory' \in Memories /\ Sound(memory')
    <3>1. CASE SetMemory(h)
      BY <3>1 DEF SetMemory, HandlerGoesTo, MInv, Memorised
    <3>2. CASE memory' = memory \/ memory' = NoMemory
      BY <1>m, <3>2, NoMemoryIsSound
    <3> QED
      BY <1>5, <3>1, <3>2 DEF Reset, LogReset, UpdateRow, WriteJob, ManualReset, HearAccuracy,
                              HearFactor, Lose, learnt
  <2>3. PICK to \in {"log", "job", "row", "idle", "manual log", "summary"} :
          at' = [at EXCEPT ![h] = to]
    BY <1>5 DEF Reset, LogReset, SetMemory, UpdateRow, WriteJob, ManualReset, HearAccuracy,
                HearFactor, Lose, HandlerGoesTo, Ends
  <2>4. \/ found' = found \/ found' = [found EXCEPT ![h] = NoMemory]
        \/ found' = [found EXCEPT ![h] = memory]
    BY <1>5 DEF Reset, LogReset, SetMemory, UpdateRow, WriteJob, ManualReset, HearAccuracy,
                HearFactor, Lose, Ends
  <2> QED
    BY <2>1, <2>2, <2>3, <2>4, OtherPlacesKeepMemory
<1> QED
  BY <1>1, <1>2, <1>3, <1>4, <1>5 DEF Next, Handle

(* Whatever outcome requests, resets and new analyses overtake each other, *)
(* the correction get_adjustment_factor derives is that of its own         *)
(* forecast: within 30%, in the direction of the error, and never from a   *)
(* forecast below ACCURACY_FLOOR; and what get_memory_summary says of the  *)
(* direction is true of the second of the two records it reads.            *)
THEOREM CorrectionsAreSound == Spec => []CorrectionIsSound
<1>1. MInv => CorrectionIsSound
  <2> SUFFICES ASSUME MInv PROVE CorrectionIsSound
    OBVIOUS
  <2>1. memory \in Memories /\ Sound(memory)
    BY DEF MInv, Memorised
  <2>2. memory.accuracy # None => Corrects(memory)
    BY <2>1, SoundMemoryCorrects
  <2>3. Directs(memory)
    BY <2>1, FactorDirects
  <2>4. ASSUME NEW h \in Handlers
        PROVE  /\ Heard(h) = "too optimistic" => memory.actual < memory.predicted
               /\ Heard(h) = "too conservative" => memory.actual > memory.predicted
    BY <2>3 DEF Heard, Note, Directs
  <2>5. ASSUME NEW h \in Handlers, found[h] = memory
        PROVE  Heard(h) # "plain"
    <3>1. CASE memory.accuracy = None
      BY <2>5, <3>1 DEF Heard, Note
    <3>2. CASE memory.accuracy # None
      <4>1. memory.accuracy \in Int /\ Corrects(memory)
        BY <2>1, <3>2, SoundMemoryCorrects
      <4>2. memory.accuracy >= 900 \/ Factor(memory) < 1000 \/ Factor(memory) > 1000
        BY <2>3, <4>1 DEF Corrects, Directs
      <4> QED
        BY <2>5, <4>2 DEF Heard, Note
    <3> QED
      BY <3>1, <3>2
  <2>6. \A h \in Handlers : at[h] = "summary" =>
          /\ Heard(h) = "too optimistic" => memory.actual < memory.predicted
          /\ Heard(h) = "too conservative" => memory.actual > memory.predicted
          /\ found[h] = memory => Heard(h) # "plain"
    BY <2>4, <2>5
  <2>7. memory.accuracy # None =>
          /\ memory.predicted > 0
          /\ memory.accuracy = Accuracy(memory.actual, memory.predicted)
          /\ memory.accuracy >= 400 /\ Factor(memory) \in 700..1300
          /\ memory.accuracy < 900 =>
               Factor(memory) # 1000 /\ (Factor(memory) < 1000 <=> memory.actual < memory.predicted)
    BY <2>2 DEF Corrects
  <2> QED
    BY <2>6, <2>7, Zenon DEF CorrectionIsSound
<1> QED
  BY <1>1, InitMInv, StepMInv, PTL DEF Spec


------------------------------------------------------------------------------
(* The rows.                                                               *)
RowRecords == [id : Nat, accuracy : Numbers]

LastRowIs(n) == rows # <<>> /\ rows[Len(rows)].id = n

(* A worker between its row and its memory is the only one, its row is the *)
(* newest, and no handler holds the memory it is about to replace.         *)
SavesAlone ==
  \A j \in Jobs : Saving(j) =>
    /\ \A i \in Jobs : Saving(i) => i = j
    /\ LastRowIs(made[j])
    /\ NobodyMeasures

(* The memory, and the one a handler holds, are of the newest row.         *)
Follows ==
  /\ memory.id # 0 /\ NobodySaves => LastRowIs(memory.id)
  /\ \A h \in Handlers : Measuring(h) => LastRowIs(found[h].id)

Steady ==
  /\ calm \in {"yes", "mending", "no"}
  /\ calm # "no" => SavesAlone
  /\ calm = "yes" => Follows

RInv == MInv /\ rows \in Seq(RowRecords) /\ Steady

LEMMA InitRInv == Init => RInv
<1> SUFFICES ASSUME Init PROVE rows \in Seq(RowRecords) /\ Steady
  BY InitMInv DEF RInv
<1>1. rows = <<>> /\ memory.id = 0 /\ calm = "yes"
  BY DEF Init, NoMemory
<1>2. \A j \in Jobs : ~Saving(j)
  BY DEF Init, Saving
<1>3. \A h \in Handlers : ~Measuring(h)
  BY DEF Init, Measuring
<1> QED
  BY <1>1, <1>2, <1>3 DEF Steady, SavesAlone, Follows

LEMMA AppendedRow ==
  ASSUME rows \in Seq(RowRecords), NEW r \in RowRecords, rows' = Append(rows, r)
  PROVE  rows' \in Seq(RowRecords) /\ Len(rows') = Len(rows) + 1 /\ LastRowIs(r.id)'
<1>1. /\ rows' \in Seq(RowRecords) /\ rows' # <<>> /\ Len(rows') = Len(rows) + 1
      /\ rows'[Len(rows) + 1] = r
  BY AppendProperties
<1>2. rows'[Len(rows')].id = r.id
  BY <1>1
<1> QED
  BY <1>1, <1>2 DEF LastRowIs

(* A step after which nobody saves, and handlers hold what they held.      *)
LEMMA QuietStep ==
  ASSUME calm' \in {"yes", "mending", "no"}, calm' # "no" => NobodySaves',
         calm' = "yes" =>
           /\ memory'.id # 0 => LastRowIs(memory.id)'
           /\ \A h \in Handlers : Measuring(h)' => LastRowIs(found[h].id)'
  PROVE  Steady'
BY DEF Steady, SavesAlone, Follows, NobodySaves

LEMMA InsertRowIsSteady ==
  ASSUME RInv, NEW j \in Jobs, InsertRow(j)
  PROVE  rows' \in Seq(RowRecords) /\ Steady'
<1> DEFINE r == [id |-> decisions + 1, accuracy |-> None]
<1>1. rows \in Seq(RowRecords) /\ decisions \in Nat /\ made \in [Jobs -> Nat]
      /\ work \in [Jobs -> WorkPlaces] /\ Steady
  BY DEF RInv, MInv, Memorised, IInv, Control
<1>2. r \in RowRecords /\ r.id = decisions + 1
  BY <1>1 DEF RowRecords, Numbers
<1> HIDE DEF r
<1>3. rows' \in Seq(RowRecords)
  BY <1>1, <1>2, AppendedRow DEF InsertRow, r
<1>4. CASE calm' = "no"
  BY <1>3, <1>4 DEF Steady
<1>5. CASE calm' # "no"
  <2>1. rows' = Append(rows, r) /\ NobodySaves /\ NobodyMeasures
        /\ calm' \in {"yes", "mending", "no"}
    BY <1>5 DEF InsertRow, r
  <2>2. /\ work'[j] = "save" /\ made'[j] = decisions + 1
        /\ \A i \in Jobs : i # j => work'[i] = work[i]
    BY <1>1 DEF InsertRow, WorkerGoesTo
  <2>3. Saving(j)' /\ \A i \in Jobs : Saving(i)' => i = j
    BY <2>1, <2>2 DEF Saving, NobodySaves
  <2>4. NobodyMeasures'
    BY <2>1 DEF InsertRow, handlers, Measuring, NobodyMeasures
  <2>5. rows' # <<>> /\ rows'[Len(rows')].id = r.id
    BY <1>1, <1>2, <2>1, AppendedRow DEF LastRowIs
  <2>6. LastRowIs(made[j])'
    BY <1>2, <2>2, <2>5 DEF LastRowIs
  <2>7. SavesAlone'
    BY <2>3, <2>4, <2>6 DEF SavesAlone
  <2>8. Follows'
    BY <2>3, <2>4 DEF Follows, NobodySaves, NobodyMeasures
  <2> QED
    BY <1>3, <2>1, <2>7, <2>8 DEF Steady
<1> QED
  BY <1>4, <1>5

LEMMA SaveMemoryIsSteady ==
  ASSUME RInv, NEW j \in Jobs, SaveMemory(j)
  PROVE  Steady'
<1>1. /\ Steady /\ work \in [Jobs -> WorkPlaces]
  BY DEF RInv, MInv, IInv, Control
<1>2. CASE calm' = "no"
  BY <1>2 DEF Steady
<1>3. CASE calm' # "no"
  <2>1. calm' = "yes" /\ calm # "no" /\ NobodyMeasures
    BY <1>3 DEF SaveMemory
  <2>2. /\ Saving(j) /\ work'[j] = "end" /\ \A i \in Jobs : i # j => work'[i] = work[i]
        /\ rows' = rows /\ memory'.id = made[j] /\ UNCHANGED <<at, found>>
    BY <1>1 DEF SaveMemory, WorkerGoesTo, Saving, handlers
  <2>3. LastRowIs(made[j]) /\ \A i \in Jobs : Saving(i) => i = j
    BY <1>1, <2>1, <2>2 DEF Steady, SavesAlone
  <2>4. NobodySaves'
    BY <2>2, <2>3 DEF Saving, NobodySaves
  <2>5. LastRowIs(memory.id)'
    BY <2>2, <2>3 DEF LastRowIs
  <2>6. \A h \in Handlers : ~Measuring(h)'
    BY <2>1, <2>2 DEF Measuring, NobodyMeasures
  <2> QED
    BY <2>1, <2>4, <2>5, <2>6, QuietStep
<1> QED
  BY <1>2, <1>3

(* Steps that leave the newest row and the workers that save alone, and    *)
(* make no handler measure.                                                *)
LEMMA OthersAreSteady ==
  ASSUME Steady, calm' = calm, made' = made, memory'.id \in {memory.id, 0},
         \A n : LastRowIs(n)' <=> LastRowIs(n),
         \A j \in Jobs : Saving(j)' <=> Saving(j),
         \A h \in Handlers : Measuring(h)' => Measuring(h) /\ found'[h].id = found[h].id
  PROVE  Steady'
<1>1. /\ NobodySaves' <=> NobodySaves
      /\ NobodyMeasures => NobodyMeasures'
  BY DEF NobodySaves, NobodyMeasures
<1>2. LastRowIs(memory.id)' <=> LastRowIs(memory'.id)
  BY DEF LastRowIs
<1>3. \A h \in Handlers : LastRowIs(found[h].id)' <=> LastRowIs(found'[h].id)
  BY DEF LastRowIs
<1>4. \A j \in Jobs : LastRowIs(made[j])' <=> LastRowIs(made'[j])
  BY DEF LastRowIs
<1>5. ASSUME calm' # "no" PROVE SavesAlone'
  BY <1>1, <1>4, <1>5 DEF Steady, SavesAlone
<1>6. ASSUME calm' = "yes" PROVE Follows'
  <2>1. Follows
    BY <1>6 DEF Steady
  <2>2. memory'.id # 0 /\ NobodySaves' => LastRowIs(memory'.id)
    BY <1>1, <2>1 DEF Follows
  <2>3. \A h \in Handlers : Measuring(h)' => LastRowIs(found'[h].id)
    BY <2>1 DEF Follows
  <2> QED
    BY <1>2, <1>3, <2>2, <2>3 DEF Follows
<1> QED
  BY <1>5, <1>6 DEF Steady

LEMMA WorkersAreSteady ==
  ASSUME RInv, NEW j \in Jobs,
         ReadRecord(j) \/ WriteRecord(j) \/ LeaveToReview(j) \/ Fail(j) \/ Rerun(j)
  PROVE  rows' = rows /\ Steady'
<1>1. UNCHANGED <<rows, made, memory, at, found>>
  BY DEF ReadRecord, WriteRecord, LeaveToReview, Fail, Rerun, learnt, handlers
<1>2. Steady /\ work \in [Jobs -> WorkPlaces]
  BY DEF RInv, MInv, IInv, Control
<1>3. \A n : LastRowIs(n)' <=> LastRowIs(n)
  BY <1>1 DEF LastRowIs
<1>4. \A h \in Handlers : Measuring(h)' => Measuring(h) /\ found'[h].id = found[h].id
  BY <1>1 DEF Measuring
<1>5. CASE Fail(j) /\ Saving(j)
  BY <1>1, <1>5 DEF Fail, Steady
<1>6. CASE ~(Fail(j) /\ Saving(j))
  <2>1. /\ work[j] # "save" /\ work'[j] # "save" /\ calm' = calm
        /\ \A i \in Jobs : i # j => work'[i] = work[i]
    BY <1>2, <1>6 DEF ReadRecord, WriteRecord, LeaveToReview, Fail, Rerun, WorkerGoesTo,
                      learnt, Saving
  <2>2. \A i \in Jobs : Saving(i)' <=> Saving(i)
    BY <2>1 DEF Saving
  <2> QED
    BY <1>1, <1>2, <1>3, <1>4, <2>1, <2>2, OthersAreSteady
<1> QED
  BY <1>5, <1>6

(* Handlers that stop measuring, or do not start.                          *)
LEMMA HandlersAreSteady ==
  ASSUME RInv, NEW h \in Handlers,
         \/ \E j \in Jobs, a \in Demands : GetJob(h, j, a)
         \/ Reset(h) \/ LogReset(h) \/ WriteJob(h) \/ ManualReset(h)
         \/ HearAccuracy(h) \/ HearFactor(h) \/ Lose(h)
  PROVE  rows' = rows /\ Steady'
<1>1. /\ UNCHANGED <<rows, calm, made, work>>
      /\ memory' = memory \/ memory' = NoMemory
  BY DEF GetJob, Take, Reset, LogReset, WriteJob, ManualReset, HearAccuracy,
         HearFactor, Lose, jobs, learnt
<1>2. memory'.id \in {memory.id, 0}
  BY <1>1 DEF NoMemory
<1>3. /\ at \in [Handlers -> HandlerPlaces] /\ found \in [Handlers -> Memories] /\ Steady
  BY DEF RInv, MInv, Memorised, IInv, Control
<1>4. \E to \in {"measure", "log", "job", "idle", "manual log", "summary"} :
        at' = [at EXCEPT ![h] = to]
  BY DEF GetJob, Take, Reset, LogReset, WriteJob, ManualReset, HearAccuracy,
         HearFactor, Lose, HandlerGoesTo, Ends
<1>5. ~Measuring(h)' /\ \A g \in Handlers : g # h => (Measuring(g)' <=> Measuring(g))
  BY <1>3, <1>4 DEF Measuring
<1>6. \/ found' = found
      \/ found' = [found EXCEPT ![h] = NoMemory]
      \/ found' = [found EXCEPT ![h] = memory]
  BY DEF GetJob, Take, Reset, LogReset, WriteJob, ManualReset, HearAccuracy,
         HearFactor, Lose, Ends
<1>7. \A g \in Handlers : g # h => found'[g] = found[g]
  BY <1>3, <1>6
<1>8. \A j \in Jobs : Saving(j)' <=> Saving(j)
  BY <1>1 DEF Saving
<1>9. \A g \in Handlers : Measuring(g)' => Measuring(g) /\ found'[g].id = found[g].id
  BY <1>5, <1>7
<1>10. \A n : LastRowIs(n)' <=> LastRowIs(n)
  BY <1>1 DEF LastRowIs
<1> QED
  BY <1>1, <1>2, <1>3, <1>8, <1>9, <1>10, OthersAreSteady

LEMMA MeasureIsSteady ==
  ASSUME RInv, NEW h \in Handlers, Measure(h)
  PROVE  Steady'
<1>1. /\ Steady /\ at \in [Handlers -> HandlerPlaces]
      /\ found \in [Handlers -> Memories] /\ memory \in Memories /\ Sound(memory)
  BY DEF RInv, MInv, Memorised, IInv, Control
<1>2. UNCHANGED <<rows, made, work, memory>>
  BY DEF Measure, jobs
<1>3. CASE ~NobodySaves
  BY <1>3 DEF Measure, Steady
<1>4. CASE NobodySaves
  <2>1. calm' = calm /\ NobodySaves'
    BY <1>2, <1>4 DEF Measure, NobodySaves, Saving
  <2>2. \A g \in Handlers : g # h => (Measuring(g)' <=> Measuring(g)) /\ found'[g] = found[g]
    BY <1>1 DEF Measure, HandlerGoesTo, Measuring
  <2>3. Measuring(h)' => memory.id # 0 /\ found'[h].id = memory.id
    <3>1. CASE HandlerGoesTo(h, "measure", "job")
      BY <1>1, <3>1 DEF HandlerGoesTo, Measuring
    <3>2. CASE memory.id # 0 /\ found' = [found EXCEPT ![h] = WithOutcome(memory, req[h].demand)]
      <4>1. req[h].demand \in Demands
        BY DEF Measure, RInv, MInv, IInv, HoldsCompletedRecord, Elsewhere, OutcomeRequests
      <4>2. WithOutcome(memory, req[h].demand).id = memory.id
        BY <1>1, <4>1, MeasuredIsSound
      <4> QED
        BY <1>1, <3>2, <4>2
    <3> QED
      BY <3>1, <3>2 DEF Measure
  <2>4. \A n : LastRowIs(n)' <=> LastRowIs(n)
    BY <1>2 DEF LastRowIs
  <2>5. ASSUME calm' = "yes", NEW g \in Handlers, Measuring(g)'
        PROVE  LastRowIs(found[g].id)'
    <3>1. Follows
      BY <1>1, <2>1, <2>5 DEF Steady
    <3>2. LastRowIs(found'[g].id)
      BY <1>4, <2>2, <2>3, <2>5, <3>1 DEF Follows
    <3> QED
      BY <1>2, <3>2 DEF LastRowIs
  <2>6. calm' = "yes" /\ memory'.id # 0 => LastRowIs(memory.id)'
    BY <1>1, <1>2, <1>4, <2>1 DEF Steady, Follows, LastRowIs
  <2>7. calm' \in {"yes", "mending", "no"}
    BY <1>1, <2>1 DEF Steady
  <2> QED
    BY <2>1, <2>5, <2>6, <2>7, QuietStep
<1> QED
  BY <1>3, <1>4

(* The memory that is set is the one that was read.                        *)
LEMMA SetMemoryIsSteady ==
  ASSUME RInv, NEW h \in Handlers, SetMemory(h)
  PROVE  rows' = rows /\ Steady'
<1>1. /\ UNCHANGED <<rows, calm, made, work, found>> /\ memory' = found[h]
      /\ at[h] = "set" /\ at' = [at EXCEPT ![h] = "row"]
  BY DEF SetMemory, HandlerGoesTo, jobs
<1>2. Steady /\ at \in [Handlers -> HandlerPlaces]
  BY DEF RInv, MInv, IInv, Control
<1>3. Measuring(h) /\ \A g \in Handlers : Measuring(g)' <=> Measuring(g)
  BY <1>1, <1>2 DEF Measuring
<1>4. calm # "no" => NobodySaves
  BY <1>2, <1>3 DEF Steady, SavesAlone, NobodySaves, NobodyMeasures
<1>5. calm' # "no" => NobodySaves'
  BY <1>1, <1>4 DEF NobodySaves, Saving
<1>6. ASSUME calm' = "yes" PROVE \A g \in Handlers : Measuring(g)' => LastRowIs(found[g].id)'
  <2>1. Follows
    BY <1>1, <1>2, <1>6 DEF Steady
  <2>2. \A g \in Handlers : Measuring(g)' => LastRowIs(found[g].id)
    BY <1>3, <2>1 DEF Follows
  <2> QED
    BY <1>1, <2>2 DEF LastRowIs
<1>7. calm' = "yes" => LastRowIs(memory.id)'
  BY <1>1, <1>3, <1>6 DEF LastRowIs
<1> QED
  BY <1>1, <1>2, <1>5, <1>6, <1>7, QuietStep DEF Steady

(* The newest row is charged; it stays the row of its decision.            *)
LEMMA UpdateRowIsSteady ==
  ASSUME RInv, NEW h \in Handlers, UpdateRow(h)
  PROVE  /\ rows' \in Seq(RowRecords) /\ Len(rows') = Len(rows) /\ Steady'
         /\ Measuring(h) /\ at[h] = "row"
         /\ \A i \in DOMAIN rows : rows'[i] # rows[i] => i = Len(rows)
<1>1. /\ UNCHANGED <<calm, made, work, memory>> /\ at[h] = "row"
      /\ at' = [at EXCEPT ![h] = "job"] /\ found' = [found EXCEPT ![h] = NoMemory]
  BY DEF UpdateRow, HandlerGoesTo, jobs
<1>2. /\ at \in [Handlers -> HandlerPlaces] /\ found \in [Handlers -> Memories]
      /\ rows \in Seq(RowRecords) /\ Steady
  BY DEF RInv, MInv, Memorised, IInv, Control
<1>3. /\ Measuring(h) /\ ~Measuring(h)'
      /\ \A g \in Handlers : g # h => (Measuring(g)' <=> Measuring(g)) /\ found'[g] = found[g]
  BY <1>1, <1>2 DEF Measuring
<1>4. \A j \in Jobs : Saving(j)' <=> Saving(j)
  BY <1>1 DEF Saving
<1>5. \A g \in Handlers : Measuring(g)' => Measuring(g) /\ found'[g].id = found[g].id
  BY <1>3
<1>6. /\ rows' \in Seq(RowRecords) /\ Len(rows') = Len(rows)
      /\ \A n : LastRowIs(n)' <=> LastRowIs(n)
      /\ \A i \in DOMAIN rows : rows'[i] # rows[i] => i = Len(rows)
  <2>1. CASE rows' = rows
    BY <1>2, <2>1 DEF LastRowIs
  <2>2. CASE /\ rows # <<>>
             /\ rows' = [rows EXCEPT ![Len(rows)].accuracy = found[h].accuracy]
    <3> DEFINE n == Len(rows)
               r == [rows[n] EXCEPT !.accuracy = found[h].accuracy]
    <3>1. n \in 1..Len(rows) /\ DOMAIN rows = 1..Len(rows) /\ rows[n] \in RowRecords
      BY <1>2, <2>2
    <3>2. r \in RowRecords /\ r.id = rows[n].id
      BY <1>2, <3>1 DEF RowRecords, Memories
    <3>3. /\ rows' \in Seq(RowRecords) /\ Len(rows') = n /\ rows' # <<>>
          /\ rows'[n] = r
          /\ \A i \in DOMAIN rows : i # n => rows'[i] = rows[i]
      BY <1>2, <2>2, <3>1, <3>2
    <3>4. \A m : LastRowIs(m)' <=> LastRowIs(m)
      BY <2>2, <3>2, <3>3 DEF LastRowIs
    <3> QED
      BY <3>3, <3>4
  <2> QED
    BY <2>1, <2>2 DEF UpdateRow
<1>7. Steady'
  BY <1>1, <1>2, <1>4, <1>5, <1>6, OthersAreSteady
<1> QED
  BY <1>1, <1>3, <1>6, <1>7

LEMMA StepRInv == RInv /\ [Next]_vars => RInv'
<1> SUFFICES ASSUME RInv, [Next]_vars
             PROVE  rows' \in Seq(RowRecords) /\ Steady'
  BY StepMInv DEF RInv
<1>r. rows \in Seq(RowRecords) /\ Steady
  BY DEF RInv
<1>1. CASE UNCHANGED vars
  <2>1. UNCHANGED <<rows, calm, made, memory, work, at, found>>
    BY <1>1 DEF vars, learnt, jobs, handlers
  <2>2. /\ \A j \in Jobs : Saving(j)' <=> Saving(j)
        /\ \A h \in Handlers : Measuring(h)' => Measuring(h) /\ found'[h].id = found[h].id
        /\ \A n : LastRowIs(n)' <=> LastRowIs(n)
    BY <2>1 DEF Saving, Measuring, LastRowIs
  <2> QED
    BY <1>r, <2>1, <2>2, OthersAreSteady
<1>2. ASSUME NEW j \in Jobs, Worker(j) \/ Fail(j) \/ Rerun(j)
      PROVE  rows' \in Seq(RowRecords) /\ Steady'
  <2>1. CASE InsertRow(j)
    BY <2>1, InsertRowIsSteady
  <2>2. CASE SaveMemory(j)
    <3>1. rows' = rows
      BY <2>2 DEF SaveMemory
    <3> QED
      BY <1>r, <2>2, <3>1, SaveMemoryIsSteady
  <2>3. CASE ReadRecord(j) \/ WriteRecord(j) \/ LeaveToReview(j) \/ Fail(j) \/ Rerun(j)
    BY <1>r, <2>3, WorkersAreSteady
  <2> QED
    BY <1>2, <2>1, <2>2, <2>3 DEF Worker
<1>3. ASSUME NEW h \in Handlers,
             \/ \E j \in Jobs, a \in Demands : GetJob(h, j, a)
             \/ Reset(h) \/ LogReset(h) \/ WriteJob(h) \/ ManualReset(h)
             \/ HearAccuracy(h) \/ HearFactor(h) \/ Lose(h)
      PROVE  rows' \in Seq(RowRecords) /\ Steady'
  BY <1>r, <1>3, HandlersAreSteady
<1>4. ASSUME NEW h \in Handlers, Measure(h) \/ SetMemory(h) \/ UpdateRow(h)
      PROVE  rows' \in Seq(RowRecords) /\ Steady'
  <2>1. CASE Measure(h)
    <3>1. rows' = rows
      BY <2>1 DEF Measure
    <3> QED
      BY <1>r, <2>1, <3>1, MeasureIsSteady
  <2>2. CASE SetMemory(h)
    BY <1>r, <2>2, SetMemoryIsSteady
  <2>3. CASE UpdateRow(h)
    BY <2>3, UpdateRowIsSteady
  <2> QED
    BY <1>4, <2>1, <2>2, <2>3
<1> QED
  BY <1>1, <1>2, <1>3, <1>4 DEF Next, Handle

(* While the learnt data are updated one at a time, and again after the    *)
(* first analysis that nobody disturbs, the newest row is that of the      *)
(* memory.                                                                 *)
THEOREM NewestRowIsLastDecision == Spec => []RowsFollowMemory
<1>1. RInv => RowsFollowMemory
  BY DEF RInv, Steady, Follows, LastRowIs, RowsFollowMemory
<1> QED
  BY <1>1, InitRInv, StepRInv, PTL DEF Spec

LEMMA OnlyUpdateRowChangesRows ==
  ASSUME RInv, [Next]_vars, Len(rows') = Len(rows), rows' # rows
  PROVE  \E h \in Handlers : UpdateRow(h)
<1>1. ASSUME NEW j \in Jobs, Worker(j) \/ Fail(j) \/ Rerun(j) PROVE FALSE
  <2>1. CASE InsertRow(j)
    <3> DEFINE r == [id |-> decisions + 1, accuracy |-> None]
    <3>1. rows' = Append(rows, r)
      BY <2>1 DEF InsertRow
    <3>2. rows \in Seq(RowRecords) /\ r \in RowRecords
      BY DEF RInv, MInv, Memorised, RowRecords, Numbers
    <3>3. Len(rows') = Len(rows) + 1 /\ Len(rows) \in Nat
      BY <3>1, <3>2, AppendedRow
    <3> QED
      BY <3>3
  <2>2. CASE SaveMemory(j)
    BY <2>2 DEF SaveMemory
  <2>3. CASE ReadRecord(j) \/ WriteRecord(j) \/ LeaveToReview(j) \/ Fail(j) \/ Rerun(j)
    BY <2>3, WorkersAreSteady
  <2> QED
    BY <1>1, <2>1, <2>2, <2>3 DEF Worker
<1>2. ASSUME NEW h \in Handlers,
             \/ \E j \in Jobs, a \in Demands : GetJob(h, j, a)
             \/ Reset(h) \/ LogReset(h) \/ WriteJob(h) \/ ManualReset(h)
             \/ HearAccuracy(h) \/ HearFactor(h) \/ Lose(h)
      PROVE  FALSE
  BY <1>2, HandlersAreSteady
<1>3. ASSUME NEW h \in Handlers, Measure(h) \/ SetMemory(h) PROVE FALSE
  BY <1>3 DEF Measure, SetMemory
<1>4. ~UNCHANGED vars
  BY DEF vars, learnt
<1> QED
  BY <1>1, <1>2, <1>3, <1>4 DEF Next, Handle

(* While memory and rows are in step, the UPDATE of record_outcome hits    *)
(* the row of the decision that was measured.                              *)
THEOREM AccuraciesGoToTheirRows == Spec => AccuracyGoesToItsRow
<1>1. ASSUME RInv, [Next]_vars, calm = "yes", Len(rows') = Len(rows),
             NEW i \in DOMAIN rows, rows'[i] # rows[i]
      PROVE  \E h \in Handlers : at[h] = "row" /\ found[h].id = rows[i].id
  <2>1. PICK h \in Handlers : UpdateRow(h)
    BY <1>1, OnlyUpdateRowChangesRows
  <2>2. Measuring(h) /\ at[h] = "row" /\ i = Len(rows)
    BY <1>1, <2>1, UpdateRowIsSteady
  <2>3. LastRowIs(found[h].id)
    BY <1>1, <2>2 DEF RInv, Steady, Follows
  <2> QED
    BY <2>2, <2>3 DEF LastRowIs
<1>2. RInv /\ [Next]_vars =>
        [(calm = "yes" /\ Len(rows') = Len(rows)) =>
           \A i \in DOMAIN rows :
             rows'[i] # rows[i] =>
               \E h \in Handlers : at[h] = "row" /\ found[h].id = rows[i].id]_vars
  BY <1>1
<1> QED
  BY <1>2, InitRInv, StepRInv, PTL DEF Spec, AccuracyGoesToItsRow
=============================================================================
