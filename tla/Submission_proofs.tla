------------------------- MODULE Submission_proofs -------------------------
(***************************************************************************)
(* For any number of requests, keys and losses: every job POST /analyze    *)
(* tells has its message in the broker, a job listed without one is about  *)
(* to be sent or was lost, and the requests let through per window and the *)
(* jobs per key are bounded.                                               *)
(***************************************************************************)
EXTENDS Submission, FiniteSetTheorems, SequenceTheorems, TLAPS

Control ==
  /\ at \in [Handlers -> Places]
  /\ key \in [Handlers -> Keys \cup {NoKey}]
  /\ published \in [Keys \cup {NoKey} -> SUBSET Nat]
  /\ stored \in [Keys -> Nat]
  /\ job \in [Handlers -> Nat]
  /\ created \in Nat

(* Between its publication and the answer a handler holds a queued job.    *)
HoldsQueuedJob == \A h \in Handlers : at[h] \in {"store", "answer"} => job[h] \in Queued

StoredAreQueued == \A k \in Keys : stored[k] \in {NoJob} \cup Queued

AnsweredAreQueued == answered \subseteq {NoJob} \cup Queued

IInv == Control /\ HoldsQueuedJob /\ StoredAreQueued /\ AnsweredAreQueued

LEMMA InitIsSound == Init => IInv
BY DEF Init, IInv, Control, HoldsQueuedJob, StoredAreQueued, AnsweredAreQueued, Places, NoJob

(* A step that publishes nothing, stores nothing and holds no new job.     *)
LEMMA OthersKeepInvariant ==
  ASSUME IInv, NEW h \in Handlers, UNCHANGED <<stored, published>>,
         at' \in [Handlers -> Places], key' \in [Handlers -> Keys \cup {NoKey}],
         job' \in [Handlers -> Nat], created' \in Nat,
         \A g \in Handlers \ {h} : at'[g] = at[g] /\ job'[g] = job[g],
         at'[h] \notin {"store", "answer"},
         answered' \subseteq answered \cup {NoJob} \cup Queued
  PROVE  IInv'
<1>1. Queued' = Queued
  BY DEF Queued
<1> QED
  BY <1>1 DEF IInv, Control, HoldsQueuedJob, StoredAreQueued, AnsweredAreQueued

(* Where a request ends.                                                   *)
LEMMA EndOfRequest ==
  ASSUME IInv, NEW h \in Handlers, NEW from, Ends(h, from)
  PROVE  /\ at' \in [Handlers -> Places] /\ key' \in [Handlers -> Keys \cup {NoKey}]
         /\ job' \in [Handlers -> Nat]
         /\ \A g \in Handlers \ {h} : at'[g] = at[g] /\ job'[g] = job[g]
         /\ at'[h] = "idle"
BY DEF IInv, Control, Ends, Moves, Places, NoJob

LEMMA BeforePublication ==
  ASSUME IInv, NEW h \in Handlers, NEW k \in Keys \cup {NoKey},
         \/ Send(h, k) \/ PassKey(h) \/ Count(h) \/ Expire(h)
         \/ CheckQueue(h) \/ CreateJob(h)
  PROVE  IInv'
<1> USE DEF IInv, Control, Moves, Places, history
<1>1. CASE Send(h, k)
  <2>1. UNCHANGED <<stored, published, job, created, answered>>
    BY <1>1 DEF Send
  <2>2. at' \in [Handlers -> Places] /\ key' \in [Handlers -> Keys \cup {NoKey}]
    BY <1>1 DEF Send
  <2>3. at'[h] = "key" /\ \A g \in Handlers \ {h} : at'[g] = at[g]
    BY <1>1 DEF Send
  <2> QED
    BY <2>1, <2>2, <2>3, OthersKeepInvariant
<1>2. CASE PassKey(h)
  <2>1. UNCHANGED <<stored, published, key, job, created, answered>>
    BY <1>2 DEF PassKey, Pass
  <2>2. at' \in [Handlers -> Places]
    BY <1>2 DEF PassKey, Pass
  <2>3. at'[h] = "count" /\ \A g \in Handlers \ {h} : at'[g] = at[g]
    BY <1>2 DEF PassKey, Pass
  <2> QED
    BY <2>1, <2>2, <2>3, OthersKeepInvariant
<1>3. CASE Count(h)
  <2>1. UNCHANGED <<stored, published, key, job, created, answered>>
    BY <1>3 DEF Count, Counted
  <2>2. PICK to \in {"expire", "refuse"} : at' = [at EXCEPT ![h] = to]
    BY <1>3 DEF Count, Counted
  <2>3. /\ at' \in [Handlers -> Places]
        /\ at'[h] = to /\ \A g \in Handlers \ {h} : at'[g] = at[g]
    BY <2>2
  <2> QED
    BY <2>1, <2>2, <2>3, OthersKeepInvariant
<1>6. CASE Expire(h)
  <2>1. UNCHANGED <<stored, published, created, answered>>
    BY <1>6 DEF Expire
  <2>2. CASE Moves(h, "expire", "queue") /\ UNCHANGED <<key, job>>
    <3>1. /\ at' \in [Handlers -> Places]
          /\ at'[h] = "queue" /\ \A g \in Handlers \ {h} : at'[g] = at[g]
      BY <2>2
    <3> QED
      BY <2>1, <2>2, <3>1, OthersKeepInvariant
  <2>3. CASE Ends(h, "refuse")
    BY <2>1, <2>3, EndOfRequest, OthersKeepInvariant
  <2> QED
    BY <1>6, <2>2, <2>3 DEF Expire
<1>4. CASE CheckQueue(h)
  <2>1. UNCHANGED <<stored, published, created, answered>>
    BY <1>4 DEF CheckQueue
  <2>2. CASE Moves(h, "queue", "create") /\ UNCHANGED <<key, job>>
    <3>1. /\ at' \in [Handlers -> Places]
          /\ at'[h] = "create" /\ \A g \in Handlers \ {h} : at'[g] = at[g]
      BY <2>2
    <3> QED
      BY <2>1, <2>2, <3>1, OthersKeepInvariant
  <2>3. CASE Ends(h, "queue")
    BY <2>1, <2>3, EndOfRequest, OthersKeepInvariant
  <2> QED
    BY <1>4, <2>2, <2>3 DEF CheckQueue
<1>5. CASE CreateJob(h)
  <2>1. UNCHANGED <<stored, published, key, answered>>
    BY <1>5 DEF CreateJob
  <2>2. created' \in Nat /\ job' \in [Handlers -> Nat] /\ at' \in [Handlers -> Places]
    BY <1>5 DEF CreateJob
  <2>3. /\ at'[h] = "publish"
        /\ \A g \in Handlers \ {h} : at'[g] = at[g] /\ job'[g] = job[g]
    BY <1>5 DEF CreateJob
  <2> QED
    BY <2>1, <2>2, <2>3, OthersKeepInvariant
<1> QED
  BY <1>1, <1>2, <1>3, <1>4, <1>5, <1>6

(* Publication adds the job to those queued under its key.                 *)
LEMMA PublishKeepsInvariant ==
  ASSUME IInv, NEW h \in Handlers, Publish(h)
  PROVE  IInv'
<1> USE DEF IInv, Control
<1>1. UNCHANGED <<stored, key, job, created, answered>>
  BY DEF Publish, history
<1>2. /\ at' \in [Handlers -> Places] /\ at'[h] = "store"
      /\ \A g \in Handlers \ {h} : at'[g] = at[g]
  BY DEF Publish, Moves, Places
<1>3. key[h] \in Keys \cup {NoKey} /\ job[h] \in Nat
  OBVIOUS
<1>4. /\ published' \in [Keys \cup {NoKey} -> SUBSET Nat]
      /\ published'[key[h]] = published[key[h]] \cup {job[h]}
      /\ \A k \in Keys \cup {NoKey} : published[k] \subseteq published'[k]
  BY <1>3 DEF Publish
<1>5. Queued \subseteq Queued' /\ job[h] \in Queued'
  BY <1>3, <1>4 DEF Queued
<1> QED
  BY <1>1, <1>2, <1>4, <1>5 DEF HoldsQueuedJob, StoredAreQueued, AnsweredAreQueued

(* What is stored under the key is the published job.                      *)
LEMMA StoreKeepsInvariant ==
  ASSUME IInv, NEW h \in Handlers, Store(h)
  PROVE  IInv'
<1> USE DEF IInv, Control
<1>1. UNCHANGED <<published, key, job, created, answered>>
  BY DEF Store, history
<1>2. /\ at' \in [Handlers -> Places] /\ at[h] = "store"
      /\ \A g \in Handlers \ {h} : at'[g] = at[g]
  BY DEF Store, Moves, Places
<1>3. Queued' = Queued
  BY <1>1 DEF Queued
<1>4. job[h] \in Queued /\ job[h] \in Nat
  BY <1>2 DEF HoldsQueuedJob
<1>5. stored' = [k \in Keys |-> IF k = key[h] THEN job[h] ELSE stored[k]]
  BY DEF Store
<1>6. stored' \in [Keys -> Nat] /\ \A k \in Keys : stored'[k] \in {job[h], stored[k]}
  BY <1>4, <1>5
<1>7. StoredAreQueued'
  BY <1>3, <1>4, <1>6 DEF StoredAreQueued
<1> QED
  BY <1>1, <1>2, <1>3, <1>4, <1>6, <1>7 DEF HoldsQueuedJob, AnsweredAreQueued

LEMMA EndsKeepInvariant ==
  ASSUME IInv, NEW h \in Handlers, Replay(h) \/ Answer(h) \/ Lose(h)
  PROVE  IInv'
<1>1. UNCHANGED <<stored, published, created>>
  BY DEF Replay, Answer, Lose
<1>2. \E from : Ends(h, from)
  BY DEF Replay, Answer, Lose
<1>3. answered' \subseteq answered \cup {NoJob} \cup Queued
  <2>1. CASE Replay(h)
    BY <2>1 DEF Replay, IInv, StoredAreQueued
  <2>2. CASE Answer(h)
    BY <2>2 DEF Answer, Ends, Moves, IInv, HoldsQueuedJob
  <2>3. CASE Lose(h)
    BY <2>3 DEF Lose
  <2> QED
    BY <2>1, <2>2, <2>3
<1>4. created' \in Nat
  BY <1>1 DEF IInv, Control
<1> QED
  BY <1>1, <1>2, <1>3, <1>4, EndOfRequest, OthersKeepInvariant

LEMMA StepKeepsInvariant == IInv /\ [Next]_vars => IInv'
<1> SUFFICES ASSUME IInv, [Next]_vars PROVE IInv'
  OBVIOUS
<1>1. CASE Tick \/ UNCHANGED vars
  BY <1>1 DEF Tick, vars, handler, history, IInv, Control, HoldsQueuedJob, StoredAreQueued,
              AnsweredAreQueued, Queued
<1>2. ASSUME NEW h \in Handlers, NEW k \in Keys \cup {NoKey}, Send(h, k) PROVE IInv'
  BY <1>2, BeforePublication
<1>3. ASSUME NEW h \in Handlers, PassKey(h) \/ Count(h) \/ Expire(h) \/ CheckQueue(h)
                                \/ CreateJob(h)
      PROVE IInv'
  BY <1>3, BeforePublication
<1>4. ASSUME NEW h \in Handlers, Publish(h) PROVE IInv'
  BY <1>4, PublishKeepsInvariant
<1>5. ASSUME NEW h \in Handlers, Store(h) PROVE IInv'
  BY <1>5, StoreKeepsInvariant
<1>6. ASSUME NEW h \in Handlers, Replay(h) \/ Answer(h) \/ Lose(h) PROVE IInv'
  BY <1>6, EndsKeepInvariant
<1> QED
  BY <1>1, <1>2, <1>3, <1>4, <1>5, <1>6 DEF Next

(* A listed job is queued, in its handler's hands, or lost.                *)
AboutToBeSent == {job[h] : h \in {g \in Handlers : at[g] = "publish"}}

Accounted == 1..created \subseteq Queued \cup AboutToBeSent \cup dropped

(* A step that creates no job: one that was to be sent is sent or lost.    *)
LEMMA OthersKeepAccounted ==
  ASSUME IInv, Accounted, NEW h \in Handlers, created' = created,
         Queued \subseteq Queued', dropped \subseteq dropped',
         at[h] = "publish" => job[h] \in Queued' \cup dropped',
         \A g \in Handlers \ {h} : at'[g] = at[g] /\ job'[g] = job[g]
  PROVE  Accounted'
<1>1. ASSUME NEW j \in AboutToBeSent
      PROVE  j \in Queued' \cup AboutToBeSent' \cup dropped'
  <2>1. PICK g \in Handlers : at[g] = "publish" /\ job[g] = j
    BY DEF AboutToBeSent
  <2>2. CASE g = h
    BY <2>1, <2>2
  <2>3. CASE g # h
    BY <2>1, <2>3 DEF AboutToBeSent
  <2> QED
    BY <2>2, <2>3
<1> QED
  BY <1>1 DEF Accounted

LEMMA StepKeepsAccounted == IInv /\ Accounted /\ [Next]_vars => Accounted'
<1> SUFFICES ASSUME IInv, Accounted, [Next]_vars PROVE Accounted'
  OBVIOUS
<1>c. /\ at \in [Handlers -> Places] /\ job \in [Handlers -> Nat] /\ created \in Nat
      /\ published \in [Keys \cup {NoKey} -> SUBSET Nat]
      /\ key \in [Handlers -> Keys \cup {NoKey}]
  BY DEF IInv, Control
<1>1. CASE Tick \/ UNCHANGED vars
  BY <1>1 DEF Tick, vars, handler, history, Accounted, AboutToBeSent, Queued
<1>2. ASSUME NEW h \in Handlers,
             \/ \E k \in Keys \cup {NoKey} : Send(h, k)
             \/ Replay(h) \/ PassKey(h) \/ Count(h) \/ Expire(h) \/ CheckQueue(h)
             \/ Store(h) \/ Answer(h) \/ Lose(h)
      PROVE  Accounted'
  <2>1. UNCHANGED <<published, created>>
    BY <1>2 DEF Send, Replay, PassKey, Pass, Count, Counted, Expire, CheckQueue, Store,
                Answer, Lose
  <2>2. Queued' = Queued
    BY <2>1 DEF Queued
  <2>3. dropped \subseteq dropped' /\ (at[h] = "publish" => job[h] \in dropped')
    BY <1>2 DEF Send, Replay, PassKey, Pass, Count, Counted, Expire, CheckQueue, Store,
                Answer, Lose, Ends, Moves, history
  <2>4. PICK to : at' = [at EXCEPT ![h] = to]
    BY <1>2 DEF Send, Replay, PassKey, Pass, Count, Counted, Expire, CheckQueue, Store,
                Answer, Lose, Ends, Moves
  <2>5. job' = job \/ job' = [job EXCEPT ![h] = NoJob]
    BY <1>2 DEF Send, Replay, PassKey, Pass, Count, Counted, Expire, CheckQueue, Store,
                Answer, Lose, Ends
  <2>6. \A g \in Handlers \ {h} : at'[g] = at[g] /\ job'[g] = job[g]
    BY <1>c, <2>4, <2>5
  <2> QED
    BY <2>1, <2>2, <2>3, <2>6, OthersKeepAccounted
<1>3. ASSUME NEW h \in Handlers, Publish(h) PROVE Accounted'
  <2>1. /\ at' = [at EXCEPT ![h] = "store"] /\ UNCHANGED <<job, created, dropped>>
        /\ published' = [published EXCEPT ![key[h]] = published[key[h]] \cup {job[h]}]
    BY <1>3 DEF Publish, Moves, history
  <2>2. Queued \subseteq Queued' /\ job[h] \in Queued'
    BY <1>c, <2>1 DEF Queued
  <2>3. \A g \in Handlers \ {h} : at'[g] = at[g] /\ job'[g] = job[g]
    BY <1>c, <2>1
  <2> QED
    BY <2>1, <2>2, <2>3, OthersKeepAccounted
<1>4. ASSUME NEW h \in Handlers, CreateJob(h) PROVE Accounted'
  <2>1. /\ at[h] = "create" /\ at' = [at EXCEPT ![h] = "publish"] /\ created' = created + 1
        /\ job' = [job EXCEPT ![h] = created + 1] /\ UNCHANGED <<published, dropped>>
    BY <1>4 DEF CreateJob, Moves, history
  <2>2. Queued' = Queued
    BY <2>1 DEF Queued
  <2>3. /\ at'[h] = "publish" /\ job'[h] = created + 1
        /\ \A g \in Handlers \ {h} : at'[g] = at[g] /\ job'[g] = job[g]
    BY <1>c, <2>1
  <2>4. AboutToBeSent \subseteq AboutToBeSent' /\ created + 1 \in AboutToBeSent'
    BY <2>1, <2>3 DEF AboutToBeSent
  <2>5. 1..created' \subseteq 1..created \cup {created + 1}
    BY <1>c, <2>1
  <2> QED
    BY <2>1, <2>2, <2>4, <2>5 DEF Accounted
<1> QED
  BY <1>1, <1>2, <1>3, <1>4 DEF Next

(* POST /analyze tells a client of a job, at once or in a replay, only     *)
(* after apply_async has returned, whatever is lost or sent again; a job   *)
(* that GET /jobs lists without a message is held by a request before      *)
(* apply_async or was lost there.                                          *)
THEOREM KnownJobsAreQueued == Spec => []KnownJobIsQueued
<1>1. IInv /\ Accounted => KnownJobIsQueued
  BY DEF IInv, StoredAreQueued, AnsweredAreQueued, KnownJobIsQueued, Accounted, AboutToBeSent
<1>2. Init => Accounted
  BY DEF Init, Accounted
<1> QED
  BY <1>1, <1>2, InitIsSound, StepKeepsInvariant, StepKeepsAccounted, PTL DEF Spec

------------------------------------------------------------------------------
(* The rate limit.  Until its window and the next are over a counter       *)
(* cannot expire, so it is never less than the requests it let through.    *)
Start(w) == w * SlotsPerWindow
Until(w) == Start(w) + 2 * SlotsPerWindow

OfWindow(w) ==
  {i \in DOMAIN admitted : admitted[i].window = w /\ admitted[i].time < Until(w)}

Clock ==
  /\ slot \in Slots
  /\ counter \in [Slots -> Nat]
  /\ deadline \in [Slots -> Nat]
  /\ at \in [Handlers -> Places]
  /\ window \in [Handlers -> Slots]
  /\ admitted \in Seq(Admissions)

CountedInWindow ==
  \A w \in Slots : /\ slot < Until(w) => Cardinality(OfWindow(w)) <= counter[w]
                   /\ Cardinality(OfWindow(w)) <= Limit

(* EXPIRE comes after the start of the counter's window.                   *)
DeadlinesAreLate ==
  /\ \A h \in Handlers : Start(window[h]) <= slot
  /\ \A w \in Slots : deadline[w] = 0 \/ Until(w) <= deadline[w]

(* A handler takes the time of a request after it has counted the last.    *)
TimesAreInOrder ==
  /\ \A i \in DOMAIN admitted :
       Start(admitted[i].window) <= admitted[i].time /\ admitted[i].time <= slot
  /\ \A i \in DOMAIN admitted :
       at[admitted[i].by] = "count" => Window(admitted[i].time) <= window[admitted[i].by]
  /\ \A i, j \in DOMAIN admitted :
       i < j /\ admitted[i].by = admitted[j].by
         => Window(admitted[i].time) <= admitted[j].window

WInv == Clock /\ CountedInWindow /\ DeadlinesAreLate /\ TimesAreInOrder

LEMMA WindowIsSlot ==
  ASSUME NEW s \in Slots
  PROVE  /\ Window(s) \in Slots
         /\ Start(Window(s)) <= s /\ s < Start(Window(s)) + SlotsPerWindow
BY ConstantsAssumption DEF Slots, Window, Start

LEMMA WindowsAreOrdered ==
  ASSUME NEW s \in Slots, NEW t \in Slots, s <= t
  PROVE  Window(s) <= Window(t)
BY ConstantsAssumption DEF Slots, Window

LEMMA StartsAreNumbers ==
  ASSUME NEW w \in Nat
  PROVE  /\ Start(w) \in Nat /\ Until(w) \in Nat \ {0}
         /\ Start(w + 1) = Start(w) + SlotsPerWindow
BY ConstantsAssumption DEF Start, Until

LEMMA SlotsAreNumbers == ASSUME NEW s \in Slots PROVE s \in Nat
BY ConstantsAssumption DEF Slots

LEMMA StartsAreOrdered ==
  ASSUME NEW v \in Nat, NEW w \in Nat, Start(v) < Start(w)
  PROVE  v < w
<1>1. ASSUME w <= v PROVE Start(w) <= Start(v)
  <2>1. PICK d \in Nat : v = w + d
    BY <1>1
  <2>2. Start(v) = Start(w) + d * SlotsPerWindow /\ d * SlotsPerWindow \in Nat
    BY <2>1, ConstantsAssumption DEF Start
  <2> QED
    BY <2>2, StartsAreNumbers
<1> QED
  BY <1>1, StartsAreNumbers

LEMMA WindowIsFinite ==
  ASSUME Clock, NEW w
  PROVE  IsFiniteSet(OfWindow(w)) /\ Cardinality(OfWindow(w)) \in Nat
<1>1. DOMAIN admitted = 1..Len(admitted) /\ Len(admitted) \in Nat
  BY DEF Clock
<1>2. IsFiniteSet(DOMAIN admitted)
  BY <1>1, FS_Interval
<1>3. OfWindow(w) \subseteq DOMAIN admitted
  BY DEF OfWindow
<1> QED
  BY <1>2, <1>3, FS_Subset, FS_CardinalityType

LEMMA AdmissionsAreRecords ==
  ASSUME Clock, NEW i \in DOMAIN admitted
  PROVE  /\ i \in Nat
         /\ admitted[i].by \in Handlers /\ admitted[i].window \in Slots
         /\ admitted[i].time \in Slots
<1>1. i \in 1..Len(admitted) /\ Len(admitted) \in Nat /\ admitted[i] \in Admissions
  BY DEF Clock
<1> QED
  BY <1>1 DEF Admissions

LEMMA InitWInv == Init => WInv
<1> SUFFICES ASSUME Init PROVE WInv
  OBVIOUS
<1>1. Clock
  BY ConstantsAssumption DEF Init, Clock, Slots, Places
<1>2. DOMAIN admitted = {} /\ \A w : OfWindow(w) = {}
  BY DEF Init, OfWindow
<1>3. \A w \in Slots : counter[w] = 0 /\ deadline[w] = 0
  BY DEF Init
<1>4. CountedInWindow
  <2>1. ASSUME NEW w \in Slots
        PROVE  Cardinality(OfWindow(w)) = 0
    BY <1>2, FS_EmptySet
  <2> QED
    BY <1>3, <2>1, ConstantsAssumption DEF CountedInWindow
<1>5. DeadlinesAreLate
  BY <1>3, ConstantsAssumption DEF Init, DeadlinesAreLate, Start
<1> QED
  BY <1>1, <1>2, <1>4, <1>5 DEF WInv, TimesAreInOrder

(* Steps that let nobody through: counters only grow, or are those of      *)
(* windows long over.                                                      *)
LEMMA OthersKeepCounts ==
  ASSUME WInv, Clock', admitted' = admitted, slot <= slot',
         \A w \in Slots : slot' < Until(w) => counter[w] <= counter'[w]
  PROVE  CountedInWindow'
<1> USE DEF WInv, Clock
<1>1. \A w : OfWindow(w)' = OfWindow(w)
  BY DEF OfWindow, Until, Start
<1>2. ASSUME NEW w \in Slots
      PROVE  /\ slot' < Until(w) => Cardinality(OfWindow(w)) <= counter'[w]
             /\ Cardinality(OfWindow(w)) <= Limit
  <2>1. Until(w) \in Nat /\ slot \in Nat /\ slot' \in Nat /\ counter[w] \in Nat
        /\ counter'[w] \in Nat /\ Cardinality(OfWindow(w)) \in Nat
    <3>1. w \in Nat /\ slot \in Nat /\ slot' \in Nat
      BY SlotsAreNumbers
    <3>2. Cardinality(OfWindow(w)) \in Nat
      BY WindowIsFinite
    <3>3. Until(w) \in Nat
      BY <3>1, StartsAreNumbers
    <3> QED
      BY <3>1, <3>2, <3>3
  <2>2. slot < Until(w) => Cardinality(OfWindow(w)) <= counter[w]
    BY DEF CountedInWindow
  <2>3. slot' < Until(w) => counter[w] <= counter'[w]
    OBVIOUS
  <2>4. Cardinality(OfWindow(w)) <= Limit
    BY DEF CountedInWindow
  <2> QED
    BY <2>1, <2>2, <2>3, <2>4
<1> QED
  BY <1>1, <1>2 DEF CountedInWindow, Until, Start

(* An INCR with a value within the limit.                                  *)
LEMMA AdmissionKeepsWInv ==
  ASSUME WInv, NEW h \in Handlers, at[h] = "count",
         at' = [at EXCEPT ![h] = "expire"],
         counter[window[h]] + 1 <= Limit,
         counter' = [counter EXCEPT ![window[h]] = counter[window[h]] + 1],
         admitted' = Append(admitted, [by |-> h, window |-> window[h], time |-> slot]),
         UNCHANGED <<slot, deadline, window>>
  PROVE  WInv'
<1> DEFINE n == Len(admitted) + 1
           w == window[h]
           new == [by |-> h, window |-> w, time |-> slot]
<1>c. Clock
  BY DEF WInv
<1>0. w \in Slots /\ slot \in Slots /\ counter[w] \in Nat /\ new \in Admissions
  BY <1>c DEF Clock, Admissions
<1>1. /\ n \in Nat /\ DOMAIN admitted' = DOMAIN admitted \cup {n}
      /\ n \notin DOMAIN admitted /\ admitted'[n] = new
      /\ \A i \in DOMAIN admitted : i < n /\ admitted'[i] = admitted[i]
      /\ admitted' \in Seq(Admissions)
  <2>1. DOMAIN admitted = 1..Len(admitted) /\ Len(admitted) \in Nat /\ admitted \in Seq(Admissions)
    BY <1>c DEF Clock
  <2>2. /\ admitted' \in Seq(Admissions) /\ Len(admitted') = n /\ admitted'[n] = new
        /\ \A i \in 1..Len(admitted) : admitted'[i] = admitted[i]
    BY <1>0, <2>1, AppendProperties
  <2>3. DOMAIN admitted' = 1..n
    BY <2>2
  <2> QED
    BY <2>1, <2>2, <2>3
<1>2. Clock'
  <2>1. at' \in [Handlers -> Places] /\ counter' \in [Slots -> Nat]
    BY <1>c, <1>0 DEF Clock, Places
  <2> QED
    BY <1>c, <1>1, <2>1 DEF Clock
<1>3. new.by = h /\ new.window = w /\ new.time = slot
  OBVIOUS
<1> HIDE DEF n, new
<1>4. CountedInWindow'
  <2>1. Cardinality(OfWindow(w)) \in Nat /\ Until(w) \in Nat /\ slot \in Nat
    <3>1. w \in Nat /\ slot \in Nat
      BY <1>0, SlotsAreNumbers
    <3>2. Cardinality(OfWindow(w)) \in Nat
      BY <1>c, WindowIsFinite
    <3>3. Until(w) \in Nat
      BY <3>1, StartsAreNumbers
    <3> QED
      BY <3>1, <3>2, <3>3
  <2>2. \A v : v # w => OfWindow(v)' = OfWindow(v)
    BY <1>1, <1>3 DEF OfWindow, Until, Start
  <2>3. /\ slot < Until(w) => Cardinality(OfWindow(w)') <= counter[w] + 1
        /\ Cardinality(OfWindow(w)') <= Limit
    <3>1. CASE slot < Until(w)
      <4>1. OfWindow(w)' = OfWindow(w) \cup {n} /\ n \notin OfWindow(w)
        BY <1>1, <1>3, <3>1 DEF OfWindow, Until, Start
      <4>2. Cardinality(OfWindow(w)') = Cardinality(OfWindow(w)) + 1
        BY <1>c, <4>1, WindowIsFinite, FS_AddElement
      <4>3. Cardinality(OfWindow(w)) <= counter[w]
        BY <1>0, <3>1 DEF WInv, CountedInWindow
      <4> QED
        BY <1>0, <2>1, <4>2, <4>3, ConstantsAssumption
    <3>2. CASE ~(slot < Until(w))
      <4>1. OfWindow(w)' = OfWindow(w)
        BY <1>1, <1>3, <3>2 DEF OfWindow, Until, Start
      <4> QED
        BY <1>0, <3>2, <4>1 DEF WInv, CountedInWindow
    <3> QED
      BY <3>1, <3>2
  <2>4. counter'[w] = counter[w] + 1 /\ \A v \in Slots : v # w => counter'[v] = counter[v]
    BY <1>c, <1>0 DEF Clock
  <2>5. ASSUME NEW v \in Slots
        PROVE  /\ slot < Until(v) => Cardinality(OfWindow(v)') <= counter'[v]
               /\ Cardinality(OfWindow(v)') <= Limit
    <3>1. CASE v = w
      BY <2>3, <2>4, <3>1
    <3>2. CASE v # w
      BY <2>2, <2>4, <3>2 DEF WInv, CountedInWindow
    <3> QED
      BY <3>1, <3>2
  <2>6. \A v \in Slots : Until(v)' = Until(v)
    BY DEF Until, Start
  <2> QED
    BY <2>5, <2>6 DEF CountedInWindow
<1>5. DeadlinesAreLate'
  BY DEF WInv, DeadlinesAreLate, Until, Start
<1>6. TimesAreInOrder'
  <2> USE DEF WInv, TimesAreInOrder
  <2>1. \A i \in DOMAIN admitted' :
          Start(admitted'[i].window) <= admitted'[i].time /\ admitted'[i].time <= slot'
    <3>1. slot <= slot /\ Start(w) <= slot
      BY <1>0 DEF Slots, DeadlinesAreLate
    <3> QED
      BY <1>1, <1>3, <3>1
  <2>2. ASSUME NEW i \in DOMAIN admitted', at'[admitted'[i].by] = "count"
        PROVE  Window(admitted'[i].time) <= window'[admitted'[i].by]
    <3>1. at'[h] = "expire" /\ \A g \in Handlers : g # h => at'[g] = at[g]
      BY <1>c DEF Clock
    <3>2. i \in DOMAIN admitted /\ admitted'[i] = admitted[i]
      BY <1>1, <1>3, <2>2, <3>1
    <3>3. at[admitted[i].by] = "count"
      BY <1>c, <2>2, <3>1, <3>2, AdmissionsAreRecords
    <3> QED
      BY <3>2, <3>3
  <2>3. ASSUME NEW i \in DOMAIN admitted', NEW j \in DOMAIN admitted',
               i < j, admitted'[i].by = admitted'[j].by
        PROVE  Window(admitted'[i].time) <= admitted'[j].window
    <3>1. CASE j = n
      <4>1. i \in DOMAIN admitted /\ admitted'[i] = admitted[i]
        BY <1>1, <2>3, <3>1
      <4>2. admitted[i].by = h /\ admitted'[j].window = window[h]
        BY <1>1, <1>3, <2>3, <3>1, <4>1
      <4> QED
        BY <4>1, <4>2
    <3>2. CASE j # n
      <4>1. j \in DOMAIN admitted /\ admitted'[j] = admitted[j] /\ j < n
        BY <1>1, <3>2
      <4>2. i # n
        BY <1>1, <2>3, <4>1
      <4>3. i \in DOMAIN admitted /\ admitted'[i] = admitted[i]
        BY <1>1, <4>2
      <4> QED
        BY <2>3, <4>1, <4>3
    <3> QED
      BY <3>1, <3>2
  <2> QED
    BY <2>1, <2>2, <2>3 DEF Window, Start
<1> QED
  BY <1>2, <1>4, <1>5, <1>6 DEF WInv

(* Every other step of a handler: it takes the time, and it counts no      *)
(* request that is let through.                                            *)
LEMMA OthersKeepWInv ==
  ASSUME WInv, NEW h \in Handlers, NEW to \in Places, NEW v \in {0, window[h], Window(slot)},
         at' = [at EXCEPT ![h] = to], window' = [window EXCEPT ![h] = v],
         to = "count" => v = Window(slot),
         NEW n \in {0, 1}, counter' = [counter EXCEPT ![window[h]] = counter[window[h]] + n],
         deadline' = deadline
           \/ deadline' = [deadline EXCEPT ![window[h]] = slot + 2 * SlotsPerWindow],
         UNCHANGED <<slot, admitted>>
  PROVE  WInv'
<1> USE ConstantsAssumption
<1>c. Clock
  BY DEF WInv
<1>0. 0 \in Slots /\ slot \in Slots /\ Window(slot) \in Slots /\ window[h] \in Slots /\ v \in Slots
  <2>1. 0 \in Slots
    BY DEF Slots
  <2>2. slot \in Slots /\ window[h] \in Slots
    BY <1>c DEF Clock
  <2>3. Window(slot) \in Slots
    BY <2>2, WindowIsSlot
  <2>4. v = 0 \/ v = window[h] \/ v = Window(slot)
    OBVIOUS
  <2> QED
    BY <2>1, <2>2, <2>3, <2>4
<1>1. Clock'
  <2>1. counter[window[h]] + n \in Nat /\ slot + 2 * SlotsPerWindow \in Nat
    <3>1. counter[window[h]] \in Nat /\ slot \in Nat
      BY <1>c, <1>0, SlotsAreNumbers DEF Clock
    <3>2. n \in Nat
      OBVIOUS
    <3> QED
      BY <3>1, <3>2
  <2>2. counter' \in [Slots -> Nat]
    BY <1>c, <2>1 DEF Clock
  <2>3. deadline' \in [Slots -> Nat]
    BY <1>c, <2>1 DEF Clock
  <2>4. at' \in [Handlers -> Places] /\ window' \in [Handlers -> Slots]
    BY <1>c, <1>0 DEF Clock
  <2> QED
    BY <1>c, <2>2, <2>3, <2>4 DEF Clock
<1>2. CountedInWindow'
  <2>1. \A w \in Slots : counter[w] <= counter'[w]
    BY <1>c, <1>0 DEF Clock
  <2>2. slot <= slot'
    BY <1>0 DEF Slots
  <2> QED
    BY <1>1, <2>1, <2>2, OthersKeepCounts
<1>3. DeadlinesAreLate'
  <2>1. Start(0) <= slot /\ Start(Window(slot)) <= slot /\ Start(window[h]) <= slot
    <3>1. Start(0) = 0
      BY DEF Start
    <3> QED
      BY <1>0, <3>1, WindowIsSlot DEF WInv, DeadlinesAreLate, Slots
  <2>2. \A g \in Handlers : Start(window'[g]) <= slot'
    <3>1. Start(v) <= slot
      BY <2>1
    <3>2. \A g \in Handlers : window'[g] = IF g = h THEN v ELSE window[g]
      BY <1>c DEF Clock
    <3> QED
      BY <3>1, <3>2 DEF WInv, DeadlinesAreLate
  <2>3. \A w \in Slots : deadline'[w] = 0 \/ Until(w) <= deadline'[w]
    <3>1. Until(window[h]) <= slot + 2 * SlotsPerWindow
      <4>1. Start(window[h]) \in Nat /\ slot \in Nat
        BY <1>0, StartsAreNumbers DEF Slots
      <4> QED
        BY <2>1, <4>1 DEF Until
    <3>2. \A w \in Slots : \/ deadline'[w] = deadline[w]
                           \/ w = window[h] /\ deadline'[w] = slot + 2 * SlotsPerWindow
      BY <1>c DEF Clock
    <3> QED
      BY <3>1, <3>2 DEF WInv, DeadlinesAreLate
  <2>4. \A w : Until(w)' = Until(w) /\ Start(w)' = Start(w)
    BY DEF Until, Start
  <2> QED
    BY <2>2, <2>3 DEF DeadlinesAreLate, Until, Start
<1>4. TimesAreInOrder'
  <2> USE DEF WInv, TimesAreInOrder
  <2>1. ASSUME NEW i \in DOMAIN admitted, at'[admitted[i].by] = "count"
        PROVE  Window(admitted[i].time) <= window'[admitted[i].by]
    <3>1. admitted[i].by \in Handlers /\ admitted[i].time \in Slots
      BY <1>c, AdmissionsAreRecords
    <3>2. CASE admitted[i].by = h
      <4>1. v = Window(slot) /\ window'[h] = v
        BY <1>c, <2>1, <3>1, <3>2 DEF Clock
      <4>2. Window(admitted[i].time) <= Window(slot)
        BY <1>0, <3>1, WindowsAreOrdered
      <4> QED
        BY <3>2, <4>1, <4>2
    <3>3. CASE admitted[i].by # h
      BY <1>c, <2>1, <3>1, <3>3 DEF Clock
    <3> QED
      BY <3>2, <3>3
  <2> QED
    BY <2>1 DEF Window, Start
<1> QED
  BY <1>1, <1>2, <1>3, <1>4 DEF WInv

LEMMA HandlersKeepWInv ==
  ASSUME WInv, NEW h \in Handlers,
         \/ \E k \in Keys \cup {NoKey} : Send(h, k)
         \/ Replay(h) \/ PassKey(h) \/ Expire(h) \/ CheckQueue(h)
         \/ CreateJob(h) \/ Publish(h) \/ Store(h) \/ Answer(h) \/ Lose(h)
  PROVE  WInv'
<1>c. /\ counter \in [Slots -> Nat] /\ deadline \in [Slots -> Nat]
      /\ window \in [Handlers -> Slots]
  BY DEF WInv, Clock
<1>1. UNCHANGED <<slot, counter, admitted>>
  BY DEF Send, Replay, PassKey, Pass, Expire, CheckQueue, CreateJob, Publish, Store, Answer,
         Lose, history
<1>2. \/ deadline' = deadline
      \/ deadline' = [deadline EXCEPT ![window[h]] = slot + 2 * SlotsPerWindow]
  <2>1. CASE Expire(h)
    <3>1. deadline' = [deadline EXCEPT ![window[h]] =
                         IF counter[window[h]] = 0 THEN deadline[window[h]]
                         ELSE slot + 2 * SlotsPerWindow]
      BY <2>1 DEF Expire
    <3> QED
      BY <1>c, <3>1
  <2>2. CASE ~Expire(h)
    BY <2>2 DEF Send, Replay, PassKey, Pass, CheckQueue, CreateJob, Publish, Store, Answer,
                Lose, history
  <2> QED
    BY <2>1, <2>2
<1>3. counter' = [counter EXCEPT ![window[h]] = counter[window[h]] + 0]
  BY <1>1, <1>c
<1>4. PICK to \in Places, v \in {0, window[h], Window(slot)} :
        /\ at' = [at EXCEPT ![h] = to] /\ window' = [window EXCEPT ![h] = v]
        /\ to = "count" => v = Window(slot)
  <2>1. CASE PassKey(h)
    BY <2>1 DEF PassKey, Pass, Moves, Places
  <2>2. CASE \E from : Ends(h, from)
    BY <2>2 DEF Ends, Moves, Places
  <2>3. CASE /\ window' = window
             /\ \E from \in Places, to \in Places \ {"count"} : Moves(h, from, to)
    <3>1. window' = [window EXCEPT ![h] = window[h]]
      BY <1>c, <2>3
    <3> QED
      BY <2>3, <3>1 DEF Moves
  <2>4. CASE Replay(h) \/ Answer(h) \/ Lose(h)
    BY <2>2, <2>4 DEF Replay, Answer, Lose
  <2>5. CASE \/ \E k \in Keys \cup {NoKey} : Send(h, k)
             \/ CreateJob(h) \/ Publish(h) \/ Store(h)
    BY <2>3, <2>5 DEF Send, CreateJob, Publish, Store, Places
  <2>6. CASE Expire(h) \/ CheckQueue(h)
    <3>1. \/ \E from : Ends(h, from)
          \/ Moves(h, "expire", "queue") /\ window' = window
          \/ Moves(h, "queue", "create") /\ window' = window
      BY <2>6 DEF Expire, CheckQueue
    <3> QED
      BY <2>2, <2>3, <3>1 DEF Places
  <2> QED
    BY <2>1, <2>4, <2>5, <2>6
<1> QED
  BY <1>1, <1>2, <1>3, <1>4, OthersKeepWInv

LEMMA TickKeepsWInv == ASSUME WInv, Tick PROVE WInv'
<1>c. Clock
  BY DEF WInv
<1>1. /\ slot' = slot + 1 /\ slot' \in Slots /\ slot \in Nat /\ slot' \in Nat
      /\ UNCHANGED <<at, window, admitted>>
      /\ counter' = [w \in Slots |-> IF deadline[w] = slot + 1 THEN 0 ELSE counter[w]]
      /\ deadline' = [w \in Slots |-> IF deadline[w] = slot + 1 THEN 0 ELSE deadline[w]]
  BY <1>c, ConstantsAssumption DEF Tick, Clock, Slots, handler, history
<1>2. Clock'
  <2>1. counter' \in [Slots -> Nat] /\ deadline' \in [Slots -> Nat]
    BY <1>c, <1>1 DEF Clock
  <2> QED
    BY <1>c, <1>1, <2>1 DEF Clock
<1>3. CountedInWindow'
  <2>1. ASSUME NEW w \in Slots, slot' < Until(w)
        PROVE  counter[w] <= counter'[w]
    <3>1. Until(w) \in Nat /\ counter[w] \in Nat /\ deadline[w] \in Nat
      <4>1. w \in Nat
        BY SlotsAreNumbers
      <4>2. Until(w) \in Nat
        BY <4>1, StartsAreNumbers
      <4> QED
        BY <1>c, <4>2 DEF Clock
    <3>2. deadline[w] = 0 \/ Until(w) <= deadline[w]
      BY DEF WInv, DeadlinesAreLate
    <3>3. deadline[w] # slot + 1
      BY <1>1, <2>1, <3>1, <3>2
    <3> QED
      BY <1>1, <3>1, <3>3
  <2> QED
    BY <1>1, <1>2, <2>1, OthersKeepCounts
<1>4. DeadlinesAreLate'
  <2>1. \A h \in Handlers : Start(window'[h]) <= slot'
    <3>1. ASSUME NEW h \in Handlers PROVE Start(window'[h]) <= slot'
      <4>1. Start(window[h]) \in Nat /\ Start(window[h]) <= slot
        <5>1. window[h] \in Slots
          BY <1>c DEF Clock
        <5>2. window[h] \in Nat
          BY <5>1, SlotsAreNumbers
        <5>3. Start(window[h]) \in Nat
          BY <5>2, StartsAreNumbers
        <5> QED
          BY <5>3 DEF WInv, DeadlinesAreLate
      <4> QED
        BY <1>1, <4>1
    <3> QED
      BY <3>1
  <2>2. \A w \in Slots : deadline'[w] = 0 \/ Until(w) <= deadline'[w]
    BY <1>1 DEF WInv, DeadlinesAreLate
  <2> QED
    BY <2>1, <2>2 DEF DeadlinesAreLate, Until, Start
<1>5. TimesAreInOrder'
  <2>1. ASSUME NEW i \in DOMAIN admitted 
        PROVE  Start(admitted[i].window) <= admitted[i].time /\ admitted[i].time <= slot'
    <3>1. /\ admitted[i].time \in Nat /\ admitted[i].time <= slot
          /\ Start(admitted[i].window) <= admitted[i].time
      BY <1>c, AdmissionsAreRecords DEF WInv, TimesAreInOrder, Slots
    <3> QED
      BY <1>1, <3>1
  <2> QED
    BY <1>1, <2>1 DEF WInv, TimesAreInOrder, Window, Start
<1> QED
  BY <1>2, <1>3, <1>4, <1>5 DEF WInv

LEMMA StepWInv == WInv /\ [Next]_vars => WInv'
<1> SUFFICES ASSUME WInv, [Next]_vars PROVE WInv'
  OBVIOUS
<1>1. ASSUME NEW h \in Handlers, Count(h)
      PROVE  WInv'
  <2>1. /\ at[h] = "count"
        /\ counter' = [counter EXCEPT ![window[h]] = counter[window[h]] + 1]
        /\ UNCHANGED <<slot, deadline, window>>
    BY <1>1 DEF Count, Counted, Moves
  <2>2. CASE /\ counter[window[h]] + 1 <= Limit /\ at' = [at EXCEPT ![h] = "expire"]
             /\ admitted' = Append(admitted, [by |-> h, window |-> window[h], time |-> slot])
    BY <2>1, <2>2, AdmissionKeepsWInv
  <2>3. CASE at' = [at EXCEPT ![h] = "refuse"] /\ admitted' = admitted
    <3>1. window' = [window EXCEPT ![h] = window[h]] /\ "refuse" \in Places
      BY <2>1 DEF WInv, Clock, Places
    <3> QED
      BY <2>1, <2>3, <3>1, OthersKeepWInv
  <2> QED
    BY <1>1, <2>2, <2>3 DEF Count, Counted, Moves
<1>2. CASE UNCHANGED vars
  BY <1>2 DEF vars, handler, history, WInv, Clock, CountedInWindow, OfWindow, DeadlinesAreLate,
              TimesAreInOrder, Until, Start, Window
<1> QED
  BY <1>1, <1>2, HandlersKeepWInv, TickKeepsWInv DEF Next

LEMMA AtMostLimit ==
  ASSUME WInv, NEW w
  PROVE  Cardinality(OfWindow(w)) <= Limit
<1>1. CASE w \in Slots
  BY <1>1 DEF WInv, CountedInWindow
<1>2. CASE w \notin Slots
  <2>1. OfWindow(w) = {}
    BY <1>2, AdmissionsAreRecords DEF WInv, OfWindow
  <2> QED
    BY <2>1, FS_EmptySet, ConstantsAssumption
<1> QED
  BY <1>1, <1>2

(* In any interval of WINDOW_SECONDS check_rate_limit lets at most twice   *)
(* the limit through of the requests that took the time in the windows the *)
(* interval touches, and of the others one for each handler, however the   *)
(* requests overlap, however long after taking the time they are counted,  *)
(* and although the counters expire.                                       *)
THEOREM AdmissionsAreBounded == Spec => []AdmissionBounded
<1>1. WInv => AdmissionBounded
  <2> DEFINE Passed(s) == {i \in DOMAIN admitted :
                             s <= admitted[i].time /\ admitted[i].time < s + SlotsPerWindow}
             Late(s) == {i \in Passed(s) : admitted[i].window < Window(s)}
  <2> SUFFICES ASSUME WInv, NEW s \in Slots
               PROVE  /\ Cardinality(Passed(s) \ Late(s)) <= 2 * Limit
                      /\ Cardinality(Late(s)) <= Cardinality(Handlers)
    BY DEF AdmissionBounded
  <2> DEFINE A == OfWindow(Window(s))
             B == OfWindow(Window(s) + 1)
  <2>c. Clock
    BY DEF WInv
  <2>0. IsFiniteSet(DOMAIN admitted)
    <3>1. DOMAIN admitted = 1..Len(admitted) /\ Len(admitted) \in Nat
      BY <2>c DEF Clock
    <3> QED
      BY <3>1, FS_Interval
  <2>1. Passed(s) \ Late(s) \subseteq A \cup B
    <3> SUFFICES ASSUME NEW i \in Passed(s) \ Late(s) PROVE i \in A \cup B
      OBVIOUS
    <3>1. /\ i \in DOMAIN admitted /\ admitted[i].window \in Nat /\ admitted[i].time \in Nat
          /\ s <= admitted[i].time /\ admitted[i].time < s + SlotsPerWindow
          /\ ~(admitted[i].window < Window(s))
      BY <2>c, AdmissionsAreRecords DEF Slots
    <3>2. /\ Window(s) \in Nat /\ s \in Nat /\ Start(Window(s)) \in Nat
          /\ s < Start(Window(s)) + SlotsPerWindow
          /\ Start(Window(s) + 1) = Start(Window(s)) + SlotsPerWindow
      BY WindowIsSlot, StartsAreNumbers DEF Slots
    <3>3. admitted[i].time < Until(Window(s)) /\ admitted[i].time < Until(Window(s) + 1)
      BY <3>1, <3>2, ConstantsAssumption DEF Until
    <3>4. admitted[i].window <= Window(s) + 1
      <4>1. Start(admitted[i].window) <= admitted[i].time /\ Start(admitted[i].window) \in Nat
        BY <3>1, StartsAreNumbers DEF WInv, TimesAreInOrder
      <4>2. Start(Window(s) + 1 + 1) = Start(Window(s)) + SlotsPerWindow + SlotsPerWindow
        BY <3>2, StartsAreNumbers
      <4>3. Start(admitted[i].window) < Start(Window(s) + 1 + 1)
        BY <3>1, <3>2, <4>1, <4>2, ConstantsAssumption
      <4>4. admitted[i].window < Window(s) + 1 + 1
        BY <3>1, <3>2, <4>3, StartsAreOrdered
      <4> QED
        BY <3>1, <3>2, <4>4
    <3>5. admitted[i].window = Window(s) \/ admitted[i].window = Window(s) + 1
      BY <3>1, <3>2, <3>4
    <3> QED
      BY <3>1, <3>3, <3>5 DEF OfWindow
  <2>2. Cardinality(Passed(s) \ Late(s)) <= 2 * Limit
    <3>1. /\ IsFiniteSet(A) /\ IsFiniteSet(B)
          /\ Cardinality(A) \in Nat /\ Cardinality(B) \in Nat
      BY <2>c, WindowIsFinite
    <3>2. Cardinality(A) <= Limit /\ Cardinality(B) <= Limit
      BY AtMostLimit
    <3>3. /\ IsFiniteSet(A \cup B) /\ Cardinality(A \cup B) \in Nat
          /\ Cardinality(A \cap B) \in Nat
          /\ Cardinality(A \cup B) = Cardinality(A) + Cardinality(B) - Cardinality(A \cap B)
      <4>1. IsFiniteSet(A \cap B)
        BY <3>1, FS_Subset
      <4> HIDE DEF A, B
      <4> QED
        BY <3>1, <4>1, FS_Union, FS_CardinalityType
    <3> HIDE DEF A, B, Passed, Late
    <3>4. /\ Cardinality(Passed(s) \ Late(s)) <= Cardinality(A \cup B)
          /\ Cardinality(Passed(s) \ Late(s)) \in Nat
      BY <2>1, <3>3, FS_Subset, FS_CardinalityType
    <3> QED
      BY <3>1, <3>2, <3>3, <3>4, ConstantsAssumption
  <2>3. ASSUME NEW i \in Late(s), NEW j \in Late(s), i < j, admitted[i].by = admitted[j].by
        PROVE  FALSE
    <3>1. /\ admitted[i].time \in Slots /\ s <= admitted[i].time
          /\ admitted[j].window \in Nat /\ admitted[j].window < Window(s)
      BY <2>c, AdmissionsAreRecords DEF Slots
    <3>2. Window(s) <= Window(admitted[i].time)
      BY <3>1, WindowsAreOrdered
    <3>3. Window(admitted[i].time) <= admitted[j].window
      BY <2>3 DEF WInv, TimesAreInOrder
    <3>4. Window(s) \in Nat /\ Window(admitted[i].time) \in Nat
      BY <3>1, WindowIsSlot DEF Slots
    <3> QED
      BY <3>1, <3>2, <3>3, <3>4
  <2>4. Cardinality(Late(s)) <= Cardinality(Handlers)
    <3>1. IsFiniteSet(Late(s)) /\ Late(s) \subseteq DOMAIN admitted
      <4>1. Late(s) \subseteq DOMAIN admitted
        OBVIOUS
      <4> HIDE DEF Late
      <4> QED
        BY <2>0, <4>1, FS_Subset
    <3> DEFINE f == [i \in Late(s) |-> admitted[i].by]
    <3> HIDE DEF Late
    <3>2. f \in [Late(s) -> Handlers]
      BY <2>c, <3>1, AdmissionsAreRecords
    <3>3. \A i, j \in Late(s) : f[i] = f[j] => i = j
      <4>1. \A i \in Late(s) : i \in Nat
        BY <2>c, <3>1, AdmissionsAreRecords
      <4> QED
        BY <2>3, <4>1
    <3> HIDE DEF f
    <3>4. ~(Cardinality(Handlers) < Cardinality(Late(s)))
      BY <3>1, <3>2, <3>3, FS_PigeonHole, ConstantsAssumption
    <3> QED
      BY <3>1, <3>4, FS_CardinalityType, ConstantsAssumption
  <2> QED
    BY <2>2, <2>4
<1> QED
  BY <1>1, InitWInv, StepWInv, PTL DEF Spec

------------------------------------------------------------------------------
(* The idempotency keys.  Who was told that k is new, and who of them has  *)
(* published.                                                              *)
Early(k) ==
  {h \in Handlers : key[h] = k
                   /\ at[h] \in {"count", "expire", "queue", "create", "publish"}}
Publishers(k) == {h \in Handlers : key[h] = k /\ at[h] = "store"}

(* While nobody overtakes, a key has one request under way and no stored   *)
(* answer, or no request and the one job.                                  *)
Unraced(k) ==
  /\ \A g, h \in Early(k) \cup Publishers(k) : g = h
  /\ stored[k] # NoJob => Early(k) \cup Publishers(k) = {}
  /\ published[k] # {} => stored[k] # NoJob \/ Publishers(k) # {}
  /\ Cardinality(published[k]) <= 1

(* In any case each job belongs to a request: one that holds it, one that  *)
(* was lost with it, or, once an answer is stored, one of those that were  *)
(* under way then.                                                         *)
JobsHaveRequests(k) ==
  /\ IsFiniteSet(published[k])
  /\ stored[k] = NoJob
       => Cardinality(published[k]) <= Cardinality(Publishers(k)) + lost[k]
  /\ stored[k] # NoJob
       => Cardinality(published[k]) + Cardinality(Early(k))
            <= Cardinality(Handlers) + lost[k]

KeyInv(k) == (k \notin raced => Unraced(k)) /\ JobsHaveRequests(k)

HoldsJob == \A h \in Handlers : at[h] \in {"publish", "store"} => job[h] # NoJob

LostCounts == lost \in [Keys \cup {NoKey} -> Nat]

KInv == IInv /\ HoldsJob /\ LostCounts /\ \A k \in Keys : KeyInv(k)

LEMMA RequestsAreFinite ==
  ASSUME NEW k
  PROVE  /\ IsFiniteSet(Early(k)) /\ IsFiniteSet(Publishers(k)) /\ IsFiniteSet(Handlers)
         /\ Cardinality(Early(k)) \in Nat /\ Cardinality(Publishers(k)) \in Nat
         /\ Cardinality(Handlers) \in Nat
         /\ Cardinality(Early(k)) + Cardinality(Publishers(k)) <= Cardinality(Handlers)
<1> USE ConstantsAssumption
<1>1. Early(k) \subseteq Handlers /\ Publishers(k) \subseteq Handlers
  BY DEF Early, Publishers
<1>2. Early(k) \cap Publishers(k) = {} /\ Early(k) \cup Publishers(k) \subseteq Handlers
  BY DEF Early, Publishers
<1>3. IsFiniteSet(Early(k)) /\ IsFiniteSet(Publishers(k))
  BY <1>1, FS_Subset
<1>4. Cardinality(Early(k) \cup Publishers(k)) = Cardinality(Early(k)) + Cardinality(Publishers(k))
  <2>1. Cardinality(Early(k) \cap Publishers(k)) = 0
    BY <1>2, FS_EmptySet
  <2>2. Cardinality(Early(k)) \in Nat /\ Cardinality(Publishers(k)) \in Nat
    BY <1>3, FS_CardinalityType
  <2> QED
    BY <1>3, <2>1, <2>2, FS_Union
<1> QED
  BY <1>2, <1>3, <1>4, FS_Subset, FS_CardinalityType

LEMMA InitKInv == Init => KInv
<1> SUFFICES ASSUME Init PROVE KInv
  OBVIOUS
<1>1. IInv
  BY InitIsSound
<1>2. HoldsJob /\ LostCounts
  BY DEF Init, HoldsJob, LostCounts
<1>3. ASSUME NEW k \in Keys PROVE KeyInv(k)
  <2>1. Early(k) = {} /\ Publishers(k) = {} /\ published[k] = {} /\ stored[k] = NoJob
        /\ lost[k] = 0
    BY DEF Init, Early, Publishers
  <2> QED
    BY <2>1, FS_EmptySet DEF KeyInv, Unraced, JobsHaveRequests
<1> QED
  BY <1>1, <1>2, <1>3 DEF KInv

(* A step that tells nobody that k is new, publishes, stores and loses     *)
(* nothing: requests only leave.                                           *)
LEMMA LeavingKeepsKey ==
  ASSUME KInv, NEW k \in Keys, raced \subseteq raced',
         UNCHANGED <<stored, published, lost>>,
         Early(k)' \subseteq Early(k), Publishers(k)' = Publishers(k)
  PROVE  KeyInv(k)'
<1>1. KeyInv(k) /\ published[k]' = published[k] /\ stored[k]' = stored[k] /\ lost[k]' = lost[k]
  BY DEF KInv
<1>2. Cardinality(Early(k)') <= Cardinality(Early(k)) /\ Cardinality(Early(k)') \in Nat
  BY RequestsAreFinite, FS_Subset, FS_CardinalityType
<1>3. (k \notin raced => Unraced(k)) => (k \notin raced' => Unraced(k)')
  BY <1>1 DEF Unraced
<1>4. JobsHaveRequests(k)'
  <2>1. JobsHaveRequests(k) /\ lost[k] \in Nat
    BY <1>1 DEF KeyInv, KInv, LostCounts
  <2>2. Cardinality(published[k]) \in Nat
    BY <2>1, FS_CardinalityType DEF JobsHaveRequests
  <2> QED
    BY <1>1, <1>2, <2>1, <2>2, RequestsAreFinite DEF JobsHaveRequests
<1> QED
  BY <1>1, <1>3, <1>4 DEF KeyInv

(* The steps of that kind.                                                 *)
LEMMA MovesKeepKey ==
  ASSUME KInv, NEW k \in Keys, NEW h \in Handlers,
         UNCHANGED <<stored, published, lost>>, raced \subseteq raced',
         NEW to, at' = [at EXCEPT ![h] = to],
         \A g \in Handlers : g # h => key'[g] = key[g],
         at[h] # "store", to # "store",
         to \in {"count", "expire", "queue", "create", "publish"}
           => at[h] \in {"count", "expire", "queue", "create", "publish"} /\ key'[h] = key[h]
  PROVE  KeyInv(k)'
<1>1. at'[h] = to /\ \A g \in Handlers : g # h => at'[g] = at[g]
  BY DEF KInv, IInv, Control
<1>2. Early(k)' \subseteq Early(k)
  BY <1>1 DEF Early
<1>3. Publishers(k)' = Publishers(k)
  BY <1>1 DEF Publishers
<1> QED
  BY <1>2, <1>3, LeavingKeepsKey

LEMMA QuietStepsKeepKeys ==
  ASSUME KInv, NEW k \in Keys, NEW h \in Handlers,
         \/ \E i \in Keys \cup {NoKey} : Send(h, i)
         \/ Replay(h) \/ Count(h) \/ Expire(h) \/ CheckQueue(h) \/ CreateJob(h)
         \/ Answer(h)
         \/ Lose(h) /\ at[h] # "store"
  PROVE  KeyInv(k)'
<1> USE DEF history
<1>k. key \in [Handlers -> Keys \cup {NoKey}] /\ lost \in [Keys \cup {NoKey} -> Nat]
  BY DEF KInv, IInv, Control, LostCounts
<1>1. CASE \E i \in Keys \cup {NoKey} : Send(h, i)
  <2>1. UNCHANGED <<stored, published, lost, raced>> /\ Moves(h, "idle", "key")
        /\ \A g \in Handlers : g # h => key'[g] = key[g]
    BY <1>1, <1>k DEF Send
  <2> QED
    BY <2>1, MovesKeepKey DEF Moves
<1>2. CASE \E from : Ends(h, from) /\ from # "store"
                     /\ UNCHANGED <<stored, published, lost, raced>>
  <2>1. /\ at[h] # "store" /\ at' = [at EXCEPT ![h] = "idle"]
        /\ \A g \in Handlers : g # h => key'[g] = key[g]
    BY <1>2, <1>k DEF Ends, Moves
  <2> QED
    BY <1>2, <2>1, MovesKeepKey
<1>3. CASE \/ /\ Moves(h, "count", "expire") \/ Moves(h, "count", "refuse")
              /\ UNCHANGED <<key, stored, published, lost, raced>>
           \/ Moves(h, "expire", "queue") /\ UNCHANGED <<key, stored, published, lost, raced>>
           \/ Moves(h, "queue", "create") /\ UNCHANGED <<key, stored, published, lost, raced>>
           \/ CreateJob(h)
  <2>1. PICK to \in {"expire", "refuse", "queue", "create", "publish"} :
          at' = [at EXCEPT ![h] = to]
    BY <1>3 DEF CreateJob, Moves
  <2>2. /\ at[h] \in {"count", "expire", "queue", "create"}
        /\ UNCHANGED <<key, stored, published, lost, raced>>
    BY <1>3 DEF CreateJob, Moves
  <2> QED
    BY <2>1, <2>2, MovesKeepKey
<1>4. CASE Replay(h) \/ Answer(h)
  BY <1>2, <1>4 DEF Replay, Answer
<1>5. CASE Count(h) \/ Expire(h) \/ CheckQueue(h)
  BY <1>2, <1>3, <1>5 DEF Count, Counted, Expire, CheckQueue
<1>6. CASE Lose(h) /\ at[h] # "store"
  <2>1. UNCHANGED <<stored, published>> /\ Ends(h, at[h]) /\ raced' = raced
    BY <1>6 DEF Lose
  <2>2. lost' = [lost EXCEPT ![key[h]] = lost[key[h]]]
    BY <1>6 DEF Lose
  <2>3. lost' = lost
    BY <1>k, <2>2
  <2> QED
    BY <1>2, <1>6, <2>1, <2>3
<1> QED
  BY <1>1, <1>3, <1>4, <1>5, <1>6

(* A key is new only as long as no answer is stored; then a second request *)
(* under way marks it as raced.                                            *)
LEMMA PassKeepsKeys ==
  ASSUME KInv, NEW k \in Keys, NEW h \in Handlers, PassKey(h)
  PROVE  KeyInv(k)'
<1>1. /\ at[h] = "key" /\ at' = [at EXCEPT ![h] = "count"] /\ key' = key
      /\ UNCHANGED <<stored, published, lost>>
      /\ key[h] \in Keys => stored[key[h]] = NoJob
      /\ raced' = raced \cup {i \in Keys : i = key[h] /\ UnderWay(i)}
  BY DEF PassKey, Pass, Moves
<1>2. at'[h] = "count" /\ \A g \in Handlers : g # h => at'[g] = at[g]
  BY <1>1 DEF KInv, IInv, Control
<1>3. CASE key[h] # k
  <2>1. Early(k)' = Early(k)
    BY <1>1, <1>2, <1>3 DEF Early
  <2>2. Publishers(k)' = Publishers(k)
    BY <1>1, <1>2, <1>3 DEF Publishers
  <2> QED
    BY <1>1, <2>1, <2>2, LeavingKeepsKey
<1>4. CASE key[h] = k
  <2>1. stored[k] = NoJob /\ stored'[k] = NoJob /\ published' = published /\ lost' = lost
    BY <1>1, <1>4
  <2>2. Publishers(k)' = Publishers(k)
    BY <1>1, <1>2 DEF Publishers
  <2>3. Early(k)' = Early(k) \cup {h}
    BY <1>1, <1>2, <1>4 DEF Early
  <2>4. JobsHaveRequests(k)'
    BY <2>1, <2>2 DEF KInv, KeyInv, JobsHaveRequests
  <2>5. ASSUME k \notin raced' PROVE Unraced(k)'
    <3>1. k \notin raced /\ ~UnderWay(k)
      BY <1>1, <1>4, <2>5
    <3>2. Early(k) = {} /\ Publishers(k) = {}
      BY <3>1 DEF UnderWay, Early, Publishers
    <3>3. Unraced(k)
      BY <3>1 DEF KInv, KeyInv
    <3> QED
      BY <2>1, <2>2, <2>3, <3>2, <3>3 DEF Unraced
  <2> QED
    BY <2>4, <2>5 DEF KeyInv
<1> QED
  BY <1>3, <1>4

LEMMA PublishKeepsKeys ==
  ASSUME KInv, NEW k \in Keys, NEW h \in Handlers, Publish(h)
  PROVE  KeyInv(k)'
<1>1. /\ at[h] = "publish" /\ at' = [at EXCEPT ![h] = "store"] /\ key' = key
      /\ UNCHANGED <<stored, lost, raced>>
      /\ published' = [published EXCEPT ![key[h]] = published[key[h]] \cup {job[h]}]
  BY DEF Publish, Moves, history
<1>2. /\ at'[h] = "store" /\ \A g \in Handlers : g # h => at'[g] = at[g]
      /\ key[h] \in Keys \cup {NoKey}
      /\ published \in [Keys \cup {NoKey} -> SUBSET Nat]
      /\ lost[k] \in Nat
  BY <1>1 DEF KInv, IInv, Control, LostCounts
<1>3. CASE key[h] # k
  <2>1. Early(k)' = Early(k)
    BY <1>1, <1>2, <1>3 DEF Early
  <2>2. Publishers(k)' = Publishers(k)
    BY <1>1, <1>2, <1>3 DEF Publishers
  <2>3. published'[k] = published[k] /\ stored' = stored /\ lost' = lost /\ raced' = raced
    BY <1>1, <1>2, <1>3
  <2> QED
    BY <2>1, <2>2, <2>3 DEF KInv, KeyInv, Unraced, JobsHaveRequests
<1>4. CASE key[h] = k
  <2>1. published'[k] = published[k] \cup {job[h]}
    BY <1>1, <1>2, <1>4
  <2>2. Early(k)' = Early(k) \ {h} /\ h \in Early(k)
    BY <1>1, <1>2, <1>4 DEF Early
  <2>3. Publishers(k)' = Publishers(k) \cup {h} /\ h \notin Publishers(k)
    BY <1>1, <1>2, <1>4 DEF Publishers
  <2>4. KeyInv(k) /\ stored' = stored /\ lost' = lost /\ raced' = raced
    BY <1>1 DEF KInv
  <2>5. /\ IsFiniteSet(published'[k])
        /\ Cardinality(published'[k]) <= Cardinality(published[k]) + 1
        /\ Cardinality(published[k]) \in Nat /\ Cardinality(published'[k]) \in Nat
    BY <2>1, <2>4, FS_AddElement, FS_CardinalityType DEF KeyInv, JobsHaveRequests
  <2>6. Cardinality(Early(k)') = Cardinality(Early(k)) - 1
    BY <2>2, RequestsAreFinite, FS_RemoveElement
  <2>7. Cardinality(Publishers(k)') = Cardinality(Publishers(k)) + 1
    BY <2>3, RequestsAreFinite, FS_AddElement
  <2>8. JobsHaveRequests(k)'
    BY <1>2, <2>4, <2>5, <2>6, <2>7, RequestsAreFinite DEF KeyInv, JobsHaveRequests
  <2>9. ASSUME k \notin raced' PROVE Unraced(k)'
    <3>1. Unraced(k)
      BY <2>4, <2>9 DEF KeyInv
    <3>2. stored[k] = NoJob /\ Publishers(k) = {} /\ Early(k) = {h}
      BY <2>2, <2>3, <3>1 DEF Unraced
    <3>3. published[k] = {}
      BY <3>1, <3>2 DEF Unraced
    <3>4. published'[k] = {job[h]} /\ Early(k)' = {} /\ Publishers(k)' = {h}
      BY <2>1, <2>2, <2>3, <3>2, <3>3
    <3>5. Cardinality(published'[k]) <= 1
      <4>1. Cardinality({job[h]}) = 1
        BY FS_Singleton
      <4> QED
        BY <3>4, <4>1
    <3> QED
      BY <2>4, <3>2, <3>4, <3>5 DEF Unraced
  <2> QED
    BY <2>8, <2>9 DEF KeyInv
<1> QED
  BY <1>3, <1>4

LEMMA StoreKeepsKeys ==
  ASSUME KInv, NEW k \in Keys, NEW h \in Handlers, Store(h)
  PROVE  KeyInv(k)'
<1>1. /\ at[h] = "store" /\ at' = [at EXCEPT ![h] = "answer"] /\ key' = key
      /\ UNCHANGED <<published, lost, raced>>
      /\ stored' = [i \in Keys |-> IF i = key[h] THEN job[h] ELSE stored[i]]
  BY DEF Store, Moves, history
<1>2. /\ at'[h] = "answer" /\ \A g \in Handlers : g # h => at'[g] = at[g]
      /\ lost[k] \in Nat /\ job[h] # NoJob
  BY <1>1 DEF KInv, IInv, Control, LostCounts, HoldsJob
<1>3. Early(k)' = Early(k)
  BY <1>1, <1>2 DEF Early
<1>4. KeyInv(k)
  BY DEF KInv
<1>5. CASE key[h] # k
  <2>1. Publishers(k)' = Publishers(k)
    BY <1>1, <1>2, <1>5 DEF Publishers
  <2>2. stored'[k] = stored[k] /\ published' = published /\ lost' = lost /\ raced' = raced
    BY <1>1, <1>5
  <2> QED
    BY <1>3, <1>4, <2>1, <2>2 DEF KeyInv, Unraced, JobsHaveRequests
<1>6. CASE key[h] = k
  <2>1. Publishers(k)' = Publishers(k) \ {h} /\ h \in Publishers(k)
    BY <1>1, <1>2, <1>6 DEF Publishers
  <2>2. stored'[k] # NoJob /\ published' = published /\ lost' = lost /\ raced' = raced
    BY <1>1, <1>2, <1>6
  <2>3. Cardinality(published[k]) \in Nat
    BY <1>4, FS_CardinalityType DEF KeyInv, JobsHaveRequests
  <2>4. Cardinality(published[k]) + Cardinality(Early(k)) <= Cardinality(Handlers) + lost[k]
    <3>1. CASE stored[k] = NoJob
      <4>1. Cardinality(published[k]) <= Cardinality(Publishers(k)) + lost[k]
        BY <1>4, <3>1 DEF KeyInv, JobsHaveRequests
      <4> QED
        BY <1>2, <2>3, <4>1, RequestsAreFinite
    <3>2. CASE stored[k] # NoJob
      BY <1>4, <3>2 DEF KeyInv, JobsHaveRequests
    <3> QED
      BY <3>1, <3>2
  <2>5. JobsHaveRequests(k)'
    BY <1>3, <1>4, <2>2, <2>4 DEF KeyInv, JobsHaveRequests
  <2>6. ASSUME k \notin raced' PROVE Unraced(k)'
    <3>1. Unraced(k)
      BY <1>4, <2>2, <2>6 DEF KeyInv
    <3>2. Early(k)' = {} /\ Publishers(k)' = {}
      <4>1. h \notin Early(k) /\ \A g \in Early(k) \cup Publishers(k) : g = h
        BY <1>1, <2>1, <3>1 DEF Unraced, Early
      <4> QED
        BY <1>3, <2>1, <4>1
    <3> QED
      BY <2>2, <3>1, <3>2 DEF Unraced
  <2> QED
    BY <2>5, <2>6 DEF KeyInv
<1> QED
  BY <1>5, <1>6

(* A request lost with its job: counted, and its key is raced.             *)
LEMMA LossKeepsKeys ==
  ASSUME KInv, NEW k \in Keys, NEW h \in Handlers, Lose(h), at[h] = "store"
  PROVE  KeyInv(k)'
<1>1. /\ at' = [at EXCEPT ![h] = "idle"] /\ key' = [key EXCEPT ![h] = NoKey]
      /\ UNCHANGED <<stored, published>>
      /\ lost' = [lost EXCEPT ![key[h]] = lost[key[h]] + 1]
      /\ raced' = raced \cup {i \in Keys : i = key[h]}
  BY DEF Lose, Ends, Moves
<1>2. /\ at'[h] = "idle" /\ \A g \in Handlers : g # h => at'[g] = at[g] /\ key'[g] = key[g]
      /\ key[h] \in Keys \cup {NoKey} /\ lost \in [Keys \cup {NoKey} -> Nat]
  BY <1>1 DEF KInv, IInv, Control, LostCounts
<1>3. Early(k)' = Early(k)
  BY <1>2 DEF Early
<1>4. KeyInv(k)
  BY DEF KInv
<1>5. CASE key[h] # k
  <2>1. Publishers(k)' = Publishers(k)
    BY <1>2, <1>5 DEF Publishers
  <2>2. lost'[k] = lost[k] /\ stored' = stored /\ published' = published
        /\ raced \subseteq raced'
    BY <1>1, <1>2, <1>5
  <2> QED
    BY <1>3, <1>4, <2>1, <2>2 DEF KeyInv, Unraced, JobsHaveRequests
<1>6. CASE key[h] = k
  <2>1. Publishers(k)' = Publishers(k) \ {h} /\ h \in Publishers(k)
    BY <1>2, <1>6 DEF Publishers
  <2>2. lost'[k] = lost[k] + 1 /\ lost[k] \in Nat /\ stored' = stored
        /\ published' = published /\ k \in raced'
    BY <1>1, <1>2, <1>6
  <2>3. Cardinality(Publishers(k)') = Cardinality(Publishers(k)) - 1
    BY <2>1, RequestsAreFinite, FS_RemoveElement
  <2>4. Cardinality(published[k]) \in Nat
    BY <1>4, FS_CardinalityType DEF KeyInv, JobsHaveRequests
  <2> QED
    BY <1>3, <1>4, <2>2, <2>3, <2>4, RequestsAreFinite DEF KeyInv, JobsHaveRequests
<1> QED
  BY <1>5, <1>6

LEMMA StepsHoldJobs ==
  ASSUME KInv, [Next]_vars
  PROVE  HoldsJob' /\ LostCounts'
<1> USE DEF HoldsJob, LostCounts
<1>1. /\ at \in [Handlers -> Places] /\ job \in [Handlers -> Nat] /\ created \in Nat
      /\ key \in [Handlers -> Keys \cup {NoKey}] /\ HoldsJob /\ LostCounts
  BY DEF KInv, IInv, Control
<1>2. CASE Tick \/ UNCHANGED vars
  BY <1>1, <1>2 DEF Tick, vars, handler, history
<1>3. ASSUME NEW h \in Handlers,
             \/ \E k \in Keys \cup {NoKey} : Send(h, k)
             \/ PassKey(h) \/ Count(h) \/ Expire(h) \/ CheckQueue(h)
             \/ Replay(h) \/ Answer(h)
      PROVE  HoldsJob' /\ LostCounts'
  <2>1. lost' = lost
    BY <1>3 DEF Send, PassKey, Pass, Count, Counted, Expire, CheckQueue, Replay, Answer,
                history
  <2>2. PICK to \in {"idle", "key", "count", "expire", "refuse", "queue", "create"} :
          at' = [at EXCEPT ![h] = to]
    BY <1>3 DEF Send, PassKey, Pass, Count, Counted, Expire, CheckQueue, Replay, Answer, Ends, Moves
  <2>3. \A g \in Handlers : g # h => job'[g] = job[g]
    <3>1. job' = job \/ job' = [job EXCEPT ![h] = NoJob]
      BY <1>3 DEF Send, PassKey, Pass, Count, Counted, Expire, CheckQueue, Replay, Answer, Ends
    <3> QED
      BY <1>1, <3>1
  <2> QED
    BY <1>1, <2>1, <2>2, <2>3
<1>4. ASSUME NEW h \in Handlers, CreateJob(h)
      PROVE  HoldsJob' /\ LostCounts'
  <2>1. created + 1 # NoJob
    BY <1>1 DEF NoJob
  <2> QED
    BY <1>1, <1>4, <2>1 DEF CreateJob, Moves, history
<1>5. ASSUME NEW h \in Handlers, Publish(h) \/ Store(h)
      PROVE  HoldsJob' /\ LostCounts'
  <2>1. lost' = lost /\ job' = job
    BY <1>5 DEF Publish, Store, history
  <2>2. at[h] \in {"publish", "store"} /\ \E to : at' = [at EXCEPT ![h] = to]
    BY <1>5 DEF Publish, Store, Moves
  <2> QED
    BY <1>1, <2>1, <2>2
<1>6. ASSUME NEW h \in Handlers, Lose(h)
      PROVE  HoldsJob' /\ LostCounts'
  <2>1. /\ at' = [at EXCEPT ![h] = "idle"] /\ job' = [job EXCEPT ![h] = NoJob]
        /\ lost' = [lost EXCEPT ![key[h]] = IF at[h] = "store" THEN lost[key[h]] + 1
                                                               ELSE lost[key[h]]]
    BY <1>6 DEF Lose, Ends, Moves
  <2>2. LostCounts'
    BY <1>1, <2>1
  <2> QED
    BY <1>1, <2>1, <2>2
<1> QED
  BY <1>2, <1>3, <1>4, <1>5, <1>6 DEF Next

LEMMA StepKInv == KInv /\ [Next]_vars => KInv'
<1> SUFFICES ASSUME KInv, [Next]_vars PROVE KInv'
  OBVIOUS
<1>1. IInv'
  BY StepKeepsInvariant DEF KInv
<1>2. ASSUME NEW k \in Keys PROVE KeyInv(k)'
  <2>1. CASE Tick \/ UNCHANGED vars
    <3>1. UNCHANGED <<at, key, stored, published, lost, raced>>
      BY <2>1 DEF Tick, vars, handler, history
    <3>2. Early(k)' = Early(k) /\ Publishers(k)' = Publishers(k)
      BY <3>1 DEF Early, Publishers
    <3> QED
      BY <3>1, <3>2, LeavingKeepsKey
  <2>2. ASSUME NEW h \in Handlers,
               \/ \E i \in Keys \cup {NoKey} : Send(h, i)
               \/ Replay(h) \/ Count(h) \/ Expire(h) \/ CheckQueue(h) \/ CreateJob(h)
               \/ Answer(h)
        PROVE  KeyInv(k)'
    BY <2>2, QuietStepsKeepKeys
  <2>3. ASSUME NEW h \in Handlers, Lose(h) PROVE KeyInv(k)'
    BY <2>3, QuietStepsKeepKeys, LossKeepsKeys
  <2>4. ASSUME NEW h \in Handlers, PassKey(h) \/ Publish(h) \/ Store(h) PROVE KeyInv(k)'
    BY <2>4, PassKeepsKeys, PublishKeepsKeys, StoreKeepsKeys
  <2> QED
    BY <2>1, <2>2, <2>3, <2>4 DEF Next
<1> QED
  BY <1>1, <1>2, StepsHoldJobs DEF KInv

(* One Idempotency-Key starts one job, unless a request with the key was   *)
(* looked up before the answer of another was stored, or was lost between  *)
(* apply_async and store_idempotency; and then at most as many as requests *)
(* run at the same time, and one for each such loss.                       *)
THEOREM JobsPerKeyAreBounded == Spec => []JobsPerKeyBounded
<1>1. KInv => JobsPerKeyBounded
  <2> SUFFICES ASSUME KInv, NEW k \in Keys
               PROVE  /\ k \notin raced => Cardinality(published[k]) <= 1
                      /\ Cardinality(published[k]) <= Cardinality(Handlers) + lost[k]
    BY DEF JobsPerKeyBounded
  <2>1. KeyInv(k) /\ lost[k] \in Nat
    BY DEF KInv, LostCounts
  <2>2. Cardinality(published[k]) \in Nat
    BY <2>1, FS_CardinalityType DEF KeyInv, JobsHaveRequests
  <2>3. CASE stored[k] = NoJob
    <3>1. Cardinality(published[k]) <= Cardinality(Publishers(k)) + lost[k]
      BY <2>1, <2>3 DEF KeyInv, JobsHaveRequests
    <3> QED
      BY <2>1, <2>2, <3>1, RequestsAreFinite DEF KeyInv, Unraced
  <2>4. CASE stored[k] # NoJob
    <3>1. Cardinality(published[k]) + Cardinality(Early(k)) <= Cardinality(Handlers) + lost[k]
      BY <2>1, <2>4 DEF KeyInv, JobsHaveRequests
    <3> QED
      BY <2>1, <2>2, <3>1, RequestsAreFinite DEF KeyInv, Unraced
  <2> QED
    BY <2>3, <2>4
<1> QED
  BY <1>1, InitKInv, StepKInv, PTL DEF Spec
=============================================================================
