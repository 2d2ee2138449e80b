----------------------------- MODULE Hitl_proofs -----------------------------
(***************************************************************************)
(* The review holds its promises for every set of reviewers and resuming   *)
(* processes, every Timeout no longer than AnswerTTL and every fallback.   *)
(* The invariant ties each timer to the history that explains it: the life *)
(* of the approval key to the age of the last answer, and both that key    *)
(* and the countdown to the time since the human was asked.                *)
(***************************************************************************)
EXTENDS Hitl, FiniteSetTheorems, TLAPS

Early == {"checkpoint", "webhook", "mark", "schedule"}

(* Before the webhook nobody can answer, before the schedule nobody decides.*)
Order ==
  /\ place = "checkpoint" =>
       /\ given = "none" /\ accepted = 0 /\ waited = 0 /\ mappingTTL = 0
       /\ \A v \in Reviewers : at[v] \in {"idle", "unmapped"}
  /\ place \in Early =>
       /\ resumes = 0
       /\ status \in {"running", "pending_human"}
       /\ \A w \in Resumers : resuming[w] = "none"

(* The approval key holds the last answer as long as that is fresh.        *)
KeyIsFreshAnswer ==
  /\ approval = "none" <=> approvalTTL = 0
  /\ given = "none" => approval \in {"none", "pending"}
  /\ given # "none" =>
       approvalTTL = AnswerTTL - age /\ approval \in {"none", given}

(* The key and the countdown last until Timeout after the question.        *)
Timers ==
  /\ place # "checkpoint" => approvalTTL + waited >= Timeout
  /\ place \notin Early => countdown + waited >= Timeout
  /\ status \in {"done", "rejected"} => waited = Timeout
  /\ \A w \in Resumers : resuming[w] # "none" => waited = Timeout

IInv == TypeOK /\ Order /\ KeyIsFreshAnswer /\ Timers

LEMMA InitIInv == Init => IInv
BY ConstantsAssumption
DEF Init, IInv, TypeOK, Order, KeyIsFreshAnswer, Timers, Places, Verdicts, Early

LEMMA NextIInv == IInv /\ [Next]_vars => IInv'
<1> SUFFICES ASSUME IInv, [Next]_vars PROVE IInv'
  OBVIOUS
<1> USE ConstantsAssumption
    DEF IInv, TypeOK, Order, KeyIsFreshAnswer, Timers, Places, Verdicts, Early,
        job, keys, messages, review, history
<1>1. ASSUME Ask PROVE IInv'
  BY <1>1, AnswerOutlivesWait DEF Ask, GoesTo
<1>2. ASSUME Notify PROVE IInv'
  BY <1>2 DEF Notify, GoesTo
<1>3. ASSUME MarkPending PROVE IInv'
  BY <1>3 DEF MarkPending, GoesTo
<1>4. ASSUME Schedule PROVE IInv'
  BY <1>4 DEF Schedule, GoesTo
<1>5. ASSUME StoreMapping PROVE IInv'
  BY <1>5 DEF StoreMapping, GoesTo
<1>6. ASSUME NEW v \in Reviewers, NEW d \in Verdicts, Check(v, d) PROVE IInv'
  BY <1>6 DEF Check
<1>7. ASSUME NEW v \in Reviewers, NEW d \in Verdicts, FindRequest(v, d) PROVE IInv'
  BY <1>7 DEF FindRequest
<1>8. ASSUME NEW v \in Reviewers, Answer(v) PROVE IInv'
  BY <1>8, AnswerOutlivesWait DEF Answer, StoreAnswer, Confirm, ReviewerGoesTo
<1>9. ASSUME NEW v \in Reviewers, Respond(v) PROVE IInv'
  BY <1>9, AnswerOutlivesWait DEF Respond, StoreAnswer, Confirm, ReviewerGoesTo
<1>10. ASSUME NEW v \in Reviewers, RespondInVain(v) PROVE IInv'
  BY <1>10 DEF RespondInVain, Confirm, ReviewerGoesTo
<1>11. ASSUME NEW w \in Resumers, Resolve(w) PROVE IInv'
  BY <1>11 DEF Resolve, Resolved
<1>12. ASSUME NEW w \in Resumers, Finish(w) PROVE IInv'
  BY <1>12 DEF Finish
<1>13. ASSUME NEW w \in Resumers, LoseResumer(w) PROVE IInv'
  BY <1>13 DEF LoseResumer, Redelivery
<1>14. ASSUME Redeliver PROVE IInv'
  BY <1>14 DEF Redeliver, Redelivery
<1>15. ASSUME Tick PROVE IInv'
  BY <1>15 DEF Tick, Decreased, Increased
<1>16. CASE UNCHANGED vars
  BY <1>16 DEF vars
<1> QED
  BY <1>1, <1>2, <1>3, <1>4, <1>5, <1>6, <1>7, <1>8, <1>9, <1>10, <1>11, <1>12, <1>13,
     <1>14, <1>15, <1>16, Zenon DEF Next, Analysis

LEMMA SpecIInv == Spec => []IInv
BY InitIInv, NextIInv, PTL DEF Spec

(* Every variable keeps its type.                                          *)
THEOREM TypeCorrect == Spec => []TypeOK
BY SpecIInv, PTL DEF IInv

(* Until Timeout after the question, the request can be answered and       *)
(* nothing decides without the human.                                      *)
THEOREM HumanHasTheTime == Spec => []ReviewWindow
<1>1. IInv => ReviewWindow
  BY ConstantsAssumption
  DEF IInv, TypeOK, Order, KeyIsFreshAnswer, Timers, ReviewWindow, Places, Early
<1> QED
  BY <1>1, SpecIInv, PTL

(* resume_hitl_job writes the last answer if it is fresh, and otherwise    *)
(* falls back.                                                             *)
THEOREM FreshAnswersDecide == Spec => OutcomeIsFreshAnswer
<1> DEFINE Decided(w) ==
      resuming[w] = "none" /\ resuming'[w] # "none" =>
        resuming'[w] = IF given # "none" /\ age < AnswerTTL THEN given ELSE Fallback
<1>1. IInv => Resolved = IF given # "none" /\ age < AnswerTTL THEN given ELSE Fallback
  BY ConstantsAssumption DEF IInv, TypeOK, KeyIsFreshAnswer, Resolved, Verdicts
<1>2. ASSUME IInv, [Next]_vars PROVE \A w \in Resumers : Decided(w)
  <2> SUFFICES ASSUME NEW w \in Resumers PROVE Decided(w)
    OBVIOUS
  <2>1. ASSUME NEW x \in Resumers, Resolve(x) PROVE Decided(w)
    BY <1>1, <1>2, <2>1 DEF Resolve, IInv, TypeOK
  <2>2. ASSUME NEW x \in Resumers, Finish(x) \/ LoseResumer(x) PROVE Decided(w)
    BY <1>2, <2>2 DEF Finish, LoseResumer, IInv, TypeOK
  <2>3. ASSUME UNCHANGED resuming PROVE Decided(w)
    BY <2>3
  <2>4. ASSUME Analysis \/ Redeliver \/ Tick PROVE Decided(w)
    BY <2>3, <2>4 DEF Analysis, Ask, Notify, MarkPending, Schedule, StoreMapping,
                      Redeliver, Tick
  <2>5. ASSUME NEW v \in Reviewers,
               \/ \E d \in Verdicts : Check(v, d) \/ FindRequest(v, d)
               \/ Answer(v) \/ Respond(v) \/ RespondInVain(v)
        PROVE  Decided(w)
    BY <2>3, <2>5 DEF Check, FindRequest, Answer, Respond, RespondInVain
  <2>6. ASSUME UNCHANGED vars PROVE Decided(w)
    BY <2>3, <2>6 DEF vars
  <2> HIDE DEF Decided
  <2> QED
    BY <1>2, <2>1, <2>2, <2>4, <2>5, <2>6, Zenon DEF Next
<1> QED
  BY <1>2, SpecIInv, PTL DEF Spec, OutcomeIsFreshAnswer

------------------------------------------------------------------------------
(* The outcome                                                             *)

FallbackStatus == IF Fallback = "approved" THEN "done" ELSE "rejected"

(* Without a redelivery there is one message, or one process that executes *)
(* it, or an outcome; without an answer there is one possible outcome.     *)
OneDecision ==
  /\ redeliveries = 0 =>
       /\ resumes <= 1
       /\ resumes = 1 => status \notin Final /\ \A w \in Resumers : resuming[w] = "none"
       /\ status \in Final => \A w \in Resumers : resuming[w] = "none"
       /\ \A w, x \in Resumers : resuming[w] # "none" /\ resuming[x] # "none" => w = x
  /\ given = "none" =>
       /\ \A w \in Resumers : resuming[w] \in {"none", Fallback}
       /\ status \in Final => status = FallbackStatus

LEMMA OneDecisionNext == IInv /\ OneDecision /\ [Next]_vars => OneDecision'
<1> SUFFICES ASSUME IInv, OneDecision, [Next]_vars PROVE OneDecision'
  OBVIOUS
<1> USE DEF OneDecision, IInv, TypeOK, Verdicts, Final, FallbackStatus, job, keys, messages,
            review, history
<1>1. ASSUME Ask \/ Notify \/ MarkPending \/ StoreMapping PROVE OneDecision'
  BY <1>1 DEF Ask, Notify, MarkPending, StoreMapping, Order, Early
<1>2. ASSUME Schedule PROVE OneDecision'
  BY <1>2 DEF Schedule, Order, Early
<1>3. ASSUME NEW v \in Reviewers,
             \/ \E d \in Verdicts : Check(v, d) \/ FindRequest(v, d)
             \/ RespondInVain(v)
      PROVE  OneDecision'
  BY <1>3 DEF Check, FindRequest, RespondInVain
<1>4. ASSUME NEW v \in Reviewers, Answer(v) \/ Respond(v) PROVE OneDecision'
  BY <1>4 DEF Answer, Respond, StoreAnswer
<1>5. ASSUME NEW w \in Resumers, Resolve(w) PROVE OneDecision'
  <2>1. given = "none" => Resolved = Fallback
    BY DEF KeyIsFreshAnswer, Resolved
  <2> QED
    BY <1>5, <2>1 DEF Resolve
<1>6. ASSUME NEW w \in Resumers, Finish(w) PROVE OneDecision'
  BY <1>6 DEF Finish
<1>7. ASSUME NEW w \in Resumers, LoseResumer(w) PROVE OneDecision'
  BY <1>7 DEF LoseResumer, Redelivery
<1>8. ASSUME Redeliver PROVE OneDecision'
  BY <1>8 DEF Redeliver, Redelivery
<1>9. ASSUME Tick PROVE OneDecision'
  BY <1>9 DEF Tick
<1>10. CASE UNCHANGED vars
  BY <1>10 DEF vars
<1> QED
  BY <1>1, <1>2, <1>3, <1>4, <1>5, <1>6, <1>7, <1>8, <1>9, <1>10, Zenon DEF Next, Analysis

(* Delivered once, or never answered, a review keeps its outcome.          *)
THEOREM OutcomesStand == Spec => OutcomeStands
<1> DEFINE Stands ==
      (status \in Final /\ status' # status) => redeliveries > 0 /\ given # "none"
<1>1. ASSUME IInv, OneDecision, [Next]_vars PROVE Stands
  <2> USE <1>1 DEF OneDecision, IInv, TypeOK, Verdicts, Final, FallbackStatus, job, keys,
                   messages, review, history
  <2>1. ASSUME NEW w \in Resumers, Finish(w) PROVE Stands
    BY <2>1 DEF Finish
  <2>2. ASSUME UNCHANGED status PROVE Stands
    BY <2>2
  <2>3. ASSUME MarkPending PROVE Stands
    BY <2>3 DEF MarkPending, Order, Early
  <2>4. ASSUME \/ Ask \/ Notify \/ Schedule \/ StoreMapping \/ Redeliver \/ Tick
               \/ \E w \in Resumers : Resolve(w) \/ LoseResumer(w)
        PROVE  Stands
    BY <2>2, <2>4 DEF Ask, Notify, Schedule, StoreMapping, Redeliver, Tick, Resolve, LoseResumer
  <2>5. ASSUME NEW v \in Reviewers,
               \/ \E d \in Verdicts : Check(v, d) \/ FindRequest(v, d)
               \/ Answer(v) \/ Respond(v) \/ RespondInVain(v)
        PROVE  Stands
    BY <2>2, <2>5 DEF Check, FindRequest, Answer, Respond, RespondInVain
  <2>6. ASSUME UNCHANGED vars PROVE Stands
    BY <2>2, <2>6 DEF vars
  <2> HIDE DEF Stands
  <2> QED
    BY <1>1, <2>1, <2>3, <2>4, <2>5, <2>6, Zenon DEF Next, Analysis
<1>2. Init => OneDecision
  BY DEF Init, OneDecision, Final
<1>3. Spec => []OneDecision
  BY <1>2, SpecIInv, OneDecisionNext, PTL DEF Spec
<1> QED
  BY <1>1, <1>3, SpecIInv, PTL DEF Spec, OutcomeStands

------------------------------------------------------------------------------
(* Answers through approve and reject                                      *)

Checked == {v \in Reviewers : at[v] = "checked"}

(* Once an answer is accepted the key is never "pending" again, and only   *)
(* the requests past their check can add to the count.                     *)
Counted ==
  accepted = 0 \/ (approval # "pending" /\ accepted + Cardinality(Checked) <= Cardinality(Reviewers))

(* One request less, or no request more.                                   *)
LEMMA CheckedSizes ==
  ASSUME NEW S \in SUBSET Reviewers
  PROVE  /\ Cardinality(Reviewers) \in Nat /\ Cardinality(S) \in Nat
         /\ Cardinality(S) <= Cardinality(Reviewers)
         /\ \A v \in S : Cardinality(S \ {v}) = Cardinality(S) - 1
         /\ \A T \in SUBSET S : Cardinality(T) \in Nat /\ Cardinality(T) <= Cardinality(S)
<1>1. IsFiniteSet(Reviewers) /\ IsFiniteSet(S)
  BY ConstantsAssumption, FS_Subset
<1>2. \A v \in S : Cardinality(S \ {v}) = Cardinality(S) - 1
  BY <1>1, FS_RemoveElement
<1>3. \A T \in SUBSET S : Cardinality(T) \in Nat /\ Cardinality(T) <= Cardinality(S)
  BY <1>1, FS_Subset, FS_CardinalityType
<1> QED
  BY <1>1, <1>2, <1>3, FS_Subset, FS_CardinalityType

(* A step accepts the answer of a request past its check; or lets a request *)
(* pass while the key is pending; or does neither and does not make the key *)
(* pending again.                                                          *)
LEMMA CountingSteps ==
  ASSUME IInv, [Next]_vars
  PROVE  \/ \E v \in Checked :
              /\ accepted' = accepted + 1 /\ approval' # "pending"
              /\ Checked' = Checked \ {v}
         \/ approval = "pending" /\ UNCHANGED <<accepted, approval>>
         \/ accepted' = 0
         \/ /\ UNCHANGED accepted /\ Checked' \subseteq Checked
            /\ approval' = "pending" => approval = "pending"
<1> DEFINE Accepts == \E v \in Checked :
             /\ accepted' = accepted + 1 /\ approval' # "pending"
             /\ Checked' = Checked \ {v}
           Passes == approval = "pending" /\ UNCHANGED <<accepted, approval>>
           Keeps == /\ UNCHANGED accepted /\ Checked' \subseteq Checked
                    /\ approval' = "pending" => approval = "pending"
           Claim == Accepts \/ Passes \/ accepted' = 0 \/ Keeps
<1> USE DEF IInv, TypeOK, Verdicts, job, keys, messages, review, history, Checked
<1>1. ASSUME Ask PROVE Claim
  BY <1>1 DEF Ask, Order
<1>2. ASSUME Notify \/ MarkPending \/ Schedule \/ StoreMapping \/ Redeliver PROVE Claim
  BY <1>2 DEF Notify, MarkPending, Schedule, StoreMapping, Redeliver
<1>3. ASSUME Tick PROVE Claim
  BY <1>3 DEF Tick
<1>4. ASSUME NEW w \in Resumers, Resolve(w) \/ Finish(w) \/ LoseResumer(w) PROVE Claim
  BY <1>4 DEF Resolve, Finish, LoseResumer
<1>5. ASSUME NEW v \in Reviewers, NEW d \in Verdicts, Check(v, d) PROVE Claim
  BY <1>5 DEF Check
<1>6. ASSUME NEW v \in Reviewers, NEW d \in Verdicts, FindRequest(v, d) PROVE Claim
  BY <1>6 DEF FindRequest
<1>7. ASSUME NEW v \in Reviewers, Answer(v) PROVE Claim
  BY <1>7 DEF Answer, StoreAnswer, Confirm, ReviewerGoesTo
<1>8. ASSUME NEW v \in Reviewers, Respond(v) PROVE Claim
  BY <1>8 DEF Respond, StoreAnswer, Confirm, ReviewerGoesTo
<1>9. ASSUME NEW v \in Reviewers, RespondInVain(v) PROVE Claim
  BY <1>9 DEF RespondInVain, Confirm, ReviewerGoesTo
<1>10. ASSUME UNCHANGED vars PROVE Claim
  BY <1>10 DEF vars
<1> HIDE DEF Claim
<1>11. Claim
  BY <1>1, <1>2, <1>3, <1>4, <1>5, <1>6, <1>7, <1>8, <1>9, <1>10, Zenon DEF Next, Analysis
<1> QED
  BY <1>11 DEF Claim

LEMMA CountedNext == IInv /\ Counted /\ [Next]_vars => Counted'
<1> SUFFICES ASSUME IInv, Counted, [Next]_vars PROVE Counted'
  OBVIOUS
<1>1. Checked \in SUBSET Reviewers /\ accepted \in Nat
  BY DEF Checked, IInv, TypeOK
<1>2. CASE \E v \in Checked :
             /\ accepted' = accepted + 1 /\ approval' # "pending"
             /\ Checked' = Checked \ {v}
  <2>1. PICK v \in Checked :
           /\ accepted' = accepted + 1 /\ approval' # "pending"
           /\ Checked' = Checked \ {v}
    BY <1>2
  <2>2. /\ Cardinality(Checked') = Cardinality(Checked) - 1
        /\ Cardinality(Checked) \in Nat /\ Cardinality(Reviewers) \in Nat
        /\ Cardinality(Checked) <= Cardinality(Reviewers)
    BY <1>1, <2>1, CheckedSizes
  <2> QED
    BY <1>1, <2>1, <2>2 DEF Counted
<1>3. CASE approval = "pending" /\ UNCHANGED <<accepted, approval>>
  BY <1>3 DEF Counted
<1>4. CASE accepted' = 0
  BY <1>4 DEF Counted
<1>5. CASE /\ UNCHANGED accepted /\ Checked' \subseteq Checked
           /\ approval' = "pending" => approval = "pending"
  <2>1. /\ Cardinality(Checked') \in Nat /\ Cardinality(Checked) \in Nat
        /\ Cardinality(Checked') <= Cardinality(Checked)
        /\ Cardinality(Reviewers) \in Nat
    BY <1>1, <1>5, CheckedSizes
  <2> QED
    BY <1>1, <1>5, <2>1 DEF Counted
<1> QED
  BY <1>2, <1>3, <1>4, <1>5, CountingSteps

(* At most one answer of each concurrent request is accepted.              *)
THEOREM AnswersAreBounded == Spec => []AcceptedBounded
<1>1. Init => Counted
  BY DEF Init, Counted
<1>2. Spec => []Counted
  BY <1>1, SpecIInv, CountedNext, PTL DEF Spec
<1>3. IInv /\ Counted => AcceptedBounded
  <2> SUFFICES ASSUME IInv, Counted PROVE AcceptedBounded
    OBVIOUS
  <2>1. /\ Cardinality(Checked) \in Nat /\ Cardinality(Reviewers) \in Nat
        /\ accepted \in Nat
    BY CheckedSizes DEF Checked, IInv, TypeOK
  <2> QED
    BY <2>1 DEF Counted, AcceptedBounded
<1> QED
  BY <1>2, <1>3, SpecIInv, PTL
==============================================================================
