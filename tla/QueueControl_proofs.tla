------------------------ MODULE QueueControl_proofs ------------------------
(***************************************************************************)
(* Type correctness of QueueControl, how far its counters can leave the    *)
(* range 0..limit, and that the global one stays within the jobs under     *)
(* way, for any number of tenants, requests and workers, with retries,     *)
(* lost processes and expired keys.                                        *)
(***************************************************************************)
EXTENDS QueueControl, FiniteSetTheorems, TLAPS

(* A request that is being handled and a task that is running know their   *)
(* tenant.                                                                 *)
Assigned ==
  /\ \A h \in Handlers : apiAt[h] # "idle" => apiTenant[h] \in Tenants
  /\ \A w \in Workers : at[w] # "idle" => task[w] \in Tenants

Typed == TypeOK /\ Assigned

LEMMA TypeInit == Init => Typed
BY BoundsAssumption, TenantsAssumption DEF Init, Typed, Assigned, TypeOK, ApiPlaces, Places

LEMMA TypeNext == Typed /\ [Next]_vars => Typed'
<1> SUFFICES ASSUME Typed, [Next]_vars PROVE Typed'
  OBVIOUS
<1> USE DEF Typed, Assigned, TypeOK, counters, api, broker, worker, bounds, history
<1>1. ASSUME NEW h \in Handlers, NEW t \in Tenants, PassGlobal(h, t) PROVE Typed'
  BY <1>1, BoundsAssumption DEF PassGlobal, ApiPlaces
<1>2. ASSUME NEW h \in Handlers, PassTenant(h) PROVE Typed'
  BY <1>2 DEF PassTenant, HandlerAt, HandlerGoesTo, ApiPlaces
<1>3. ASSUME NEW h \in Handlers, RefuseTenant(h) PROVE Typed'
  BY <1>3 DEF RefuseTenant, HandlerAt, HandlerEnds, ApiPlaces
<1>4. ASSUME NEW h \in Handlers, IncrementGlobal(h) PROVE Typed'
  BY <1>4 DEF IncrementGlobal, HandlerAt, HandlerGoesTo, ApiPlaces
<1>5. ASSUME NEW h \in Handlers, IncrementTenant(h) PROVE Typed'
  BY <1>5 DEF IncrementTenant, HandlerAt, HandlerGoesTo, ApiPlaces, Touched
<1>6. ASSUME NEW h \in Handlers, SetTTL(h) PROVE Typed'
  BY <1>6 DEF SetTTL, HandlerAt, HandlerGoesTo, ApiPlaces
<1>7. ASSUME NEW h \in Handlers, Publish(h) PROVE Typed'
  BY <1>7 DEF Publish, HandlerAt, HandlerEnds, ApiPlaces
<1>8. ASSUME NEW h \in Handlers, LoseHandler(h) PROVE Typed'
  BY <1>8, BoundsAssumption DEF LoseHandler, Fault, HandlerAt, HandlerEnds, ApiPlaces
<1>9. ASSUME NEW t \in Tenants, RetryJob(t) PROVE Typed'
  BY <1>9, BoundsAssumption DEF RetryJob, Retry
<1>10. ASSUME NEW w \in Workers, NEW t \in Tenants, Receive(w, t) PROVE Typed'
  BY <1>10 DEF Receive, Places
<1>11. ASSUME NEW w \in Workers, Finish(w) PROVE Typed'
  BY <1>11 DEF Finish, At, GoTo, Places
<1>12. ASSUME NEW w \in Workers, FailAndRetry(w) PROVE Typed'
  BY <1>12, BoundsAssumption DEF FailAndRetry, Retry, At, GoTo, Places
<1>13. ASSUME NEW w \in Workers, FailForGood(w) PROVE Typed'
  BY <1>13 DEF FailForGood, At, GoTo, Places
<1>14. ASSUME NEW w \in Workers, GetGlobal(w) PROVE Typed'
  BY <1>14 DEF GetGlobal, At, GoTo, Places
<1>15. ASSUME NEW w \in Workers, DecrementGlobal(w) PROVE Typed'
  BY <1>15 DEF DecrementGlobal, At, GoTo, Places
<1>16. ASSUME NEW w \in Workers, GetTenant(w) PROVE Typed'
  BY <1>16 DEF GetTenant, At, GoTo, TaskEnds, Places
<1>17. ASSUME NEW w \in Workers, DecrementTenant(w) PROVE Typed'
  BY <1>17 DEF DecrementTenant, At, TaskEnds, Places, Touched
<1>18. ASSUME NEW w \in Workers, AbortTask(w) PROVE Typed'
  BY <1>18, BoundsAssumption DEF AbortTask, At, Fault, TaskEnds, Places
<1>19. ASSUME NEW w \in Workers, LoseWorker(w) PROVE Typed'
  BY <1>19, BoundsAssumption DEF LoseWorker, At, Fault, TaskEnds, Places
<1>20. ASSUME NEW t \in Tenants, ExpireTenant(t) PROVE Typed'
  BY <1>20 DEF ExpireTenant
<1>21. ASSUME NEW t \in Tenants, Skip(t) PROVE Typed'
  BY <1>21 DEF Skip
<1>22. ASSUME NEW t \in Tenants, ExpireLock(t) PROVE Typed'
  BY <1>22 DEF ExpireLock
<1>23. CASE UNCHANGED vars
  BY <1>23 DEF vars
<1> QED
  BY <1>1, <1>2, <1>3, <1>4, <1>5, <1>6, <1>7, <1>8, <1>9, <1>10, <1>11, <1>12,
     <1>13, <1>14, <1>15, <1>16, <1>17, <1>18, <1>19, <1>20, <1>21, <1>22, <1>23, Zenon
  DEF Next, ContinueRequest, ContinueTask

(* Every variable keeps its type.                                          *)
THEOREM TypeCorrect == Spec => []TypeOK
<1>1. Typed => TypeOK
  BY DEF Typed
<1> QED
  BY <1>1, TypeInit, TypeNext, PTL DEF Spec

------------------------------------------------------------------------------
(* Sizes of sets of processes                                              *)

(* A process joins or leaves a set of processes.                           *)
LEMMA SizeChanges ==
  ASSUME NEW P, IsFiniteSet(P), NEW S \in SUBSET P, NEW x \in P
  PROVE  /\ Cardinality(P) \in Nat /\ Cardinality(S) \in Nat
         /\ Cardinality(S) <= Cardinality(P)
         /\ Cardinality(S \cup {x}) \in Nat
         /\ Cardinality(S \cup {x}) <= Cardinality(P)
         /\ Cardinality(S \cup {x}) <= Cardinality(S) + 1
         /\ Cardinality(S \ {x}) \in Nat
         /\ Cardinality(S \ {x}) <= Cardinality(S)
         /\ x \in S => Cardinality(S \ {x}) = Cardinality(S) - 1
<1>1. IsFiniteSet(S) /\ Cardinality(S) <= Cardinality(P)
  BY FS_Subset
<1>2. S \cup {x} \in SUBSET P /\ S \ {x} \in SUBSET P
  OBVIOUS
<1>3. Cardinality(S \cup {x}) <= Cardinality(P) /\ IsFiniteSet(S \cup {x})
  BY <1>2, FS_Subset
<1>4. /\ Cardinality(S \cup {x}) = IF x \in S THEN Cardinality(S) ELSE Cardinality(S) + 1
      /\ Cardinality(S \ {x}) = IF x \in S THEN Cardinality(S) - 1 ELSE Cardinality(S)
      /\ IsFiniteSet(S \ {x})
  BY <1>1, FS_AddElement, FS_RemoveElement
<1>5. /\ Cardinality(P) \in Nat /\ Cardinality(S) \in Nat
      /\ Cardinality(S \cup {x}) \in Nat /\ Cardinality(S \ {x}) \in Nat
  BY <1>1, <1>3, <1>4, FS_CardinalityType
<1> QED
  BY <1>1, <1>3, <1>4, <1>5

LEMMA SizeInit ==
  /\ Cardinality({}) = 0
  /\ Cardinality(Handlers) \in Nat \ {0}
  /\ Cardinality(Workers) \in Nat \ {0}
BY FiniteProcesses, FS_EmptySet, FS_CardinalityType

------------------------------------------------------------------------------
(* The global counter from above                                           *)

(* Requests that passed the global check and have not incremented yet.     *)
Admitted == {h \in Handlers : apiAt[h] \in {"checkTenant", "incrGlobal"}}

(* Each of them has found the counter below the limit, and all requests    *)
(* but one may have: the room left is theirs.                              *)
GlobalRoom == globalDepth + Cardinality(Admitted) <= MaxQueue + Cardinality(Handlers) - 1

(* The steps that matter: a request is admitted, a request leaves the set  *)
(* after its increment or without one, the counter does not grow.          *)
LEMMA AdmittedSteps ==
  ASSUME Typed, [Next]_vars
  PROVE  \/ \E h \in Handlers : /\ globalDepth < MaxQueue
                                /\ Admitted' = Admitted \cup {h}
                                /\ globalDepth' = globalDepth
         \/ \E h \in Handlers : /\ h \in Admitted
                                /\ Admitted' = Admitted \ {h}
                                /\ globalDepth' = globalDepth + 1
         \/ \E h \in Handlers : /\ Admitted' = Admitted \ {h}
                                /\ globalDepth' = globalDepth
         \/ /\ Admitted' = Admitted
            /\ globalDepth' \in {globalDepth, globalDepth - 1}
<1> USE DEF Typed, TypeOK, Admitted
<1> DEFINE Passes(h) == /\ globalDepth < MaxQueue
                        /\ Admitted' = Admitted \cup {h}
                        /\ globalDepth' = globalDepth
           Counts(h) == /\ h \in Admitted
                        /\ Admitted' = Admitted \ {h}
                        /\ globalDepth' = globalDepth + 1
           Gives(h)  == Admitted' = Admitted \ {h} /\ globalDepth' = globalDepth
           Keeps     == /\ Admitted' = Admitted
                        /\ globalDepth' \in {globalDepth, globalDepth - 1}
<1>1. ASSUME NEW h \in Handlers, NEW t \in Tenants, PassGlobal(h, t) PROVE Passes(h)
  BY <1>1 DEF PassGlobal, HandlerAt, counters
<1>2. ASSUME NEW h \in Handlers, PassTenant(h) PROVE Keeps
  BY <1>2 DEF PassTenant, HandlerAt, HandlerGoesTo, counters
<1>3. ASSUME NEW h \in Handlers, RefuseTenant(h) PROVE Gives(h)
  BY <1>3 DEF RefuseTenant, HandlerAt, HandlerEnds, counters
<1>4. ASSUME NEW h \in Handlers, IncrementGlobal(h) PROVE Counts(h)
  BY <1>4 DEF IncrementGlobal, HandlerAt, HandlerGoesTo
<1>5. ASSUME NEW h \in Handlers, IncrementTenant(h) \/ SetTTL(h) \/ Publish(h) PROVE Keeps
  BY <1>5 DEF IncrementTenant, SetTTL, Publish, HandlerAt, HandlerGoesTo, HandlerEnds,
              counters
<1>6. ASSUME NEW h \in Handlers, LoseHandler(h) PROVE Gives(h)
  BY <1>6 DEF LoseHandler, HandlerAt, HandlerEnds, counters
<1>7. ASSUME NEW w \in Workers, DecrementGlobal(w) PROVE Keeps
  BY <1>7 DEF DecrementGlobal, api
<1>8. ASSUME NEW w \in Workers,
             \/ Finish(w) \/ FailAndRetry(w) \/ FailForGood(w) \/ GetGlobal(w)
             \/ GetTenant(w) \/ DecrementTenant(w) \/ AbortTask(w) \/ LoseWorker(w)
      PROVE  Keeps
  BY <1>8 DEF Finish, FailAndRetry, FailForGood, GetGlobal, GetTenant, DecrementTenant,
              AbortTask, LoseWorker, counters, api
<1>9. ASSUME NEW t \in Tenants,
             \/ RetryJob(t) \/ ExpireTenant(t) \/ Skip(t) \/ ExpireLock(t)
             \/ \E w \in Workers : Receive(w, t)
      PROVE  Keeps
  BY <1>9 DEF RetryJob, ExpireTenant, Skip, ExpireLock, Receive, counters, api
<1>10. CASE UNCHANGED vars
  BY <1>10 DEF vars, counters, api
<1> HIDE DEF Typed, TypeOK, Admitted, Passes, Counts, Gives, Keeps
<1>11. ASSUME NEW h \in Handlers,
              ContinueRequest(h) \/ LoseHandler(h) \/ \E t \in Tenants : PassGlobal(h, t)
       PROVE  Passes(h) \/ Counts(h) \/ Gives(h) \/ Keeps
  BY <1>1, <1>2, <1>3, <1>4, <1>5, <1>6, <1>11, Zenon DEF ContinueRequest
<1>12. ASSUME NEW w \in Workers,
              \/ ContinueTask(w) \/ AbortTask(w) \/ LoseWorker(w)
              \/ \E t \in Tenants : Receive(w, t)
       PROVE  Keeps
  BY <1>7, <1>8, <1>9, <1>12, Zenon DEF ContinueTask
<1>13. CASE \E h \in Handlers :
              ContinueRequest(h) \/ LoseHandler(h) \/ \E t \in Tenants : PassGlobal(h, t)
  BY <1>11, <1>13, Zenon DEF Passes, Counts, Gives, Keeps
<1>14. CASE \E w \in Workers :
              \/ ContinueTask(w) \/ AbortTask(w) \/ LoseWorker(w)
              \/ \E t \in Tenants : Receive(w, t)
  BY <1>12, <1>14, Zenon DEF Keeps
<1>15. CASE \E t \in Tenants : RetryJob(t) \/ ExpireTenant(t) \/ Skip(t) \/ ExpireLock(t)
  BY <1>9, <1>15, Zenon DEF Keeps
<1>16. CASE UNCHANGED vars
  BY <1>10, <1>16, Zenon DEF Keeps
<1> QED
  BY <1>13, <1>14, <1>15, <1>16, Zenon DEF Next

LEMMA GlobalRoomInit == Init => GlobalRoom
<1> SUFFICES ASSUME Init PROVE GlobalRoom
  OBVIOUS
<1>1. Admitted = {}
  BY DEF Init, Admitted
<1> QED
  BY <1>1, SizeInit, LimitsAssumption DEF Init, GlobalRoom

LEMMA GlobalRoomNext == Typed /\ GlobalRoom /\ [Next]_vars => GlobalRoom'
<1> SUFFICES ASSUME Typed, GlobalRoom, [Next]_vars PROVE GlobalRoom'
  OBVIOUS
<1> DEFINE Room(n, S) == n + Cardinality(S) <= MaxQueue + Cardinality(Handlers) - 1
<1>1. Room(globalDepth, Admitted) /\ globalDepth \in Int /\ Admitted \in SUBSET Handlers
  BY DEF GlobalRoom, Typed, TypeOK, Admitted
<1>2. ASSUME NEW h \in Handlers, globalDepth < MaxQueue
      PROVE  Room(globalDepth, Admitted \cup {h})
  <2>1. /\ Cardinality(Admitted \cup {h}) \in Nat /\ Cardinality(Handlers) \in Nat
        /\ Cardinality(Admitted \cup {h}) <= Cardinality(Handlers)
    BY <1>1, SizeChanges, FiniteProcesses
  <2> QED
    BY <1>1, <1>2, <2>1, LimitsAssumption
<1>3. ASSUME NEW h \in Handlers
      PROVE  /\ Room(globalDepth, Admitted \ {h})
             /\ h \in Admitted => Room(globalDepth + 1, Admitted \ {h})
  <2>1. /\ Cardinality(Handlers) \in Nat /\ Cardinality(Admitted) \in Nat
        /\ Cardinality(Admitted \ {h}) \in Nat
        /\ Cardinality(Admitted \ {h}) <= Cardinality(Admitted)
        /\ h \in Admitted => Cardinality(Admitted \ {h}) = Cardinality(Admitted) - 1
    BY <1>1, SizeChanges, FiniteProcesses
  <2> QED
    BY <1>1, <2>1, LimitsAssumption
<1>4. Room(globalDepth - 1, Admitted)
  <2>1. Cardinality(Admitted) \in Nat /\ Cardinality(Handlers) \in Nat
    BY <1>1, SizeInit, FiniteProcesses, FS_Subset, FS_CardinalityType
  <2> QED
    BY <1>1, <2>1, LimitsAssumption
<1>5. Room(globalDepth', Admitted')
  <2> HIDE DEF Room
  <2> QED
    BY AdmittedSteps, <1>1, <1>2, <1>3, <1>4
<1> QED
  BY <1>5 DEF GlobalRoom

------------------------------------------------------------------------------
(* A tenant's counter from above                                           *)

(* Requests of the tenant that passed its check and have not incremented.  *)
Accepted(t) ==
  {h \in Handlers : apiAt[h] \in {"incrGlobal", "incrTenant"} /\ apiTenant[h] = t}

TenantRoom(t) ==
  tenantDepth[t] + Cardinality(Accepted(t)) <= MaxTenantQueue + Cardinality(Handlers) - 1

(* As AdmittedSteps; besides, the key may expire.                          *)
LEMMA AcceptedSteps ==
  ASSUME Typed, [Next]_vars, NEW t \in Tenants
  PROVE  \/ \E h \in Handlers : /\ tenantDepth[t] < MaxTenantQueue
                                /\ Accepted(t)' = Accepted(t) \cup {h}
                                /\ tenantDepth'[t] = tenantDepth[t]
         \/ \E h \in Handlers : /\ h \in Accepted(t)
                                /\ Accepted(t)' = Accepted(t) \ {h}
                                /\ tenantDepth'[t] = tenantDepth[t] + 1
         \/ \E h \in Handlers : /\ Accepted(t)' = Accepted(t) \ {h}
                                /\ tenantDepth'[t] = tenantDepth[t]
         \/ /\ Accepted(t)' = Accepted(t)
            /\ tenantDepth'[t] \in {0, tenantDepth[t], tenantDepth[t] - 1}
<1> USE DEF Typed, Assigned, TypeOK, Accepted
<1> DEFINE Passes(h) == /\ tenantDepth[t] < MaxTenantQueue
                        /\ Accepted(t)' = Accepted(t) \cup {h}
                        /\ tenantDepth'[t] = tenantDepth[t]
           Counts(h) == /\ h \in Accepted(t)
                        /\ Accepted(t)' = Accepted(t) \ {h}
                        /\ tenantDepth'[t] = tenantDepth[t] + 1
           Gives(h)  == /\ Accepted(t)' = Accepted(t) \ {h}
                        /\ tenantDepth'[t] = tenantDepth[t]
           Keeps     == /\ Accepted(t)' = Accepted(t)
                        /\ tenantDepth'[t] \in {0, tenantDepth[t], tenantDepth[t] - 1}
<1>1. ASSUME NEW h \in Handlers, NEW u \in Tenants, PassGlobal(h, u) PROVE Keeps
  BY <1>1 DEF PassGlobal, HandlerAt, counters
<1>2. ASSUME NEW h \in Handlers, PassTenant(h) PROVE Passes(h) \/ Keeps
  <2>1. CASE apiTenant[h] = t
    BY <1>2, <2>1 DEF PassTenant, HandlerAt, HandlerGoesTo, counters
  <2>2. CASE apiTenant[h] # t
    BY <1>2, <2>2 DEF PassTenant, HandlerAt, HandlerGoesTo, counters
  <2> QED
    BY <2>1, <2>2
<1>3. ASSUME NEW h \in Handlers, RefuseTenant(h) PROVE Keeps
  BY <1>3 DEF RefuseTenant, HandlerAt, HandlerEnds, counters
<1>4. ASSUME NEW h \in Handlers, IncrementGlobal(h) PROVE Keeps
  BY <1>4 DEF IncrementGlobal, HandlerAt, HandlerGoesTo
<1>5. ASSUME NEW h \in Handlers, IncrementTenant(h) PROVE Counts(h) \/ Keeps
  <2>1. CASE apiTenant[h] = t
    BY <1>5, <2>1 DEF IncrementTenant, HandlerAt, HandlerGoesTo
  <2>2. CASE apiTenant[h] # t
    BY <1>5, <2>2 DEF IncrementTenant, HandlerAt, HandlerGoesTo
  <2> QED
    BY <2>1, <2>2
<1>6. ASSUME NEW h \in Handlers, SetTTL(h) \/ Publish(h) PROVE Keeps
  BY <1>6 DEF SetTTL, Publish, HandlerAt, HandlerGoesTo, HandlerEnds, counters
<1>7. ASSUME NEW h \in Handlers, LoseHandler(h) PROVE Gives(h)
  BY <1>7 DEF LoseHandler, HandlerAt, HandlerEnds, counters
<1>8. ASSUME NEW w \in Workers, DecrementTenant(w) PROVE Keeps
  BY <1>8 DEF DecrementTenant, At, api
<1>9. ASSUME NEW w \in Workers,
             \/ Finish(w) \/ FailAndRetry(w) \/ FailForGood(w) \/ GetGlobal(w)
             \/ DecrementGlobal(w) \/ GetTenant(w) \/ AbortTask(w) \/ LoseWorker(w)
      PROVE  Keeps
  BY <1>9 DEF Finish, FailAndRetry, FailForGood, GetGlobal, DecrementGlobal, GetTenant,
              AbortTask, LoseWorker, counters, api
<1>10. ASSUME NEW u \in Tenants, ExpireTenant(u) PROVE Keeps
  BY <1>10 DEF ExpireTenant, api
<1>11. ASSUME NEW u \in Tenants,
              \/ RetryJob(u) \/ Skip(u) \/ ExpireLock(u)
              \/ \E w \in Workers : Receive(w, u)
       PROVE  Keeps
  BY <1>11 DEF RetryJob, Skip, ExpireLock, Receive, counters, api
<1>12. CASE UNCHANGED vars
  BY <1>12 DEF vars, counters, api
<1> HIDE DEF Typed, Assigned, TypeOK, Accepted, Passes, Counts, Gives, Keeps
<1>13. ASSUME NEW h \in Handlers,
              ContinueRequest(h) \/ LoseHandler(h) \/ \E u \in Tenants : PassGlobal(h, u)
       PROVE  Passes(h) \/ Counts(h) \/ Gives(h) \/ Keeps
  BY <1>1, <1>2, <1>3, <1>4, <1>5, <1>6, <1>7, <1>13, Zenon DEF ContinueRequest
<1>14. ASSUME NEW w \in Workers,
              \/ ContinueTask(w) \/ AbortTask(w) \/ LoseWorker(w)
              \/ \E u \in Tenants : Receive(w, u)
       PROVE  Keeps
  BY <1>8, <1>9, <1>11, <1>14, Zenon DEF ContinueTask
<1>15. CASE \E h \in Handlers :
              ContinueRequest(h) \/ LoseHandler(h) \/ \E u \in Tenants : PassGlobal(h, u)
  BY <1>13, <1>15, Zenon DEF Passes, Counts, Gives, Keeps
<1>16. CASE \E w \in Workers :
              \/ ContinueTask(w) \/ AbortTask(w) \/ LoseWorker(w)
              \/ \E u \in Tenants : Receive(w, u)
  BY <1>14, <1>16, Zenon DEF Keeps
<1>17. CASE \E u \in Tenants : RetryJob(u) \/ ExpireTenant(u) \/ Skip(u) \/ ExpireLock(u)
  BY <1>10, <1>11, <1>17, Zenon DEF Keeps
<1> QED
  BY <1>12, <1>15, <1>16, <1>17, Zenon DEF Next, Keeps

LEMMA TenantRoomInit == Init => \A t \in Tenants : TenantRoom(t)
<1> SUFFICES ASSUME Init, NEW t \in Tenants PROVE TenantRoom(t)
  OBVIOUS
<1>1. Accepted(t) = {}
  BY DEF Init, Accepted
<1> QED
  BY <1>1, SizeInit, LimitsAssumption DEF Init, TenantRoom

LEMMA TenantRoomNext ==
  Typed /\ (\A t \in Tenants : TenantRoom(t)) /\ [Next]_vars
    => (\A t \in Tenants : TenantRoom(t))'
<1> SUFFICES ASSUME Typed, [Next]_vars, NEW t \in Tenants, TenantRoom(t)
             PROVE  TenantRoom(t)'
  OBVIOUS
<1> DEFINE Room(n, S) == n + Cardinality(S) <= MaxTenantQueue + Cardinality(Handlers) - 1
           d == tenantDepth[t]
<1>1. Room(d, Accepted(t)) /\ d \in Int /\ Accepted(t) \in SUBSET Handlers
  BY DEF TenantRoom, Typed, TypeOK, Accepted
<1>2. ASSUME NEW h \in Handlers, d < MaxTenantQueue
      PROVE  Room(d, Accepted(t) \cup {h})
  <2>1. /\ Cardinality(Accepted(t) \cup {h}) \in Nat /\ Cardinality(Handlers) \in Nat
        /\ Cardinality(Accepted(t) \cup {h}) <= Cardinality(Handlers)
    BY <1>1, SizeChanges, FiniteProcesses
  <2> QED
    BY <1>1, <1>2, <2>1, LimitsAssumption
<1>3. ASSUME NEW h \in Handlers
      PROVE  /\ Room(d, Accepted(t) \ {h})
             /\ h \in Accepted(t) => Room(d + 1, Accepted(t) \ {h})
  <2>1. /\ Cardinality(Handlers) \in Nat /\ Cardinality(Accepted(t)) \in Nat
        /\ Cardinality(Accepted(t) \ {h}) \in Nat
        /\ Cardinality(Accepted(t) \ {h}) <= Cardinality(Accepted(t))
        /\ h \in Accepted(t)
             => Cardinality(Accepted(t) \ {h}) = Cardinality(Accepted(t)) - 1
    BY <1>1, SizeChanges, FiniteProcesses
  <2> QED
    BY <1>1, <2>1, LimitsAssumption
<1>4. Room(0, Accepted(t)) /\ Room(d - 1, Accepted(t))
  <2>1. /\ Cardinality(Accepted(t)) \in Nat /\ Cardinality(Handlers) \in Nat
        /\ Cardinality(Accepted(t)) <= Cardinality(Handlers)
    BY <1>1, SizeInit, FiniteProcesses, FS_Subset, FS_CardinalityType
  <2> QED
    BY <1>1, <2>1, LimitsAssumption
<1>5. Room(tenantDepth'[t], Accepted(t)')
  <2> HIDE DEF Room
  <2> QED
    BY AcceptedSteps, <1>1, <1>2, <1>3, <1>4
<1> QED
  BY <1>5 DEF TenantRoom

(* Whatever the interleaving, the limits are exceeded by fewer jobs than   *)
(* there are requests at the same time.                                    *)
THEOREM OvershootIsBounded == Spec => []OvershootBounded
<1> DEFINE Inv == Typed /\ GlobalRoom /\ \A t \in Tenants : TenantRoom(t)
<1>1. Init => Inv
  BY TypeInit, GlobalRoomInit, TenantRoomInit
<1>2. Inv /\ [Next]_vars => Inv'
  BY TypeNext, GlobalRoomNext, TenantRoomNext
<1>3. Inv => OvershootBounded
  <2> SUFFICES ASSUME Inv PROVE OvershootBounded
    OBVIOUS
  <2>1. globalDepth \in Int /\ \A t \in Tenants : tenantDepth[t] \in Int
    BY DEF Typed, TypeOK
  <2>2. Cardinality(Handlers) \in Nat /\ Cardinality(Admitted) \in Nat
    BY FiniteProcesses, FS_Subset, FS_CardinalityType DEF Admitted
  <2>3. \A t \in Tenants : Cardinality(Accepted(t)) \in Nat
    BY FiniteProcesses, FS_Subset, FS_CardinalityType DEF Accepted
  <2> QED
    BY <2>1, <2>2, <2>3, LimitsAssumption DEF OvershootBounded, GlobalRoom, TenantRoom
<1> QED
  BY <1>1, <1>2, <1>3, PTL DEF Spec

------------------------------------------------------------------------------
(* The counters from below                                                 *)

(* Workers that have read a positive counter and not decremented it yet.   *)
InDecrGlobal == {w \in Workers : at[w] = "decrGlobal"}
InDecrTenant(t) == {w \in Workers : at[w] = "decrTenant" /\ task[w] = t}

GlobalFloor == globalDepth - Cardinality(InDecrGlobal) >= 1 - Cardinality(Workers)
TenantFloor(t) == tenantDepth[t] - Cardinality(InDecrTenant(t)) >= 0 - Cardinality(Workers)

(* A worker reads a positive counter, decrements it, or is lost in between;*)
(* or the counter grows.                                                   *)
LEMMA GlobalDecrementSteps ==
  ASSUME Typed, [Next]_vars
  PROVE  \/ \E w \in Workers : /\ globalDepth > 0
                               /\ InDecrGlobal' = InDecrGlobal \cup {w}
                               /\ globalDepth' = globalDepth
         \/ \E w \in Workers : /\ w \in InDecrGlobal
                               /\ InDecrGlobal' = InDecrGlobal \ {w}
                               /\ globalDepth' = globalDepth - 1
         \/ \E w \in Workers : /\ InDecrGlobal' = InDecrGlobal \ {w}
                               /\ globalDepth' = globalDepth
         \/ /\ InDecrGlobal' = InDecrGlobal
            /\ globalDepth' \in {globalDepth, globalDepth + 1}
<1> USE DEF Typed, TypeOK, InDecrGlobal
<1> DEFINE Reads(w) == /\ globalDepth > 0
                       /\ InDecrGlobal' = InDecrGlobal \cup {w}
                       /\ globalDepth' = globalDepth
           Decrs(w) == /\ w \in InDecrGlobal
                       /\ InDecrGlobal' = InDecrGlobal \ {w}
                       /\ globalDepth' = globalDepth - 1
           Gives(w) == InDecrGlobal' = InDecrGlobal \ {w} /\ globalDepth' = globalDepth
           Keeps    == /\ InDecrGlobal' = InDecrGlobal
                       /\ globalDepth' \in {globalDepth, globalDepth + 1}
<1>1. ASSUME NEW w \in Workers, GetGlobal(w) PROVE Reads(w) \/ Keeps
  <2>1. CASE globalDepth > 0
    BY <1>1, <2>1 DEF GetGlobal, At, GoTo, counters
  <2>2. CASE ~(globalDepth > 0)
    BY <1>1, <2>2 DEF GetGlobal, At, GoTo, counters
  <2> QED
    BY <2>1, <2>2
<1>2. ASSUME NEW w \in Workers, DecrementGlobal(w) PROVE Decrs(w)
  BY <1>2 DEF DecrementGlobal, At, GoTo
<1>3. ASSUME NEW w \in Workers, AbortTask(w) \/ LoseWorker(w) PROVE Gives(w)
  BY <1>3 DEF AbortTask, LoseWorker, TaskEnds, counters
<1>4. ASSUME NEW w \in Workers, Finish(w) \/ FailAndRetry(w) \/ FailForGood(w) PROVE Keeps
  BY <1>4 DEF Finish, FailAndRetry, FailForGood, At, GoTo, counters
<1>5. ASSUME NEW w \in Workers, GetTenant(w) \/ DecrementTenant(w) PROVE Keeps
  BY <1>5 DEF GetTenant, DecrementTenant, At, GoTo, TaskEnds, counters
<1>6. ASSUME NEW w \in Workers, NEW t \in Tenants, Receive(w, t) PROVE Keeps
  BY <1>6 DEF Receive, At, counters
<1>7. ASSUME NEW h \in Handlers,
             ContinueRequest(h) \/ LoseHandler(h) \/ \E t \in Tenants : PassGlobal(h, t)
      PROVE  Keeps
  BY <1>7 DEF ContinueRequest, PassTenant, RefuseTenant, IncrementGlobal, IncrementTenant,
              SetTTL, Publish, LoseHandler, PassGlobal, counters, worker
<1>8. ASSUME NEW t \in Tenants, RetryJob(t) \/ ExpireTenant(t) \/ Skip(t) \/ ExpireLock(t)
      PROVE  Keeps
  BY <1>8 DEF RetryJob, ExpireTenant, Skip, ExpireLock, counters, worker
<1>9. CASE UNCHANGED vars
  BY <1>9 DEF vars, counters, worker
<1> HIDE DEF Typed, TypeOK, InDecrGlobal, Reads, Decrs, Gives, Keeps
<1>10. ASSUME NEW w \in Workers,
              \/ ContinueTask(w) \/ AbortTask(w) \/ LoseWorker(w)
              \/ \E t \in Tenants : Receive(w, t)
       PROVE  Reads(w) \/ Decrs(w) \/ Gives(w) \/ Keeps
  BY <1>1, <1>2, <1>3, <1>4, <1>5, <1>6, <1>10, Zenon DEF ContinueTask
<1>11. CASE \E w \in Workers :
              \/ ContinueTask(w) \/ AbortTask(w) \/ LoseWorker(w)
              \/ \E t \in Tenants : Receive(w, t)
  BY <1>10, <1>11, Zenon DEF Reads, Decrs, Gives, Keeps
<1>12. CASE \E h \in Handlers :
              ContinueRequest(h) \/ LoseHandler(h) \/ \E t \in Tenants : PassGlobal(h, t)
  BY <1>7, <1>12, Zenon DEF Keeps
<1>13. CASE \E t \in Tenants : RetryJob(t) \/ ExpireTenant(t) \/ Skip(t) \/ ExpireLock(t)
  BY <1>8, <1>13, Zenon DEF Keeps
<1> QED
  BY <1>9, <1>11, <1>12, <1>13, Zenon DEF Next, Keeps

(* The same of a tenant's counter, which may also expire.                  *)
LEMMA TenantDecrementSteps ==
  ASSUME Typed, [Next]_vars, NEW t \in Tenants
  PROVE  \/ \E w \in Workers : /\ tenantDepth[t] > 0
                               /\ InDecrTenant(t)' = InDecrTenant(t) \cup {w}
                               /\ tenantDepth'[t] = tenantDepth[t]
         \/ \E w \in Workers : /\ w \in InDecrTenant(t)
                               /\ InDecrTenant(t)' = InDecrTenant(t) \ {w}
                               /\ tenantDepth'[t] = tenantDepth[t] - 1
         \/ \E w \in Workers : /\ InDecrTenant(t)' = InDecrTenant(t) \ {w}
                               /\ tenantDepth'[t] = tenantDepth[t]
         \/ /\ InDecrTenant(t)' = InDecrTenant(t)
            /\ tenantDepth'[t] \in {0, tenantDepth[t], tenantDepth[t] + 1}
<1> USE DEF Typed, Assigned, TypeOK, InDecrTenant
<1> DEFINE Reads(w) == /\ tenantDepth[t] > 0
                       /\ InDecrTenant(t)' = InDecrTenant(t) \cup {w}
                       /\ tenantDepth'[t] = tenantDepth[t]
           Decrs(w) == /\ w \in InDecrTenant(t)
                       /\ InDecrTenant(t)' = InDecrTenant(t) \ {w}
                       /\ tenantDepth'[t] = tenantDepth[t] - 1
           Gives(w) == /\ InDecrTenant(t)' = InDecrTenant(t) \ {w}
                       /\ tenantDepth'[t] = tenantDepth[t]
           Keeps    == /\ InDecrTenant(t)' = InDecrTenant(t)
                       /\ tenantDepth'[t] \in {0, tenantDepth[t], tenantDepth[t] + 1}
<1>1. ASSUME NEW w \in Workers, GetTenant(w) PROVE Reads(w) \/ Keeps
  <2>1. CASE tenantDepth[task[w]] > 0 /\ task[w] = t
    BY <1>1, <2>1 DEF GetTenant, At, GoTo, counters
  <2>2. CASE tenantDepth[task[w]] > 0 /\ task[w] # t
    BY <1>1, <2>2 DEF GetTenant, At, GoTo, counters
  <2>3. CASE ~(tenantDepth[task[w]] > 0)
    BY <1>1, <2>3 DEF GetTenant, At, TaskEnds, counters
  <2> QED
    BY <2>1, <2>2, <2>3
<1>2. ASSUME NEW w \in Workers, DecrementTenant(w) PROVE Decrs(w) \/ Keeps
  <2>1. CASE task[w] = t
    BY <1>2, <2>1 DEF DecrementTenant, At, TaskEnds
  <2>2. CASE task[w] # t
    BY <1>2, <2>2 DEF DecrementTenant, At, TaskEnds
  <2> QED
    BY <2>1, <2>2
<1>3. ASSUME NEW w \in Workers, AbortTask(w) \/ LoseWorker(w) PROVE Gives(w)
  BY <1>3 DEF AbortTask, LoseWorker, TaskEnds, counters
<1>4. ASSUME NEW w \in Workers, Finish(w) \/ FailAndRetry(w) \/ FailForGood(w) PROVE Keeps
  BY <1>4 DEF Finish, FailAndRetry, FailForGood, At, GoTo, counters
<1>5. ASSUME NEW w \in Workers, GetGlobal(w) \/ DecrementGlobal(w) PROVE Keeps
  BY <1>5 DEF GetGlobal, DecrementGlobal, At, GoTo, counters
<1>6. ASSUME NEW w \in Workers, NEW u \in Tenants, Receive(w, u) PROVE Keeps
  BY <1>6 DEF Receive, At, counters
<1>7. ASSUME NEW h \in Handlers, IncrementTenant(h) PROVE Keeps
  BY <1>7 DEF IncrementTenant, HandlerAt, worker
<1>8. ASSUME NEW h \in Handlers,
             \/ PassTenant(h) \/ RefuseTenant(h) \/ IncrementGlobal(h) \/ SetTTL(h)
             \/ Publish(h) \/ LoseHandler(h) \/ \E u \in Tenants : PassGlobal(h, u)
      PROVE  Keeps
  BY <1>8 DEF PassTenant, RefuseTenant, IncrementGlobal, SetTTL, Publish, LoseHandler,
              PassGlobal, counters, worker
<1>9. ASSUME NEW u \in Tenants, ExpireTenant(u) PROVE Keeps
  BY <1>9 DEF ExpireTenant, worker
<1>10. ASSUME NEW u \in Tenants, RetryJob(u) \/ Skip(u) \/ ExpireLock(u) PROVE Keeps
  BY <1>10 DEF RetryJob, Skip, ExpireLock, counters, worker
<1>11. CASE UNCHANGED vars
  BY <1>11 DEF vars, counters, worker
<1> HIDE DEF Typed, Assigned, TypeOK, InDecrTenant, Reads, Decrs, Gives, Keeps
<1>12. ASSUME NEW w \in Workers,
              \/ ContinueTask(w) \/ AbortTask(w) \/ LoseWorker(w)
              \/ \E u \in Tenants : Receive(w, u)
       PROVE  Reads(w) \/ Decrs(w) \/ Gives(w) \/ Keeps
  BY <1>1, <1>2, <1>3, <1>4, <1>5, <1>6, <1>12, Zenon DEF ContinueTask
<1>13. ASSUME NEW h \in Handlers,
              ContinueRequest(h) \/ LoseHandler(h) \/ \E u \in Tenants : PassGlobal(h, u)
       PROVE  Keeps
  BY <1>7, <1>8, <1>13, Zenon DEF ContinueRequest
<1>14. CASE \E w \in Workers :
              \/ ContinueTask(w) \/ AbortTask(w) \/ LoseWorker(w)
              \/ \E u \in Tenants : Receive(w, u)
  BY <1>12, <1>14, Zenon DEF Reads, Decrs, Gives, Keeps
<1>15. CASE \E h \in Handlers :
              ContinueRequest(h) \/ LoseHandler(h) \/ \E u \in Tenants : PassGlobal(h, u)
  BY <1>13, <1>15, Zenon DEF Keeps
<1>16. CASE \E u \in Tenants : RetryJob(u) \/ ExpireTenant(u) \/ Skip(u) \/ ExpireLock(u)
  BY <1>9, <1>10, <1>16, Zenon DEF Keeps
<1> QED
  BY <1>11, <1>14, <1>15, <1>16, Zenon DEF Next, Keeps

(* A counter that is at least 1 has room for one decrement of each worker. *)
LEMMA FloorKept ==
  ASSUME NEW n \in Int, NEW f \in {0, 1}, NEW S \in SUBSET Workers,
         n - Cardinality(S) >= f - Cardinality(Workers)
  PROVE  /\ \A w \in Workers : n > 0 =>
              n - Cardinality(S \cup {w}) >= f - Cardinality(Workers)
         /\ \A w \in Workers :
              /\ n - Cardinality(S \ {w}) >= f - Cardinality(Workers)
              /\ w \in S => (n - 1) - Cardinality(S \ {w}) >= f - Cardinality(Workers)
         /\ (n + 1) - Cardinality(S) >= f - Cardinality(Workers)
         /\ f = 0 => 0 - Cardinality(S) >= f - Cardinality(Workers)
<1>1. ASSUME NEW w \in Workers
      PROVE  /\ n > 0 => n - Cardinality(S \cup {w}) >= f - Cardinality(Workers)
             /\ n - Cardinality(S \ {w}) >= f - Cardinality(Workers)
             /\ w \in S => (n - 1) - Cardinality(S \ {w}) >= f - Cardinality(Workers)
  <2>1. /\ Cardinality(Workers) \in Nat /\ Cardinality(S) \in Nat
        /\ Cardinality(S \cup {w}) \in Nat
        /\ Cardinality(S \cup {w}) <= Cardinality(Workers)
        /\ Cardinality(S \ {w}) \in Nat
        /\ Cardinality(S \ {w}) <= Cardinality(S)
        /\ w \in S => Cardinality(S \ {w}) = Cardinality(S) - 1
    BY SizeChanges, FiniteProcesses
  <2> QED
    BY <2>1
<1>2. /\ (n + 1) - Cardinality(S) >= f - Cardinality(Workers)
      /\ f = 0 => 0 - Cardinality(S) >= f - Cardinality(Workers)
  <2>1. /\ Cardinality(Workers) \in Nat /\ Cardinality(S) \in Nat
        /\ Cardinality(S) <= Cardinality(Workers)
    BY FiniteProcesses, FS_Subset, FS_CardinalityType
  <2> QED
    BY <2>1
<1> QED
  BY <1>1, <1>2

LEMMA FloorInit == Init => GlobalFloor /\ \A t \in Tenants : TenantFloor(t)
<1> SUFFICES ASSUME Init PROVE GlobalFloor /\ \A t \in Tenants : TenantFloor(t)
  OBVIOUS
<1>1. InDecrGlobal = {} /\ \A t \in Tenants : InDecrTenant(t) = {}
  BY DEF Init, InDecrGlobal, InDecrTenant
<1>2. /\ globalDepth = 0 /\ \A t \in Tenants : tenantDepth[t] = 0
      /\ Cardinality({}) = 0
      /\ Cardinality(Workers) \in Nat \ {0}
  BY FiniteProcesses, FS_EmptySet, FS_CardinalityType DEF Init
<1>3. GlobalFloor
  BY <1>1, <1>2 DEF GlobalFloor
<1>4. ASSUME NEW t \in Tenants PROVE TenantFloor(t)
  <2>1. tenantDepth[t] = 0 /\ Cardinality(InDecrTenant(t)) = 0
    <3>1. InDecrTenant(t) = {} /\ tenantDepth[t] = 0 /\ Cardinality({}) = 0
      BY <1>1, <1>2
    <3> QED
      BY <3>1, Zenon
  <2>2. Cardinality(Workers) \in Nat
    BY <1>2
  <2> QED
    BY <2>1, <2>2 DEF TenantFloor
<1> QED
  BY <1>3, <1>4

LEMMA GlobalFloorNext == Typed /\ GlobalFloor /\ [Next]_vars => GlobalFloor'
<1> SUFFICES ASSUME Typed, GlobalFloor, [Next]_vars PROVE GlobalFloor'
  OBVIOUS
<1> DEFINE Floor(n, S) == n - Cardinality(S) >= 1 - Cardinality(Workers)
<1>1. /\ Floor(globalDepth, InDecrGlobal) /\ globalDepth \in Int
      /\ InDecrGlobal \in SUBSET Workers
  BY DEF GlobalFloor, Typed, TypeOK, InDecrGlobal
<1>2. /\ \A w \in Workers : globalDepth > 0 => Floor(globalDepth, InDecrGlobal \cup {w})
      /\ \A w \in Workers :
           /\ Floor(globalDepth, InDecrGlobal \ {w})
           /\ w \in InDecrGlobal => Floor(globalDepth - 1, InDecrGlobal \ {w})
      /\ Floor(globalDepth + 1, InDecrGlobal)
  BY <1>1, FloorKept
<1>3. Floor(globalDepth', InDecrGlobal')
  <2> HIDE DEF Floor
  <2> QED
    BY GlobalDecrementSteps, <1>1, <1>2
<1> QED
  BY <1>3 DEF GlobalFloor

LEMMA TenantFloorNext ==
  Typed /\ (\A t \in Tenants : TenantFloor(t)) /\ [Next]_vars
    => (\A t \in Tenants : TenantFloor(t))'
<1> SUFFICES ASSUME Typed, [Next]_vars, NEW t \in Tenants, TenantFloor(t)
             PROVE  TenantFloor(t)'
  OBVIOUS
<1> DEFINE Floor(n, S) == n - Cardinality(S) >= 0 - Cardinality(Workers)
           d == tenantDepth[t]
<1>1. Floor(d, InDecrTenant(t)) /\ d \in Int /\ InDecrTenant(t) \in SUBSET Workers
  BY DEF TenantFloor, Typed, TypeOK, InDecrTenant
<1>2. /\ \A w \in Workers : d > 0 => Floor(d, InDecrTenant(t) \cup {w})
      /\ \A w \in Workers :
           /\ Floor(d, InDecrTenant(t) \ {w})
           /\ w \in InDecrTenant(t) => Floor(d - 1, InDecrTenant(t) \ {w})
      /\ Floor(d + 1, InDecrTenant(t)) /\ Floor(0, InDecrTenant(t))
  BY <1>1, FloorKept
<1>3. Floor(tenantDepth'[t], InDecrTenant(t)')
  <2> HIDE DEF Floor
  <2> QED
    BY TenantDecrementSteps, <1>1, <1>2
<1> QED
  BY <1>3 DEF TenantFloor

(* Whatever the interleaving, the counters fall below zero by no more than *)
(* the workers that decrement at the same time.                            *)
THEOREM UndershootIsBounded == Spec => []UndershootBounded
<1> DEFINE Inv == Typed /\ GlobalFloor /\ \A t \in Tenants : TenantFloor(t)
<1>1. Init => Inv
  BY TypeInit, FloorInit
<1>2. Inv /\ [Next]_vars => Inv'
  BY TypeNext, GlobalFloorNext, TenantFloorNext
<1>3. Inv => UndershootBounded
  <2> SUFFICES ASSUME Inv PROVE UndershootBounded
    OBVIOUS
  <2>1. globalDepth \in Int /\ \A t \in Tenants : tenantDepth[t] \in Int
    BY DEF Typed, TypeOK
  <2>2. Cardinality(Workers) \in Nat /\ Cardinality(InDecrGlobal) \in Nat
    BY FiniteProcesses, FS_Subset, FS_CardinalityType DEF InDecrGlobal
  <2>3. \A t \in Tenants : Cardinality(InDecrTenant(t)) \in Nat
    BY FiniteProcesses, FS_Subset, FS_CardinalityType DEF InDecrTenant
  <2> QED
    BY <2>1, <2>2, <2>3 DEF UndershootBounded, GlobalFloor, TenantFloor
<1> QED
  BY <1>1, <1>2, <1>3, PTL DEF Spec
------------------------------------------------------------------------------
(* The global counter and the jobs under way                               *)

Sizes ==
  /\ Cardinality(OwingHandlers) \in Nat
  /\ Cardinality(Messages) \in Nat
  /\ Cardinality(OwingWorkers) \in Nat

LEMMA SizesTyped == IsFiniteSet(Messages) => Sizes
<1>1. IsFiniteSet(OwingHandlers)
  BY FiniteProcesses, FS_Subset DEF OwingHandlers
<1>2. IsFiniteSet(OwingWorkers)
  BY FiniteProcesses, FS_Subset DEF OwingWorkers
<1> QED
  BY <1>1, <1>2, FS_CardinalityType DEF Sizes

(* A message is published, is consumed, or neither.                        *)
Publishes == \E t \in Tenants : waiting' = [waiting EXCEPT ![t] = @ + 1]
Consumes == \E t \in Tenants : waiting[t] > 0 /\ waiting' = [waiting EXCEPT ![t] = @ - 1]

LEMMA MessageSizes ==
  ASSUME Typed, IsFiniteSet(Messages)
  PROVE  /\ Publishes => /\ IsFiniteSet(Messages)'
                         /\ Cardinality(Messages)' = Cardinality(Messages) + 1
         /\ Consumes => /\ IsFiniteSet(Messages)'
                        /\ Cardinality(Messages)' = Cardinality(Messages) - 1
         /\ UNCHANGED waiting => UNCHANGED Messages
<1> USE DEF Typed, TypeOK
<1>1. ASSUME NEW t \in Tenants, waiting' = [waiting EXCEPT ![t] = @ + 1]
      PROVE  /\ Messages' = Messages \cup {<<t, waiting[t] + 1>>}
             /\ <<t, waiting[t] + 1>> \notin Messages
  BY <1>1 DEF Messages
<1>2. ASSUME NEW t \in Tenants, waiting[t] > 0, waiting' = [waiting EXCEPT ![t] = @ - 1]
      PROVE  /\ Messages' = Messages \ {<<t, waiting[t]>>}
             /\ <<t, waiting[t]>> \in Messages
  BY <1>2 DEF Messages
<1>3. UNCHANGED waiting => UNCHANGED Messages
  BY DEF Messages
<1> HIDE DEF Typed, TypeOK
<1>4. ASSUME Publishes
      PROVE  IsFiniteSet(Messages)' /\ Cardinality(Messages)' = Cardinality(Messages) + 1
  <2>1. PICK m : Messages' = Messages \cup {m} /\ m \notin Messages
    BY <1>1, <1>4, Zenon DEF Publishes
  <2> QED
    BY <2>1, FS_AddElement
<1>5. ASSUME Consumes
      PROVE  IsFiniteSet(Messages)' /\ Cardinality(Messages)' = Cardinality(Messages) - 1
  <2>1. PICK m : Messages' = Messages \ {m} /\ m \in Messages
    BY <1>2, <1>5, Zenon DEF Consumes
  <2> QED
    BY <2>1, FS_RemoveElement
<1> QED
  BY <1>3, <1>4, <1>5

(* A process starts to owe a decrement, no longer owes one, or neither.    *)
LEMMA OwingSizes ==
  /\ \A h \in Handlers :
       /\ h \notin OwingHandlers /\ OwingHandlers' = OwingHandlers \cup {h}
            => Cardinality(OwingHandlers)' = Cardinality(OwingHandlers) + 1
       /\ h \in OwingHandlers /\ OwingHandlers' = OwingHandlers \ {h}
            => Cardinality(OwingHandlers)' = Cardinality(OwingHandlers) - 1
  /\ \A w \in Workers :
       /\ w \notin OwingWorkers /\ OwingWorkers' = OwingWorkers \cup {w}
            => Cardinality(OwingWorkers)' = Cardinality(OwingWorkers) + 1
       /\ w \in OwingWorkers /\ OwingWorkers' = OwingWorkers \ {w}
            => Cardinality(OwingWorkers)' = Cardinality(OwingWorkers) - 1
       /\ w \in OwingWorkers => Cardinality(OwingWorkers) \in Nat \ {0}
<1>1. IsFiniteSet(OwingHandlers)
  BY FiniteProcesses, FS_Subset DEF OwingHandlers
<1>2. IsFiniteSet(OwingWorkers)
  BY FiniteProcesses, FS_Subset DEF OwingWorkers
<1>3. OwingWorkers # {} => Cardinality(OwingWorkers) \in Nat \ {0}
  BY <1>2, FS_EmptySet, FS_CardinalityType
<1>4. /\ \A h : h \notin OwingHandlers
                  => Cardinality(OwingHandlers \cup {h}) = Cardinality(OwingHandlers) + 1
      /\ \A h \in OwingHandlers :
           Cardinality(OwingHandlers \ {h}) = Cardinality(OwingHandlers) - 1
  BY <1>1, FS_AddElement, FS_RemoveElement
<1>5. /\ \A w : w \notin OwingWorkers
                  => Cardinality(OwingWorkers \cup {w}) = Cardinality(OwingWorkers) + 1
      /\ \A w \in OwingWorkers :
           Cardinality(OwingWorkers \ {w}) = Cardinality(OwingWorkers) - 1
  BY <1>2, FS_AddElement, FS_RemoveElement
<1> QED
  BY <1>3, <1>4, <1>5

Drift == IsFiniteSet(Messages) /\ DriftIsLeaked

LEMMA DriftInit == Init => Drift
<1> SUFFICES ASSUME Init PROVE Drift
  OBVIOUS
<1>1. Messages = {}
  BY DEF Init, Messages
<1>2. IsFiniteSet(Messages)
  BY <1>1, FS_EmptySet
<1>3. Sizes
  BY <1>2, SizesTyped
<1> QED
  BY <1>2, <1>3 DEF Init, Drift, DriftIsLeaked, UnderWay, Sizes

(* The handlers: an increment is owed as soon as it is done, and the       *)
(* message or the leak takes over from the handler.                        *)
LEMMA DriftHandler ==
  ASSUME Typed, Drift, NEW h \in Handlers,
         ContinueRequest(h) \/ LoseHandler(h) \/ \E t \in Tenants : PassGlobal(h, t)
  PROVE  Drift'
<1> USE DEF Typed, TypeOK, Assigned
<1> DEFINE Same == UNCHANGED <<OwingHandlers, OwingWorkers, leaked>>
<1>1. ASSUME \E t \in Tenants : PassGlobal(h, t)
      PROVE  Same /\ UNCHANGED <<waiting, globalDepth>>
  BY <1>1 DEF PassGlobal, HandlerAt, OwingHandlers, OwingWorkers, HandlerOwes, WorkerOwes,
              counters, broker, worker, history
<1>2. ASSUME PassTenant(h) \/ RefuseTenant(h)
      PROVE  Same /\ UNCHANGED <<waiting, globalDepth>>
  BY <1>2 DEF PassTenant, RefuseTenant, HandlerAt, HandlerGoesTo, HandlerEnds, OwingHandlers,
              OwingWorkers, HandlerOwes, WorkerOwes, counters, broker, worker, history
<1>3. ASSUME IncrementTenant(h) \/ SetTTL(h)
      PROVE  Same /\ UNCHANGED <<waiting, globalDepth>>
  BY <1>3 DEF IncrementTenant, SetTTL, HandlerAt, HandlerGoesTo, OwingHandlers,
              OwingWorkers, HandlerOwes, WorkerOwes, broker, worker, history
<1>4. ASSUME IncrementGlobal(h)
      PROVE  /\ h \notin OwingHandlers /\ OwingHandlers' = OwingHandlers \cup {h}
             /\ UNCHANGED <<OwingWorkers, leaked, waiting>>
             /\ globalDepth' = globalDepth + 1
  BY <1>4 DEF IncrementGlobal, HandlerAt, HandlerGoesTo, OwingHandlers,
              OwingWorkers, HandlerOwes, WorkerOwes, broker, worker, history
<1>5. ASSUME Publish(h)
      PROVE  /\ h \in OwingHandlers /\ OwingHandlers' = OwingHandlers \ {h}
             /\ UNCHANGED <<OwingWorkers, leaked, globalDepth>>
             /\ Publishes
  BY <1>5 DEF Publish, Publishes, HandlerAt, HandlerEnds, OwingHandlers,
              OwingWorkers, HandlerOwes, WorkerOwes, counters, worker, history
<1>6. ASSUME LoseHandler(h)
      PROVE  /\ UNCHANGED <<OwingWorkers, waiting, globalDepth>>
             /\ \/ Same
                \/ /\ h \in OwingHandlers /\ OwingHandlers' = OwingHandlers \ {h}
                   /\ leaked' = leaked + 1
  <2>1. CASE HandlerOwes(h)
    BY <1>6, <2>1 DEF LoseHandler, HandlerEnds, OwingHandlers, OwingWorkers,
                      HandlerOwes, WorkerOwes, counters, broker, worker
  <2>2. CASE ~HandlerOwes(h)
    BY <1>6, <2>2 DEF LoseHandler, HandlerEnds, OwingHandlers, OwingWorkers,
                      HandlerOwes, WorkerOwes, counters, broker, worker
  <2> QED
    BY <2>1, <2>2
<1>7. globalDepth \in Int /\ leaked \in Nat
  OBVIOUS
<1> HIDE DEF Typed, TypeOK, Assigned
<1>8. IsFiniteSet(Messages) /\ Sizes
  BY SizesTyped DEF Drift
<1> USE <1>7, <1>8 DEF Drift, DriftIsLeaked, UnderWay, Sizes
<1>9. ASSUME Same, UNCHANGED <<waiting, globalDepth>> PROVE Drift'
  BY <1>9, MessageSizes
<1>10. CASE IncrementGlobal(h)
  BY <1>4, <1>10, MessageSizes, OwingSizes
<1>11. CASE Publish(h)
  BY <1>5, <1>11, MessageSizes, OwingSizes
<1>12. CASE LoseHandler(h)
  BY <1>6, <1>9, <1>12, MessageSizes, OwingSizes
<1> QED
  BY <1>1, <1>2, <1>3, <1>9, <1>10, <1>11, <1>12 DEF ContinueRequest

(* The workers: the message hands the decrement over to the task, and an   *)
(* attempt published again owes it a second time.                          *)
LEMMA DriftWorker ==
  ASSUME Typed, Drift, NEW w \in Workers,
         \/ ContinueTask(w) \/ AbortTask(w) \/ LoseWorker(w)
         \/ \E t \in Tenants : Receive(w, t)
  PROVE  Drift'
<1> USE DEF Typed, TypeOK, Assigned
<1> DEFINE Same == UNCHANGED <<OwingHandlers, OwingWorkers, leaked>>
           Settles == w \in OwingWorkers /\ OwingWorkers' = OwingWorkers \ {w}
<1>1. ASSUME \E t \in Tenants : Receive(w, t)
      PROVE  /\ w \notin OwingWorkers /\ OwingWorkers' = OwingWorkers \cup {w}
             /\ UNCHANGED <<OwingHandlers, leaked, globalDepth>>
             /\ Consumes
  <2>1. PICK t \in Tenants : Receive(w, t)
    BY <1>1
  <2>2. waiting[t] > 0
    BY <2>1 DEF Receive
  <2>3. Consumes
    BY <2>1, <2>2 DEF Receive, Consumes
  <2> QED
    BY <2>1, <2>3 DEF Receive, At, OwingHandlers, OwingWorkers, HandlerOwes, WorkerOwes,
                      counters, api, history
<1>2. ASSUME Finish(w) \/ FailForGood(w)
      PROVE  Same /\ UNCHANGED <<waiting, globalDepth>>
  BY <1>2 DEF Finish, FailForGood, At, GoTo, OwingHandlers, OwingWorkers, HandlerOwes,
              WorkerOwes, counters, api, broker, history
<1>3. ASSUME FailAndRetry(w)
      PROVE  Same /\ UNCHANGED globalDepth /\ Publishes
  BY <1>3 DEF FailAndRetry, Publishes, At, GoTo, OwingHandlers, OwingWorkers, HandlerOwes,
              WorkerOwes, counters, api, history
<1>4. ASSUME GetGlobal(w)
      PROVE  /\ UNCHANGED <<OwingHandlers, leaked, waiting, globalDepth>>
             /\ Same \/ (Settles /\ globalDepth <= 0)
  <2>1. CASE globalDepth > 0
    BY <1>4, <2>1 DEF GetGlobal, At, GoTo, OwingHandlers, OwingWorkers, HandlerOwes,
                      WorkerOwes, counters, api, broker, history
  <2>2. CASE ~(globalDepth > 0)
    BY <1>4, <2>2 DEF GetGlobal, At, GoTo, OwingHandlers, OwingWorkers, HandlerOwes,
                      WorkerOwes, counters, api, broker, history
  <2> QED
    BY <2>1, <2>2
<1>5. ASSUME DecrementGlobal(w)
      PROVE  /\ UNCHANGED <<OwingHandlers, leaked, waiting>>
             /\ Settles /\ globalDepth' = globalDepth - 1
  BY <1>5 DEF DecrementGlobal, At, GoTo, OwingHandlers, OwingWorkers, HandlerOwes,
              WorkerOwes, api, broker, history
<1>6. ASSUME GetTenant(w) \/ DecrementTenant(w)
      PROVE  Same /\ UNCHANGED <<waiting, globalDepth>>
  BY <1>6 DEF GetTenant, DecrementTenant, At, GoTo, TaskEnds, OwingHandlers, OwingWorkers,
              HandlerOwes, WorkerOwes, counters, api, broker, history
<1>7. ASSUME AbortTask(w)
      PROVE  /\ UNCHANGED <<OwingHandlers, waiting, globalDepth>>
             /\ Same \/ (Settles /\ leaked' = leaked + 1)
  <2>1. CASE WorkerOwes(w)
    BY <1>7, <2>1 DEF AbortTask, TaskEnds, OwingHandlers, OwingWorkers, HandlerOwes,
                      WorkerOwes, counters, api, broker
  <2>2. CASE ~WorkerOwes(w)
    BY <1>7, <2>2 DEF AbortTask, TaskEnds, OwingHandlers, OwingWorkers, HandlerOwes,
                      WorkerOwes, counters, api, broker
  <2> QED
    BY <2>1, <2>2
<1>8. ASSUME LoseWorker(w)
      PROVE  /\ UNCHANGED <<OwingHandlers, leaked, globalDepth>>
             /\ Same \/ Settles
             /\ Publishes
  BY <1>8 DEF LoseWorker, Publishes, At, TaskEnds, OwingHandlers, OwingWorkers, HandlerOwes,
              WorkerOwes, counters, api, history
<1>9. globalDepth \in Int /\ leaked \in Nat
  OBVIOUS
<1> HIDE DEF Typed, TypeOK, Assigned
<1>10. IsFiniteSet(Messages) /\ Sizes
  BY SizesTyped DEF Drift
<1> USE <1>9, <1>10 DEF Drift, DriftIsLeaked, UnderWay, Sizes
<1>11. ASSUME Same, UNCHANGED globalDepth, UNCHANGED waiting \/ Publishes PROVE Drift'
  BY <1>11, MessageSizes
<1>12. CASE \E t \in Tenants : Receive(w, t)
  BY <1>1, <1>12, MessageSizes, OwingSizes
<1>13. CASE GetGlobal(w)
  BY <1>4, <1>11, <1>13, MessageSizes, OwingSizes
<1>14. CASE DecrementGlobal(w)
  BY <1>5, <1>14, MessageSizes, OwingSizes
<1>15. CASE AbortTask(w)
  BY <1>7, <1>11, <1>15, MessageSizes, OwingSizes
<1>16. CASE LoseWorker(w)
  BY <1>8, <1>11, <1>16, MessageSizes, OwingSizes
<1> QED
  BY <1>2, <1>3, <1>6, <1>11, <1>12, <1>13, <1>14, <1>15, <1>16 DEF ContinueTask

LEMMA DriftNext == Typed /\ Drift /\ [Next]_vars => Drift'
<1> SUFFICES ASSUME Typed, Drift, [Next]_vars PROVE Drift'
  OBVIOUS
<1>1. /\ globalDepth \in Int /\ leaked \in Nat /\ waiting \in [Tenants -> Nat]
      /\ staleLocks \in [Tenants -> Nat]
      /\ IsFiniteSet(Messages) /\ Sizes
  BY SizesTyped DEF Typed, TypeOK, Drift
<1>2. ASSUME UNCHANGED <<api, worker, globalDepth>>
      PROVE  UNCHANGED <<OwingHandlers, OwingWorkers, globalDepth>>
  BY <1>2 DEF api, worker, OwingHandlers, OwingWorkers, HandlerOwes, WorkerOwes
<1>3. ASSUME NEW t \in Tenants, RetryJob(t) PROVE Drift'
  <2>1. UNCHANGED <<api, worker, globalDepth>> /\ leaked' = leaked /\ Publishes
    BY <1>3 DEF RetryJob, Publishes, counters, api, worker, history
  <2> QED
    BY <1>1, <1>2, <2>1, MessageSizes DEF Drift, DriftIsLeaked, UnderWay, Sizes
<1>4. ASSUME NEW t \in Tenants, Skip(t) PROVE Drift'
  <2>1. UNCHANGED <<api, worker, globalDepth>> /\ leaked' = leaked + 1 /\ Consumes
    BY <1>4 DEF Skip, Consumes, counters, api, worker
  <2> QED
    BY <1>1, <1>2, <2>1, MessageSizes DEF Drift, DriftIsLeaked, UnderWay, Sizes
<1>5. ASSUME NEW t \in Tenants, ExpireTenant(t) \/ ExpireLock(t) PROVE Drift'
  <2>1. UNCHANGED <<api, worker, globalDepth>> /\ UNCHANGED <<leaked, waiting>>
    BY <1>5 DEF ExpireTenant, ExpireLock, counters, api, worker, broker, history
  <2> QED
    BY <1>1, <1>2, <2>1, MessageSizes DEF Drift, DriftIsLeaked, UnderWay, Sizes
<1>6. CASE UNCHANGED vars
  <2>1. UNCHANGED <<api, worker, globalDepth>> /\ UNCHANGED <<leaked, waiting>>
    BY <1>6 DEF vars, counters, broker, history
  <2> QED
    BY <1>1, <1>2, <2>1, MessageSizes DEF Drift, DriftIsLeaked, UnderWay, Sizes
<1> QED
  BY <1>3, <1>4, <1>5, <1>6, DriftHandler, DriftWorker, Zenon DEF Next

(* "queue counters never drift upward": beyond the increments whose finally *)
(* block never ran, the global counter stays within the jobs under way, for *)
(* any number of tenants, requests, workers, retries and lost processes.    *)
THEOREM DriftIsBounded == Spec => []DriftIsLeaked
<1> DEFINE Inv == Typed /\ Drift
<1>1. Init => Inv
  BY TypeInit, DriftInit
<1>2. Inv /\ [Next]_vars => Inv'
  BY TypeNext, DriftNext
<1>3. Inv => DriftIsLeaked
  BY DEF Drift
<1> QED
  BY <1>1, <1>2, <1>3, PTL DEF Spec

(* Nothing is being submitted, waits or runs.                              *)
Quiet ==
  /\ \A h \in Handlers : apiAt[h] = "idle"
  /\ \A t \in Tenants : waiting[t] = 0
  /\ \A w \in Workers : at[w] = "idle"

(* "System at capacity ... Try again in a few minutes": when the work is   *)
(* done and every finally block has run, check_backpressure admits the     *)
(* next request.                                                           *)
THEOREM IdleSystemHasCapacity == Spec => [](Quiet /\ leaked = 0 => globalDepth < MaxQueue)
<1>1. TypeOK /\ DriftIsLeaked => (Quiet /\ leaked = 0 => globalDepth < MaxQueue)
  <2> SUFFICES ASSUME TypeOK, DriftIsLeaked, Quiet, leaked = 0
               PROVE  globalDepth < MaxQueue
    OBVIOUS
  <2>1. OwingHandlers = {} /\ OwingWorkers = {}
    BY DEF Quiet, OwingHandlers, OwingWorkers, HandlerOwes, WorkerOwes
  <2>2. Messages = {}
    BY DEF Quiet, Messages
  <2>3. UnderWay = 0
    BY <2>1, <2>2, FS_EmptySet DEF UnderWay
  <2> QED
    BY <2>3, LimitsAssumption DEF TypeOK, DriftIsLeaked
<1> QED
  BY <1>1, TypeCorrect, DriftIsBounded, PTL
==============================================================================
