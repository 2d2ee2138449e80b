----------------------- MODULE CircuitBreaker_proofs -----------------------
(***************************************************************************)
(* Type correctness of CircuitBreaker and, for any number of clients, any  *)
(* threshold and any timeout, that state and counter agree in Redis and in *)
(* every snapshot, and that the breaker implements BreakerDiagram except   *)
(* for late writes.                                                        *)
(***************************************************************************)
EXTENDS CircuitBreaker, TLAPS

(* A record the code may write: well formed, state and counter agree.      *)
Sound(rec) == rec \in Circuit /\ Coherent(rec)

SoundRecords == Sound(circuit) /\ \A c \in Clients : Sound(seen[c])

Control ==
  /\ service \in {"up", "down"}
  /\ at \in [Clients -> Places]
  /\ faults \in 0..MaxFaults
  /\ quietDays \in 0..MaxQuietDays

IInv == Control /\ seen \in [Clients -> Circuit] /\ SoundRecords

(* What is read from an absent key, or written by record_success.          *)
LEMMA FreshIsSound == Sound(FreshCircuit)
BY ConstantsAssumption DEF Sound, FreshCircuit, Circuit, States, Coherent

(* The transition to HALF_OPEN keeps the counter of an OPEN circuit.       *)
LEMMA HalfOpenedIsSound ==
  ASSUME NEW rec, Sound(rec), rec.state = "open"
  PROVE  Sound(HalfOpened(rec))
BY ConstantsAssumption DEF Sound, HalfOpened, Circuit, States, Coherent

(* record_failure writes a sound record, OPEN if the circuit was not       *)
(* CLOSED.                                                                 *)
LEMMA AfterFailureIsSound ==
  ASSUME NEW rec, Sound(rec)
  PROVE  /\ Sound(AfterFailure(rec))
         /\ rec.state # "closed" =>
              /\ AfterFailure(rec).state = "open"
              /\ AfterFailure(rec).openFor = 0
<1>1. CASE rec.failures + 1 >= Threshold
  BY <1>1, ConstantsAssumption DEF Sound, AfterFailure, Circuit, States, Coherent
<1>2. CASE ~(rec.failures + 1 >= Threshold)
  <2>1. /\ rec.failures \in 0..Threshold
        /\ rec.state \in States
        /\ rec.openFor \in 0..(RecoveryTimeout + 1)
    BY DEF Sound, Circuit
  <2>2. rec.failures < Threshold /\ rec.state = "closed"
    BY <1>2, <2>1, ConstantsAssumption DEF Sound, Coherent
  <2>3. AfterFailure(rec) = [state |-> rec.state, failures |-> rec.failures + 1,
                             openFor |-> rec.openFor]
    BY <1>2 DEF AfterFailure
  <2>4. rec.failures + 1 < Threshold /\ rec.failures + 1 \in 0..Threshold
    BY <1>2, <2>1, ConstantsAssumption
  <2> QED
    BY <2>1, <2>2, <2>3, <2>4 DEF Sound, Circuit, Coherent
<1> QED
  BY <1>1, <1>2

(* Time does not change state or counter.                                  *)
LEMMA AgedIsSound ==
  ASSUME NEW rec, Sound(rec)
  PROVE  Sound(Aged(rec))
BY ConstantsAssumption DEF Sound, Aged, Elapsed, Circuit, States, Coherent

(* GET gives the client a sound snapshot.                                  *)
LEMMA GetIsSound ==
  ASSUME IInv, NEW c \in Clients, NEW place \in Places, Get(c, place)
  PROVE  /\ at' \in [Clients -> Places]
         /\ seen' \in [Clients -> Circuit]
         /\ \A b \in Clients : Sound(seen'[b])
BY DEF IInv, SoundRecords, Control, Get, Sound

LEMMA GoToIsSound ==
  ASSUME IInv, NEW c \in Clients, NEW place \in Places, GoTo(c, place)
  PROVE  /\ at' \in [Clients -> Places]
         /\ seen' \in [Clients -> Circuit]
         /\ \A b \in Clients : Sound(seen'[b])
BY FreshIsSound DEF IInv, SoundRecords, Control, GoTo, Sound

LEMMA InitIInv == Init => IInv
<1> SUFFICES ASSUME Init PROVE IInv
  OBVIOUS
<1>1. Control
  BY ConstantsAssumption DEF Init, Control, Places
<1>2. seen \in [Clients -> Circuit] /\ SoundRecords
  BY FreshIsSound DEF Init, SoundRecords, Sound
<1> QED
  BY <1>1, <1>2 DEF IInv

LEMMA NextIInv == IInv /\ [Next]_vars => IInv'
<1> SUFFICES ASSUME IInv, [Next]_vars PROVE IInv'
  OBVIOUS
<1> USE DEF IInv, Control, SoundRecords
<1>1. ASSUME NEW c \in Clients, ReadState(c) PROVE IInv'
  BY <1>1, GetIsSound DEF ReadState, bounds, Places
<1>2. ASSUME NEW c \in Clients, Admit(c) PROVE IInv'
  BY <1>2, GoToIsSound DEF Admit, bounds, Places
<1>3. ASSUME NEW c \in Clients, Reject(c) PROVE IInv'
  BY <1>3, GoToIsSound DEF Reject, bounds, Places
<1>4. ASSUME NEW c \in Clients, Test(c) PROVE IInv'
  BY <1>4, GoToIsSound, HalfOpenedIsSound DEF Test, bounds, Places
<1>5. ASSUME NEW c \in Clients, EndCall(c) PROVE IInv'
  <2>1. (IF service = "up" THEN "succeeded" ELSE "failed") \in Places
    BY DEF Places
  <2> QED
    BY <1>5, <2>1, GetIsSound DEF EndCall, bounds
<1>6. ASSUME NEW c \in Clients, RecordSuccess(c) PROVE IInv'
  BY <1>6, GoToIsSound, FreshIsSound, ConstantsAssumption
  DEF RecordSuccess, bounds, Places
<1>7. ASSUME NEW c \in Clients, RecordFailure(c) PROVE IInv'
  BY <1>7, GoToIsSound, AfterFailureIsSound DEF RecordFailure, bounds, Places
<1>8. ASSUME NEW c \in Clients, SaveFails(c) PROVE IInv'
  <2>1. faults' \in 0..MaxFaults
    BY <1>8, ConstantsAssumption DEF SaveFails, Fault
  <2> QED
    BY <1>8, <2>1, GetIsSound DEF SaveFails, Places
<1>9. ASSUME NEW c \in Clients, Lose(c) PROVE IInv'
  <2>1. faults' \in 0..MaxFaults
    BY <1>9, ConstantsAssumption DEF Lose, Fault
  <2> QED
    BY <1>9, <2>1, GoToIsSound DEF Lose, Places
<1>10. ASSUME QuietDay PROVE IInv'
  BY <1>10, FreshIsSound, ConstantsAssumption DEF QuietDay
<1>11. ASSUME Tick PROVE IInv'
  <2>1. Sound(circuit') /\ \A c \in Clients : Sound(seen'[c])
    BY <1>11, AgedIsSound DEF Tick
  <2>2. seen' \in [Clients -> Circuit]
    BY <1>11, AgedIsSound DEF Tick, Sound
  <2> QED
    BY <1>11, <2>1, <2>2 DEF Tick, bounds
<1>12. ASSUME ServiceFails \/ ServiceRecovers PROVE IInv'
  BY <1>12 DEF ServiceFails, ServiceRecovers, bounds
<1>13. ASSUME UNCHANGED vars PROVE IInv'
  BY <1>13 DEF vars
<1> QED
  BY <1>1, <1>2, <1>3, <1>4, <1>5, <1>6, <1>7, <1>8, <1>9, <1>10, <1>11, <1>12, <1>13
  DEF Next, Continue

LEMMA SpecIInv == Spec => []IInv
BY InitIInv, NextIInv, PTL DEF Spec

(* Every variable keeps its type.                                          *)
THEOREM TypeCorrect == Spec => []TypeOK
<1>1. IInv => TypeOK
  BY DEF IInv, Control, SoundRecords, Sound, TypeOK
<1> QED
  BY <1>1, SpecIInv, PTL

(* State and counter agree in Redis and in every snapshot, for any number  *)
(* of processes and any interleaving of their reads and writes.            *)
THEOREM StateAlwaysMatchesCounter == Spec => []StateMatchesCounter
<1>1. IInv => StateMatchesCounter
  BY DEF IInv, SoundRecords, Sound, StateMatchesCounter
<1> QED
  BY <1>1, SpecIInv, PTL

(* A failed recovery test reopens the circuit: record_failure, which looks *)
(* at the counter only, finds it at the threshold.                         *)
THEOREM FailedTestsReopen == Spec => FailedTestReopens
<1> DEFINE Reopens(c) ==
      at[c] = "failed" /\ at'[c] = "idle" /\ seen[c].state = "half_open" /\ circuit' # circuit
        => circuit'.state = "open" /\ circuit'.openFor = 0
<1>1. ASSUME IInv, [Next]_vars PROVE \A c \in Clients : Reopens(c)
  <2> SUFFICES ASSUME NEW c \in Clients, at[c] = "failed", at'[c] = "idle",
                      seen[c].state = "half_open", circuit' # circuit
               PROVE  circuit'.state = "open" /\ circuit'.openFor = 0
    OBVIOUS
  <2> USE DEF IInv, Control, SoundRecords
  <2>1. CASE RecordFailure(c)
    BY <1>1, <2>1, AfterFailureIsSound DEF RecordFailure
  <2>2. ASSUME NEW b \in Clients, b # c,
               ReadState(b) \/ Continue(b) \/ SaveFails(b) \/ Lose(b)
        PROVE  at'[c] = at[c]
    BY <1>1, <2>2 DEF ReadState, Continue, SaveFails, Lose, Admit, Reject, Test, EndCall,
                RecordSuccess, RecordFailure, Get, GoTo
  <2>3. ASSUME ReadState(c) \/ Admit(c) \/ Reject(c) \/ Test(c) \/ EndCall(c)
                 \/ RecordSuccess(c) \/ SaveFails(c) \/ Lose(c)
        PROVE  circuit' = circuit
    BY <2>3 DEF ReadState, Admit, Reject, Test, EndCall, RecordSuccess, SaveFails, Lose
  <2>4. ASSUME QuietDay \/ Tick \/ ServiceFails \/ ServiceRecovers \/ UNCHANGED vars
        PROVE  at'[c] = at[c]
    BY <2>4 DEF QuietDay, Tick, ServiceFails, ServiceRecovers, vars
  <2>5. CASE \E b \in Clients : ReadState(b) \/ Continue(b) \/ SaveFails(b) \/ Lose(b)
    <3>1. PICK b \in Clients : ReadState(b) \/ Continue(b) \/ SaveFails(b) \/ Lose(b)
      BY <2>5
    <3>2. b = c
      BY <2>2, <3>1
    <3>3. RecordFailure(c)
      BY <2>3, <3>1, <3>2, Zenon DEF Continue
    <3> QED
      BY <2>1, <3>3
  <2>6. \/ \E b \in Clients : ReadState(b) \/ Continue(b) \/ SaveFails(b) \/ Lose(b)
        \/ QuietDay \/ Tick \/ ServiceFails \/ ServiceRecovers \/ UNCHANGED vars
    BY <1>1, Zenon DEF Next
  <2> QED
    BY <2>4, <2>5, <2>6, Zenon
<1>2. ASSUME IInv, [Next]_vars PROVE [\A c \in Clients : Reopens(c)]_vars
  BY <1>1, <1>2
<1> QED
  BY <1>2, SpecIInv, PTL DEF Spec, FailedTestReopens

------------------------------------------------------------------------------
(* The diagram of ARCHITECTURE.md                                          *)

(* Only an OPEN circuit has a time since it was opened.                    *)
Timed(rec) == rec.state # "open" => rec.openFor = 0

TimedRecords == Timed(circuit) /\ \A c \in Clients : Timed(seen[c])

LEMMA WrittenRecordsAreTimed ==
  /\ Timed(FreshCircuit)
  /\ \A rec \in Circuit :
       /\ Timed(HalfOpened(rec))
       /\ Timed(rec) => Timed(AfterFailure(rec)) /\ Timed(Aged(rec))
BY DEF Timed, FreshCircuit, HalfOpened, AfterFailure, Aged, Circuit

LEMMA TimedInit == Init => TimedRecords
BY WrittenRecordsAreTimed DEF Init, TimedRecords

LEMMA TimedNext == IInv /\ TimedRecords /\ [Next]_vars => TimedRecords'
<1> SUFFICES ASSUME IInv, TimedRecords, [Next]_vars PROVE TimedRecords'
  OBVIOUS
<1>1. /\ circuit \in Circuit /\ seen \in [Clients -> Circuit]
      /\ at \in [Clients -> Places]
  BY DEF IInv, SoundRecords, Sound, Control
<1> DEFINE Gets(c) == seen' = [seen EXCEPT ![c] = circuit]
           Forgets(c) == seen' = [seen EXCEPT ![c] = FreshCircuit]
<1>2. ASSUME NEW c \in Clients, Gets(c) \/ Forgets(c), Timed(circuit') PROVE TimedRecords'
  BY <1>1, <1>2, WrittenRecordsAreTimed DEF TimedRecords
<1>3. ASSUME NEW c \in Clients, ReadState(c) \/ EndCall(c) \/ SaveFails(c)
      PROVE  Gets(c) /\ Timed(circuit')
  BY <1>3 DEF ReadState, EndCall, SaveFails, Get, TimedRecords
<1>4. ASSUME NEW c \in Clients, Admit(c) \/ Reject(c) \/ Lose(c)
      PROVE  Forgets(c) /\ Timed(circuit')
  BY <1>4 DEF Admit, Reject, Lose, GoTo, TimedRecords
<1>5. ASSUME NEW c \in Clients, Test(c) \/ RecordSuccess(c) \/ RecordFailure(c)
      PROVE  Forgets(c) /\ Timed(circuit')
  BY <1>1, <1>5, WrittenRecordsAreTimed
  DEF Test, RecordSuccess, RecordFailure, GoTo, TimedRecords
<1>6. ASSUME QuietDay PROVE TimedRecords'
  BY <1>6, WrittenRecordsAreTimed DEF QuietDay, TimedRecords
<1>7. ASSUME Tick PROVE TimedRecords'
  BY <1>1, <1>7, WrittenRecordsAreTimed DEF Tick, TimedRecords
<1>8. ASSUME ServiceFails \/ ServiceRecovers \/ UNCHANGED vars PROVE TimedRecords'
  BY <1>8 DEF ServiceFails, ServiceRecovers, vars, TimedRecords
<1> HIDE DEF Gets, Forgets
<1> QED
  BY <1>2, <1>3, <1>4, <1>5, <1>6, <1>7, <1>8, Zenon DEF Next, Continue

(* A record written back in time is an arrow of the diagram, or leaves     *)
(* state and time as they are.                                             *)
Arrow == Diagram!Next \/ UNCHANGED <<circuit.state, circuit.openFor>>

LEMMA SuccessIsArrow ==
  ASSUME circuit \in Circuit, Timed(circuit), circuit.state # "open",
         circuit' = FreshCircuit
  PROVE  Arrow
BY DEF Arrow, Diagram!Next, Diagram!Close, Timed, FreshCircuit, Circuit, States

LEMMA FailureIsArrow ==
  ASSUME circuit \in Circuit, circuit.state # "open", circuit' = AfterFailure(circuit)
  PROVE  Arrow
BY DEF Arrow, Diagram!Next, Diagram!Open, AfterFailure, Circuit, States

LEMMA TestIsArrow ==
  ASSUME circuit \in Circuit, circuit.state = "open", Elapsed(circuit),
         circuit' = HalfOpened(circuit)
  PROVE  Arrow
BY DEF Arrow, Diagram!Next, Diagram!Test, HalfOpened, Elapsed, Circuit

LEMMA TickIsArrow ==
  ASSUME circuit \in Circuit, circuit' = Aged(circuit)
  PROVE  Arrow
BY DEF Arrow, Diagram!Next, Diagram!Wait, Aged, Circuit

(* A step of a client is an arrow unless it writes late.                   *)
LEMMA ClientFollowsDiagram ==
  ASSUME IInv, TimedRecords, NEW c \in Clients,
         ReadState(c) \/ Continue(c) \/ SaveFails(c) \/ Lose(c)
  PROVE  Arrow \/ WritesLate(c)
<1>1. circuit \in Circuit /\ Timed(circuit) /\ at \in [Clients -> Places]
  BY DEF IInv, SoundRecords, Sound, Control, TimedRecords
<1>2. ASSUME circuit' = circuit PROVE Arrow
  BY <1>2 DEF Arrow
<1>3. ASSUME ReadState(c) \/ Admit(c) \/ Reject(c) \/ EndCall(c) \/ SaveFails(c) \/ Lose(c)
      PROVE  circuit' = circuit
  BY <1>3 DEF ReadState, Admit, Reject, EndCall, SaveFails, Lose
<1>4. ASSUME Test(c), ~WritesLate(c) PROVE Arrow
  <2>1. seen[c] = circuit
    BY <1>1, <1>4 DEF Test, GoTo, WritesLate
  <2> QED
    BY <1>1, <1>4, <2>1, TestIsArrow DEF Test
<1>5. ASSUME RecordSuccess(c), ~WritesLate(c) PROVE Arrow
  <2>1. seen[c] = circuit /\ seen[c].state # "open"
    BY <1>1, <1>5 DEF RecordSuccess, GoTo, WritesLate
  <2> QED
    BY <1>1, <1>5, <2>1, SuccessIsArrow DEF RecordSuccess
<1>6. ASSUME RecordFailure(c), ~WritesLate(c) PROVE Arrow
  <2>1. seen[c] = circuit /\ seen[c].state # "open"
    BY <1>1, <1>6 DEF RecordFailure, GoTo, WritesLate
  <2> QED
    BY <1>1, <1>6, <2>1, FailureIsArrow DEF RecordFailure
<1> QED
  BY <1>2, <1>3, <1>4, <1>5, <1>6, Zenon DEF Continue

(* The breaker implements the diagram of ARCHITECTURE.md but for late      *)
(* writes and the expiry of the key, for any number of processes, any      *)
(* threshold and any timeout.                                              *)
THEOREM BreakerFollowsDiagram == Spec => FollowsDiagramUnlessLate
<1> DEFINE Allowed == \/ Diagram!Next
                      \/ quietDays' # quietDays
                      \/ \E c \in Clients : WritesLate(c)
           Inv == IInv /\ TimedRecords
<1>1. Init => Diagram!Init
  BY DEF Init, FreshCircuit, Diagram!Init
<1>2. Init => Inv
  BY InitIInv, TimedInit
<1>3. Inv /\ [Next]_vars => Inv'
  BY NextIInv, TimedNext
<1>4. ASSUME Inv, [Next]_vars PROVE [Allowed]_<<circuit.state, circuit.openFor>>
  <2>1. circuit \in Circuit /\ quietDays \in Nat
    BY <1>4, ConstantsAssumption DEF IInv, SoundRecords, Sound, Control
  <2>2. CASE \E c \in Clients : ReadState(c) \/ Continue(c) \/ SaveFails(c) \/ Lose(c)
    BY <1>4, <2>2, ClientFollowsDiagram DEF Arrow
  <2>3. CASE QuietDay
    BY <2>1, <2>3 DEF QuietDay
  <2>4. CASE Tick
    BY <2>1, <2>4, TickIsArrow DEF Tick, Arrow
  <2>5. CASE ServiceFails \/ ServiceRecovers \/ UNCHANGED vars
    BY <2>5 DEF ServiceFails, ServiceRecovers, vars
  <2> QED
    BY <1>4, <2>2, <2>3, <2>4, <2>5, Zenon DEF Next
<1> QED
  BY <1>1, <1>2, <1>3, <1>4, PTL DEF Spec, FollowsDiagramUnlessLate
==============================================================================
