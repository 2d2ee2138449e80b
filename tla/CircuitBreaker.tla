--------------------------- MODULE CircuitBreaker ---------------------------
(***************************************************************************)
(* The circuit breaker of one external service (core/circuit_breaker.py),  *)
(* shared by all worker processes through the key circuit:<name> in Redis. *)
(* Each run of the weather agent passes through protect() once: it         *)
(* reads the state, is rejected or calls the service, and records the      *)
(* outcome.  Every method reads the record with GET, computes, and writes  *)
(* all of it back with SETEX, so each write is a step of its own and puts  *)
(* back what the process has read before.                                  *)
(*                                                                         *)
(* The clock is relative: openFor is the time since opened_at, in ticks,   *)
(* up to one more than RecoveryTimeout; opened_at is only read in state    *)
(* OPEN and is left out elsewhere.  Failures are counted up to Threshold,  *)
(* the only bound they are compared with.                                  *)
(***************************************************************************)
EXTENDS Naturals

CONSTANTS
  Clients,          \* processes that use the breaker at the same time
  Threshold,        \* CIRCUIT_FAILURE_THRESHOLD, 3 in the code
  RecoveryTimeout,  \* CIRCUIT_RECOVERY_TIMEOUT, 120 in the code
  MaxFaults,        \* bound: processes lost, SETEX calls that raise
  MaxQuietDays      \* bound: periods of 24 hours without a request

ASSUME ConstantsAssumption ==
  /\ Threshold \in Nat \ {0}
  /\ RecoveryTimeout \in Nat
  /\ MaxFaults \in Nat
  /\ MaxQuietDays \in Nat

States == {"closed", "open", "half_open"}

Circuit == [state : States, failures : 0..Threshold, openFor : 0..(RecoveryTimeout + 1)]

(* What get_state returns when the key is absent.                          *)
FreshCircuit == [state |-> "closed", failures |-> 0, openFor |-> 0]

VARIABLES
  service,   \* the external service: its calls succeed ("up") or raise ("down")
  circuit,   \* circuit:<name>
  at,        \* at[c]: the place of client c in protect()
  seen,      \* seen[c]: what its last GET returned
  faults, quietDays   \* used part of each bound

vars == <<service, circuit, at, seen, faults, quietDays>>
bounds == <<faults, quietDays>>

(* "calling": admitted by a CLOSED circuit; "testing": admitted by a       *)
(* HALF_OPEN one, or by the transition to it.                              *)
Places == {"idle", "read", "calling", "testing", "succeeded", "failed"}

TypeOK ==
  /\ service \in {"up", "down"}
  /\ circuit \in Circuit
  /\ at \in [Clients -> Places]
  /\ seen \in [Clients -> Circuit]
  /\ faults \in 0..MaxFaults
  /\ quietDays \in 0..MaxQuietDays

Init ==
  /\ service = "up"
  /\ circuit = FreshCircuit
  /\ at = [c \in Clients |-> "idle"]
  /\ seen = [c \in Clients |-> FreshCircuit]
  /\ faults = 0 /\ quietDays = 0

GoTo(c, place) ==
  /\ at' = [at EXCEPT ![c] = place]
  /\ seen' = [seen EXCEPT ![c] = FreshCircuit]

Get(c, place) ==
  /\ at' = [at EXCEPT ![c] = place]
  /\ seen' = [seen EXCEPT ![c] = circuit]

------------------------------------------------------------------------------
(* is_available                                                            *)

ReadState(c) ==
  /\ at[c] = "idle"
  /\ Get(c, "read")
  /\ UNCHANGED <<service, circuit, bounds>>

Admit(c) ==
  /\ at[c] = "read"
  /\ \/ seen[c].state = "closed" /\ GoTo(c, "calling")
     \/ seen[c].state = "half_open" /\ GoTo(c, "testing")
  /\ UNCHANGED <<service, circuit, bounds>>

(* time.time() - opened_at > RECOVERY_TIMEOUT                              *)
Elapsed(rec) == rec.openFor > RecoveryTimeout

(* CircuitOpenError; it is raised before the try block of protect, so no   *)
(* failure is recorded.                                                    *)
Reject(c) ==
  /\ at[c] = "read"
  /\ seen[c].state = "open" /\ ~Elapsed(seen[c])
  /\ GoTo(c, "idle")
  /\ UNCHANGED <<service, circuit, bounds>>

(* Mutant of HalfOpened: the test starts with a clean counter.             *)
HalfOpenedClean(rec) == [state |-> "half_open", failures |-> 0, openFor |-> 0]

(* OPEN -> HALF_OPEN                                                       *)
HalfOpened(rec) == [state |-> "half_open", failures |-> rec.failures, openFor |-> 0]

(* Mutant of Test: the recovery timeout is not checked.                    *)
TestAtOnce(c) ==
  /\ at[c] = "read"
  /\ seen[c].state = "open"
  /\ circuit' = HalfOpened(seen[c])
  /\ GoTo(c, "testing")
  /\ UNCHANGED <<service, bounds>>

Test(c) ==
  /\ at[c] = "read"
  /\ seen[c].state = "open" /\ Elapsed(seen[c])
  /\ circuit' = HalfOpened(seen[c])
  /\ GoTo(c, "testing")
  /\ UNCHANGED <<service, bounds>>

------------------------------------------------------------------------------
(* protect: the call, and what is recorded of it                           *)

(* The call returns or raises; record_success or record_failure reads.     *)
EndCall(c) ==
  /\ at[c] \in {"calling", "testing"}
  /\ Get(c, IF service = "up" THEN "succeeded" ELSE "failed")
  /\ UNCHANGED <<service, circuit, bounds>>

(* Mutant of RecordSuccess: the counter is reset, the state is not.        *)
RecordSuccessCounterOnly(c) ==
  /\ at[c] = "succeeded"
  /\ circuit' = [state |-> seen[c].state, failures |-> 0, openFor |-> 0]
  /\ GoTo(c, "idle")
  /\ UNCHANGED <<service, bounds>>

RecordSuccess(c) ==
  /\ at[c] = "succeeded"
  /\ circuit' = FreshCircuit
  /\ GoTo(c, "idle")
  /\ UNCHANGED <<service, bounds>>

(* Mutant of AfterFailure: == instead of >=.                               *)
AfterFailureExact(rec) ==
  IF rec.failures + 1 = Threshold
    THEN [state |-> "open", failures |-> Threshold, openFor |-> 0]
    ELSE [state |-> rec.state,
          failures |-> IF rec.failures < Threshold THEN rec.failures + 1 ELSE Threshold,
          openFor |-> rec.openFor]

(* Mutant of AfterFailure: the failures of other processes do not count.   *)
AfterFailureAlone(rec) ==
  IF Threshold = 1
    THEN [state |-> "open", failures |-> Threshold, openFor |-> 0]
    ELSE [state |-> rec.state, failures |-> 1, openFor |-> rec.openFor]

AfterFailure(rec) ==
  IF rec.failures + 1 >= Threshold
    THEN [state |-> "open", failures |-> Threshold, openFor |-> 0]
    ELSE [state |-> rec.state, failures |-> rec.failures + 1, openFor |-> rec.openFor]

RecordFailure(c) ==
  /\ at[c] = "failed"
  /\ circuit' = AfterFailure(seen[c])
  /\ GoTo(c, "idle")
  /\ UNCHANGED <<service, bounds>>

Continue(c) ==
  Admit(c) \/ Reject(c) \/ Test(c) \/ EndCall(c) \/ RecordSuccess(c) \/ RecordFailure(c)

------------------------------------------------------------------------------
(* The environment                                                         *)

Fault == faults < MaxFaults /\ faults' = faults + 1

(* record_success raises inside the try block: its except records a failure.*)
SaveFails(c) ==
  /\ at[c] = "succeeded"
  /\ Fault
  /\ Get(c, "failed")
  /\ UNCHANGED <<service, circuit, quietDays>>

(* The process is killed, or its Redis call raises outside the try block.  *)
Lose(c) ==
  /\ at[c] # "idle"
  /\ Fault
  /\ GoTo(c, "idle")
  /\ UNCHANGED <<service, circuit, quietDays>>

(* The key expires a day after the last write.                             *)
QuietDay ==
  /\ \A c \in Clients : at[c] = "idle"
  /\ quietDays < MaxQuietDays
  /\ quietDays' = quietDays + 1
  /\ circuit' = FreshCircuit
  /\ UNCHANGED <<service, at, seen, faults>>

Aged(rec) ==
  IF rec.state = "open" /\ ~Elapsed(rec)
    THEN [state |-> "open", failures |-> rec.failures, openFor |-> rec.openFor + 1]
    ELSE rec

Tick ==
  /\ circuit' = Aged(circuit)
  /\ seen' = [c \in Clients |-> Aged(seen[c])]
  /\ UNCHANGED <<service, at, bounds>>

ServiceFails ==
  /\ service = "up" /\ service' = "down"
  /\ UNCHANGED <<circuit, at, seen, bounds>>

ServiceRecovers ==
  /\ service = "down" /\ service' = "up"
  /\ UNCHANGED <<circuit, at, seen, bounds>>

Next ==
  \/ \E c \in Clients : ReadState(c) \/ Continue(c) \/ SaveFails(c) \/ Lose(c)
  \/ QuietDay \/ Tick \/ ServiceFails \/ ServiceRecovers

Spec == Init /\ [][Next]_vars

(* A request goes on (the HTTP call has a timeout of 10 seconds) and time  *)
(* passes.  That requests keep coming is not assumed here: the properties  *)
(* that need it say so.                                                    *)
Fairness == WF_vars(Tick) /\ \A c \in Clients : WF_vars(Continue(c))

FairSpec == Spec /\ Fairness

------------------------------------------------------------------------------
(* CLOSED means fewer than Threshold failures and OPEN or HALF_OPEN at     *)
(* least that many, in Redis and in everything read from it, although      *)
(* state and counter are written back from snapshots of different age.     *)
(* The code relies on it: record_failure only compares the counter, so a   *)
(* failed recovery test reopens the circuit only because the counter was   *)
(* left at the threshold.                                                  *)
Coherent(rec) == rec.state = "closed" <=> rec.failures < Threshold

StateMatchesCounter ==
  Coherent(circuit) /\ \A c \in Clients : Coherent(seen[c])

(* A failure that is recorded on a HALF_OPEN circuit opens it again, for a *)
(* whole RecoveryTimeout (the arrow HALF_OPEN -> OPEN).                    *)
FailedTestReopens ==
  [][\A c \in Clients :
       at[c] = "failed" /\ at'[c] = "idle" /\ seen[c].state = "half_open" /\ circuit' # circuit
         => circuit'.state = "open" /\ circuit'.openFor = 0]_vars

CallsKeepComing == []<>(\E c \in Clients : at[c] = "read")

(* If requests keep coming and the service stays up, the breaker lets them *)
(* through again, however the writes of earlier calls were overtaken.      *)
RecoveredServiceIsUsed ==
  CallsKeepComing /\ <>[](service = "up") => <>[](circuit.state = "closed")

(* If the service stays down, the breaker ends up protecting it, although  *)
(* concurrent failures are lost from the count and late writes close an    *)
(* open circuit: it does not fall back to CLOSED for ever.                 *)
OutageIsNoticed ==
  CallsKeepComing /\ <>[](service = "down") => <>[](circuit.state # "closed")

(* The diagram of ARCHITECTURE.md.                                         *)
Diagram == INSTANCE BreakerDiagram
             WITH state <- circuit.state, openFor <- circuit.openFor

(* Client c writes what is no longer so: another process has written since *)
(* c read, or c records the end of a call on a circuit that was opened     *)
(* while the call ran.                                                     *)
WritesLate(c) ==
  /\ at[c] \in {"read", "succeeded", "failed"} /\ at'[c] # at[c]
  /\ \/ seen[c] # circuit
     \/ at[c] # "read" /\ seen[c].state = "open"

(* The breaker implements the diagram of ARCHITECTURE.md, which no line of *)
(* record_success or record_failure mentions: every change of state is an  *)
(* arrow of it, after the time it asks for, except for late writes and the *)
(* expiry of the key after a quiet day.                                    *)
FollowsDiagramUnlessLate ==
  /\ Diagram!Init
  /\ [][\/ Diagram!Next
        \/ quietDays' # quietDays
        \/ \E c \in Clients : WritesLate(c)]_<<circuit.state, circuit.openFor>>
==============================================================================
