--------------------------- MODULE BreakerDiagram ---------------------------
(***************************************************************************)
(* The state diagram "Circuit Breaker - 3 States" of ARCHITECTURE.md: the  *)
(* four arrows, and how long the circuit stays open at least.              *)
(***************************************************************************)
EXTENDS Naturals

CONSTANT RecoveryTimeout

VARIABLES state, openFor

Init == state = "closed" /\ openFor = 0

(* failures >= threshold, or the failure of the recovery test              *)
Open ==
  /\ state \in {"closed", "half_open"}
  /\ state' = "open" /\ openFor' = 0

(* recovery_timeout elapsed                                                *)
Test ==
  /\ state = "open" /\ openFor > RecoveryTimeout
  /\ state' = "half_open" /\ openFor' = 0

(* success                                                                 *)
Close ==
  /\ state = "half_open"
  /\ state' = "closed" /\ UNCHANGED openFor

Wait ==
  /\ state = "open"
  /\ openFor' = openFor + 1 /\ UNCHANGED state

Next == Open \/ Test \/ Close \/ Wait

Spec == Init /\ [][Next]_<<state, openFor>>
==============================================================================
