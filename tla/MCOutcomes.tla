----------------------------- MODULE MCOutcomes -----------------------------
(***************************************************************************)
(* Outcomes for TLC: jobs and handlers are interchangeable, which reduces  *)
(* the states of a run that checks invariants only.                        *)
(***************************************************************************)
EXTENDS Outcomes, TLC

Symmetry == Permutations(Jobs) \cup Permutations(Handlers)
=============================================================================
