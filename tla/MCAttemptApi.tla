---------------------------- MODULE MCAttemptApi ----------------------------
(***************************************************************************)
(* Instances of the attempt endpoints for TLC.                             *)
(***************************************************************************)
EXTENDS AttemptRefinement, TLC

Symmetry == Permutations(Requests) \cup Permutations(Answers)

============================================================================
