-------------------------- MODULE MCOperationTasks --------------------------
(* Model checking of OperationTasks with few keys and lanes.                 *)
EXTENDS OperationTasks, TLC

CONSTANT Windows   \* window lanes that are alike

Symmetry == Permutations(Keys) \cup Permutations(Windows)
=============================================================================
