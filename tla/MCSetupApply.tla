----------------------------- MODULE MCSetupApply -----------------------------
(* SetupApply with two runs, a canonical file 1 and its mirror 2.              *)
EXTENDS SetupApply, TLC

CONSTANTS agents   \* the directory of the canonical skill, which may be missing

MCParent == [f \in Files |-> IF f = 1 THEN agents ELSE Root]
Symmetric == Permutations(Runs)
=============================================================================
