------------------------------- MODULE MCGates -------------------------------
(* Gates on three commits and two branches (three for a stack), and on two     *)
(* files and an artifact.                                                      *)
EXTENDS Gates

CONSTANTS main, side, top, shapeA, shapeB, fileF, fileG

Stacked == <<main, side, top>>

\* A version may be raised with and without a new shape, and a shape changed without one.
Versioned == { [shape |-> shapeA, version |-> 1],
               [shape |-> shapeB, version |-> 1], [shape |-> shapeB, version |-> 2] }

Setups == {
    [configured |-> FALSE, pairs |-> 1, visual |-> "unset"],
    [configured |-> TRUE, pairs |-> 1, visual |-> "required"],
    [configured |-> TRUE, pairs |-> 1, visual |-> "not_applicable"],
    [configured |-> TRUE, pairs |-> 2, visual |-> "required"],        \* one read too many
    [configured |-> TRUE, pairs |-> 3, visual |-> "not_applicable"] } \* several
=============================================================================
