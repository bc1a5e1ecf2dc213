---------------------------- MODULE MCOutcomeLedger ----------------------------
(* OutcomeLedger with two writers, one or two gates and a short ledger.         *)
EXTENDS OutcomeLedger, TLC

CONSTANTS g1, g2

E(k, gs) == [kind |-> k, gates |-> gs]

MCGates == {g1, g2}
MCEvents == {E("candidate", {}), E("failed", {g1, g2}), E("passed", {g1})}
Symmetric == Permutations(Writers)
=============================================================================
