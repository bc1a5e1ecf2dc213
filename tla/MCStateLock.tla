----------------------------- MODULE MCStateLock -----------------------------
(* StateLock on three processes.  The processes are interchangeable where none *)
(* of them is slow, and symmetry is used in the runs without liveness.        *)
EXTENDS StateLock, TLC

Symmetric == Permutations(Proc)
=============================================================================
