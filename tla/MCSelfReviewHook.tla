--------------------------- MODULE MCSelfReviewHook ---------------------------
(* HookEvents on two hosts for stop events and three for checkpoints.  Hosts and *)
(* contents of the tree are interchangeable, and the processes, of which all    *)
(* are slow or none; the sessions are not, because eviction compares their keys. *)
EXTENDS HookEvents, TLC

Symmetric == Permutations(Proc) \cup Permutations(Digests) \cup Permutations(Hosts)
=============================================================================
