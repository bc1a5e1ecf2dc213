--------------------------- MODULE MCBoundedProcess ---------------------------
(* BoundedProcess with one leader and one or two descendants.                  *)
EXTENDS BoundedProcess
=============================================================================
