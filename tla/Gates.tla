-------------------------------- MODULE Gates --------------------------------
(***************************************************************************)
(* The gates of scripts/ that read and judge, each at work in a target that *)
(* people and commands go on changing: the check of schema versions         *)
(* (ShapeVersion), the search of the history (HistoryScan) and the check of *)
(* a stack of branches (BranchStack), on one Git repository, and the        *)
(* preflight (Preflight), on the working tree.                              *)
(*                                                                         *)
(* A gate writes nothing that another one reads, so one of them is enough   *)
(* for a behaviour.                                                        *)
(***************************************************************************)
EXTENDS ShapeVersion, HistoryScan, BranchStack, Preflight

VARIABLE gate   \* the gate of this behaviour

vars == <<gate, repo, shape, scanning, stacking, preflightVars>>

Init ==
    /\ gate \in {"shape", "history", "stack", "preflight"}
    /\ GitInit /\ ShapeInit /\ ScanInit /\ StackInit /\ PreflightInit
    /\ gate = "stack" <=> {Stack[i] : i \in 1..Len(Stack)} \subseteq Branches
    /\ gate # "preflight" => config = CHOOSE c \in Configs : TRUE

Next ==
    /\ \/ gate = "shape" /\ ShapeNext /\ UNCHANGED <<scanning, stacking, preflightVars>>
       \/ gate = "history" /\ ScanNext /\ UNCHANGED <<shape, stacking, preflightVars>>
       \/ gate = "stack" /\ StackNext /\ UNCHANGED <<shape, scanning, preflightVars>>
       \/ gate = "preflight" /\ PreflightNext /\ UNCHANGED <<repo, shape, scanning, stacking>>
    /\ UNCHANGED gate

Spec == Init /\ [][Next]_vars
=============================================================================
