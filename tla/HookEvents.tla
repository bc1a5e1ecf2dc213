------------------------------ MODULE HookEvents ------------------------------
(***************************************************************************)
(* All events of scripts/self_review_hook.py on one checkout, dispatched by *)
(* main(): stop events (SelfReviewHook), pre-compact and session-start      *)
(* events (Checkpoint).  The two kinds share no file, so a behaviour has    *)
(* events of one kind only.                                                *)
(***************************************************************************)
EXTENDS SelfReviewHook, Checkpoint

VARIABLE kind   \* of the events of this behaviour

EventsInit ==
    /\ kind \in {"stop", "checkpoint"}
    /\ Init /\ CheckpointInit
    /\ kind = "checkpoint" => tree = CHOOSE d \in Digests : TRUE

EventsNext ==
    /\ \/ kind = "stop" /\ Next /\ UNCHANGED checkpointVars
       \/ kind = "checkpoint" /\ CheckpointNext /\ UNCHANGED vars
    /\ UNCHANGED kind

EventsSpec == EventsInit /\ [][EventsNext]_<<kind, vars, checkpointVars>>
=============================================================================
