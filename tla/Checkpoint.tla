------------------------------ MODULE Checkpoint ------------------------------
(***************************************************************************)
(* The pre-compact and session-start events of scripts/self_review_hook.py, *)
(* run by concurrent hosts on one checkout.  pre-compact digests the tree,  *)
(* writes a temporary file of its own and replaces CHECKPOINT.md by it;     *)
(* session-start reads CHECKPOINT.md.  Neither takes the state lock.        *)
(*                                                                         *)
(* The system calls of a session-start succeed; those of a pre-compact may  *)
(* fail, and its host may be killed.                                        *)
(*                                                                         *)
(* A checkpoint stands for the pre-compact event that wrote it; these are   *)
(* numbered as they begin.                                                 *)
(***************************************************************************)
EXTENDS Naturals, FiniteSets

CONSTANTS
    Hosts,            \* the processes that handle events
    NoCheckpoint,     \* there is no CHECKPOINT.md
    MaxCheckpoints    \* bound: pre-compact events in a behaviour

ASSUME CheckpointAssumption ==
    /\ MaxCheckpoints \in Nat
    /\ NoCheckpoint \notin [event : Nat, whole : BOOLEAN]

VARIABLES
    doing,      \* what each host does next
    number,     \* the pre-compact event it handles
    temp,       \* the temporary file of each event: "none", "part" or "whole"
    saved,      \* CHECKPOINT.md: the event, and whether it is all there
    opened,     \* the file that a session-start has opened
    told,       \* what it answers: "none", "unavailable", or "checkpoint"
    count,      \* pre-compact events so far
    over,       \* history: the events that have ended, in whatever way ...
    kept,       \* ... those that reported success ...
    earlier,    \* ... and those that were over when an event began
    expected,   \* history: a checkpoint had been kept when a session-start began
    disturbed   \* history: CHECKPOINT.md has been replaced since then

files == <<temp, saved>>
reader == <<opened, told, expected, disturbed>>
record == <<count, over, kept, earlier>>
checkpointVars == <<doing, number, files, reader, record>>

Events == 1..MaxCheckpoints
Reading == {"look", "open", "compare"}

CheckpointInit ==
    /\ doing = [h \in Hosts |-> "nothing"] /\ number = [h \in Hosts |-> 0]
    /\ temp = [n \in Events |-> "none"] /\ saved = NoCheckpoint
    /\ opened = [h \in Hosts |-> NoCheckpoint] /\ told = [h \in Hosts |-> "nothing"]
    /\ count = 0 /\ over = {} /\ kept = {} /\ earlier = [n \in Events |-> {}]
    /\ expected = [h \in Hosts |-> FALSE] /\ disturbed = [h \in Hosts |-> FALSE]

Continue(h, next) == doing' = [doing EXCEPT ![h] = next]

-----------------------------------------------------------------------------
(* pre-compact *)

PreCompact(h) ==
    /\ doing[h] = "nothing" /\ count < MaxCheckpoints
    /\ count' = count + 1
    /\ number' = [number EXCEPT ![h] = count']
    /\ earlier' = [earlier EXCEPT ![count'] = over]
    /\ Continue(h, "create")
    /\ UNCHANGED <<files, reader, over, kept>>

\* Mutant of Fill: the text goes into CHECKPOINT.md itself.
FillInPlace(h, size) ==
    /\ saved' = [event |-> number[h], whole |-> size = "whole"]
    /\ UNCHANGED temp

\* mkstemp() opens a file that no other event writes.
Fill(h, size) ==
    /\ temp' = [temp EXCEPT ![number[h]] = size]
    /\ UNCHANGED saved

CreateTemp(h) ==
    /\ doing[h] = "create"
    /\ Fill(h, "part")
    /\ Continue(h, "write")
    /\ UNCHANGED <<number, reader, record>>

WriteTemp(h) ==
    /\ doing[h] = "write"
    /\ Fill(h, "whole")
    /\ Continue(h, "replace")
    /\ UNCHANGED <<number, reader, record>>

\* os.replace()
ReplaceCheckpoint(h) ==
    /\ doing[h] = "replace"
    /\ saved' = [event |-> number[h], whole |-> temp[number[h]] = "whole"]
    /\ temp' = [temp EXCEPT ![number[h]] = "none"]
    /\ disturbed' = [g \in Hosts |-> disturbed[g] \/ doing[g] \in Reading]
    /\ Continue(h, "report")
    /\ UNCHANGED <<number, opened, told, expected, record>>

EventOver(h, success) ==
    /\ over' = over \cup {number[h]}
    /\ kept' = IF success THEN kept \cup {number[h]} ELSE kept
    /\ number' = [number EXCEPT ![h] = 0]
    /\ Continue(h, "nothing")
    /\ UNCHANGED <<reader, count, earlier>>

Reported(h) ==
    /\ doing[h] = "report"
    /\ EventOver(h, TRUE)
    /\ UNCHANGED files

\* Mutant of CheckpointFails: the failure is not reported.
FailureUnreported(h) ==
    /\ doing[h] \in {"create", "write", "replace"}
    /\ temp' = [temp EXCEPT ![number[h]] = "none"]
    /\ EventOver(h, TRUE)
    /\ UNCHANGED saved

\* The digest, the write or the replacement raises: the temporary file is unlinked and the
\* event is an error.
CheckpointFails(h) ==
    /\ doing[h] \in {"create", "write", "replace"}
    /\ temp' = [temp EXCEPT ![number[h]] = "none"]
    /\ EventOver(h, FALSE)
    /\ UNCHANGED saved

\* The host is killed; a temporary file stays.
CheckpointKilled(h) ==
    /\ doing[h] \in {"create", "write", "replace", "report"}
    /\ EventOver(h, FALSE)
    /\ UNCHANGED files

-----------------------------------------------------------------------------
(* session-start *)

SessionStart(h) ==
    /\ doing[h] = "nothing"
    /\ expected' = [expected EXCEPT ![h] = kept # {}]
    /\ disturbed' = [disturbed EXCEPT ![h] = FALSE]
    /\ told' = [told EXCEPT ![h] = "nothing"]
    /\ Continue(h, "look")
    /\ UNCHANGED <<number, files, opened, record>>

Answer(h, text) ==
    /\ told' = [told EXCEPT ![h] = text]
    /\ opened' = [opened EXCEPT ![h] = NoCheckpoint]
    /\ Continue(h, "nothing")
    /\ UNCHANGED <<number, files, expected, disturbed, record>>

\* path.exists()
LookForFile(h) ==
    /\ doing[h] = "look"
    /\ \/ saved = NoCheckpoint /\ Answer(h, "none")
       \/ /\ saved # NoCheckpoint
          /\ Continue(h, "open")
          /\ UNCHANGED <<number, files, reader, record>>

OpenFile(h) ==
    /\ doing[h] = "open"
    /\ opened' = [opened EXCEPT ![h] = saved]
    /\ Continue(h, "compare")
    /\ UNCHANGED <<number, files, told, expected, disturbed, record>>

\* read_regular_file_bounded() refuses what is no longer the file by that name, and
\* CHECKPOINT_PATTERN what is not a whole checkpoint.
ReadFileBack(h) ==
    /\ doing[h] = "compare"
    /\ Answer(h, IF saved = opened[h] /\ saved.whole THEN "checkpoint" ELSE "unavailable")

CheckpointNext ==
    \E h \in Hosts :
        \/ PreCompact(h) \/ CreateTemp(h) \/ WriteTemp(h) \/ ReplaceCheckpoint(h)
        \/ Reported(h) \/ CheckpointFails(h) \/ CheckpointKilled(h)
        \/ SessionStart(h) \/ LookForFile(h) \/ OpenFile(h) \/ ReadFileBack(h)

-----------------------------------------------------------------------------
(* Properties *)

\* A session that begins after a checkpoint was kept gets one: it is never told that there
\* is none, and told that it is unavailable only if CHECKPOINT.md was replaced while it
\* read; a writer that fails or is killed half way spoils nothing.
ResumeFindsCheckpoint ==
    \A h \in Hosts :
        /\ told[h] = "none" => ~expected[h]
        /\ told[h] = "unavailable" => disturbed[h]

\* A kept checkpoint is never lost to an event that was over before it began.  (Of two
\* events at the same time the one that began first may well be the one that stays.)
CheckpointIsRecent ==
    \A n \in kept : saved # NoCheckpoint /\ saved.event \notin earlier[n]
=============================================================================
