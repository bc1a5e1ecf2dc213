--------------------------- MODULE CheckpointProofs ---------------------------
(***************************************************************************)
(* Proofs about the checkpoints of the hook, for any number of hosts and    *)
(* events.  The argument: an event replaces CHECKPOINT.md only while it is  *)
(* not over, and by a temporary file that is whole and its own; what was    *)
(* over when another event began can therefore not come after it.          *)
(***************************************************************************)
EXTENDS HookEvents, TLAPS

Begun == 1..count
Saving == {"create", "write", "replace", "report"}
Whole == [event : Begun, whole : {TRUE}]

\* Types; every event at work is one that has begun and is not over; and CHECKPOINT.md is
\* whole, once there is one.
CheckpointTypes ==
    /\ count \in 0..MaxCheckpoints
    /\ doing \in [Hosts -> {"nothing"} \cup Saving \cup Reading]
    /\ number \in [Hosts -> Nat] /\ temp \in [Events -> {"none", "part", "whole"}]
    /\ saved \in Whole \cup {NoCheckpoint}
    /\ opened \in [Hosts -> Whole \cup {NoCheckpoint}]
    /\ told \in [Hosts -> {"nothing", "none", "unavailable", "checkpoint"}]
    /\ expected \in [Hosts -> BOOLEAN] /\ disturbed \in [Hosts -> BOOLEAN]
    /\ over \subseteq Begun /\ kept \subseteq over /\ earlier \in [Events -> SUBSET Begun]
    /\ \A h \in Hosts : doing[h] \in Saving => number[h] \in Begun \ over
    /\ \A g, h \in Hosts : doing[g] \in Saving /\ doing[h] \in Saving /\ number[g] = number[h] => g = h
    /\ \A h \in Hosts : doing[h] = "replace" => temp[number[h]] = "whole"

\* Nothing that was over when an event began comes after it.
Ordered ==
    /\ \A n \in Begun : earlier[n] \subseteq over
    /\ \A h \in Hosts : doing[h] = "report" =>
          saved # NoCheckpoint /\ saved.event \notin earlier[number[h]]
    /\ CheckpointIsRecent

\* A session that expects a checkpoint finds one, and the one it has opened unless it has
\* been replaced.
Resumable ==
    /\ \A h \in Hosts : expected[h] => saved # NoCheckpoint
    /\ \A h \in Hosts : doing[h] \in {"open", "compare"} => saved # NoCheckpoint
    /\ \A h \in Hosts : doing[h] = "compare" => opened[h] = saved \/ disturbed[h]
    /\ ResumeFindsCheckpoint

CheckpointInv == CheckpointTypes /\ Ordered /\ Resumable

-----------------------------------------------------------------------------
LEMMA CheckpointInitInv == CheckpointInit => CheckpointInv
<1> SUFFICES ASSUME CheckpointInit PROVE CheckpointInv
  OBVIOUS
<1> USE DEF CheckpointInit
<1>1. CheckpointTypes
  BY CheckpointAssumption DEF CheckpointTypes, Begun, Saving, Reading, Events
<1>2. Ordered
  BY DEF Ordered, CheckpointIsRecent, Begun
<1>3. Resumable
  BY DEF Resumable, ResumeFindsCheckpoint
<1> QED
  BY <1>1, <1>2, <1>3 DEF CheckpointInv

\* A checkpoint that is there is a record.
LEMMA WholeIsThere == ASSUME count \in Nat PROVE NoCheckpoint \notin Whole
<1>1. Begun \subseteq Nat
  BY DEF Begun
<1>2. Whole \subseteq [event : Nat, whole : BOOLEAN]
  BY <1>1 DEF Whole
<1> QED
  BY <1>2, CheckpointAssumption

\* The bound holds all that have begun.
LEMMA BegunAreEvents == ASSUME CheckpointTypes PROVE Begun \subseteq Events
<1>1. count \in Nat /\ MaxCheckpoints \in Nat /\ count <= MaxCheckpoints
  BY CheckpointAssumption DEF CheckpointTypes
<1> QED
  BY <1>1 DEF Begun, Events

LEMMA PreCompactInv ==
    ASSUME CheckpointInv, NEW h \in Hosts, PreCompact(h)
    PROVE  CheckpointInv'
<1> USE DEF CheckpointInv
<1>1. /\ doing[h] = "nothing" /\ count < MaxCheckpoints /\ count' = count + 1
      /\ number' = [number EXCEPT ![h] = count'] /\ earlier' = [earlier EXCEPT ![count'] = over]
      /\ doing' = [doing EXCEPT ![h] = "create"]
      /\ UNCHANGED <<temp, saved, opened, told, expected, disturbed, over, kept>>
  BY DEF PreCompact, Continue, files, reader
<1>2. count \in Nat /\ Begun \subseteq Begun' /\ count' \in Events /\ count' \in Begun' \ Begun
  BY <1>1, CheckpointAssumption DEF CheckpointTypes, Begun, Events
<1>3. Whole \subseteq Whole'
  BY <1>2 DEF Whole
<1>4. CheckpointTypes'
  <2>1. /\ count' \in 0..MaxCheckpoints /\ number' \in [Hosts -> Nat]
        /\ doing' \in [Hosts -> {"nothing"} \cup Saving \cup Reading]
    BY <1>1, <1>2, CheckpointAssumption DEF CheckpointTypes, Saving
  <2>2. /\ saved' \in Whole' \cup {NoCheckpoint}
        /\ opened' \in [Hosts -> Whole' \cup {NoCheckpoint}]
    BY <1>1, <1>3 DEF CheckpointTypes
  <2>3. over' \subseteq Begun' /\ kept' \subseteq over'
    BY <1>1, <1>2 DEF CheckpointTypes
  <2>4. earlier' \in [Events -> SUBSET Begun']
    BY <1>1, <1>2 DEF CheckpointTypes
  <2>5. \A g \in Hosts : doing'[g] \in Saving => number'[g] \in Begun' \ over'
    BY <1>1, <1>2 DEF CheckpointTypes
  <2>6. \A g, k \in Hosts : doing'[g] \in Saving /\ doing'[k] \in Saving /\ number'[g] = number'[k] => g = k
    BY <1>1, <1>2 DEF CheckpointTypes, Saving
  <2>7. \A g \in Hosts : doing'[g] = "replace" => temp'[number'[g]] = "whole"
    BY <1>1 DEF CheckpointTypes
  <2> QED
    BY <1>1, <2>1, <2>2, <2>3, <2>4, <2>5, <2>6, <2>7 DEF CheckpointTypes, Events
<1>5. Ordered'
  <2>1. \A n \in Begun : n # count' /\ earlier'[n] = earlier[n]
    BY <1>1, <1>2 DEF CheckpointTypes, Begun, Events
  <2>2. \A n \in Begun' : earlier'[n] \subseteq over'
    BY <1>1, <1>2, <2>1 DEF CheckpointTypes, Ordered, Begun, Events
  <2>3. ASSUME NEW g \in Hosts, doing'[g] = "report"
        PROVE  saved' # NoCheckpoint /\ saved'.event \notin earlier'[number'[g]]
    BY <1>1, <2>1, <2>3 DEF CheckpointTypes, Ordered, Saving
  <2>4. CheckpointIsRecent'
    BY <1>1, <2>1 DEF CheckpointTypes, Ordered, CheckpointIsRecent
  <2> QED
    BY <2>2, <2>3, <2>4 DEF Ordered
<1>6. Resumable'
  BY <1>1 DEF Resumable, ResumeFindsCheckpoint, CheckpointTypes
<1> QED
  BY <1>4, <1>5, <1>6

\* The temporary file grows; it is this event's alone.
LEMMA FillInv ==
    ASSUME CheckpointInv, NEW h \in Hosts, CreateTemp(h) \/ WriteTemp(h)
    PROVE  CheckpointInv'
<1> USE DEF CheckpointInv
<1>1. PICK size \in {"part", "whole"}, next \in {"write", "replace"} :
         /\ doing[h] \in {"create", "write"} /\ (next = "replace" => size = "whole")
         /\ temp' = [temp EXCEPT ![number[h]] = size] /\ doing' = [doing EXCEPT ![h] = next]
  BY DEF CreateTemp, WriteTemp, Fill, Continue
<1>2. UNCHANGED <<number, saved, opened, told, expected, disturbed, count, over, kept, earlier>>
  BY DEF CreateTemp, WriteTemp, Fill, reader, record
<1>3. number[h] \in Begun /\ Begun \subseteq Events
  BY <1>1, BegunAreEvents DEF CheckpointTypes, Saving
<1>4. CheckpointTypes'
  <2>1. doing' \in [Hosts -> {"nothing"} \cup Saving \cup Reading]
    BY <1>1 DEF CheckpointTypes, Saving
  <2>2. temp' \in [Events -> {"none", "part", "whole"}]
    BY <1>1 DEF CheckpointTypes
  <2>3. \A g \in Hosts : doing'[g] \in Saving => doing[g] \in Saving
    BY <1>1 DEF CheckpointTypes, Saving
  <2>4. \A g \in Hosts : doing'[g] = "replace" => temp'[number'[g]] = "whole"
    BY <1>1, <1>2, <1>3, <2>3 DEF CheckpointTypes, Saving
  <2> QED
    BY <1>2, <2>1, <2>2, <2>3, <2>4 DEF CheckpointTypes, Begun, Whole
<1>5. Ordered'
  BY <1>1, <1>2 DEF Ordered, CheckpointIsRecent, CheckpointTypes, Begun
<1>6. Resumable'
  BY <1>1, <1>2 DEF Resumable, ResumeFindsCheckpoint, CheckpointTypes
<1> QED
  BY <1>4, <1>5, <1>6

LEMMA ReplaceInv ==
    ASSUME CheckpointInv, NEW h \in Hosts, ReplaceCheckpoint(h)
    PROVE  CheckpointInv'
<1> USE DEF CheckpointInv
<1>1. /\ doing[h] = "replace" /\ temp[number[h]] = "whole"
      /\ saved' = [event |-> number[h], whole |-> temp[number[h]] = "whole"]
      /\ temp' = [temp EXCEPT ![number[h]] = "none"]
      /\ disturbed' = [g \in Hosts |-> disturbed[g] \/ doing[g] \in Reading]
      /\ doing' = [doing EXCEPT ![h] = "report"]
  BY DEF ReplaceCheckpoint, Continue, CheckpointTypes
<1>2. UNCHANGED <<number, opened, told, expected, count, over, kept, earlier>>
  BY DEF ReplaceCheckpoint, record
<1>3. number[h] \in Begun /\ number[h] \notin over /\ Begun \subseteq Events
  BY <1>1, BegunAreEvents DEF CheckpointTypes, Saving
<1>4. saved' \in Whole /\ saved'.event = number[h]
  BY <1>1, <1>3 DEF Whole
<1>5. saved' # NoCheckpoint
  <2>1. count \in Nat
    BY DEF CheckpointTypes
  <2> QED
    BY <1>4, <2>1, WholeIsThere
<1>6. CheckpointTypes'
  <2>1. doing' \in [Hosts -> {"nothing"} \cup Saving \cup Reading]
    BY <1>1 DEF CheckpointTypes, Saving
  <2>2. temp' \in [Events -> {"none", "part", "whole"}]
    BY <1>1 DEF CheckpointTypes
  <2>3. \A g \in Hosts : doing'[g] \in Saving => doing[g] \in Saving
    BY <1>1 DEF CheckpointTypes, Saving
  <2>4. ASSUME NEW g \in Hosts, doing'[g] = "replace" PROVE temp'[number'[g]] = "whole"
    <3>1. g # h /\ doing[g] = "replace"
      BY <1>1, <2>4 DEF CheckpointTypes
    <3>2. number[g] # number[h] /\ number[g] \in Events
      BY <1>1, <1>3, <3>1 DEF CheckpointTypes, Saving
    <3> QED
      BY <1>1, <1>2, <3>1, <3>2 DEF CheckpointTypes
  <2>5. disturbed' \in [Hosts -> BOOLEAN]
    BY <1>1 DEF CheckpointTypes
  <2>6. Whole' = Whole /\ Begun' = Begun
    BY <1>2 DEF Whole, Begun
  <2> QED
    BY <1>2, <1>4, <2>1, <2>2, <2>3, <2>4, <2>5, <2>6 DEF CheckpointTypes
<1>7. Ordered'
  <2>1. \A n \in Begun : number[h] \notin earlier[n]
    BY <1>3 DEF Ordered
  <2>2. ASSUME NEW g \in Hosts, doing'[g] = "report"
        PROVE  number[g] \in Begun
    BY <1>1, <1>3, <2>2 DEF CheckpointTypes, Saving
  <2>3. CheckpointIsRecent'
    BY <1>2, <1>4, <1>5, <2>1 DEF CheckpointIsRecent, CheckpointTypes
  <2> QED
    BY <1>2, <1>4, <1>5, <2>1, <2>2, <2>3 DEF Ordered, Begun
<1>8. Resumable'
  <2>1. \A g \in Hosts : disturbed[g] => disturbed'[g]
    BY <1>1 DEF CheckpointTypes
  <2>2. \A g \in Hosts : doing'[g] = "compare" => disturbed'[g]
    BY <1>1 DEF CheckpointTypes, Reading
  <2>3. ResumeFindsCheckpoint'
    BY <1>2, <2>1 DEF Resumable, ResumeFindsCheckpoint
  <2> QED
    BY <1>5, <2>2, <2>3 DEF Resumable
<1> QED
  BY <1>6, <1>7, <1>8

\* An event that ends, in whatever way, replaces nothing.
LEMMA OverInv ==
    ASSUME CheckpointInv, NEW h \in Hosts, Reported(h) \/ CheckpointFails(h) \/ CheckpointKilled(h)
    PROVE  CheckpointInv'
<1> USE DEF CheckpointInv
<1>1. PICK success \in BOOLEAN :
         /\ doing[h] \in Saving /\ (success => doing[h] = "report") /\ EventOver(h, success)
         /\ saved' = saved /\ temp' \in {temp, [temp EXCEPT ![number[h]] = "none"]}
  BY DEF Reported, CheckpointFails, CheckpointKilled, files, Saving
<1>2. /\ over' = over \cup {number[h]}
      /\ kept' = IF success THEN kept \cup {number[h]} ELSE kept
      /\ number' = [number EXCEPT ![h] = 0] /\ doing' = [doing EXCEPT ![h] = "nothing"]
      /\ UNCHANGED <<opened, told, expected, disturbed, count, earlier>>
  BY <1>1 DEF EventOver, Continue, reader
<1>3. number[h] \in Begun /\ Begun \subseteq Events /\ Begun' = Begun /\ Whole' = Whole
  <2>1. number[h] \in Begun /\ Begun \subseteq Events
    BY <1>1, BegunAreEvents DEF CheckpointTypes
  <2> QED
    BY <1>2, <2>1 DEF Begun, Whole
<1>4. CheckpointTypes'
  <2>1. doing' \in [Hosts -> {"nothing"} \cup Saving \cup Reading] /\ number' \in [Hosts -> Nat]
    BY <1>2 DEF CheckpointTypes
  <2>2. temp' \in [Events -> {"none", "part", "whole"}]
    BY <1>1 DEF CheckpointTypes
  <2>3. over' \subseteq Begun /\ kept' \subseteq over'
    BY <1>2, <1>3 DEF CheckpointTypes
  <2>4. \A g \in Hosts : doing'[g] \in Saving =>
           g # h /\ doing[g] \in Saving /\ number'[g] = number[g] /\ number[g] # number[h]
    BY <1>1, <1>2 DEF CheckpointTypes, Saving
  <2>5. \A g \in Hosts : doing'[g] \in Saving => number'[g] \in Begun \ over'
    BY <1>2, <2>4 DEF CheckpointTypes
  <2>6. \A g, k \in Hosts : doing'[g] \in Saving /\ doing'[k] \in Saving /\ number'[g] = number'[k] => g = k
    BY <2>4 DEF CheckpointTypes
  <2>7. ASSUME NEW g \in Hosts, doing'[g] = "replace" PROVE temp'[number'[g]] = "whole"
    <3>1. doing[g] = "replace" /\ number'[g] = number[g] /\ number[g] # number[h] /\ number[g] \in Events
      BY <1>2, <1>3, <2>4, <2>7 DEF CheckpointTypes, Saving
    <3> QED
      BY <1>1, <3>1 DEF CheckpointTypes
  <2> QED
    BY <1>1, <1>2, <1>3, <2>1, <2>2, <2>3, <2>5, <2>6, <2>7 DEF CheckpointTypes
<1>5. Ordered'
  <2>1. \A n \in Begun' : earlier'[n] \subseteq over'
    BY <1>2, <1>3 DEF Ordered
  <2>2. \A g \in Hosts : doing'[g] = "report" => doing[g] = "report" /\ number'[g] = number[g]
    BY <1>2 DEF CheckpointTypes
  <2>3. CheckpointIsRecent'
    <3>1. ASSUME NEW n \in kept' PROVE saved # NoCheckpoint /\ saved.event \notin earlier[n]
      <4>1. CASE n \in kept
        BY <4>1 DEF Ordered, CheckpointIsRecent
      <4>2. CASE n \notin kept
        <5>1. success /\ n = number[h]
          BY <1>2, <3>1, <4>2
        <5> QED
          BY <1>1, <5>1 DEF Ordered
      <4> QED
        BY <4>1, <4>2
    <3> QED
      BY <1>1, <1>2, <3>1 DEF CheckpointIsRecent
  <2> QED
    BY <1>1, <1>2, <2>1, <2>2, <2>3 DEF Ordered
<1>6. Resumable'
  BY <1>1, <1>2 DEF Resumable, ResumeFindsCheckpoint, CheckpointTypes
<1> QED
  BY <1>4, <1>5, <1>6

\* A session-start changes only what it knows itself.
LEMMA ReaderInv ==
    ASSUME CheckpointInv, NEW h \in Hosts,
           SessionStart(h) \/ LookForFile(h) \/ OpenFile(h) \/ ReadFileBack(h)
    PROVE  CheckpointInv'
<1> USE DEF CheckpointInv
<1>1. UNCHANGED <<number, temp, saved, count, over, kept, earlier>>
  BY DEF SessionStart, LookForFile, OpenFile, ReadFileBack, Answer, files, record
<1>2. PICK next \in {"nothing"} \cup Reading :
         /\ doing' = [doing EXCEPT ![h] = next] /\ doing[h] \in {"nothing"} \cup Reading
  BY DEF SessionStart, LookForFile, OpenFile, ReadFileBack, Answer, Continue, Reading
<1>3. Begun' = Begun /\ Whole' = Whole
  BY <1>1 DEF Begun, Whole
<1>4. \A g \in Hosts : doing'[g] \in Saving => doing'[g] = doing[g]
  BY <1>2 DEF CheckpointTypes, Saving, Reading
<1>5. /\ opened' \in [Hosts -> Whole \cup {NoCheckpoint}]
      /\ told' \in [Hosts -> {"nothing", "none", "unavailable", "checkpoint"}]
      /\ expected' \in [Hosts -> BOOLEAN] /\ disturbed' \in [Hosts -> BOOLEAN]
  <2>1. CASE SessionStart(h)
    BY <2>1 DEF SessionStart, CheckpointTypes
  <2>2. \A text \in {"none", "unavailable", "checkpoint"} : Answer(h, text) =>
           /\ opened' = [opened EXCEPT ![h] = NoCheckpoint] /\ told' = [told EXCEPT ![h] = text]
           /\ UNCHANGED <<expected, disturbed>>
    BY DEF Answer
  <2>3. CASE \E text \in {"none", "unavailable", "checkpoint"} : Answer(h, text)
    BY <2>2, <2>3 DEF CheckpointTypes
  <2>4. CASE LookForFile(h)
    BY <2>3, <2>4 DEF LookForFile, reader, CheckpointTypes
  <2>5. CASE OpenFile(h)
    BY <2>5 DEF OpenFile, CheckpointTypes
  <2>6. CASE ReadFileBack(h)
    BY <2>3, <2>6 DEF ReadFileBack
  <2> QED
    BY <2>1, <2>4, <2>5, <2>6
<1>6. CheckpointTypes'
  <2>1. doing' \in [Hosts -> {"nothing"} \cup Saving \cup Reading]
    BY <1>2 DEF CheckpointTypes
  <2>2. \A g \in Hosts : doing'[g] = "replace" => doing[g] = "replace"
    BY <1>4 DEF Saving
  <2> QED
    BY <1>1, <1>3, <1>4, <1>5, <2>1, <2>2 DEF CheckpointTypes
<1>7. Ordered'
  <2>1. \A g \in Hosts : doing'[g] = "report" => doing[g] = "report"
    BY <1>4 DEF Saving
  <2> QED
    BY <1>1, <1>3, <2>1 DEF Ordered, CheckpointIsRecent
<1>8. Resumable'
  <2>1. CASE SessionStart(h)
    <3>1. /\ expected' = [expected EXCEPT ![h] = kept # {}] /\ disturbed' = [disturbed EXCEPT ![h] = FALSE]
          /\ told' = [told EXCEPT ![h] = "nothing"] /\ doing' = [doing EXCEPT ![h] = "look"]
          /\ opened' = opened
      BY <2>1 DEF SessionStart, Continue
    <3>2. kept # {} => saved # NoCheckpoint
      BY DEF Ordered, CheckpointIsRecent
    <3> QED
      BY <1>1, <3>1, <3>2 DEF Resumable, ResumeFindsCheckpoint, CheckpointTypes
  <2>2. CASE LookForFile(h)
    <3>1. CASE saved = NoCheckpoint
      <4>1. Answer(h, "none") /\ ~expected[h]
        BY <2>2, <3>1 DEF LookForFile, Resumable
      <4> QED
        BY <1>1, <4>1 DEF Answer, Continue, Resumable, ResumeFindsCheckpoint, CheckpointTypes
    <3>2. CASE saved # NoCheckpoint
      BY <1>1, <2>2, <3>2 DEF LookForFile, Continue, reader, Resumable, ResumeFindsCheckpoint, CheckpointTypes
    <3> QED
      BY <3>1, <3>2
  <2>3. CASE OpenFile(h)
    BY <1>1, <2>3 DEF OpenFile, Continue, Resumable, ResumeFindsCheckpoint, CheckpointTypes
  <2>4. CASE ReadFileBack(h)
    <3>1. doing[h] = "compare" /\ Answer(h, IF saved = opened[h] /\ saved.whole THEN "checkpoint" ELSE "unavailable")
      BY <2>4 DEF ReadFileBack
    <3>2. saved.whole
      BY <3>1 DEF Resumable, CheckpointTypes, Whole
    <3>3. PICK text \in {"checkpoint", "unavailable"} :
             Answer(h, text) /\ (text = "unavailable" => disturbed[h])
      BY <3>1, <3>2 DEF Resumable
    <3> QED
      BY <1>1, <3>1, <3>3 DEF Answer, Continue, Resumable, ResumeFindsCheckpoint, CheckpointTypes
  <2> QED
    BY <2>1, <2>2, <2>3, <2>4
<1> QED
  BY <1>6, <1>7, <1>8

LEMMA CheckpointNextInv ==
    ASSUME CheckpointInv, [CheckpointNext]_checkpointVars
    PROVE  CheckpointInv'
<1>1. CASE CheckpointNext
  BY <1>1, PreCompactInv, FillInv, ReplaceInv, OverInv, ReaderInv DEF CheckpointNext
<1>2. CASE UNCHANGED checkpointVars
  BY <1>2 DEF checkpointVars, files, reader, record, CheckpointInv, CheckpointTypes, Begun, Whole,
     Ordered, CheckpointIsRecent, Resumable, ResumeFindsCheckpoint
<1> QED
  BY <1>1, <1>2

LEMMA CheckpointInvariant == EventsSpec => []CheckpointInv
<1>1. EventsInit => CheckpointInv
  BY CheckpointInitInv DEF EventsInit
<1>2. CheckpointInv /\ [EventsNext]_<<kind, vars, checkpointVars>> => CheckpointInv'
  BY CheckpointNextInv DEF EventsNext
<1> QED
  BY <1>1, <1>2, PTL DEF EventsSpec

-----------------------------------------------------------------------------
\* Types of the checkpoints' state: events at work have a temporary file each and are not
\* over, and CHECKPOINT.md is never a part of a checkpoint.
THEOREM CheckpointTypeCorrect == EventsSpec => []CheckpointTypes
BY CheckpointInvariant, PTL DEF CheckpointInv

\* No kept checkpoint is lost to an event that was over before it began, for any hosts.
THEOREM KeptStaysRecent == EventsSpec => []CheckpointIsRecent
<1>1. CheckpointInv => CheckpointIsRecent
  BY DEF CheckpointInv, Ordered
<1> QED
  BY <1>1, CheckpointInvariant, PTL

\* A session that starts after a checkpoint was kept gets one, unless it is replaced while
\* the session reads it.
THEOREM SessionsResume == EventsSpec => []ResumeFindsCheckpoint
<1>1. CheckpointInv => ResumeFindsCheckpoint
  BY DEF CheckpointInv, Resumable
<1> QED
  BY <1>1, CheckpointInvariant, PTL

-----------------------------------------------------------------------------
\* Whatever the kind of its events, a behaviour of all events is one of stop events as far
\* as their variables go: the theorems about SelfReviewHook!Spec hold of the dispatch by main().
THEOREM StopEventsAmongAll == EventsSpec => Spec
<1>1. EventsInit => Init
  BY DEF EventsInit
<1>2. [EventsNext]_<<kind, vars, checkpointVars>> => [Next]_vars
  BY DEF EventsNext
<1> QED
  BY <1>1, <1>2, PTL DEF EventsSpec, Spec
=============================================================================
