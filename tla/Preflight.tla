------------------------------ MODULE Preflight ------------------------------
(***************************************************************************)
(* scripts/agent_preflight.py: run_preflight() and its seven checks, one    *)
(* after the other over one working tree, while the commands it starts      *)
(* write files and people edit, restore and review them.                   *)
(*                                                                         *)
(* The content of a file is a version that no other write gives again; it   *)
(* stands for the digest, and for the times and size of an artifact.  What  *)
(* the checks look for in a file is left to chance.  Commands return or are *)
(* stopped at their timeout (module BoundedProcess); shape_version is one   *)
(* step here (module ShapeVersion).                                        *)
(***************************************************************************)
EXTENDS Naturals, FiniteSets, Sequences

CONSTANTS
    Files,        \* the files of the target
    Artifacts,    \* what the visual command must produce
    Scanned,      \* the files whose handlers are scanned
    Ruled,        \* the files with convention rules
    Bound,        \* the files that the self-review receipt is about
    Commands,     \* number of self-test commands
    MaxReads,     \* MAX_FILES: reads of all checks together
    Configs,      \* configurations: whether there is one, its schema pairs, its visual mode
    MaxWrites     \* bound: writes in a behaviour

ASSUME PreflightAssumption ==
    /\ Scanned \cup Ruled \cup Bound \subseteq Files /\ IsFiniteSet(Files)
    /\ Artifacts \cap Files = {}
    /\ Commands \in Nat \ {0} /\ MaxReads \in Nat /\ MaxWrites \in Nat
    /\ Configs \subseteq [configured : BOOLEAN, pairs : Nat \ {0},
                          visual : {"required", "not_applicable", "unset"}]

VARIABLES
    config,     \* the configuration
    tree,       \* the version of each file and artifact; 0 is none
    receipt,    \* the versions that the self-review receipt names
    writes,     \* writes so far
    at,         \* the check at work; "idle" before a run, "done" after it
    todo,       \* the files it has still to read, or the commands it has still to run
    running,    \* it waits for a command
    status,     \* the worst status so far
    reads,      \* ReadBudget.files
    before,     \* the artifacts before the visual command
    looked,     \* history: what this run has looked at: <<check, file, version>>
    made,       \* history: the artifacts that its visual command has written
    events      \* history: what people have done in this run

target == <<config, tree, receipt, writes>>
check == <<at, todo, running, status, reads, before>>
history == <<looked, made, events>>
preflightVars == <<target, check, history>>

Scanning == {"silent_handlers", "convention_sync", "self_review"}

PreflightInit ==
    /\ config \in Configs
    /\ tree = [x \in Files \cup Artifacts |-> IF x \in Files THEN 1 ELSE 0]
    /\ receipt = [f \in Bound |-> 1] /\ writes = 1
    /\ at = "idle" /\ todo = {} /\ running = FALSE
    /\ status = "PASS" /\ reads = 0 /\ before = [a \in Artifacts |-> 0]
    /\ looked = {} /\ made = {} /\ events = {}

Worst(s) ==
    IF "FAIL" \in {s, status} THEN "FAIL"
    ELSE IF "NO_GATE" \in {s, status} THEN "NO_GATE" ELSE "PASS"

\* Mutant of Layers: the receipt is compared before anything has run.
LayersReviewFirst ==
    <<"shape_version", "self_review", "silent_handlers", "convention_sync", "runtime",
      "selftests", "visual", "done">>

\* CHECK_NAMES
Layers ==
    <<"shape_version", "silent_handlers", "convention_sync", "runtime",
      "selftests", "visual", "self_review", "done">>

Work(layer) ==
    CASE layer = "silent_handlers" -> Scanned
      [] layer = "convention_sync" -> Ruled
      [] layer = "self_review" -> Bound
      [] layer = "runtime" -> {1}   \* the probe of the imports
      [] layer = "selftests" -> 1..Commands
      [] OTHER -> {}

Begin(layer) == at' = layer /\ todo' = Work(layer)

\* The check has this status, and the next one begins.
Conclude(s) ==
    /\ status' = Worst(s)
    /\ \E i \in 1..7 : Layers[i] = at /\ Begin(Layers[i + 1])

\* A configuration that is not valid has all checks run, for a FAIL.
Start ==
    /\ at \in {"idle", "done"}
    /\ status' \in IF config.configured THEN {"PASS", "FAIL"} ELSE {"NO_GATE"}
    /\ Begin(IF config.configured THEN Layers[1] ELSE "done")
    /\ reads' = 0
    /\ looked' = {} /\ made' = {} /\ events' = {}
    /\ UNCHANGED <<target, running, before>>

\* A check finds what it looks for, has invalid settings, cannot read a file, or raises.
CheckFails ==
    /\ at \notin {"idle", "done"} /\ ~running
    /\ Conclude("FAIL")
    /\ UNCHANGED <<target, running, reads, before, history>>

\* Two reads for each pair.
ShapeChecked ==
    /\ at = "shape_version"
    /\ LET wanted == 2 * config.pairs
       IN  /\ reads' = IF wanted > MaxReads THEN MaxReads ELSE wanted
           /\ Conclude(IF wanted > MaxReads THEN "FAIL" ELSE "PASS")
    /\ UNCHANGED <<target, running, before, history>>

\* _read_bytes(), on the budget that all checks share.
ReadFile ==
    /\ at \in Scanning /\ reads < MaxReads
    /\ \E f \in todo :
          /\ todo' = todo \ {f}
          /\ looked' = looked \cup {<<at, f, tree[f]>>}
    /\ reads' = reads + 1
    /\ UNCHANGED <<target, at, running, status, before, made, events>>

\* The budget is spent, which is an error of the check that comes too late.
ReadRefused ==
    /\ at \in Scanning /\ reads >= MaxReads
    /\ \E f \in todo : todo' = todo \ {f}
    /\ status' = "FAIL"
    /\ UNCHANGED <<target, at, running, reads, before, history>>

ScanPasses ==
    /\ at \in Scanning \ {"self_review"} /\ todo = {}
    /\ Conclude("PASS")
    /\ UNCHANGED <<target, running, reads, before, history>>

\* What compute_bound_digest() has read is what the receipt names.
Reviewed == \A f \in Bound : <<"self_review", f, receipt[f]>> \in looked

\* Mutant of ReceiptCompared: compute_bound_digest() and the receipt have a budget each.
ReceiptOnItsOwn ==
    /\ at = "self_review" /\ todo = {}
    /\ Conclude(IF Reviewed THEN "PASS" ELSE "FAIL")
    /\ UNCHANGED <<target, running, reads, before, history>>

\* The receipt is one more file to read.
ReceiptCompared ==
    /\ at = "self_review" /\ todo = {}
    /\ reads' = IF reads < MaxReads THEN reads + 1 ELSE reads
    /\ Conclude(IF reads < MaxReads /\ Reviewed THEN "PASS" ELSE "FAIL")
    /\ UNCHANGED <<target, running, before, history>>

-----------------------------------------------------------------------------
(* The checks that run commands *)

\* The next command; a self-test sees the tree as it is.
RunCommand ==
    /\ at \in {"runtime", "selftests"} /\ todo # {} /\ ~running
    /\ running' = TRUE
    /\ looked' = IF at = "runtime" THEN looked
                 ELSE looked \cup {<<at, f, tree[f]>> : f \in Bound}
    /\ UNCHANGED <<target, at, todo, status, reads, before, made, events>>

\* All have run; without imports there is no probe.
CommandsPass ==
    /\ \/ at = "runtime" /\ ~running
       \/ at = "selftests" /\ todo = {}
    /\ Conclude("PASS")
    /\ UNCHANGED <<target, running, reads, before, history>>

\* The artifacts are looked at, and the visual command starts.
RunVisual ==
    /\ at = "visual" /\ config.visual = "required" /\ ~running
    /\ running' = TRUE
    /\ before' = [a \in Artifacts |-> tree[a]]
    /\ UNCHANGED <<target, at, todo, status, reads, history>>

\* The check is declared not applicable; or it is not set up, or not well.
NoVisual ==
    /\ at = "visual" /\ ~running
    /\ \/ config.visual = "not_applicable" /\ Conclude("PASS")
       \/ Conclude("NO_GATE")
    /\ UNCHANGED <<target, running, reads, before, history>>

\* Mutant of Fresh: an artifact that is there will do.
FreshIfThere(a) == tree[a] # 0

\* It is there, and not as it was before the command.
Fresh(a) == tree[a] # 0 /\ tree[a] # before[a]

\* The command ends with status 0.
CommandSucceeds ==
    /\ running
    /\ running' = FALSE
    /\ IF at = "visual" THEN Conclude(IF \A a \in Artifacts : Fresh(a) THEN "PASS" ELSE "FAIL")
       ELSE /\ \E c \in todo : (\A d \in todo : c <= d) /\ todo' = todo \ {c}
            /\ UNCHANGED <<at, status>>
    /\ UNCHANGED <<target, reads, before, history>>

\* It cannot start, fails, writes too much, or reaches its timeout.
CommandFails ==
    /\ running
    /\ running' = FALSE
    /\ IF at = "visual" THEN Conclude("FAIL")
       ELSE /\ \E c \in todo : (\A d \in todo : c <= d) /\ todo' = todo \ {c}
            /\ status' = "FAIL" /\ UNCHANGED at
    /\ UNCHANGED <<target, reads, before, history>>

-----------------------------------------------------------------------------
(* Who writes *)

Write(x) ==
    /\ writes < MaxWrites
    /\ writes' = writes + 1
    /\ tree' = [tree EXCEPT ![x] = writes + 1]
    /\ UNCHANGED <<config, receipt, check, looked>>

\* A self-test or the visual command; the probe of the imports writes nothing.
CommandWrites ==
    /\ running /\ at # "runtime"
    /\ \E x \in Files \cup Artifacts :
          /\ Write(x)
          /\ made' = IF at = "visual" THEN made \cup ({x} \cap Artifacts) ELSE made
    /\ UNCHANGED events

Happens(event) == events' = IF at \in {"idle", "done"} THEN events ELSE events \cup {event}

\* Somebody edits a file, or writes an artifact.
Edit ==
    /\ \E x \in Files \cup Artifacts :
          Write(x) /\ (IF x \in Files THEN UNCHANGED events ELSE Happens("artifact"))
    /\ UNCHANGED made

\* Somebody, or a command, puts back what has been reviewed.
Restore ==
    /\ \E f \in Bound : tree[f] # receipt[f] /\ tree' = [tree EXCEPT ![f] = receipt[f]]
    /\ Happens("restored")
    /\ UNCHANGED <<config, receipt, writes, check, looked, made>>

\* Somebody answers the questions and writes the receipt.
Review ==
    /\ receipt' = [f \in Bound |-> tree[f]]
    /\ receipt' # receipt
    /\ Happens("reviewed")
    /\ UNCHANGED <<config, tree, writes, check, looked, made>>

-----------------------------------------------------------------------------
PreflightNext ==
    \/ Start \/ CheckFails \/ ShapeChecked
    \/ ReadFile \/ ReadRefused \/ ScanPasses \/ ReceiptCompared
    \/ RunCommand \/ CommandsPass \/ RunVisual \/ NoVisual
    \/ CommandSucceeds \/ CommandFails \/ CommandWrites
    \/ Edit \/ Restore \/ Review

-----------------------------------------------------------------------------
(* Properties *)

Passed == at = "done" /\ status = "PASS"

\* A PASS is about one tree: unless the receipt was written, or reviewed content put
\* back, while the preflight ran, every scan and every self-test has seen the content of the
\* bound files that the receipt names; an edit between two checks, or a command that
\* writes, never goes unnoticed.  What shape_version reads for itself is not recorded.
OneTree ==
    Passed /\ events \cap {"reviewed", "restored"} = {} =>
        \A l \in looked, m \in looked : l[2] = m[2] /\ l[2] \in Bound => l[3] = m[3]

\* A PASS has looked at every file that each check is configured for, and all of them
\* together, receipts included, have fitted the one budget: what an early check takes from
\* it makes a later one fail and never pass unread.
PassIsComplete ==
    Passed =>
        /\ \A layer \in Scanning : \A f \in Work(layer) : \E l \in looked : l[1] = layer /\ l[2] = f
        /\ 2 * config.pairs + Cardinality(Scanned) + Cardinality(Ruled) + Cardinality(Bound) + 1
               <= MaxReads

\* A PASS with a required visual check has artifacts that this run's command wrote, if
\* nobody else wrote any meanwhile: one that was there before never counts.
VisualIsFresh ==
    Passed /\ config.visual = "required" /\ "artifact" \notin events => made = Artifacts
=============================================================================
