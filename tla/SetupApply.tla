------------------------------ MODULE SetupApply ------------------------------
(***************************************************************************)
(* scripts/setup_project.py: make_plan() and apply_plan() on one target, by *)
(* several hosts at once, while people edit the target, the kit and the     *)
(* branch.                                                                  *)
(*                                                                         *)
(* Destinations are numbered in the order in which apply_plan() takes them; *)
(* canonical skill files (.agents) come before their mirrors (.claude).     *)
(* There is one skill, and a file has at most one parent that may be        *)
(* missing.  The kit's content of a file is a version.  A receipt is the    *)
(* set of its durable lines.  What classify() cannot read (no regular file, *)
(* a link, too large) is one content, Blocked.                              *)
(***************************************************************************)
EXTENDS Naturals, FiniteSets

CONSTANTS
    Runs,        \* runs of "plan" followed by "apply", each with a receipt of its own
    N,           \* number of destinations
    Canonical,   \* those in .agents/skills
    Mirrors,     \* those in .claude/skills
    Dirs,        \* directories that may have to be created
    Parent,      \* the directory of each destination
    Root,        \* the target itself; also "nobody" and "nothing"
    Missing, Partial, Foreign, Blocked,   \* contents that are no version
    MaxFaults,   \* bound: failed calls and crashes
    MaxEdits     \* bound: what people do

Files == 1..N

ASSUME SetupAssumption ==
    /\ N \in Nat /\ Canonical \subseteq Files /\ Mirrors \subseteq Files
    /\ \A c \in Canonical, m \in Mirrors : c < m
    /\ Root \notin Dirs \cup Runs \cup Files /\ Dirs \cap Files = {}
    /\ Parent \in [Files -> Dirs \cup {Root}]
    /\ Cardinality({Missing, Partial, Foreign, Blocked}) = 4
    /\ Nat \cap {Missing, Partial, Foreign, Blocked} = {}
    /\ MaxFaults \in Nat /\ MaxEdits \in Nat /\ Runs # {}

VARIABLES
    target,    \* content of each destination
    dirs,      \* directories that exist
    extra,     \* whether the canonical skill has a local file the kit does not know
    kit,       \* content of each source
    head,      \* identity of the target: its branch and HEAD
    pc,        \* where each run is
    plan,      \* the reviewed plan; rows are "NONE" where there is none
    base,      \* the sources as materialization() has read them
    rows,      \* the classification under way
    selected,  \* the selection of apply
    todo,      \* what is left of it
    at,        \* the destination the run is at
    noted,     \* durable lines of the receipt
    broken,    \* whether a line could not be written
    outcome,   \* status of the result
    faults, edits,
    made,      \* history: the run that created what is at this path
    touched    \* history: paths that people changed, Root for the extra file

people == <<extra, kit, head, edits, touched>>
work == <<target, dirs, made>>
choice == <<plan, selected>>
vars == <<people, work, pc, choice, base, rows, todo, at, noted, broken, outcome, faults>>

Blank == [f \in Files |-> "NONE"]
Scanning == {"plan", "check", "final"}
Noting == {"start", "classify", "parent", "dirnote", "intent", "partial", "readback",
           "complete", "fail"}

\* A fresh target, or one with files of its own.
Init ==
    /\ target \in [Files -> {Missing, Foreign, Blocked, 1}]
    /\ dirs \in SUBSET Dirs /\ \A f \in Files : target[f] # Missing => Parent[f] \in dirs \cup {Root}
    /\ extra = FALSE /\ kit = [f \in Files |-> 1] /\ head = 0
    /\ pc = [p \in Runs |-> "idle"]
    /\ plan = [p \in Runs |-> [kit |-> kit, head |-> 0, rows |-> Blank]]
    /\ base = [p \in Runs |-> kit] /\ rows = [p \in Runs |-> Blank]
    /\ selected = [p \in Runs |-> {}] /\ todo = [p \in Runs |-> {}]
    /\ at = [p \in Runs |-> Root]
    /\ noted = [p \in Runs |-> {}] /\ broken = [p \in Runs |-> FALSE]
    /\ outcome = [p \in Runs |-> "none"]
    /\ faults = 0 /\ edits = 0
    /\ made = [x \in Files \cup Dirs |-> Root] /\ touched = {}

Goto(p, from, to) == pc[p] \in from /\ pc' = [pc EXCEPT ![p] = to]
Note(p, path, state) == noted' = [noted EXCEPT ![p] = @ \cup {<<path, state>>}]
Fault == faults < MaxFaults /\ faults' = faults + 1
Finish(p, status) == outcome' = [outcome EXCEPT ![p] = status]

-----------------------------------------------------------------------------
(* make_plan(): materialization(), and classify() row by row *)

Classify(p, f) ==
    IF target[f] = Missing THEN "MISSING"
    ELSE IF target[f] = base[p][f] THEN "IDENTICAL"
    ELSE IF target[f] = Blocked THEN "BLOCKED"
    ELSE "CONFLICT"

\* Mutant of Ready: what is missing need not be added.
ReadyWithoutAdditions(p, additions) ==
    ~extra /\ \A c \in Canonical : target[c] \in {Missing, base[p][c]}

\* canonical_ready(): what is missing will be added, and everything else matches; a
\* complete tree must also have the digest of the kit's tree as it is now.
Ready(p, additions) ==
    /\ ~extra
    /\ \A c \in Canonical :
          target[c] = base[p][c] \/ (target[c] = Missing /\ c \in additions)
    /\ (\A c \in Canonical : target[c] # Missing) => \A c \in Canonical : target[c] = kit[c]

BeginScan(p) ==
    /\ base' = [base EXCEPT ![p] = kit]
    /\ rows' = [rows EXCEPT ![p] = Blank]

BeginPlan(p) ==
    /\ Goto(p, {"idle"}, "plan") /\ BeginScan(p)
    /\ plan' = [plan EXCEPT ![p].kit = kit, ![p].head = head]
    /\ UNCHANGED <<people, work, selected, todo, at, noted, broken, outcome, faults>>

ScanRow(p) ==
    /\ pc[p] \in Scanning
    /\ \E f \in Files :
          /\ rows[p][f] = "NONE" /\ \A g \in 1..(f - 1) : rows[p][g] # "NONE"
          /\ rows' = [rows EXCEPT ![p][f] = Classify(p, f)]
    /\ UNCHANGED <<people, work, pc, choice, base, todo, at, noted, broken, outcome, faults>>

Scanned(p) == \A f \in Files : rows[p][f] # "NONE"

\* The plan is written, and reviewed.
Planned(p) ==
    /\ Goto(p, {"plan"}, "planned") /\ Scanned(p)
    /\ plan' = [plan EXCEPT ![p].rows = rows[p]]
    /\ UNCHANGED <<people, work, selected, base, rows, todo, at, noted, broken, outcome, faults>>

-----------------------------------------------------------------------------
(* apply_plan(): before the first write *)

Reviewed(p) == kit = plan[p].kit /\ head = plan[p].head

\* Any selection; the kit and the target must be those of the plan.
BeginApply(p) ==
    /\ \/ Goto(p, {"planned"}, "check") /\ Reviewed(p) /\ UNCHANGED outcome
       \/ Goto(p, {"planned"}, "done") /\ ~Reviewed(p) /\ Finish(p, "FAILED")
    /\ BeginScan(p)
    /\ \E s \in (SUBSET Files) \ {{}} : selected' = [selected EXCEPT ![p] = s]
    /\ UNCHANGED <<people, work, plan, todo, at, noted, broken, faults>>

\* A selected row was missing, or is what it was: identical.
Selectable(p, f) ==
    /\ plan[p].rows[f] \in {"MISSING", "IDENTICAL"}
    /\ rows[p][f] \in {"IDENTICAL", plan[p].rows[f]}

\* The reason in a blocked row is a key that others do not have: no row, selected or not,
\* may have become blocked or stopped being so.
SameKeys(p) == \A f \in Files : (plan[p].rows[f] = "BLOCKED") = (rows[p][f] = "BLOCKED")

Check(p) ==
    /\ Scanned(p)
    /\ LET sound == SameKeys(p) /\ \A f \in selected[p] : Selectable(p, f)
       IN  \/ Goto(p, {"check"}, "open") /\ sound /\ UNCHANGED outcome
           \/ Goto(p, {"check"}, "done") /\ ~sound /\ Finish(p, "FAILED")
    /\ UNCHANGED <<people, work, choice, base, rows, todo, at, noted, broken, faults>>

\* Mutant of OpenReceipt: the reviewed additions do not count.
OpenReceiptStrictly(p) ==
    /\ LET eligible == kit = base[p] /\ (selected[p] \cap Mirrors # {} => Ready(p, {}))
       IN  \/ Goto(p, {"open"}, "start") /\ eligible /\ UNCHANGED outcome
           \/ Goto(p, {"open"}, "done") /\ ~eligible /\ Finish(p, "FAILED")
    /\ UNCHANGED <<people, work, choice, base, rows, todo, at, noted, broken, faults>>

\* Sources are read again, mirrors need their skill, the receipt is created.
OpenReceipt(p) ==
    /\ LET eligible == kit = base[p] /\ (selected[p] \cap Mirrors # {} => Ready(p, selected[p]))
       IN  \/ Goto(p, {"open"}, "start") /\ eligible /\ UNCHANGED outcome
           \/ Goto(p, {"open"}, "done") /\ ~eligible /\ Finish(p, "FAILED")
    /\ UNCHANGED <<people, work, choice, base, rows, todo, at, noted, broken, faults>>

Start(p) ==
    /\ Goto(p, {"start"}, "verify")
    /\ Note(p, Root, "STARTED")
    /\ UNCHANGED <<people, work, choice, base, rows, todo, at, broken, outcome, faults>>

Verify(p) ==
    /\ Goto(p, {"verify"}, IF head = plan[p].head THEN "next" ELSE "fail")
    /\ todo' = [todo EXCEPT ![p] = selected[p]]
    /\ UNCHANGED <<people, work, choice, base, rows, at, noted, broken, outcome, faults>>

-----------------------------------------------------------------------------
(* apply_plan(): destination by destination *)

Take(p) ==
    /\ \E f \in todo[p] :
          /\ \A g \in todo[p] : f <= g
          /\ at' = [at EXCEPT ![p] = f]
          /\ todo' = [todo EXCEPT ![p] = @ \ {f}]
          /\ Goto(p, {"next"}, IF f \in Mirrors /\ ~Ready(p, {}) THEN "fail" ELSE "classify")
    /\ UNCHANGED <<people, work, choice, base, rows, noted, broken, outcome, faults>>

\* Mutant of TakeUp: what is there already is reported as created.
TakeUpAsCreated(p) ==
    /\ LET state == Classify(p, at[p])
       IN  \/ Goto(p, {"classify"}, "next") /\ state = "IDENTICAL" /\ Note(p, at[p], "CREATED_FILE")
           \/ Goto(p, {"classify"}, "parent") /\ state = "MISSING" /\ UNCHANGED noted
           \/ Goto(p, {"classify"}, "fail") /\ state \in {"CONFLICT", "BLOCKED"} /\ UNCHANGED noted
    /\ UNCHANGED <<people, work, choice, base, rows, todo, at, broken, outcome, faults>>

\* Identical already, to be created, or changed since.
TakeUp(p) ==
    /\ LET state == Classify(p, at[p])
       IN  \/ Goto(p, {"classify"}, "next") /\ state = "IDENTICAL" /\ Note(p, at[p], "IDENTICAL")
           \/ Goto(p, {"classify"}, "parent") /\ state = "MISSING" /\ UNCHANGED noted
           \/ Goto(p, {"classify"}, "fail") /\ state \in {"CONFLICT", "BLOCKED"} /\ UNCHANGED noted
    /\ UNCHANGED <<people, work, choice, base, rows, todo, at, broken, outcome, faults>>

\* _creation_parent() opens the directory, or announces that it will create it.
OpenParent(p) ==
    /\ LET dir == Parent[at[p]]
       IN  \/ Goto(p, {"parent"}, "intent") /\ dir \in dirs \cup {Root} /\ UNCHANGED noted
           \/ /\ Goto(p, {"parent"}, "mkdir") /\ dir \notin dirs \cup {Root}
              /\ Note(p, dir, "PENDING_DIRECTORY")
    /\ UNCHANGED <<people, work, choice, base, rows, todo, at, broken, outcome, faults>>

\* mkdir, or the directory of somebody who was faster.
MakeDirectory(p) ==
    /\ Goto(p, {"mkdir"}, "dirnote")
    /\ LET dir == Parent[at[p]]
       IN  /\ dirs' = dirs \cup {dir}
           /\ made' = IF dir \in dirs THEN made ELSE [made EXCEPT ![dir] = p]
    /\ UNCHANGED <<people, target, choice, base, rows, todo, at, noted, broken, outcome, faults>>

NoteDirectory(p) ==
    /\ Goto(p, {"dirnote"}, "intent")
    /\ LET dir == Parent[at[p]]
       IN  Note(p, dir, IF made[dir] = p THEN "CREATED_DIRECTORY" ELSE "EXISTING_DIRECTORY")
    /\ UNCHANGED <<people, work, choice, base, rows, todo, at, broken, outcome, faults>>

\* Mutant of Intend: the intent is not written down.
IntendSilently(p) ==
    /\ Goto(p, {"intent"}, "create")
    /\ UNCHANGED <<people, work, choice, base, rows, todo, at, noted, broken, outcome, faults>>

Intend(p) ==
    /\ Goto(p, {"intent"}, "create")
    /\ Note(p, at[p], "PENDING_FILE")
    /\ UNCHANGED <<people, work, choice, base, rows, todo, at, broken, outcome, faults>>

\* Mutant of Exclusive: open without O_EXCL.
OpenAnyway(p) == TRUE

Exclusive(p) == target[at[p]] = Missing

Create(p) ==
    /\ \/ /\ Goto(p, {"create"}, "write") /\ Exclusive(p)
          /\ target' = [target EXCEPT ![at[p]] = Partial]
          /\ made' = [made EXCEPT ![at[p]] = p]
       \/ Goto(p, {"create"}, "fail") /\ ~Exclusive(p) /\ UNCHANGED <<target, made>>
    /\ UNCHANGED <<people, dirs, choice, base, rows, todo, at, noted, broken, outcome, faults>>

\* The descriptor is that of the file the run created, whoever has replaced it since.
Written(p) ==
    IF made[at[p]] = p THEN [target EXCEPT ![at[p]] = base[p][at[p]]] ELSE target

Write(p) ==
    /\ Goto(p, {"write"}, "readback")
    /\ target' = Written(p)
    /\ UNCHANGED <<people, dirs, made, choice, base, rows, todo, at, noted, broken, outcome, faults>>

\* Mutant of WriteFails: the partial file is not reported.
WriteFailsQuietly(p) ==
    /\ Goto(p, {"write"}, "fail") /\ Fault
    /\ UNCHANGED <<people, work, choice, base, rows, todo, at, noted, broken, outcome>>

\* A write, or the fsync after the last one, fails.
WriteFails(p) ==
    /\ Goto(p, {"write"}, "partial") /\ Fault
    /\ target' \in {target, Written(p)}
    /\ UNCHANGED <<people, dirs, made, choice, base, rows, todo, at, noted, broken, outcome>>

NotePartial(p) ==
    /\ Goto(p, {"partial"}, "fail")
    /\ Note(p, at[p], "PARTIAL_FILE")
    /\ UNCHANGED <<people, work, choice, base, rows, todo, at, broken, outcome, faults>>

SameBytes(p) == target[at[p]] = base[p][at[p]]

ReadBack(p) ==
    /\ \/ Goto(p, {"readback"}, "next") /\ SameBytes(p) /\ Note(p, at[p], "CREATED_FILE")
       \/ Goto(p, {"readback"}, "fail") /\ ~SameBytes(p) /\ UNCHANGED noted
    /\ UNCHANGED <<people, work, choice, base, rows, todo, at, broken, outcome, faults>>

-----------------------------------------------------------------------------
(* apply_plan(): the end *)

BeginFinal(p) ==
    /\ Goto(p, {"next"}, "final") /\ todo[p] = {} /\ BeginScan(p)
    /\ UNCHANGED <<people, work, choice, todo, at, noted, broken, outcome, faults>>

\* Mutant of Unresolved: only the selected rows are looked at.
UnresolvedSelection(p) == \E f \in selected[p] : rows[p][f] # "IDENTICAL"

Unresolved(p) ==
    \/ \E f \in Files : rows[p][f] # "IDENTICAL"
    \/ Mirrors # {} /\ ~Ready(p, {f \in Files : rows[p][f] = "MISSING"})

Complete(p) ==
    /\ Goto(p, {"final"}, "complete") /\ Scanned(p)
    /\ Finish(p, IF Unresolved(p) THEN "APPLIED_WITH_UNRESOLVED_ITEMS" ELSE "UNCONFIGURED")
    /\ UNCHANGED <<people, work, choice, base, rows, todo, at, noted, broken, faults>>

Completed(p) ==
    /\ Goto(p, {"complete"}, "done")
    /\ Note(p, Root, "COMPLETED")
    /\ UNCHANGED <<people, work, choice, base, rows, todo, at, broken, outcome, faults>>

\* The except clause.
NoteFailure(p) ==
    /\ Goto(p, {"fail"}, "done")
    /\ Note(p, Root, "FAILED") /\ Finish(p, "FAILED")
    /\ UNCHANGED <<people, work, choice, base, rows, todo, at, broken, faults>>

-----------------------------------------------------------------------------
(* What may go wrong *)

\* A line of the receipt cannot be written: there is no further one.
NoteFails(p) ==
    /\ Goto(p, Noting, "done") /\ Fault
    /\ broken' = [broken EXCEPT ![p] = TRUE]
    /\ Finish(p, "FAILED")
    /\ UNCHANGED <<people, work, choice, base, rows, todo, at, noted>>

\* A system call on the target fails.
CallFails(p) ==
    /\ Goto(p, {"verify", "next", "classify", "parent", "mkdir", "create", "readback", "final"}, "fail")
    /\ Fault
    /\ UNCHANGED <<people, work, choice, base, rows, todo, at, noted, broken, outcome>>

\* The same before there is a receipt.
PlanFails(p) ==
    /\ Goto(p, {"plan", "check", "open"}, "done") /\ Fault
    /\ Finish(p, "FAILED")
    /\ UNCHANGED <<people, work, choice, base, rows, todo, at, noted, broken>>

Crash(p) ==
    /\ pc[p] # "done" /\ Goto(p, {pc[p]} \ {"idle", "planned", "dead"}, "dead") /\ Fault
    /\ UNCHANGED <<people, work, choice, base, rows, todo, at, noted, broken, outcome>>

Edit == edits < MaxEdits /\ edits' = edits + 1

\* People put a file of their own, or something else, in place, or delete what is there.
EditFile(f) ==
    /\ Edit
    /\ Parent[f] \in dirs \cup {Root}
    /\ \E content \in {Foreign, Blocked, Missing} : target' = [target EXCEPT ![f] = content]
    /\ made' = [made EXCEPT ![f] = Root] /\ touched' = touched \cup {f}
    /\ UNCHANGED <<dirs, extra, kit, head, pc, choice, base, rows, todo, at, noted, broken, outcome, faults>>

AddExtra ==
    /\ Edit
    /\ ~extra /\ extra' = TRUE /\ touched' = touched \cup {Root}
    /\ UNCHANGED <<work, kit, head, pc, choice, base, rows, todo, at, noted, broken, outcome, faults>>

ChangeKit(f) ==
    /\ Edit
    /\ kit' = [kit EXCEPT ![f] = @ + 1]
    /\ UNCHANGED <<work, extra, head, touched, pc, choice, base, rows, todo, at, noted, broken, outcome, faults>>

\* A commit or a checkout of another branch.
MoveHead ==
    /\ Edit
    /\ head' = head + 1
    /\ UNCHANGED <<work, extra, kit, touched, pc, choice, base, rows, todo, at, noted, broken, outcome, faults>>

-----------------------------------------------------------------------------
Before(p) == BeginPlan(p) \/ ScanRow(p) \/ Planned(p) \/ BeginApply(p) \/ Check(p) \/ OpenReceipt(p)
EachFile(p) ==
    \/ Take(p) \/ TakeUp(p) \/ OpenParent(p) \/ MakeDirectory(p) \/ NoteDirectory(p) \/ Intend(p)
    \/ Create(p) \/ Write(p) \/ NotePartial(p) \/ ReadBack(p)
AtEnd(p) == Start(p) \/ Verify(p) \/ BeginFinal(p) \/ Complete(p) \/ Completed(p) \/ NoteFailure(p)
Failure(p) == WriteFails(p) \/ NoteFails(p) \/ CallFails(p) \/ PlanFails(p) \/ Crash(p)
People == (\E f \in Files : EditFile(f) \/ ChangeKit(f)) \/ AddExtra \/ MoveHead

Next ==
    \/ \E p \in Runs : Before(p) \/ EachFile(p) \/ AtEnd(p) \/ Failure(p)
    \/ People

Spec == Init /\ [][Next]_vars

-----------------------------------------------------------------------------
(* Properties *)

\* "A racing writer is preserved": what is at a destination only changes by its owner's
\* hand, or by the run that has created it and is writing it.
WritersPreserved ==
    [][\A f \in Files :
          target[f] # Missing /\ target'[f] # target[f] =>
              \/ edits' # edits
              \/ \E p \in Runs : pc[p] = "write" /\ at[p] = f /\ made[f] = p]_vars

\* Whatever a run has created was selected, and is announced in its durable receipt,
\* wherever it was cut off.
ReceiptCovers ==
    \A p \in Runs :
        /\ \A f \in Files : made[f] = p => f \in selected[p] /\ <<f, "PENDING_FILE">> \in noted[p]
        /\ \A d \in Dirs : made[d] = p => <<d, "PENDING_DIRECTORY">> \in noted[p]

\* A line CREATED_FILE is true: the reviewed bytes are there unless people changed them.
CreatedIsTrue ==
    \A p \in Runs, f \in Files :
        <<f, "CREATED_FILE">> \in noted[p] /\ f \notin touched =>
            made[f] = p /\ target[f] = plan[p].kit[f]

\* A run that ended with an intact receipt says which file it left half-written.
PartialIsReported ==
    \A p \in Runs, f \in Files :
        pc[p] = "done" /\ ~broken[p] /\ target[f] = Partial /\ made[f] = p =>
            <<f, "PARTIAL_FILE">> \in noted[p]

\* A mirror is only created beside its whole canonical skill.
MirrorsFollow ==
    \A m \in Mirrors, c \in Canonical : \A p \in Runs :
        made[m] = p /\ c \notin touched => target[c] = plan[p].kit[c]

\* UNCONFIGURED says that every destination, selected or not, has the kit's bytes.
CompleteIsWhole ==
    \A p \in Runs, f \in Files :
        outcome[p] = "UNCONFIGURED" /\ f \notin touched => target[f] = base[p][f]

\* The plan allowed what was selected, mirrors with their skill.
Eligible(p) ==
    /\ \A f \in selected[p] : plan[p].rows[f] \in {"MISSING", "IDENTICAL"}
    /\ selected[p] \cap Mirrors # {} =>
           \A c \in Canonical : c \in selected[p] \/ plan[p].rows[c] = "IDENTICAL"

\* Runs that disturb each other do not all fail: when nothing else went wrong, one of them,
\* or of those with an ineligible selection, is without fault.
SomeoneSucceeds ==
    (faults = 0 /\ edits = 0 /\ \A p \in Runs : pc[p] = "done" /\ Eligible(p)) =>
        \E p \in Runs : outcome[p] # "FAILED"
=============================================================================
