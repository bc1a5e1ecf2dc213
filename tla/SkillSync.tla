------------------------------ MODULE SkillSync ------------------------------
(***************************************************************************)
(* scripts/sync_skills.py: sync(), with and without --force, and remove(),  *)
(* run by several hosts on one project while people edit the canonical      *)
(* skills (.agents/skills) and Claude Code's copies (.claude/skills).       *)
(*                                                                         *)
(* A skill is a tree of files; the content of a file is a version.  No call *)
(* reads a tree at once: tree_digest() and copy_skill() read file by file.  *)
(* Every edit, a deletion included, gives a file a version it never had.    *)
(* Names, links, entry caps and check() and manifest(), which change        *)
(* nothing, are left out.                                                  *)
(***************************************************************************)
EXTENDS Naturals, FiniteSets

CONSTANTS
    Processes,    \* runs of the script
    Skills,       \* the canonical skills
    Files,        \* the files of a skill
    None,         \* no directory
    Uses,         \* the ways of using the script, as records of
                  \*   modes:    the commands: "sync", "force" (sync --force), "remove"
                  \*   failures: what may go wrong: "crash", "error" (OSError), "interrupt" (Ctrl-C)
                  \*   edits:    bounds: the edits of canonical skills, and of the copies
    MaxFaults     \* bound: failures

Gone == 0   \* the version of a file that rmtree has deleted
Tree == [Files -> Nat]

\* rmtree holds the directory it deletes, which no model of names shows once a forced
\* sync moves that directory: the two commands are not combined.
ASSUME SyncAssumption ==
    /\ Files # {} /\ None \notin Tree \cup Nat \cup Skills
    /\ \A u \in Uses :
          /\ u.modes \subseteq {"sync", "force", "remove"} /\ ~({"force", "remove"} \subseteq u.modes)
          /\ u.failures \subseteq {"crash", "error", "interrupt"}
          /\ u.edits \in [{"source", "dest"} -> Nat]
    /\ MaxFaults \in Nat

VARIABLES
    use,      \* how the script is used, in this behaviour
    source,   \* the canonical skills
    dest,     \* the copies
    pc,       \* where each run is
    mode,     \* its command
    todo,     \* the skills it has not come to
    skill,    \* the skill it is at
    got,      \* what it has read of the tree it is reading; None is a file to come
    seen,     \* the copy it has compared with the canonical skill
    want,     \* source_digest
    staged,   \* its stage directory: the new copy ...
    backup,   \* ... and the previous one
    edits,    \* edits so far
    faults,   \* failures so far
    was,      \* history: every state of every canonical skill
    theirs,   \* history: every tree that people made of a copy
    left      \* history: previous copies in the stage directories of crashed runs

stage == <<staged, backup>>
reading == <<got, seen, want>>
people == <<use, source, edits, was, theirs>>
vars == <<people, dest, pc, mode, todo, skill, reading, stage, faults, left>>

Reading == {"compare", "against", "digest", "copy", "verify"}
Moving == {"moveAway", "install", "restore"}
Deleting == {"delete", "rmdir"}
Working == Reading \cup Moving \cup Deleting

Modes == use.modes

TypeOK ==
    /\ use \in Uses
    /\ source \in [Skills -> Tree] /\ dest \in [Skills -> Tree \cup {None}]
    /\ pc \in [Processes -> {"idle", "next"} \cup Working]
    /\ mode \in [Processes -> Modes \cup {"none"}]
    /\ todo \in [Processes -> SUBSET Skills] /\ skill \in [Processes -> Skills \cup {None}]
    /\ got \in [Processes -> [Files -> Nat \cup {None}]]
    /\ seen \in [Processes -> Tree \cup {None}] /\ want \in [Processes -> Tree \cup {None}]
    /\ staged \in [Processes -> Tree \cup {None}] /\ backup \in [Processes -> Tree \cup {None}]
    /\ \A p \in Processes :
          /\ pc[p] \in Working => skill[p] # None
          /\ pc[p] \in {"verify", "moveAway", "install", "restore"} => staged[p] # None
          /\ pc[p] = "restore" => backup[p] # None
    /\ edits \in [{"source", "dest"} -> Nat] /\ faults \in 0..MaxFaults
    /\ was \in [Skills -> SUBSET Tree] /\ theirs \in [Skills -> SUBSET Tree]
    /\ left \in [Skills -> SUBSET Tree]

Everywhere(v) == [f \in Files |-> v]
Nothing == Everywhere(None)
Blank == [p \in Processes |-> None]

\* A copy may be missing, or be one that people made.
Init ==
    /\ use \in Uses
    /\ source = [s \in Skills |-> Everywhere(1)]
    /\ dest \in [Skills -> {None, Everywhere(2)}]
    /\ pc = [p \in Processes |-> "idle"] /\ mode = [p \in Processes |-> "none"]
    /\ todo = [p \in Processes |-> {}] /\ skill = Blank
    /\ got = [p \in Processes |-> Nothing]
    /\ seen = Blank /\ want = Blank /\ staged = Blank /\ backup = Blank
    /\ edits = [kind \in {"source", "dest"} |-> 0] /\ faults = 0
    /\ was = [s \in Skills |-> {source[s]}]
    /\ theirs = [s \in Skills |-> {dest[s]} \ {None}]
    /\ left = [s \in Skills |-> {}]

Copy(p) == dest[skill[p]]
Canonical(p) == source[skill[p]]
Replacing(p) == seen[p] # None

Goto(p, place) == pc' = [pc EXCEPT ![p] = place]
SetCopy(p, tree) == dest' = [dest EXCEPT ![skill[p]] = tree]
Fault(kind) == kind \in use.failures /\ faults < MaxFaults /\ faults' = faults + 1

\* The run is over.
End(p) ==
    /\ Goto(p, "idle")
    /\ mode' = [mode EXCEPT ![p] = "none"]
    /\ todo' = [todo EXCEPT ![p] = {}] /\ skill' = [skill EXCEPT ![p] = None]
    /\ got' = [got EXCEPT ![p] = Nothing] /\ seen' = [seen EXCEPT ![p] = None]
    /\ want' = [want EXCEPT ![p] = None]
    /\ staged' = [staged EXCEPT ![p] = None] /\ backup' = [backup EXCEPT ![p] = None]

\* The exception leaves `with TemporaryDirectory`, which deletes the stage directory.
Fail(p) == End(p) /\ UNCHANGED left

-----------------------------------------------------------------------------
(* The command, skill by skill *)

Start(p) ==
    /\ pc[p] = "idle"
    /\ \E m \in Modes : mode' = [mode EXCEPT ![p] = m]
    /\ todo' = [todo EXCEPT ![p] = Skills]
    /\ Goto(p, "next")
    /\ UNCHANGED <<people, dest, skill, reading, stage, faults, left>>

NextSkill(p) ==
    /\ pc[p] = "next"
    /\ \E s \in todo[p] :
          /\ skill' = [skill EXCEPT ![p] = s]
          /\ todo' = [todo EXCEPT ![p] = @ \ {s}]
          /\ Goto(p, IF dest[s] # None THEN "compare"
                     ELSE IF mode[p] = "remove" THEN "next" ELSE "digest")
    /\ got' = [got EXCEPT ![p] = Nothing] /\ seen' = [seen EXCEPT ![p] = None]
    /\ want' = [want EXCEPT ![p] = None]
    /\ UNCHANGED <<people, dest, mode, stage, faults, left>>

Return(p) ==
    /\ pc[p] = "next" /\ todo[p] = {}
    /\ End(p)
    /\ UNCHANGED <<people, dest, faults, left>>

Complete(p) == \A f \in Files : got[p][f] # None

\* One file of the tree that this place reads; a copy may have gone meanwhile.
ReadFile(p) ==
    /\ pc[p] \in Reading
    /\ pc[p] = "compare" => Copy(p) # None
    /\ \E f \in Files :
          /\ got[p][f] = None
          /\ got' = [got EXCEPT ![p][f] =
                        IF pc[p] = "compare" THEN Copy(p)[f] ELSE Canonical(p)[f]]
    /\ UNCHANGED <<people, dest, pc, mode, todo, skill, seen, want, stage, faults, left>>

CopyVanished(p) ==
    /\ \/ pc[p] = "compare" /\ ~Complete(p)
       \/ pc[p] \in {"moveAway"} \cup Deleting
    /\ Copy(p) = None
    /\ Fail(p)
    /\ UNCHANGED <<people, dest, faults>>

\* A tree has been read.
HasRead(p, place) ==
    /\ pc[p] = place /\ Complete(p)
    /\ got' = [got EXCEPT ![p] = Nothing]

Compared(p) ==
    /\ HasRead(p, "compare")
    /\ seen' = [seen EXCEPT ![p] = got[p]]
    /\ Goto(p, "against")
    /\ UNCHANGED <<people, dest, mode, todo, skill, want, stage, faults, left>>

\* Mutant of Same: whatever is there counts as the canonical skill.
AlwaysSame(p) == mode[p] = "remove" \/ got[p] = seen[p]

Same(p) == got[p] = seen[p]

\* Mutant of Forced: every sync replaces.
ForcedAlways(p) == mode[p] # "remove"

Forced(p) == mode[p] = "force"

\* Unchanged; or withdrawn; or replaced, with --force; or preserved.
Decided(p) ==
    \/ /\ HasRead(p, "against")
       /\ Same(p) \/ Forced(p)
       /\ Goto(p, IF mode[p] = "remove" THEN "delete" ELSE IF Same(p) THEN "next" ELSE "digest")
       /\ UNCHANGED <<people, dest, mode, todo, skill, seen, want, stage, faults, left>>
    \/ /\ pc[p] = "against" /\ Complete(p)
       /\ ~Same(p) /\ ~Forced(p)
       /\ Fail(p)
       /\ UNCHANGED <<people, dest, faults>>

Digested(p) ==
    /\ HasRead(p, "digest")
    /\ want' = [want EXCEPT ![p] = got[p]]
    /\ Goto(p, "copy")
    /\ UNCHANGED <<people, dest, mode, todo, skill, seen, stage, faults, left>>

Copied(p) ==
    /\ HasRead(p, "copy")
    /\ staged' = [staged EXCEPT ![p] = got[p]]
    /\ Goto(p, "verify")
    /\ UNCHANGED <<people, dest, mode, todo, skill, seen, want, backup, faults, left>>

\* Mutant of Unmoved: a copy of a moving source is accepted.
NeverMoved(p) == TRUE

Unmoved(p) == staged[p] = want[p] /\ got[p] = want[p]

Verified(p) ==
    \/ /\ HasRead(p, "verify")
       /\ Unmoved(p)
       /\ Goto(p, IF Replacing(p) THEN "moveAway" ELSE "install")
       /\ UNCHANGED <<people, dest, mode, todo, skill, seen, want, stage, faults, left>>
    \/ /\ pc[p] = "verify" /\ Complete(p)
       /\ ~Unmoved(p)
       /\ Fail(p)
       /\ UNCHANGED <<people, dest, faults>>

MoveAway(p) ==
    /\ pc[p] = "moveAway" /\ Copy(p) # None
    /\ backup' = [backup EXCEPT ![p] = Copy(p)]
    /\ SetCopy(p, None)
    /\ Goto(p, "install")
    /\ UNCHANGED <<people, mode, todo, skill, reading, staged, faults, left>>

\* os.replace of a directory succeeds where there is none, and, on POSIX, over an empty one.
Vacant(copy) == copy \in {None, Everywhere(Gone)}

Install(p) ==
    /\ pc[p] = "install" /\ Vacant(Copy(p))
    /\ SetCopy(p, staged[p])
    /\ staged' = [staged EXCEPT ![p] = None] /\ backup' = [backup EXCEPT ![p] = None]
    /\ Goto(p, "next")
    /\ UNCHANGED <<people, mode, todo, skill, reading, faults, left>>

\* The except clause puts the previous copy back, if there was one.
InstallFailed(p) ==
    IF Replacing(p)
    THEN Goto(p, "restore") /\ UNCHANGED <<mode, todo, skill, reading, stage, left>>
    ELSE Fail(p)

InstallRefused(p) ==
    /\ pc[p] = "install" /\ Copy(p) # None
    /\ InstallFailed(p)
    /\ UNCHANGED <<people, dest, faults>>

\* Mutant of Restore: the previous copy is left to the clean-up.
RestoreNothing(p) ==
    /\ pc[p] = "restore"
    /\ Fail(p)
    /\ UNCHANGED <<people, dest, faults>>

Restore(p) ==
    /\ pc[p] = "restore"
    /\ \/ Vacant(Copy(p)) /\ SetCopy(p, backup[p])
       \/ Copy(p) # None /\ UNCHANGED dest
    /\ Fail(p)
    /\ UNCHANGED <<people, faults>>

\* rmtree, file by file, and then the directory.  A run that has the old directory open when
\* a new copy replaces it goes on with the new one: more than the code does, which fails.
Delete(p) ==
    /\ pc[p] = "delete" /\ Copy(p) # None
    /\ \/ \E f \in Files :
             /\ Copy(p)[f] # Gone /\ SetCopy(p, [Copy(p) EXCEPT ![f] = Gone])
             /\ Goto(p, IF \A g \in Files \ {f} : Copy(p)[g] = Gone THEN "rmdir" ELSE "delete")
       \/ Copy(p) = Everywhere(Gone) /\ UNCHANGED dest /\ Goto(p, "rmdir")
    /\ UNCHANGED <<people, mode, todo, skill, reading, stage, faults, left>>

\* A directory that is not empty any more is not removed.
DeleteDirectory(p) ==
    /\ pc[p] = "rmdir" /\ Copy(p) # None
    /\ \/ /\ Copy(p) = Everywhere(Gone)
          /\ SetCopy(p, None)
          /\ Goto(p, "next")
          /\ UNCHANGED <<mode, todo, skill, reading, stage, left>>
       \/ Copy(p) # Everywhere(Gone) /\ UNCHANGED dest /\ Fail(p)
    /\ UNCHANGED <<people, faults>>

-----------------------------------------------------------------------------
(* What may go wrong *)

\* A system call fails.
Error(p) ==
    /\ pc[p] # "idle" /\ Fault("error")
    /\ IF pc[p] = "install" THEN InstallFailed(p) ELSE Fail(p)
    /\ UNCHANGED <<people, dest>>

\* The new copy is in place, deleting the previous one fails.
TidyFails(p) ==
    /\ pc[p] = "install" /\ Vacant(Copy(p)) /\ Replacing(p) /\ Fault("error")
    /\ SetCopy(p, staged[p])
    /\ Fail(p)
    /\ UNCHANGED people

\* Ctrl-C is raised where Python is, or on return from the call it interrupts: after
\* the previous copy has moved, but before the try that would put it back.
Interrupt(p) ==
    /\ pc[p] # "idle" /\ Fault("interrupt")
    /\ \/ UNCHANGED dest /\ (IF pc[p] = "install" THEN InstallFailed(p) ELSE Fail(p))
       \/ pc[p] = "moveAway" /\ Copy(p) # None /\ SetCopy(p, None) /\ Fail(p)
    /\ UNCHANGED people

\* The run is killed; its stage directory stays.
Crash(p) ==
    /\ pc[p] # "idle" /\ Fault("crash")
    /\ left' = IF skill[p] = None THEN left
               ELSE [left EXCEPT ![skill[p]] = @ \cup ({backup[p]} \ {None})]
    /\ End(p)
    /\ UNCHANGED <<people, dest>>

NewVersion == edits["source"] + edits["dest"] + 3

EditSource(s) ==
    /\ edits["source"] < use.edits["source"]
    /\ edits' = [edits EXCEPT !["source"] = @ + 1]
    /\ \E f \in Files : source' = [source EXCEPT ![s][f] = NewVersion]
    /\ was' = [was EXCEPT ![s] = @ \cup {source'[s]}]
    /\ UNCHANGED <<use, dest, pc, mode, todo, skill, reading, stage, theirs, faults, left>>

EditCopy(s) ==
    /\ edits["dest"] < use.edits["dest"]
    /\ edits' = [edits EXCEPT !["dest"] = @ + 1]
    /\ \/ dest[s] = None /\ dest' = [dest EXCEPT ![s] = Everywhere(NewVersion)]
       \/ dest[s] # None /\ \E f \in Files : dest' = [dest EXCEPT ![s][f] = NewVersion]
    /\ theirs' = [theirs EXCEPT ![s] = @ \cup {dest'[s]}]
    /\ UNCHANGED <<use, source, pc, mode, todo, skill, reading, stage, was, faults, left>>

-----------------------------------------------------------------------------
Step(p) ==
    \/ Start(p) \/ NextSkill(p) \/ Return(p) \/ ReadFile(p) \/ CopyVanished(p)
    \/ Compared(p) \/ Decided(p) \/ Digested(p) \/ Copied(p) \/ Verified(p)
    \/ MoveAway(p) \/ Install(p) \/ InstallRefused(p) \/ Restore(p)
    \/ Delete(p) \/ DeleteDirectory(p)
Failure(p) == Error(p) \/ TidyFails(p) \/ Interrupt(p) \/ Crash(p)

Next ==
    \/ \E p \in Processes : Step(p) \/ Failure(p)
    \/ \E s \in Skills : EditSource(s) \/ EditCopy(s)

Spec == Init /\ [][Next]_vars

-----------------------------------------------------------------------------
(* Properties *)

Whole(s, copy) ==
    \/ copy \in was[s] \cup theirs[s] \cup {None}
    \/ \E f \in Files : copy[f] = Gone

\* A copy is one that people made or a state the canonical skill was in as a whole,
\* whoever edits it while tree_digest() and copy_skill() read it; a deletion under way
\* or broken off is the one exception.
CopiesAreWhole == \A s \in Skills : Whole(s, dest[s])

\* "A failed forced sync cannot erase the last usable generated skill": where there was
\* a copy and nobody withdraws it, there is one, or a run is about to put one there, or
\* the stage directory of a crashed run holds it.
LastCopyKept ==
    \A s \in Skills :
        dest[s] = None /\ theirs[s] # {} /\ "remove" \notin Modes =>
            \/ left[s] # {}
            \/ \E p \in Processes : skill[p] = s /\ backup[p] # None /\ pc[p] \in Moving

\* "Preserves divergent targets unless --force is explicit": what people made of a copy
\* changes only by their own edits or by a forced sync.
DivergentKept ==
    [][\A s \in Skills :
          dest[s] \in theirs[s] /\ dest'[s] # dest[s] =>
              \/ edits' # edits
              \/ \E p \in Processes : mode[p] = "force" /\ pc[p] = "moveAway" /\ skill[p] = s]_vars
=============================================================================
