------------------------------- MODULE GitRepo -------------------------------
(***************************************************************************)
(* The Git repository that the gates in scripts/ look at, through git show, *)
(* cat-file, rev-list, merge-base, log and for-each-ref, while people go on *)
(* working in it.  Not code of this repository: what the scripts rely on.   *)
(*                                                                         *)
(* Commits are numbered in the order of their creation and never change;    *)
(* 0 stands for none.  Of what a commit holds only two things are kept: the *)
(* schema file that one gate compares, and the parts that the other looks   *)
(* for.                                                                    *)
(***************************************************************************)
EXTENDS Naturals, FiniteSets, Sequences

CONSTANTS
    BranchSets,   \* sets of names of refs, one of which a behaviour uses
    Main,         \* the one that git init makes
    Schemas,      \* what the schema file may hold: records with a version
    Absent,       \* no schema file
    MaxCommits    \* bound: commits in a behaviour

ASSUME GitAssumption ==
    /\ \A names \in BranchSets : Main \in names
    /\ \A s \in Schemas : s.version \in Nat \ {0}
    /\ Absent \notin Schemas
    /\ MaxCommits \in Nat

VARIABLES
    commits,   \* what has been committed: its parents, its ancestors and itself, its
               \* schema, and its private parts
    refs,      \* the commit of each branch
    branch,    \* the branch checked out
    work,      \* the schema file in the working tree
    depth,     \* "whole", or that ancestry is cut: a "shallow" clone, or "grafted"
    hidden     \* the commits behind the cut

repo == <<commits, refs, branch, work, depth, hidden>>

Branches == DOMAIN refs
Commits == 1..Len(commits)
HEAD == refs[branch]
SchemaOf(c) == IF c = 0 THEN Absent ELSE commits[c].schema
ParentsOf(c) == IF c = 0 THEN {} ELSE commits[c].parents

\* What belongs to the history of the branches, and what a walk from them comes to.
Named == {b \in Branches : refs[b] # 0}
History == UNION {commits[refs[b]].past : b \in Named}
Walk == (History \ hidden) \cup {refs[b] : b \in Named}

GitInit ==
    /\ commits = <<>>
    /\ refs \in {[b \in names |-> 0] : names \in BranchSets} /\ branch = Main
    /\ work = Absent
    /\ depth = "whole" /\ hidden = {}

\* What a new commit may follow: HEAD, HEAD and another branch, or, for --amend, what
\* HEAD follows itself.
Followed ==
    {{HEAD} \ {0}, ParentsOf(HEAD)} \cup
    {{HEAD, refs[b]} : b \in {b \in Named : HEAD # 0}}

Commit(parents, parts) ==
    LET n == Len(commits) + 1
    IN  /\ n <= MaxCommits
        /\ commits' = Append(commits,
               [parents |-> parents, schema |-> work, private |-> parts,
                past |-> {n} \cup UNION {commits[c].past : c \in parents}])
        /\ refs' = [refs EXCEPT ![branch] = n]
        /\ UNCHANGED <<branch, work, depth, hidden>>

EditSchema(s) ==
    /\ s # work
    /\ work' = s
    /\ UNCHANGED <<commits, refs, branch, depth, hidden>>

\* git switch, also to a new branch or to an orphan; it takes a changed file along or
\* refuses to overwrite it.
Switch(b) ==
    /\ b # branch
    /\ branch' = b
    /\ \/ UNCHANGED refs
       \/ refs[b] = 0 /\ refs' = [refs EXCEPT ![b] = HEAD]
    /\ \/ work = SchemaOf(HEAD) /\ work' = SchemaOf(refs'[b])
       \/ work # SchemaOf(HEAD) /\ SchemaOf(refs'[b]) = SchemaOf(HEAD) /\ work' = work
    /\ UNCHANGED <<commits, depth, hidden>>

\* A push, a fetch, a reset, or the deletion of a branch; the working tree stays.
MoveRef(b, c) ==
    /\ c # refs[b] /\ (c = 0 => b # branch)
    /\ c \notin hidden
    /\ refs' = [refs EXCEPT ![b] = c]
    /\ UNCHANGED <<commits, branch, work, depth, hidden>>

\* The repository becomes a clone of depth 1, or somebody grafts its history.
CutHistory ==
    /\ depth = "whole" /\ HEAD # 0 /\ ParentsOf(HEAD) # {}
    /\ \/ depth' = "shallow" /\ refs' = [b \in Branches |-> IF b = branch THEN HEAD ELSE 0]
       \/ depth' = "grafted" /\ UNCHANGED refs
    /\ hidden' = commits[HEAD].past \ {HEAD}
    /\ UNCHANGED <<commits, branch, work>>
=============================================================================
