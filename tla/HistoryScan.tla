----------------------------- MODULE HistoryScan -----------------------------
(***************************************************************************)
(* scripts/check_private_history.py: validate_reachable_history() looks for *)
(* private markers in everything that can be reached in the repository, one *)
(* git process after the other, while branches move: the names of the refs, *)
(* the commits, the paths they name, the objects, and then object by object *)
(* its type and content.                                                   *)
(*                                                                         *)
(* What a commit brings along that may be private: its message; a blob; a   *)
(* path; and a copy, a further path of a blob that another commit brought,  *)
(* which rev-list --objects, naming each object once, does not list.       *)
(***************************************************************************)
EXTENDS GitRepo

CONSTANT PrivateBranches   \* the branches with a private name

Parts == {"message", "blob", "path", "copy"}
ASSUME ScanAssumption == PrivateBranches \subseteq UNION BranchSets

VARIABLES
    scan,      \* what the gate lists next: "refs", "commits", "paths", "objects"; or
               \* "read", it goes through them; or "idle", "PASS"
    found,     \* it has an error to report
    unread,    \* the objects it has listed and not read: <<commit, "message" or "blob">>
    throughout \* history: the refs and the commits that have been there since it began

scanning == <<scan, found, unread, throughout>>
scanVars == <<repo, scanning>>

ScanInit ==
    /\ scan = "idle"
    /\ found = FALSE /\ unread = {}
    /\ throughout = [refs |-> {}, commits |-> {}]

Present == [refs |-> Named, commits |-> History]

\* An error of this step, or an earlier one.
Report(error) == found' = (found \/ error)

\* Mutant of Refused: a cut history is walked like a whole one.
NeverRefused == FALSE

\* A graft, or a shallow clone.
Refused == depth # "whole"

ScanStart ==
    /\ scan \in {"idle", "PASS"}
    /\ ~Refused
    /\ scan' = "refs"
    /\ found' = FALSE /\ unread' = {}
    /\ throughout' = Present
    /\ UNCHANGED repo

\* for-each-ref
ListRefs ==
    /\ scan = "refs"
    /\ Report(Named \cap PrivateBranches # {})
    /\ scan' = "commits"
    /\ UNCHANGED <<repo, unread, throughout>>

\* rev-list --all: only their number counts.
ListCommits ==
    /\ scan = "commits"
    /\ scan' = "paths"
    /\ UNCHANGED <<repo, found, unread, throughout>>

\* log --all --name-only
ListPaths ==
    /\ scan = "paths"
    /\ Report(\E c \in Walk : commits[c].private \cap {"path", "copy"} # {})
    /\ scan' = "objects"
    /\ UNCHANGED <<repo, unread, throughout>>

\* rev-list --objects --all, whose lines carry a path for each blob as well.
ListObjects ==
    /\ scan = "objects"
    /\ Report(\E c \in Walk : "path" \in commits[c].private)
    /\ unread' = Walk \X {"message", "blob"}
    /\ scan' = "read"
    /\ UNCHANGED <<repo, throughout>>

\* cat-file -t and cat-file: the object is scanned, or it cannot be read.
ReadObject ==
    /\ scan = "read"
    /\ \E o \in unread :
          /\ unread' = unread \ {o}
          /\ Report(o[2] \in commits[o[1]].private)
    /\ UNCHANGED <<repo, scan, throughout>>

\* Mutant of ReadFails: an object that cannot be read is passed over.
ReadPassesOver ==
    /\ scan = "read"
    /\ \E o \in unread : unread' = unread \ {o}
    /\ UNCHANGED <<repo, scan, found, throughout>>

\* Its type or content cannot be had, it is too large, or of an unknown type.
ReadFails ==
    /\ scan = "read"
    /\ \E o \in unread : unread' = unread \ {o}
    /\ found' = TRUE
    /\ UNCHANGED <<repo, scan, throughout>>

\* Git fails, or a cap or the deadline is exceeded: the gate returns with that error.
ScanStops ==
    /\ scan \notin {"idle", "PASS"}
    /\ scan' = "idle"
    /\ found' = FALSE /\ unread' = {}
    /\ UNCHANGED <<repo, throughout>>

ScanEnds ==
    /\ scan = "read" /\ unread = {}
    /\ scan' = IF found THEN "idle" ELSE "PASS"
    /\ found' = FALSE
    /\ UNCHANGED <<repo, unread, throughout>>

\* Somebody works in the repository.  Its history is cut between two runs only, and
\* (bound) one commit at most brings something private.
ScanPeople ==
    /\ \/ \E parents \in Followed, parts \in SUBSET Parts :
             /\ Cardinality(parts) <= 1
             /\ parts # {} => \A c \in Commits : commits[c].private = {}
             /\ Commit(parents, parts)
       \/ \E b \in Branches, c \in Commits \cup {0} : MoveRef(b, c)
       \/ scan \in {"idle", "PASS"} /\ CutHistory
    /\ throughout' =
          IF scan \in {"idle", "PASS"} THEN throughout
          ELSE [refs |-> throughout.refs \cap Present.refs',
                commits |-> throughout.commits \cap Present.commits']
    /\ UNCHANGED <<scan, found, unread>>

ScanNext ==
    \/ ScanStart \/ ListRefs \/ ListCommits \/ ListPaths \/ ListObjects
    \/ ReadObject \/ ReadFails \/ ScanStops \/ ScanEnds
    \/ ScanPeople

-----------------------------------------------------------------------------
(* Properties *)

\* After a PASS nothing that could be reached all the while the gate ran is private: no
\* branch name, and no message, blob or path of a commit, those that rev-list --objects
\* does not name included; however the repository moved between one git process and the
\* next.
CleanIsClean ==
    scan = "PASS" =>
        /\ throughout.refs \cap PrivateBranches = {}
        /\ \A c \in throughout.commits : commits[c].private = {}
=============================================================================
