---------------------------- MODULE ShapeVersion ----------------------------
(***************************************************************************)
(* The shape_version check of scripts/agent_preflight.py for one pair of a  *)
(* schema and its receipt: a schema that differs from the committed one, or *)
(* a committed one that differs from its parents', needs a higher version.  *)
(*                                                                         *)
(* The check reads the working file, then HEAD:file, then HEAD's parents,   *)
(* with a git process for each, and HEAD and the file move in between.      *)
(***************************************************************************)
EXTENDS GitRepo

VARIABLES
    place,     \* "idle", or what the check has read: "file", "committed"
    schema,    \* the working file as read
    committed, \* HEAD:file as read
    cleared,   \* history: the last check passed what is on HEAD and in the file still
    accepted   \* history: the commits that a check passed as they are, or that record
               \* exactly what it passed

shape == <<place, schema, committed, cleared, accepted>>
shapeVars == <<repo, shape>>

ShapeInit ==
    /\ place = "idle"
    /\ schema = Absent /\ committed = Absent
    /\ cleared = FALSE /\ accepted = {}

\* effective_graft_error() refuses grafts, and a schema must be there.
ReadSchema ==
    /\ place = "idle"
    /\ depth # "grafted" /\ work # Absent
    /\ place' = "file"
    /\ schema' = work
    /\ UNCHANGED <<repo, committed, cleared, accepted>>

\* git show HEAD:<schema>; nothing committed and no commit at all give None alike.
ReadCommitted ==
    /\ place = "file"
    /\ place' = "committed"
    /\ committed' = SchemaOf(HEAD)
    /\ UNCHANGED <<repo, schema, cleared, accepted>>

\* _head_parents(): those that HEAD names, whether they are in the clone or not.
HeadParents == ParentsOf(HEAD)

\* Mutant of Compared: the first parent of HEAD speaks for all.
FirstParent ==
    IF committed # schema THEN {committed} \ {Absent}
    ELSE {SchemaOf(c) : c \in {c \in HeadParents : \A d \in HeadParents : c <= d}} \ {Absent}

\* The baselines: the committed schema or, if it is the one at hand, those of HEAD's
\* parents.
Compared ==
    IF committed # schema THEN {committed} \ {Absent}
    ELSE {SchemaOf(c) : c \in HeadParents} \ {Absent}

\* There is a HEAD to ask, and its parents are in the clone; cat-file sees through a graft.
ParentsAtHand ==
    committed = schema =>
        /\ HEAD # 0
        /\ depth = "shallow" => HeadParents \cap hidden = {}

ShapePasses ==
    /\ ParentsAtHand
    /\ Compared = {} => schema.version = 1
    /\ \A baseline \in Compared : baseline = schema \/ schema.version > baseline.version

ShapeEnds ==
    /\ place' = "idle"
    /\ schema' = Absent /\ committed' = Absent
    /\ UNCHANGED repo

ShapePass ==
    /\ place = "committed" /\ ShapePasses
    /\ LET unmoved == committed = SchemaOf(HEAD)
       IN  /\ cleared' = (unmoved /\ work = schema)
           /\ accepted' = IF unmoved /\ committed = schema THEN accepted \cup {HEAD} ELSE accepted
    /\ ShapeEnds

\* Here, and wherever Git or a file fails or the receipt does not belong to the schema.
ShapeFail ==
    /\ place # "idle"
    /\ ShapeEnds
    /\ UNCHANGED <<cleared, accepted>>

\* What has been read is what is there.
Current ==
    /\ place \in {"file", "committed"} => schema = work
    /\ place = "committed" => committed = SchemaOf(HEAD)

\* Somebody works in the repository.  A commit of what has been cleared is accepted.
\* Bound: a check is disturbed once; while it is out of date, more of the same makes no
\* difference to it.
ShapePeople ==
    /\ Current
    /\ \/ \E parents \in Followed :
             /\ Commit(parents, {})
             /\ accepted' = IF cleared /\ parents = {HEAD} \ {0} THEN accepted \cup {Len(commits')}
                            ELSE accepted
       \/ /\ \/ \E s \in Schemas \cup {Absent} : EditSchema(s)
             \/ \E b \in Branches : Switch(b)
             \/ \E c \in Commits : MoveRef(branch, c)
             \/ CutHistory
          /\ UNCHANGED accepted
    /\ cleared' = (cleared /\ work' = work /\ refs'[branch'] = HEAD)
    /\ UNCHANGED <<place, schema, committed>>

ShapeNext == ReadSchema \/ ReadCommitted \/ ShapePass \/ ShapeFail \/ ShapePeople

-----------------------------------------------------------------------------
(* Properties *)

\* From one commit to another, when all commits between them have passed: if the schema
\* has changed, its version has grown.  The check compares one generation only; that
\* nothing slips through over several, and over merges, is what makes a version name one
\* shape.
VersionsNameShapes ==
    \A c \in accepted : \A a \in commits[c].past :
        /\ SchemaOf(a) \notin {Absent, SchemaOf(c)}
        /\ \A d \in commits[c].past \ {a} : a \in commits[d].past => d \in accepted
        => SchemaOf(c).version > SchemaOf(a).version
=============================================================================
