------------------------------ MODULE GatesProofs ------------------------------
(***************************************************************************)
(* Proofs about the four gates, for any files, artifacts, commands, budgets,*)
(* configurations, schemas, private parts and stacks, and any number of    *)
(* commits and writes.  They are stated of Gates, where each gate leaves   *)
(* the others alone and the first three read one repository.               *)
(*                                                                         *)
(* First the repository itself (what is committed stays, and knows its     *)
(* ancestors), then the search of history, the branch stack and the schema *)
(* versions, which rest on that, and last the preflight, which does not.   *)
(***************************************************************************)
EXTENDS Gates, FiniteSetTheorems, WellFoundedInduction, TLAPS

-----------------------------------------------------------------------------
(* The repository: commits never change, and know their ancestors. *)

CommitRecord == [parents : SUBSET Nat, schema : Schemas \cup {Absent}, private : SUBSET Parts,
                 past : SUBSET Nat]

RepoTypes ==
    /\ commits \in Seq(CommitRecord)
    /\ refs \in [DOMAIN refs -> 0..Len(commits)] /\ branch \in DOMAIN refs
    /\ work \in Schemas \cup {Absent}
    /\ depth = "whole" => hidden = {}

Ancestry ==
    \A c \in Commits :
        /\ commits[c].parents \subseteq 1..(c - 1) /\ commits[c].parents \subseteq commits[c].past
        /\ c \in commits[c].past /\ commits[c].past \subseteq 1..c
        /\ \A a \in commits[c].past : commits[a].past \subseteq commits[c].past
        /\ \A a \in commits[c].past : a = c \/ \E p \in commits[c].parents : a \in commits[p].past

RepoInv == RepoTypes /\ Ancestry

\* What people do to it, whichever gate is at work.
RepoStep ==
    \/ \E parents \in Followed, parts \in SUBSET Parts : Commit(parents, parts)
    \/ \E s \in Schemas \cup {Absent} : EditSchema(s)
    \/ \E b \in Branches : Switch(b)
    \/ \E b \in Branches, c \in Commits \cup {0} : MoveRef(b, c)
    \/ CutHistory

\* What has been committed stays as it is, and no ref appears or goes.
Grows ==
    /\ DOMAIN refs' = DOMAIN refs
    /\ \A c \in Commits : c \in Commits' /\ commits'[c] = commits[c]

LEMMA RepoInitInv == GitInit => RepoInv
<1> SUFFICES ASSUME GitInit PROVE RepoInv
  OBVIOUS
<1>1. PICK names \in BranchSets : refs = [b \in names |-> 0]
  BY DEF GitInit
<1>2. Main \in names /\ DOMAIN refs = names
  BY <1>1, GitAssumption
<1>3. commits = <<>> /\ Len(commits) = 0 /\ commits \in Seq(CommitRecord)
  BY DEF GitInit
<1>4. RepoTypes
  BY <1>1, <1>2, <1>3 DEF GitInit, RepoTypes
<1>5. Ancestry
  BY <1>3 DEF Ancestry, Commits
<1> QED
  BY <1>4, <1>5 DEF RepoInv

LEMMA FollowedAreCommits ==
    ASSUME RepoInv, NEW parents \in Followed
    PROVE  parents \subseteq Commits
<1>1. HEAD \in 0..Len(commits) /\ \A b \in DOMAIN refs : refs[b] \in 0..Len(commits)
  BY DEF RepoInv, RepoTypes, HEAD
<1>2. Len(commits) \in Nat
  BY DEF RepoInv, RepoTypes
<1>3. CASE parents = {HEAD} \ {0}
  BY <1>1, <1>2, <1>3 DEF Commits
<1>4. CASE parents = ParentsOf(HEAD)
  <2>1. CASE HEAD = 0
    BY <1>4, <2>1 DEF ParentsOf
  <2>2. CASE HEAD \in Commits
    <3>1. commits[HEAD].parents \subseteq 1..(HEAD - 1)
      BY <2>2 DEF RepoInv, Ancestry
    <3> QED
      BY <1>1, <1>2, <1>4, <2>2, <3>1 DEF ParentsOf, Commits
  <2> QED
    BY <1>1, <1>2, <2>1, <2>2 DEF Commits
<1>5. CASE \E b \in Named : HEAD # 0 /\ parents = {HEAD, refs[b]}
  BY <1>1, <1>2, <1>5 DEF Commits, Named, Branches
<1> QED
  BY <1>3, <1>4, <1>5 DEF Followed

LEMMA CommitInv ==
    ASSUME RepoInv, NEW parents, parents \subseteq Commits, NEW parts \in SUBSET Parts,
           Commit(parents, parts)
    PROVE  RepoInv' /\ Grows
<1> DEFINE n == Len(commits) + 1
           new == [parents |-> parents, schema |-> work, private |-> parts,
                   past |-> {n} \cup UNION {commits[c].past : c \in parents}]
<1>1. /\ commits' = Append(commits, new) /\ refs' = [refs EXCEPT ![branch] = n]
      /\ UNCHANGED <<branch, work, depth, hidden>>
  BY DEF Commit
<1>2. Len(commits) \in Nat /\ Commits = 1..Len(commits)
  BY DEF RepoInv, RepoTypes, Commits
<1>3. \A c \in Commits : commits[c] \in CommitRecord
  BY <1>2 DEF RepoInv, RepoTypes
<1>4. parents \subseteq Nat /\ new.past \subseteq Nat
  BY <1>2, <1>3 DEF CommitRecord
<1>5. new \in CommitRecord
  BY <1>4 DEF CommitRecord, RepoInv, RepoTypes
<1>6. /\ commits' \in Seq(CommitRecord) /\ Len(commits') = n /\ commits'[n] = new
      /\ \A c \in Commits : commits'[c] = commits[c]
  BY <1>1, <1>2, <1>5 DEF RepoInv, RepoTypes
<1>7. Commits' = Commits \cup {n}
  BY <1>2, <1>6 DEF Commits
<1>8. RepoTypes'
  <2>1. refs' \in [DOMAIN refs' -> 0..n]
    BY <1>1, <1>2 DEF RepoInv, RepoTypes
  <2> QED
    BY <1>1, <1>6, <2>1 DEF RepoInv, RepoTypes
<1>9. ASSUME NEW c \in Commits
      PROVE  /\ commits'[c].parents \subseteq 1..(c - 1) /\ commits'[c].parents \subseteq commits'[c].past
             /\ c \in commits'[c].past /\ commits'[c].past \subseteq 1..c
             /\ \A a \in commits'[c].past : commits'[a].past \subseteq commits'[c].past
             /\ \A a \in commits'[c].past : a = c \/ \E p \in commits'[c].parents : a \in commits'[p].past
  <2>1. commits[c].parents \subseteq Commits /\ commits[c].past \subseteq Commits
    BY <1>2, <1>9 DEF RepoInv, Ancestry
  <2> QED
    BY <1>6, <1>9, <2>1 DEF RepoInv, Ancestry
<1>10. /\ new.parents \subseteq 1..(n - 1) /\ new.parents \subseteq new.past
       /\ n \in new.past /\ new.past \subseteq 1..n
       /\ \A a \in new.past : commits'[a].past \subseteq new.past
       /\ \A a \in new.past : a = n \/ \E p \in new.parents : a \in commits'[p].past
  <2>1. \A p \in parents : commits[p].past \subseteq 1..p /\ commits[p].past \subseteq Commits
    BY <1>2 DEF RepoInv, Ancestry
  <2>2. new.past \subseteq 1..n /\ n \in new.past /\ new.parents \subseteq 1..(n - 1)
    BY <1>2, <2>1
  <2>6. new.parents \subseteq new.past
    BY DEF RepoInv, Ancestry
  <2>3. ASSUME NEW a \in new.past, a # n
        PROVE  \E p \in parents : a \in commits[p].past /\ a \in Commits
    BY <2>1, <2>3
  <2>4. ASSUME NEW a \in new.past PROVE commits'[a].past \subseteq new.past
    <3>1. CASE a = n
      BY <1>6, <3>1
    <3>2. CASE a # n
      <4>1. PICK p \in parents : a \in commits[p].past /\ a \in Commits
        BY <2>3, <3>2
      <4>2. commits[a].past \subseteq commits[p].past
        BY <4>1 DEF RepoInv, Ancestry
      <4> QED
        BY <1>6, <4>1, <4>2
    <3> QED
      BY <3>1, <3>2
  <2>5. ASSUME NEW a \in new.past, a # n
        PROVE  \E p \in new.parents : a \in commits'[p].past
    BY <1>6, <2>3, <2>5
  <2> QED
    BY <2>2, <2>4, <2>5, <2>6
<1>11. Ancestry'
  <2> HIDE DEF new
  <2> QED
    BY <1>6, <1>7, <1>9, <1>10 DEF Ancestry
<1> QED
  BY <1>1, <1>6, <1>7, <1>8, <1>11 DEF RepoInv, RepoTypes, Grows

LEMMA RepoStepInv == ASSUME RepoInv, RepoStep PROVE RepoInv' /\ Grows
<1>1. ASSUME NEW parents \in Followed, NEW parts \in SUBSET Parts, Commit(parents, parts)
      PROVE  RepoInv' /\ Grows
  BY <1>1, FollowedAreCommits, CommitInv
<1>2. ASSUME UNCHANGED commits, RepoTypes' , DOMAIN refs' = DOMAIN refs
      PROVE  RepoInv' /\ Grows
  BY <1>2 DEF RepoInv, Ancestry, Commits, Grows
<1>3. ASSUME NEW s \in Schemas \cup {Absent}, EditSchema(s) PROVE RepoInv' /\ Grows
  BY <1>2, <1>3 DEF EditSchema, RepoInv, RepoTypes
<1>4. ASSUME NEW b \in Branches, Switch(b) PROVE RepoInv' /\ Grows
  <2>1. HEAD \in 0..Len(commits)
    BY DEF RepoInv, RepoTypes, HEAD
  <2>2. UNCHANGED <<commits, depth, hidden>> /\ branch' = b /\ refs' \in {refs, [refs EXCEPT ![b] = HEAD]}
    BY <1>4 DEF Switch
  <2>3. refs' \in [DOMAIN refs -> 0..Len(commits)] /\ DOMAIN refs' = DOMAIN refs
    BY <2>1, <2>2 DEF RepoInv, RepoTypes
  <2>4. work' \in Schemas \cup {Absent}
    <3>1. \A c \in 0..Len(commits) : SchemaOf(c) \in Schemas \cup {Absent}
      <4>1. \A c \in 1..Len(commits) : commits[c] \in CommitRecord
        BY DEF RepoInv, RepoTypes
      <4>2. \A c \in 1..Len(commits) : commits[c].schema \in Schemas \cup {Absent}
        BY <4>1 DEF CommitRecord
      <4> QED
        BY <4>2 DEF SchemaOf, RepoInv, RepoTypes
    <3>2. work' = work \/ \E c \in 0..Len(commits) : work' = SchemaOf(c)
      BY <1>4, <2>2, <2>3 DEF Switch, SchemaOf, Branches
    <3> QED
      BY <3>1, <3>2 DEF RepoInv, RepoTypes
  <2> QED
    BY <1>2, <2>2, <2>3, <2>4 DEF RepoInv, RepoTypes, Branches
<1>5. ASSUME NEW b \in Branches, NEW c \in Commits \cup {0}, MoveRef(b, c) PROVE RepoInv' /\ Grows
  <2>1. refs' \in [DOMAIN refs -> 0..Len(commits)] /\ DOMAIN refs' = DOMAIN refs
    <3>1. c \in 0..Len(commits) /\ b \in DOMAIN refs /\ refs' = [refs EXCEPT ![b] = c]
      BY <1>5 DEF MoveRef, Commits, Branches, RepoInv, RepoTypes
    <3> QED
      BY <3>1 DEF RepoInv, RepoTypes
  <2> QED
    BY <1>2, <1>5, <2>1 DEF MoveRef, RepoInv, RepoTypes
<1>6. ASSUME CutHistory PROVE RepoInv' /\ Grows
  <2>1. HEAD \in 0..Len(commits) /\ Len(commits) \in Nat
    BY DEF RepoInv, RepoTypes, HEAD
  <2>2. refs' \in [DOMAIN refs -> 0..Len(commits)] /\ DOMAIN refs' = DOMAIN refs
    BY <1>6, <2>1 DEF CutHistory, RepoInv, RepoTypes, Branches
  <2> QED
    BY <1>2, <1>6, <2>2 DEF CutHistory, RepoInv, RepoTypes
<1> QED
  BY <1>1, <1>3, <1>4, <1>5, <1>6 DEF RepoStep

\* What the gates themselves do leaves the repository alone.
LEMMA RepoNext == ASSUME RepoInv, Next PROVE RepoStep \/ UNCHANGED repo
<1>1. {} \in SUBSET Parts
  OBVIOUS
<1>2. CASE ShapeNext
  <2>1. ShapePeople => RepoStep
    BY <1>1 DEF ShapePeople, RepoStep, RepoInv, RepoTypes, Branches
  <2> QED
    BY <1>2, <2>1 DEF ShapeNext, ReadSchema, ReadCommitted, ShapePass, ShapeFail, ShapeEnds
<1>3. CASE ScanNext
  <2>1. ScanPeople => RepoStep
    BY DEF ScanPeople, RepoStep
  <2> QED
    BY <1>3, <2>1 DEF ScanNext, ScanStart, ListRefs, ListCommits, ListPaths, ListObjects,
       ReadObject, ReadFails, ScanStops, ScanEnds
<1>4. CASE StackNext
  <2>1. StackPeople => RepoStep
    BY <1>1 DEF StackPeople, RepoStep
  <2> QED
    BY <1>4, <2>1 DEF StackNext, StackStart, Observe, StackOk, StackFails
<1> QED
  BY <1>2, <1>3, <1>4 DEF Next

LEMMA RepoInvariant == Spec => []RepoInv
<1>1. Init => RepoInv
  BY RepoInitInv DEF Init
<1>2. RepoInv /\ [Next]_vars => RepoInv'
  <2>1. RepoInv /\ UNCHANGED repo => RepoInv'
    BY DEF RepoInv, RepoTypes, Ancestry, Commits, repo
  <2>2. UNCHANGED vars => UNCHANGED repo
    BY DEF vars
  <2> QED
    BY <2>1, <2>2, RepoNext, RepoStepInv
<1> QED
  BY <1>1, <1>2, PTL DEF Spec

-----------------------------------------------------------------------------
(* The search of the history: what has been there all the while is found. *)

Listing == {"refs", "commits", "paths", "objects", "read"}

ScanTypes ==
    /\ scan \in Listing \cup {"idle", "PASS"} /\ found \in BOOLEAN
    /\ throughout.commits \subseteq Commits
    /\ throughout = [refs |-> throughout.refs, commits |-> throughout.commits]
    /\ scan \in Listing =>
          /\ depth = "whole" /\ throughout.refs \subseteq Named /\ throughout.commits \subseteq History

Unnamed == throughout.refs \cap PrivateBranches = {}
NoPath == \A c \in throughout.commits : commits[c].private \cap {"path", "copy"} = {}
AllListed ==
    \A c \in throughout.commits : \A part \in {"message", "blob"} :
        part \in commits[c].private => <<c, part>> \in unread

\* What is private has been found, or is still to come.
Searched ==
    /\ scan \in {"commits", "paths", "objects", "read", "PASS"} /\ ~found => Unnamed
    /\ scan \in {"objects", "read", "PASS"} /\ ~found => NoPath
    /\ scan \in {"read", "PASS"} /\ ~found => AllListed
    /\ scan = "PASS" => ~found /\ unread = {}

ScanInv == ScanTypes /\ Searched

\* Of the history of the refs, whole, nothing is out of reach.
LEMMA WalkIsWhole ==
    ASSUME RepoInv, depth = "whole"
    PROVE  History \subseteq Walk /\ History \subseteq Commits
<1>1. hidden = {}
  BY DEF RepoInv, RepoTypes
<1>2. \A b \in Named : refs[b] \in Commits
  BY DEF RepoInv, RepoTypes, Named, Branches, Commits
<1>3. \A b \in Named : commits[refs[b]].past \subseteq Commits
  <2> SUFFICES ASSUME NEW b \in Named PROVE commits[refs[b]].past \subseteq Commits
    OBVIOUS
  <2>1. commits[refs[b]].past \subseteq 1..refs[b]
    BY <1>2 DEF RepoInv, Ancestry
  <2>2. Len(commits) \in Nat /\ refs[b] \in 1..Len(commits)
    BY <1>2 DEF RepoInv, RepoTypes, Commits
  <2> QED
    BY <2>1, <2>2 DEF Commits
<1> QED
  BY <1>1, <1>3 DEF Walk, History

LEMMA PrivatePartsAreParts ==
    ASSUME RepoInv, NEW c \in Commits
    PROVE  commits[c].private \subseteq {"message", "blob", "path", "copy"}
<1>1. commits[c] \in CommitRecord
  BY DEF RepoInv, RepoTypes, Commits
<1> QED
  BY <1>1 DEF CommitRecord, Parts

LEMMA ScanInitInv == ScanInit => ScanInv
<1> SUFFICES ASSUME ScanInit PROVE ScanInv
  OBVIOUS
<1>1. throughout.commits = {} /\ throughout = [refs |-> throughout.refs, commits |-> throughout.commits]
  BY DEF ScanInit
<1> QED
  BY <1>1 DEF ScanInit, ScanInv, ScanTypes, Searched, Listing

\* The steps of the gate itself, over a repository that stays as it is.
LEMMA ScanGateInv ==
    ASSUME RepoInv, ScanInv, UNCHANGED repo,
           \/ ScanStart \/ ListRefs \/ ListCommits \/ ListPaths \/ ListObjects
           \/ ReadObject \/ ReadFails \/ ScanStops \/ ScanEnds
    PROVE  ScanInv'
<1>1. /\ UNCHANGED <<commits, refs, depth, hidden>> /\ Commits' = Commits /\ Named' = Named
      /\ History' = History /\ Walk' = Walk
  BY DEF repo, Commits, Named, History, Walk, Branches
<1> USE DEF ScanInv
<1>2. CASE ScanStart
  <2>1. scan' = "refs" /\ found' = FALSE /\ unread' = {} /\ depth = "whole"
        /\ throughout' = [refs |-> Named, commits |-> History]
    BY <1>2 DEF ScanStart, Present, Refused
  <2>2. History \subseteq Commits
    BY <2>1, WalkIsWhole
  <2> QED
    BY <1>1, <2>1, <2>2 DEF ScanTypes, Searched, Listing
<1>3. CASE ListRefs
  <2>1. scan' = "commits" /\ found' = (found \/ Named \cap PrivateBranches # {})
        /\ UNCHANGED <<unread, throughout>> /\ scan = "refs"
    BY <1>3 DEF ListRefs, Report
  <2>2. ~found' => Unnamed'
    BY <2>1 DEF ScanTypes, Unnamed, Listing
  <2> QED
    BY <1>1, <2>1, <2>2 DEF ScanTypes, Searched, Listing
<1>4. CASE ListCommits
  BY <1>1, <1>4 DEF ListCommits, ScanTypes, Searched, Listing, Unnamed
<1>5. CASE ListPaths
  <2>1. /\ scan = "paths" /\ scan' = "objects" /\ UNCHANGED <<unread, throughout>>
        /\ found' = (found \/ \E c \in Walk : commits[c].private \cap {"path", "copy"} # {})
    BY <1>5 DEF ListPaths, Report
  <2>2. throughout.commits \subseteq Walk
    BY <2>1, WalkIsWhole DEF ScanTypes, Listing
  <2>3. ~found' => NoPath'
    BY <1>1, <2>1, <2>2 DEF NoPath
  <2> QED
    BY <1>1, <2>1, <2>3 DEF ScanTypes, Searched, Listing, Unnamed
<1>6. CASE ListObjects
  <2>1. /\ scan = "objects" /\ scan' = "read" /\ UNCHANGED throughout
        /\ unread' = Walk \X {"message", "blob"} /\ (~found' => ~found)
    BY <1>6 DEF ListObjects, Report
  <2>2. found' \in BOOLEAN
    BY <1>6 DEF ListObjects, Report, ScanTypes
  <2>3. AllListed'
    <3>1. throughout.commits \subseteq Walk
      BY <2>1, WalkIsWhole DEF ScanTypes, Listing
    <3> QED
      BY <2>1, <3>1 DEF AllListed
  <2> QED
    BY <1>1, <2>1, <2>2, <2>3 DEF ScanTypes, Searched, Listing, Unnamed, NoPath
<1>7. CASE ReadObject \/ ReadFails
  <2>1. PICK o \in unread :
           /\ scan = "read" /\ unread' = unread \ {o} /\ UNCHANGED <<scan, throughout>>
           /\ found' \in BOOLEAN /\ (~found' => ~found /\ o[2] \notin commits[o[1]].private)
    BY <1>7 DEF ReadObject, ReadFails, Report, ScanTypes
  <2>2. ~found' => AllListed'
    <3> SUFFICES ASSUME ~found', NEW c \in throughout.commits, NEW part \in {"message", "blob"},
                        part \in commits[c].private
                 PROVE  <<c, part>> \in unread'
      BY <1>1, <2>1 DEF AllListed
    <3>1. <<c, part>> \in unread
      BY <2>1 DEF AllListed, Searched
    <3>2. <<c, part>> # o
      BY <2>1
    <3> QED
      BY <2>1, <3>1, <3>2
  <2> QED
    BY <1>1, <2>1, <2>2 DEF ScanTypes, Searched, Listing, Unnamed, NoPath
<1>8. CASE ScanStops
  BY <1>1, <1>8 DEF ScanStops, ScanTypes, Searched, Listing
<1>9. CASE ScanEnds
  BY <1>1, <1>9 DEF ScanEnds, ScanTypes, Searched, Listing, Unnamed, NoPath, AllListed
<1> QED
  BY <1>2, <1>3, <1>4, <1>5, <1>6, <1>7, <1>8, <1>9

\* People make nothing private of what has been there before.
LEMMA ScanPeopleInv ==
    ASSUME RepoInv, ScanInv, RepoInv', Grows, ScanPeople
    PROVE  ScanInv'
<1> USE DEF ScanInv
<1>1. UNCHANGED <<scan, found, unread>>
  BY DEF ScanPeople
<1>2. throughout' = [refs |-> throughout'.refs, commits |-> throughout'.commits]
  BY DEF ScanPeople, ScanTypes
<1>3. /\ throughout'.refs \subseteq throughout.refs /\ throughout'.commits \subseteq throughout.commits
      /\ scan \in Listing => throughout'.refs \subseteq Named' /\ throughout'.commits \subseteq History'
  BY DEF ScanPeople, Present, Listing
<1>4. scan \in Listing => depth' = depth
  BY DEF ScanPeople, Commit, MoveRef, Listing
<1>5. ScanTypes'
  BY <1>1, <1>2, <1>3, <1>4 DEF ScanTypes, Grows, Listing
<1>6. \A c \in throughout'.commits : c \in throughout.commits /\ commits'[c] = commits[c]
  BY <1>3 DEF ScanTypes, Grows
<1>7. (Unnamed => Unnamed') /\ (NoPath => NoPath') /\ (AllListed => AllListed')
  BY <1>1, <1>3, <1>6 DEF Unnamed, NoPath, AllListed
<1> QED
  BY <1>1, <1>5, <1>7 DEF Searched

\* Another gate is at work, and this one has nothing to tell.
LEMMA ScanRests ==
    ASSUME ScanInv, scan = "idle", UNCHANGED scanning, Grows
    PROVE  ScanInv'
BY DEF ScanInv, ScanTypes, Searched, scanning, Grows, Listing

\* gate does not change, and only the gate at work takes a step.
OnlyScans == gate # "history" => scan = "idle"

LEMMA ScanInvariant == Spec => [](ScanInv /\ OnlyScans)
<1>1. Init => ScanInv /\ OnlyScans
  BY ScanInitInv DEF Init, ScanInit, OnlyScans
<1>2. RepoInv /\ RepoInv' /\ ScanInv /\ OnlyScans /\ [Next]_vars => (ScanInv /\ OnlyScans)'
  <2> SUFFICES ASSUME RepoInv, RepoInv', ScanInv, OnlyScans, [Next]_vars PROVE (ScanInv /\ OnlyScans)'
    OBVIOUS
  <2>1. UNCHANGED gate
    BY DEF Next, vars
  <2>2. CASE gate = "history" /\ ScanNext
    <3>1. CASE ScanPeople
      <4>1. RepoStep
        BY <3>1 DEF ScanPeople, RepoStep
      <4> QED
        BY <2>1, <2>2, <3>1, <4>1, RepoStepInv, ScanPeopleInv DEF OnlyScans
    <3>2. CASE ~ScanPeople
      <4>1. UNCHANGED repo
        BY <2>2, <3>2 DEF ScanNext, ScanStart, ListRefs, ListCommits, ListPaths, ListObjects,
           ReadObject, ReadFails, ScanStops, ScanEnds
      <4> QED
        BY <2>1, <2>2, <3>2, <4>1, ScanGateInv DEF ScanNext, OnlyScans
    <3> QED
      BY <3>1, <3>2
  <2>3. CASE UNCHANGED scanning /\ (gate = "history" => UNCHANGED repo)
    <3>1. CASE UNCHANGED repo
      BY <2>1, <2>3, <3>1 DEF ScanInv, ScanTypes, Searched, Unnamed, NoPath, AllListed, scanning, repo,
         Commits, Named, History, Branches, OnlyScans
    <3>2. CASE ~UNCHANGED repo
      <4>1. Grows
        BY <3>2, RepoNext, RepoStepInv DEF vars
      <4> QED
        BY <2>1, <2>3, <3>2, <4>1, ScanRests DEF OnlyScans, scanning
    <3> QED
      BY <3>1, <3>2
  <2> QED
    BY <2>2, <2>3 DEF Next, vars
<1> QED
  BY <1>1, <1>2, RepoInvariant, PTL DEF Spec

\* Nothing private that could be reached all the while passes the search, for any number
\* of branches and commits and however they move.
THEOREM CleanIsReallyClean == Spec => []CleanIsClean
<1>1. RepoInv /\ ScanInv => CleanIsClean
  <2> SUFFICES ASSUME RepoInv, ScanInv, scan = "PASS"
               PROVE  Unnamed /\ \A c \in throughout.commits : commits[c].private = {}
    BY DEF CleanIsClean, Unnamed
  <2>1. Unnamed /\ NoPath /\ AllListed /\ unread = {}
    BY DEF ScanInv, Searched
  <2>2. \A c \in throughout.commits : commits[c].private \subseteq {"message", "blob", "path", "copy"}
    BY PrivatePartsAreParts DEF ScanInv, ScanTypes
  <2> QED
    BY <2>1, <2>2 DEF NoPath, AllListed
<1> QED
  BY <1>1, RepoInvariant, ScanInvariant, PTL

-----------------------------------------------------------------------------
(* The stack: what has been seen of neighbours, one after the other, holds for all. *)

\* What the lowest m branches held when the check began is in those above them.
UpTo(m) ==
    \A i, j \in 1..m :
        i < j /\ (\A k \in i..j : began[Stack[k]] # 0) =>
            began[Stack[i]] \in commits[refs[Stack[j]]].past

StackTypes ==
    /\ stacked \in {"idle", "runs", "ok"} /\ pair \in 0..(Len(Stack) - 1)
    /\ began \in [DOMAIN refs -> Nat]
    /\ \A b \in DOMAIN refs : began[b] # 0 =>
          refs[b] \in Commits /\ began[b] \in commits[refs[b]].past
    /\ gate = "stack" => \A i \in 1..Len(Stack) : Stack[i] \in DOMAIN refs
    /\ gate # "stack" => stacked = "idle" /\ \A b \in DOMAIN refs : began[b] = 0

StackInv ==
    /\ StackTypes
    /\ stacked = "runs" /\ linear => UpTo(pair + 1)
    /\ stacked = "ok" => UpTo(Len(Stack))

LEMMA StackLength == Len(Stack) \in Nat /\ Len(Stack) >= 2
<1>1. Len(Stack) \in 2..32
  BY StackAssumption
<1>2. \A n \in 2..32 : n \in Nat /\ n >= 2
  OBVIOUS
<1> QED
  BY <1>1, <1>2, Zenon

LEMMA StackInitInv == Init => StackInv
<1> SUFFICES ASSUME Init PROVE StackInv
  OBVIOUS
<1>1. stacked = "idle" /\ pair = 0 /\ began = [b \in DOMAIN refs |-> 0]
  BY DEF Init, StackInit, Branches
<1>2. gate = "stack" => \A i \in 1..Len(Stack) : Stack[i] \in DOMAIN refs
  BY DEF Init, Branches
<1> QED
  BY <1>1, <1>2, StackLength DEF StackInv, StackTypes

\* One more pair.
LEMMA ObserveInv ==
    ASSUME RepoInv, StackInv, gate = "stack", Observe, UNCHANGED gate
    PROVE  StackInv'
<1>1. /\ stacked = "runs" /\ pair < Len(Stack) - 1 /\ pair' = pair + 1
      /\ linear' = (linear /\ IsAncestor(Stack[pair + 1], Stack[pair + 2]))
      /\ UNCHANGED <<commits, refs, stacked, began>>
  <2>1. (pair + 1) + 1 = pair + 2
    BY DEF StackInv, StackTypes
  <2> QED
    BY <2>1 DEF Observe, repo
<1>2. StackTypes'
  BY <1>1, StackLength DEF StackInv, StackTypes, Commits
<1>3. ASSUME linear' PROVE UpTo(pair + 2)
  <2> DEFINE top == pair + 2
  <2>1. linear /\ UpTo(pair + 1) /\ refs[Stack[pair + 1]] \in commits[refs[Stack[top]]].past
    BY <1>1, <1>3 DEF StackInv, IsAncestor
  <2>2. pair \in Nat /\ top \in 1..Len(Stack) /\ pair + 1 \in 1..Len(Stack)
    BY <1>1, StackLength DEF StackInv, StackTypes
  <2>3. Stack[pair + 1] \in DOMAIN refs /\ Stack[top] \in DOMAIN refs
    BY <2>2 DEF StackInv, StackTypes
  <2>4. ASSUME NEW i \in 1..(pair + 1), \A k \in i..top : began[Stack[k]] # 0
        PROVE  began[Stack[i]] \in commits[refs[Stack[top]]].past
    <3>1. began[Stack[pair + 1]] # 0 /\ began[Stack[top]] # 0
      BY <2>2, <2>4
    <3>2. began[Stack[i]] \in commits[refs[Stack[pair + 1]]].past
      <4>1. CASE i = pair + 1
        BY <2>3, <3>1, <4>1 DEF StackInv, StackTypes
      <4>2. CASE i < pair + 1
        <5>1. \A k \in i..(pair + 1) : began[Stack[k]] # 0
          BY <2>2, <2>4
        <5> QED
          BY <2>1, <2>2, <4>2, <5>1 DEF UpTo
      <4> QED
        BY <2>2, <4>1, <4>2
    <3>3. refs[Stack[top]] \in Commits
      BY <2>3, <3>1 DEF StackInv, StackTypes
    <3>4. commits[refs[Stack[pair + 1]]].past \subseteq commits[refs[Stack[top]]].past
      BY <2>1, <3>3 DEF RepoInv, Ancestry
    <3> QED
      BY <3>2, <3>4
  <2>5. ASSUME NEW i \in 1..top, NEW j \in 1..top, i < j, \A k \in i..j : began[Stack[k]] # 0
        PROVE  began[Stack[i]] \in commits[refs[Stack[j]]].past
    <3>1. CASE j = top
      BY <2>2, <2>4, <2>5, <3>1
    <3>2. CASE j # top
      <4>1. i \in 1..(pair + 1) /\ j \in 1..(pair + 1)
        BY <2>2, <2>5, <3>2
      <4> QED
        BY <2>1, <2>5, <4>1 DEF UpTo
    <3> QED
      BY <3>1, <3>2
  <2> QED
    BY <2>5 DEF UpTo
<1>4. UpTo(pair + 2) => UpTo(pair + 1)'
  <2>1. pair' + 1 = pair + 2
    BY <1>1 DEF StackInv, StackTypes
  <2> QED
    BY <1>1, <2>1 DEF UpTo
<1> QED
  BY <1>1, <1>2, <1>3, <1>4 DEF StackInv

\* The gate's other steps.
LEMMA StackGateInv ==
    ASSUME RepoInv, StackInv, gate = "stack", UNCHANGED gate, StackStart \/ StackOk \/ StackFails
    PROVE  StackInv'
<1>1. UNCHANGED <<commits, refs>> /\ Commits' = Commits
  BY DEF StackStart, StackOk, StackFails, repo, Commits
<1>2. CASE StackStart
  <2>1. stacked' = "runs" /\ pair' = 0 /\ began' = refs
    BY <1>2 DEF StackStart
  <2>2. \A b \in DOMAIN refs : refs[b] # 0 => refs[b] \in Commits /\ refs[b] \in commits[refs[b]].past
    <3>1. \A b \in DOMAIN refs : refs[b] # 0 => refs[b] \in Commits
      BY DEF RepoInv, RepoTypes, Commits
    <3> QED
      BY <3>1 DEF RepoInv, Ancestry
  <2>3. refs \in [DOMAIN refs -> Nat]
    BY DEF RepoInv, RepoTypes
  <2>4. StackTypes'
    BY <1>1, <2>1, <2>2, <2>3, StackLength DEF StackInv, StackTypes
  <2>5. UpTo(pair + 1)'
    BY <2>1 DEF UpTo
  <2> QED
    BY <2>1, <2>4, <2>5 DEF StackInv
<1>3. CASE StackOk
  <2>1. stacked = "runs" /\ linear /\ pair = Len(Stack) - 1 /\ stacked' = "ok" /\ pair' = 0
        /\ UNCHANGED <<linear, began>>
    BY <1>3 DEF StackOk
  <2>2. UpTo(Len(Stack))
    <3>1. pair + 1 = Len(Stack)
      BY <2>1, StackLength
    <3> QED
      BY <2>1, <3>1 DEF StackInv
  <2> QED
    BY <1>1, <2>1, <2>2, StackLength DEF StackInv, StackTypes, UpTo
<1>4. CASE StackFails
  BY <1>1, <1>4, StackLength DEF StackFails, StackInv, StackTypes, Branches
<1> QED
  BY <1>2, <1>3, <1>4

\* What moves forward keeps what it held; what does not is out of the promise.
LEMMA StackPeopleInv ==
    ASSUME RepoInv, RepoInv', StackInv, Grows, gate = "stack", UNCHANGED gate, StackPeople
    PROVE  StackInv'
<1>1. /\ UNCHANGED <<stacked, pair, linear>>
      /\ began' = [b \in DOMAIN refs |->
            IF refs'[b] # 0 /\ refs[b] \in commits'[refs'[b]].past THEN began[b] ELSE 0]
  BY DEF StackPeople, Branches
<1>2. ASSUME NEW b \in DOMAIN refs, began'[b] # 0
      PROVE  /\ began'[b] = began[b] /\ refs[b] \in Commits /\ refs'[b] \in Commits'
             /\ commits[refs[b]].past \subseteq commits'[refs'[b]].past
  <2>1. began'[b] = began[b] /\ refs'[b] # 0 /\ refs[b] \in commits'[refs'[b]].past
    BY <1>1, <1>2
  <2>2. refs[b] \in Commits /\ commits'[refs[b]] = commits[refs[b]]
    BY <1>2, <2>1 DEF StackInv, StackTypes, Grows
  <2>3. refs'[b] \in Commits'
    BY <2>1 DEF RepoInv, RepoTypes, Grows, Commits
  <2>4. commits'[refs[b]].past \subseteq commits'[refs'[b]].past
    BY <2>1, <2>3 DEF RepoInv, Ancestry
  <2> QED
    BY <2>1, <2>2, <2>3, <2>4
<1>3. StackTypes'
  <2>1. began' \in [DOMAIN refs' -> Nat]
    BY <1>1 DEF StackInv, StackTypes, Grows
  <2>2. \A b \in DOMAIN refs' : began'[b] # 0 =>
           refs'[b] \in Commits' /\ began'[b] \in commits'[refs'[b]].past
    BY <1>2 DEF StackInv, StackTypes, Grows
  <2> QED
    BY <1>1, <2>1, <2>2 DEF StackInv, StackTypes, Grows
<1>4. ASSUME NEW m \in 0..Len(Stack), UpTo(m) PROVE UpTo(m)'
  <2> SUFFICES ASSUME NEW i \in 1..m, NEW j \in 1..m, i < j, \A k \in i..j : began'[Stack[k]] # 0
               PROVE  began'[Stack[i]] \in commits'[refs'[Stack[j]]].past
    BY DEF UpTo
  <2>1. \A k \in i..j : Stack[k] \in DOMAIN refs
    BY StackLength DEF StackInv, StackTypes
  <2>2. \A k \in i..j : began[Stack[k]] # 0
    BY <1>2, <2>1
  <2>3. began[Stack[i]] \in commits[refs[Stack[j]]].past
    BY <1>4, <2>2 DEF UpTo
  <2>4. i \in i..j /\ j \in i..j
    OBVIOUS
  <2> QED
    BY <1>2, <2>1, <2>3, <2>4
<1>5. pair + 1 \in 0..Len(Stack) /\ Len(Stack) \in 0..Len(Stack)
  BY StackLength DEF StackInv, StackTypes
<1>6. UpTo(pair + 1) => UpTo(pair + 1)'
  BY <1>1, <1>4, <1>5 DEF UpTo
<1> QED
  BY <1>1, <1>3, <1>4, <1>5, <1>6 DEF StackInv

LEMMA StackInvariant == Spec => []StackInv
<1>1. RepoInv /\ RepoInv' /\ StackInv /\ [Next]_vars => StackInv'
  <2> SUFFICES ASSUME RepoInv, RepoInv', StackInv, [Next]_vars PROVE StackInv'
    OBVIOUS
  <2>1. UNCHANGED gate
    BY DEF Next, vars
  <2>2. CASE gate = "stack" /\ StackNext
    <3>1. StackPeople => RepoStep
      <4>1. {} \in SUBSET Parts
        OBVIOUS
      <4> QED
        BY <4>1 DEF StackPeople, RepoStep
    <3> QED
      BY <2>1, <2>2, <3>1, RepoStepInv, ObserveInv, StackGateInv, StackPeopleInv DEF StackNext
  <2>3. CASE UNCHANGED stacking /\ (gate = "stack" => UNCHANGED repo)
    <3>1. CASE UNCHANGED repo
      BY <2>1, <2>3, <3>1 DEF StackInv, StackTypes, UpTo, stacking, repo, Commits
    <3>2. CASE ~UNCHANGED repo
      <4>1. Grows
        BY <3>2, RepoNext, RepoStepInv DEF vars
      <4> QED
        BY <2>1, <2>3, <3>2, <4>1 DEF StackInv, StackTypes, stacking, Grows
    <3> QED
      BY <3>1, <3>2
  <2> QED
    BY <2>2, <2>3 DEF Next, vars
<1> QED
  BY <1>1, StackInitInv, RepoInvariant, PTL DEF Spec

\* A stack that is "ok" is linear beyond the pairs that were looked at, for any number of
\* branches and commits.
THEOREM StackIsReallyLinear == Spec => []StackIsLinear
<1>1. StackInv => StackIsLinear
  BY DEF StackInv, UpTo, StackIsLinear
<1> QED
  BY <1>1, StackInvariant, PTL

-----------------------------------------------------------------------------
(* Schema versions: what was compared with its parents only holds for all ancestors. *)

\* The step from one shape to another, if it is one, has raised the version.
Raised(old, new) == old \in {Absent, new} \/ new.version > old.version

\* A commit that has passed has a schema, and differs from its parents by a step.
WellVersioned(c) ==
    /\ commits[c].schema \in Schemas
    /\ \A p \in commits[c].parents : Raised(commits[p].schema, commits[c].schema)

ShapeInvariant ==
    /\ place \in {"idle", "file", "committed"}
    /\ place # "idle" => schema \in Schemas
    /\ accepted \subseteq Commits /\ \A c \in accepted : WellVersioned(c)
    /\ cleared => work \in Schemas /\ Raised(SchemaOf(HEAD), work)

LEMMA ShapeInitInv == Init => ShapeInvariant
BY DEF Init, ShapeInit, ShapeInvariant

LEMMA SchemasAreTyped ==
    ASSUME RepoInv, NEW c \in Commits
    PROVE  commits[c].schema \in Schemas \cup {Absent}
<1>1. commits[c] \in CommitRecord
  BY DEF RepoInv, RepoTypes, Commits
<1> QED
  BY <1>1 DEF CommitRecord

\* Commits do not change, so what has passed stays well versioned.
LEMMA AcceptedStays ==
    ASSUME RepoInv, ShapeInvariant, Grows
    PROVE  accepted \subseteq Commits' /\ \A c \in accepted : WellVersioned(c)'
<1>1. \A c \in accepted : c \in Commits /\ c \in Commits' /\ commits'[c] = commits[c]
  BY DEF ShapeInvariant, Grows
<1>2. \A c \in accepted : \A p \in commits[c].parents : p \in Commits
  <2> SUFFICES ASSUME NEW c \in accepted, NEW p \in commits[c].parents PROVE p \in Commits
    OBVIOUS
  <2>1. c \in 1..Len(commits) /\ p \in 1..(c - 1) /\ Len(commits) \in Nat
    BY <1>1 DEF RepoInv, RepoTypes, Ancestry, Commits
  <2> QED
    BY <2>1 DEF Commits
<1>3. \A c \in accepted : \A p \in commits[c].parents : commits'[p] = commits[p]
  BY <1>2 DEF Grows
<1> QED
  BY <1>1, <1>3 DEF ShapeInvariant, WellVersioned

\* What passes is a step from each baseline.
LEMMA PassedIsRaised ==
    ASSUME ShapeInvariant, place = "committed", ShapePasses, NEW b \in Compared \cup {Absent}
    PROVE  Raised(b, schema)
BY DEF ShapePasses, Raised

LEMMA ShapePassInv ==
    ASSUME RepoInv, ShapeInvariant, ShapePass
    PROVE  ShapeInvariant'
<1>1. /\ place = "committed" /\ ShapePasses /\ place' = "idle" /\ UNCHANGED <<commits, refs, branch, work>>
      /\ cleared' = (committed = SchemaOf(HEAD) /\ work = schema)
      /\ accepted' \in {accepted, accepted \cup {HEAD}}
      /\ accepted' # accepted => committed = SchemaOf(HEAD) /\ committed = schema
  BY DEF ShapePass, ShapeEnds, repo
<1>2. schema \in Schemas /\ schema # Absent
  BY <1>1, GitAssumption DEF ShapeInvariant
<1>3. Commits' = Commits /\ HEAD' = HEAD /\ SchemaOf(HEAD)' = SchemaOf(HEAD)
  BY <1>1 DEF Commits, HEAD, SchemaOf
<1>4. ASSUME committed = SchemaOf(HEAD), committed = schema
      PROVE  HEAD \in Commits /\ WellVersioned(HEAD)
  <2>1. HEAD \in Commits
    BY <1>2, <1>4 DEF SchemaOf, HEAD, RepoInv, RepoTypes, Commits
  <2>2. HEAD # 0 /\ commits[HEAD].schema = schema
    BY <1>1, <1>4 DEF ShapePasses, ParentsAtHand, HeadParents, SchemaOf
  <2>3. ASSUME NEW p \in commits[HEAD].parents PROVE Raised(commits[p].schema, schema)
    <3>1. p # 0
      <4>1. p \in 1..(HEAD - 1)
        BY <2>1, <2>3 DEF RepoInv, Ancestry
      <4> QED
        BY <2>1, <4>1 DEF Commits
    <3>2. commits[p].schema \in Compared \cup {Absent}
      BY <1>4, <2>2, <2>3, <3>1 DEF Compared, HeadParents, ParentsOf, SchemaOf
    <3> QED
      BY <1>1, <3>2, PassedIsRaised
  <2> QED
    BY <1>2, <2>1, <2>2, <2>3 DEF WellVersioned
<1>5. ASSUME committed = SchemaOf(HEAD), work = schema PROVE Raised(SchemaOf(HEAD), work)
  <2>1. CASE committed = schema
    BY <1>5, <2>1 DEF Raised
  <2>2. CASE committed # schema
    <3>1. committed \in Compared \cup {Absent}
      BY <2>2 DEF Compared
    <3> QED
      BY <1>1, <1>5, <3>1, PassedIsRaised
  <2> QED
    BY <2>1, <2>2
<1>6. accepted' \subseteq Commits /\ \A c \in accepted' : WellVersioned(c)
  BY <1>1, <1>4 DEF ShapeInvariant
<1> QED
  BY <1>1, <1>2, <1>3, <1>5, <1>6 DEF ShapeInvariant, WellVersioned

LEMMA ShapePeopleInv ==
    ASSUME RepoInv, RepoInv', ShapeInvariant, Grows, ShapePeople
    PROVE  ShapeInvariant'
<1>1. UNCHANGED <<place, schema>>
  BY DEF ShapePeople
<1>2. ASSUME cleared' PROVE work' \in Schemas /\ Raised(SchemaOf(HEAD), work)'
  <2>1. cleared /\ work' = work /\ HEAD' = HEAD
    BY <1>2 DEF ShapePeople, HEAD
  <2>2. HEAD = 0 \/ HEAD \in Commits
    BY DEF HEAD, RepoInv, RepoTypes, Commits
  <2>3. SchemaOf(HEAD)' = SchemaOf(HEAD)
    BY <2>1, <2>2 DEF SchemaOf, Grows
  <2> QED
    BY <2>1, <2>3 DEF ShapeInvariant, Raised
<1>3. ASSUME NEW parents \in Followed, Commit(parents, {}), cleared, parents = {HEAD} \ {0},
             NEW n, n = Len(commits')
      PROVE  n \in Commits' /\ WellVersioned(n)'
  <2>1. n \in Commits' /\ commits'[n].schema = work /\ commits'[n].parents = {HEAD} \ {0}
    BY <1>3 DEF Commit, Commits, RepoInv, RepoTypes
  <2>2. HEAD = 0 \/ HEAD \in Commits
    BY DEF HEAD, RepoInv, RepoTypes, Commits
  <2>3. \A p \in {HEAD} \ {0} : commits'[p].schema = SchemaOf(HEAD)
    BY <2>2 DEF SchemaOf, Grows
  <2>4. \A p \in commits'[n].parents : Raised(commits'[p].schema, commits'[n].schema)
    BY <1>3, <2>1, <2>3 DEF ShapeInvariant
  <2>5. commits'[n].schema \in Schemas
    BY <1>3, <2>1 DEF ShapeInvariant
  <2> QED
    BY <2>1, <2>4, <2>5 DEF WellVersioned, Raised
<1>4. ASSUME NEW n \in accepted', n \notin accepted
      PROVE  /\ n = Len(commits') /\ cleared
             /\ \E parents \in Followed : Commit(parents, {}) /\ parents = {HEAD} \ {0}
  BY <1>4 DEF ShapePeople
<1>5. accepted' \subseteq Commits' /\ \A c \in accepted' : WellVersioned(c)'
  <2> SUFFICES ASSUME NEW c \in accepted' PROVE c \in Commits' /\ WellVersioned(c)'
    OBVIOUS
  <2> QED
    BY <1>3, <1>4, AcceptedStays
<1> QED
  BY <1>1, <1>2, <1>5 DEF ShapeInvariant

\* The gate's other steps, and those of other gates.
LEMMA ShapeGateInv ==
    ASSUME RepoInv, ShapeInvariant, UNCHANGED repo, ReadSchema \/ ReadCommitted \/ ShapeFail \/ UNCHANGED shape
    PROVE  ShapeInvariant'
<1>1. /\ UNCHANGED <<commits, refs, branch, work, accepted, cleared>>
      /\ Commits' = Commits /\ SchemaOf(HEAD)' = SchemaOf(HEAD)
  BY DEF ReadSchema, ReadCommitted, ShapeFail, ShapeEnds, shape, repo, Commits, HEAD, SchemaOf
<1>2. place' \in {"idle", "file", "committed"} /\ (place' # "idle" => schema' \in Schemas)
  BY DEF ReadSchema, ReadCommitted, ShapeFail, ShapeEnds, shape, ShapeInvariant, RepoInv, RepoTypes
<1> QED
  BY <1>1, <1>2 DEF ShapeInvariant, WellVersioned, Raised

OnlyShapes == gate # "shape" => ~cleared

LEMMA ShapeInvariantHolds == Spec => [](ShapeInvariant /\ OnlyShapes)
<1>1. Init => ShapeInvariant /\ OnlyShapes
  BY ShapeInitInv DEF Init, ShapeInit, OnlyShapes
<1>2. RepoInv /\ RepoInv' /\ ShapeInvariant /\ OnlyShapes /\ [Next]_vars => (ShapeInvariant /\ OnlyShapes)'
  <2> SUFFICES ASSUME RepoInv, RepoInv', ShapeInvariant, OnlyShapes, [Next]_vars
               PROVE  (ShapeInvariant /\ OnlyShapes)'
    OBVIOUS
  <2>1. UNCHANGED gate
    BY DEF Next, vars
  <2>2. CASE gate = "shape" /\ ShapeNext
    <3>1. ShapePeople => RepoStep
      <4>1. {} \in SUBSET Parts
        OBVIOUS
      <4> QED
        BY <4>1 DEF ShapePeople, RepoStep, RepoInv, RepoTypes, Branches
    <3>2. ReadSchema \/ ReadCommitted \/ ShapeFail => UNCHANGED repo
      BY DEF ReadSchema, ReadCommitted, ShapeFail, ShapeEnds
    <3> QED
      BY <2>1, <2>2, <3>1, <3>2, RepoStepInv, ShapePassInv, ShapePeopleInv, ShapeGateInv
      DEF ShapeNext, OnlyShapes
  <2>3. CASE UNCHANGED shape /\ (gate = "shape" => UNCHANGED repo)
    <3>1. CASE UNCHANGED repo
      BY <2>1, <2>3, <3>1, ShapeGateInv DEF OnlyShapes, shape
    <3>2. CASE ~UNCHANGED repo
      <4>1. Grows
        BY <3>2, RepoNext, RepoStepInv DEF vars
      <4>2. accepted' = accepted /\ ~cleared' /\ UNCHANGED <<place, schema>>
        BY <2>3, <3>2 DEF OnlyShapes, shape
      <4> QED
        BY <2>1, <4>1, <4>2, AcceptedStays DEF ShapeInvariant, OnlyShapes
    <3> QED
      BY <3>1, <3>2
  <2> QED
    BY <2>2, <2>3 DEF Next, vars
<1> QED
  BY <1>1, <1>2, RepoInvariant, PTL DEF Spec

\* A least one, of any of the natural numbers.
LEMMA LeastOne ==
    ASSUME NEW T \in SUBSET Nat, T # {}
    PROVE  \E x \in T : \A y \in T : x <= y
<1>1. PICK x \in T : \A y \in T : <<y, x>> \notin OpToRel(<, Nat)
  BY WFMin, NatLessThanWellFounded
<1>2. \A y \in T : ~(y < x)
  BY <1>1 DEF OpToRel
<1> QED
  BY <1>2

\* From one commit to another that has only passed ones in between, the version has grown.
LEMMA VersionsGrow == ASSUME RepoInv, ShapeInvariant PROVE VersionsNameShapes
<1> DEFINE Between(a, c) == \A d \in commits[c].past \ {a} : a \in commits[d].past => d \in accepted
           Wrong(a, c) == /\ a \in commits[c].past /\ Between(a, c)
                          /\ SchemaOf(a) \notin {Absent, SchemaOf(c)}
                          /\ ~(SchemaOf(c).version > SchemaOf(a).version)
<1>1. Len(commits) \in Nat /\ Commits = 1..Len(commits) /\ accepted \subseteq Commits
  BY DEF RepoInv, RepoTypes, Commits, ShapeInvariant
<1>2. \A c \in Commits : SchemaOf(c) = commits[c].schema
  BY <1>1 DEF SchemaOf
<1>3. ASSUME NEW a, NEW b \in accepted, Wrong(a, b) PROVE FALSE
  <2> DEFINE T == {c \in accepted : Wrong(a, c)}
  <2>1. T \subseteq Nat /\ T # {}
    <3>1. \A c \in accepted : c \in Nat
      BY <1>1
    <3>2. b \in T
      BY <1>3
    <3> HIDE DEF Wrong
    <3> QED
      BY <3>1, <3>2
  <2>2. PICK c \in T : \A d \in T : c <= d
    BY <2>1, LeastOne
  <2>3. c \in accepted /\ c \in Commits /\ Wrong(a, c)
    BY <1>1, <2>2
  <2>4. a # c
    BY <2>3
  <2>5. PICK p \in commits[c].parents : a \in commits[p].past
    BY <2>3, <2>4 DEF RepoInv, Ancestry
  <2>6. p \in Commits /\ p < c
    <3>1. p \in 1..(c - 1)
      BY <2>3, <2>5 DEF RepoInv, Ancestry
    <3> QED
      BY <1>1, <2>3, <3>1
  <2>7. a \in Commits
    <3>1. a \in 1..p
      BY <2>5, <2>6 DEF RepoInv, Ancestry
    <3> QED
      BY <1>1, <2>6, <3>1
  <2>8. /\ commits[c].schema \in Schemas /\ Raised(commits[p].schema, commits[c].schema)
        /\ commits[a].schema \in Schemas
    BY <1>2, <2>3, <2>5, <2>7, SchemasAreTyped DEF ShapeInvariant, WellVersioned
  <2>9. CASE commits[p].schema = commits[a].schema
    BY <1>2, <2>3, <2>7, <2>8, <2>9 DEF Raised
  <2>10. CASE commits[p].schema # commits[a].schema
    <3>1. p # a /\ p \in commits[p].past /\ p \in commits[c].past /\ commits[p].past \subseteq commits[c].past
      <4>1. p \in commits[c].past
        BY <2>3, <2>5 DEF RepoInv, Ancestry
      <4> QED
        BY <2>3, <2>6, <2>10, <4>1 DEF RepoInv, Ancestry
    <3>2. p \in accepted /\ Between(a, p)
      BY <2>3, <2>5, <3>1
    <3>3. p \notin T
      BY <1>1, <2>2, <2>3, <2>6
    <3>4. commits[p].schema \in Schemas /\ commits[p].schema.version > commits[a].schema.version
      BY <1>2, <2>3, <2>5, <2>6, <2>7, <2>10, <3>2, <3>3 DEF ShapeInvariant, WellVersioned
    <3>5. /\ commits[p].schema # Absent /\ commits[p].schema.version \in Nat
          /\ commits[c].schema.version \in Nat /\ commits[a].schema.version \in Nat
      BY <2>8, <3>4, GitAssumption
    <3>6. commits[c].schema.version > commits[a].schema.version
      BY <2>8, <3>4, <3>5 DEF Raised
    <3> QED
      BY <1>2, <2>3, <2>7, <3>6
  <2> QED
    BY <2>9, <2>10
<1>4. ASSUME NEW c \in accepted, NEW a \in commits[c].past, Between(a, c),
             SchemaOf(a) \notin {Absent, SchemaOf(c)}
      PROVE  SchemaOf(c).version > SchemaOf(a).version
  BY <1>3, <1>4
<1> QED
  BY <1>4 DEF VersionsNameShapes

\* A version names one shape along every line of commits that passed, for any number of
\* commits and branches and any merges.
THEOREM VersionsReallyNameShapes == Spec => []VersionsNameShapes
<1>1. RepoInv /\ ShapeInvariant => VersionsNameShapes
  BY VersionsGrow
<1> QED
  BY <1>1, RepoInvariant, ShapeInvariantHolds, PTL

-----------------------------------------------------------------------------
(* The preflight. *)

Statuses == {"PASS", "FAIL", "NO_GATE"}
Checks ==
    {"shape_version", "silent_handlers", "convention_sync", "runtime", "selftests",
     "visual", "self_review"}
AtRest == {"idle", "done"}
Commanding == {"runtime", "selftests", "visual"}

\* Types; that nobody reviews what is still to be written, as no version comes back but
\* the reviewed one; and what waits for a command.
PreflightTypes ==
    /\ config \in Configs
    /\ tree \in [Files \cup Artifacts -> Nat] /\ writes \in Nat
    /\ \A x \in Files \cup Artifacts : tree[x] <= writes
    /\ receipt \in [Bound -> Nat] /\ \A f \in Bound : receipt[f] <= tree[f]
    /\ at \in Checks \cup AtRest /\ todo \subseteq Work(at)
    /\ running \in BOOLEAN
    /\ running => at = "visual" \/ (at \in {"runtime", "selftests"} /\ todo # {})
    /\ status \in Statuses /\ reads \in 0..MaxReads
    /\ before \in [Artifacts -> Nat]
    /\ looked \subseteq (Checks \X Files \X Nat) /\ made \subseteq Artifacts

-----------------------------------------------------------------------------
(* Lemmas about the operators *)

\* A check that concludes hands over to the next one.
LEMMA Concluded ==
    ASSUME NEW s \in Statuses, status \in Statuses, Conclude(s)
    PROVE  /\ status' \in Statuses
           /\ status' = "PASS" => s = "PASS" /\ status = "PASS"
           /\ at \in Checks /\ at' \in Checks \cup {"done"} /\ todo' = Work(at')
           /\ at = "shape_version" => at' = "silent_handlers"
           /\ at = "silent_handlers" => at' = "convention_sync"
           /\ at = "convention_sync" => at' = "runtime"
           /\ at = "runtime" => at' = "selftests"
           /\ at = "selftests" => at' = "visual"
           /\ at = "visual" => at' = "self_review"
           /\ at = "self_review" => at' = "done"
<1>1. status' \in Statuses /\ (status' = "PASS" => s = "PASS" /\ status = "PASS")
  BY DEF Conclude, Worst, Statuses
<1>2. PICK i \in 1..7 : Layers[i] = at /\ at' = Layers[i + 1] /\ todo' = Work(Layers[i + 1])
  BY DEF Conclude, Begin
<1>3. i = 1 \/ i = 2 \/ i = 3 \/ i = 4 \/ i = 5 \/ i = 6 \/ i = 7
  BY <1>2
<1>4. /\ Layers[1] = "shape_version" /\ Layers[2] = "silent_handlers"
      /\ Layers[3] = "convention_sync" /\ Layers[4] = "runtime" /\ Layers[5] = "selftests"
      /\ Layers[6] = "visual" /\ Layers[7] = "self_review" /\ Layers[8] = "done"
  BY DEF Layers
<1>5. CASE i = 1
  BY <1>1, <1>2, <1>4, <1>5 DEF Checks
<1>6. CASE i = 2
  BY <1>1, <1>2, <1>4, <1>6 DEF Checks
<1>7. CASE i = 3
  BY <1>1, <1>2, <1>4, <1>7 DEF Checks
<1>8. CASE i = 4
  BY <1>1, <1>2, <1>4, <1>8 DEF Checks
<1>9. CASE i = 5
  BY <1>1, <1>2, <1>4, <1>9 DEF Checks
<1>10. CASE i = 6
  BY <1>1, <1>2, <1>4, <1>10 DEF Checks
<1>11. CASE i = 7
  BY <1>1, <1>2, <1>4, <1>11 DEF Checks
<1> QED
  BY <1>3, <1>5, <1>6, <1>7, <1>8, <1>9, <1>10, <1>11

LEMMA WorkIs ==
    /\ Work("silent_handlers") = Scanned /\ Work("convention_sync") = Ruled
    /\ Work("self_review") = Bound
    /\ Work("idle") = {} /\ Work("done") = {} /\ Work("shape_version") = {} /\ Work("visual") = {}
BY DEF Work

-----------------------------------------------------------------------------
(* Types *)

LEMMA PreflightInitTypes == PreflightInit => PreflightTypes
<1> SUFFICES ASSUME PreflightInit PROVE PreflightTypes
  OBVIOUS
<1> USE DEF PreflightInit
<1>1. tree \in [Files \cup Artifacts -> Nat] /\ receipt \in [Bound -> Nat] /\ before \in [Artifacts -> Nat]
  OBVIOUS
<1>2. \A x \in Files \cup Artifacts : tree[x] <= writes
  OBVIOUS
<1>3. \A f \in Bound : receipt[f] <= tree[f]
  BY PreflightAssumption
<1>4. reads \in 0..MaxReads
  BY PreflightAssumption
<1> QED
  BY <1>1, <1>2, <1>3, <1>4 DEF PreflightTypes, Checks, AtRest, Commanding, Statuses

LEMMA WriteTypes ==
    ASSUME PreflightTypes, NEW x \in Files \cup Artifacts, Write(x)
    PROVE  /\ tree' \in [Files \cup Artifacts -> Nat] /\ writes' \in Nat
           /\ \A y \in Files \cup Artifacts : tree'[y] <= writes' /\ tree[y] <= tree'[y]
           /\ \A f \in Bound : receipt[f] <= tree'[f]
<1> USE DEF PreflightTypes, Write
<1>1. \A y \in Files \cup Artifacts : tree'[y] \in Nat /\ tree'[y] <= writes' /\ tree[y] <= tree'[y]
  OBVIOUS
<1>2. \A f \in Bound : f \in Files
  BY PreflightAssumption
<1> QED
  BY <1>1, <1>2

LEMMA PreflightNextTypes ==
    ASSUME PreflightTypes, [PreflightNext]_preflightVars
    PROVE  PreflightTypes'
<1> USE DEF PreflightTypes
<1>1. CASE Start
  <2>1. at' \in Checks \cup AtRest /\ todo' = Work(at') /\ status' \in Statuses
    BY <1>1 DEF Start, Begin, Layers, Checks, AtRest, Statuses
  <2>2. ~running
    BY <1>1 DEF Start, Commanding
  <2> QED
    BY <1>1, <2>1, <2>2, PreflightAssumption DEF Start, target
<1>2. CASE CheckFails
  <2>1. status' \in Statuses /\ at' \in Checks \cup AtRest /\ todo' = Work(at')
    BY <1>2, Concluded DEF CheckFails, Statuses, AtRest
  <2> QED
    BY <1>2, <2>1 DEF CheckFails, target, history
<1>3. CASE ShapeChecked
  <2>1. status' \in Statuses /\ at' \in Checks \cup AtRest /\ todo' = Work(at')
    BY <1>3, Concluded DEF ShapeChecked, Statuses, AtRest
  <2>2. reads' \in 0..MaxReads
    BY <1>3, PreflightAssumption DEF ShapeChecked
  <2>3. ~running
    BY <1>3 DEF ShapeChecked, Commanding
  <2> QED
    BY <1>3, <2>1, <2>2, <2>3 DEF ShapeChecked, target, history
<1>4. CASE ReadFile
  <2>1. PICK f \in todo : todo' = todo \ {f} /\ looked' = looked \cup {<<at, f, tree[f]>>}
    BY <1>4 DEF ReadFile
  <2>2. f \in Files /\ at \in Checks
    BY <1>4, <2>1, WorkIs, PreflightAssumption DEF ReadFile, Scanning, Checks
  <2>3. reads' \in 0..MaxReads
    BY <1>4, PreflightAssumption DEF ReadFile
  <2>4. ~running
    BY <1>4 DEF ReadFile, Scanning
  <2> QED
    BY <1>4, <2>1, <2>2, <2>3, <2>4 DEF ReadFile, target
<1>5. CASE ReadRefused
  BY <1>5 DEF ReadRefused, target, history, Statuses, Scanning
<1>6. CASE ScanPasses
  <2>1. status' \in Statuses /\ at' \in Checks \cup AtRest /\ todo' = Work(at')
    BY <1>6, Concluded DEF ScanPasses, Statuses, AtRest
  <2>2. ~running
    BY <1>6 DEF ScanPasses, Commanding, Scanning
  <2> QED
    BY <1>6, <2>1, <2>2 DEF ScanPasses, target, history
<1>7. CASE ReceiptCompared
  <2>1. status' \in Statuses /\ at' \in Checks \cup AtRest /\ todo' = Work(at')
    BY <1>7, Concluded DEF ReceiptCompared, Statuses, AtRest
  <2>2. reads' \in 0..MaxReads
    BY <1>7, PreflightAssumption DEF ReceiptCompared
  <2>3. ~running
    BY <1>7 DEF ReceiptCompared, Commanding
  <2> QED
    BY <1>7, <2>1, <2>2, <2>3 DEF ReceiptCompared, target, history
<1>8. CASE RunCommand
  <2>1. {<<at, f, tree[f]>> : f \in Bound} \subseteq Checks \X Files \X Nat
    BY <1>8, PreflightAssumption DEF RunCommand, Checks
  <2> QED
    BY <1>8, <2>1 DEF RunCommand, target, Commanding
<1>9. CASE CommandsPass
  <2>1. status' \in Statuses /\ at' \in Checks \cup AtRest /\ todo' = Work(at')
    BY <1>9, Concluded DEF CommandsPass, Statuses, AtRest
  <2>2. running => at' \in Commanding
    BY <1>9, Concluded DEF CommandsPass, Statuses, Commanding
  <2> QED
    BY <1>9, <2>1, <2>2 DEF CommandsPass, target, history
<1>10. CASE RunVisual
  BY <1>10 DEF RunVisual, target, history, Commanding
<1>11. CASE NoVisual
  <2>1. status' \in Statuses /\ at' \in Checks \cup AtRest /\ todo' = Work(at')
    BY <1>11, Concluded DEF NoVisual, Statuses, AtRest
  <2> QED
    BY <1>11, <2>1 DEF NoVisual, target, history
<1>12. CASE CommandSucceeds
  <2>1. status' \in Statuses /\ at' \in Checks \cup AtRest /\ todo' \subseteq Work(at')
    <3>1. CASE at = "visual"
      BY <1>12, <3>1, Concluded DEF CommandSucceeds, Statuses, AtRest
    <3>2. CASE at # "visual"
      BY <1>12, <3>2 DEF CommandSucceeds
    <3> QED
      BY <3>1, <3>2
  <2> QED
    BY <1>12, <2>1 DEF CommandSucceeds, target, history
<1>13. CASE CommandFails
  <2>1. status' \in Statuses /\ at' \in Checks \cup AtRest /\ todo' \subseteq Work(at')
    <3>1. CASE at = "visual"
      BY <1>13, <3>1, Concluded DEF CommandFails, Statuses, AtRest
    <3>2. CASE at # "visual"
      BY <1>13, <3>2 DEF CommandFails, Statuses
    <3> QED
      BY <3>1, <3>2
  <2> QED
    BY <1>13, <2>1 DEF CommandFails, target, history
<1>14. CASE CommandWrites
  BY <1>14, WriteTypes DEF CommandWrites, Write, check
<1>15. CASE Edit
  BY <1>15, WriteTypes DEF Edit, Write, check
<1>16. CASE Restore
  <2>1. PICK f \in Bound : tree' = [tree EXCEPT ![f] = receipt[f]]
    BY <1>16 DEF Restore
  <2>2. f \in Files
    BY PreflightAssumption
  <2>3. tree' \in [Files \cup Artifacts -> Nat]
    BY <2>1
  <2>4. \A x \in Files \cup Artifacts : tree'[x] <= writes
    BY <2>1, <2>2
  <2>5. \A g \in Bound : receipt[g] <= tree'[g]
    BY <2>1, <2>2, PreflightAssumption
  <2> QED
    BY <1>16, <2>3, <2>4, <2>5 DEF Restore, check
<1>17. CASE Review
  <2>1. receipt' = [f \in Bound |-> tree[f]] /\ tree' = tree
    BY <1>17 DEF Review
  <2>2. \A f \in Bound : f \in Files
    BY PreflightAssumption
  <2>3. receipt' \in [Bound -> Nat] /\ \A f \in Bound : receipt'[f] <= tree'[f]
    BY <2>1, <2>2
  <2> QED
    BY <1>17, <2>3 DEF Review, check
<1>18. CASE UNCHANGED preflightVars
  BY <1>18 DEF preflightVars, target, check, history
<1> QED
  BY <1>1, <1>2, <1>3, <1>4, <1>5, <1>6, <1>7, <1>8, <1>9, <1>10, <1>11, <1>12, <1>13,
     <1>14, <1>15, <1>16, <1>17, <1>18 DEF PreflightNext

-----------------------------------------------------------------------------
(* A PASS is complete *)

\* What has been read when a check begins, unless an earlier one has failed.
SoFar(check_at) ==
    CASE check_at = "silent_handlers" -> 2 * config.pairs
      [] check_at = "convention_sync" -> 2 * config.pairs + Cardinality(Scanned)
      [] check_at \in {"runtime", "selftests", "visual", "self_review"} ->
            2 * config.pairs + Cardinality(Scanned) + Cardinality(Ruled)
      [] check_at = "done" ->
            2 * config.pairs + Cardinality(Scanned) + Cardinality(Ruled) + Cardinality(Bound) + 1
      [] OTHER -> 0

Later(check_at) ==
    CASE check_at = "silent_handlers" -> {"convention_sync", "runtime", "selftests", "visual", "self_review", "done"}
      [] check_at = "convention_sync" -> {"runtime", "selftests", "visual", "self_review", "done"}
      [] check_at = "self_review" -> {"done"}

LookedAt(layer, f) == \E l \in looked : l[1] = layer /\ l[2] = f

\* While nothing has failed, the budget has been charged for all that has been read, and
\* every check has read all but what it has still to read.
Complete ==
    status = "PASS" =>
        /\ at \in Scanning => reads + Cardinality(todo) = SoFar(at) + Cardinality(Work(at))
        /\ at \in Checks \ (Scanning \cup {"shape_version"}) => reads = SoFar(at)
        /\ at = "done" => SoFar(at) <= MaxReads
        /\ \A layer \in Scanning : \A f \in Work(layer) :
              at \in Later(layer) \/ (at = layer /\ f \notin todo) => LookedAt(layer, f)

LEMMA SoFarIs ==
    /\ SoFar("silent_handlers") = 2 * config.pairs
    /\ SoFar("convention_sync") = 2 * config.pairs + Cardinality(Scanned)
    /\ \A l \in {"runtime", "selftests", "visual", "self_review"} :
          SoFar(l) = 2 * config.pairs + Cardinality(Scanned) + Cardinality(Ruled)
    /\ SoFar("done") = 2 * config.pairs + Cardinality(Scanned) + Cardinality(Ruled) + Cardinality(Bound) + 1
BY DEF SoFar

LEMMA LaterIs ==
    /\ Later("silent_handlers") = {"convention_sync", "runtime", "selftests", "visual", "self_review", "done"}
    /\ Later("convention_sync") = {"runtime", "selftests", "visual", "self_review", "done"}
    /\ Later("self_review") = {"done"}
BY DEF Later

LEMMA FilesAreFinite ==
    /\ IsFiniteSet(Scanned) /\ IsFiniteSet(Ruled) /\ IsFiniteSet(Bound)
    /\ Cardinality(Scanned) \in Nat /\ Cardinality(Ruled) \in Nat /\ Cardinality(Bound) \in Nat
<1>1. IsFiniteSet(Scanned) /\ IsFiniteSet(Ruled) /\ IsFiniteSet(Bound)
  BY PreflightAssumption, FS_Subset
<1> QED
  BY <1>1, FS_CardinalityType

\* Configurations have a number of pairs.
LEMMA PairsAreNat == ASSUME PreflightTypes PROVE config.pairs \in Nat
BY PreflightAssumption DEF PreflightTypes

\* What has been looked at stays so.
LEMMA LookedAtStays ==
    ASSUME looked \subseteq looked', NEW layer, NEW f, LookedAt(layer, f)
    PROVE  LookedAt(layer, f)'
BY DEF LookedAt

\* One file less to read.
LEMMA OneLess ==
    ASSUME PreflightTypes, at \in Scanning, NEW f \in todo
    PROVE  /\ Cardinality(todo) \in Nat /\ Cardinality(todo \ {f}) \in Nat
           /\ Cardinality(todo \ {f}) = Cardinality(todo) - 1
<1>1. todo \subseteq Scanned \/ todo \subseteq Ruled \/ todo \subseteq Bound
  BY WorkIs DEF PreflightTypes, Scanning
<1>2. IsFiniteSet(todo)
  BY <1>1, FilesAreFinite, FS_Subset
<1> QED
  BY <1>2, FS_RemoveElement, FS_CardinalityType

LEMMA CompleteInit == PreflightInit => Complete
<1> SUFFICES ASSUME PreflightInit PROVE Complete
  OBVIOUS
<1>1. at = "idle"
  BY DEF PreflightInit
<1> QED
  BY <1>1, LaterIs DEF Complete, Scanning, Checks

\* The other variables do not matter to it.
LEMMA CompleteUnchanged ==
    ASSUME Complete, UNCHANGED <<config, at, todo, status, reads>>, looked \subseteq looked'
    PROVE  Complete'
<1> USE DEF Complete
<1>1. SUFFICES ASSUME status = "PASS" PROVE Complete'
  BY DEF Complete
<1>2. SoFar(at)' = SoFar(at) /\ Work(at)' = Work(at)
  BY DEF SoFar, Work
<1>3. \A layer \in Scanning : Work(layer)' = Work(layer) /\ Later(layer)' = Later(layer)
  BY DEF Work, Later
<1>4. ASSUME NEW layer \in Scanning, NEW f \in Work(layer),
             at \in Later(layer) \/ (at = layer /\ f \notin todo)
      PROVE  LookedAt(layer, f)'
  BY <1>1, <1>4, LookedAtStays
<1> QED
  BY <1>1, <1>2, <1>3, <1>4

\* A check that concludes with what is due for the next one.
LEMMA CompleteConclude ==
    ASSUME PreflightTypes, Complete, status' = "PASS",
           NEW s \in Statuses, Conclude(s), config' = config, looked' = looked, reads' = reads,
           at \in {"silent_handlers", "convention_sync", "runtime", "selftests", "visual"},
           at \in Scanning => todo = {}
    PROVE  Complete'
<1>p. config.pairs \in Nat
  BY PairsAreNat
<1>f. /\ Cardinality({}) = 0
      /\ Cardinality(Scanned) \in Nat /\ Cardinality(Ruled) \in Nat /\ Cardinality(Bound) \in Nat
  BY FilesAreFinite, FS_EmptySet
<1>r. reads \in Nat /\ status \in Statuses
  BY PreflightAssumption DEF PreflightTypes
<1>1. status = "PASS" /\ todo' = Work(at')
  BY <1>r, Concluded
<1>2. CASE at = "silent_handlers"
  <2>1. at' = "convention_sync"
    BY <1>r, <1>2, Concluded
  <2>2. reads = 2 * config.pairs + Cardinality(Scanned)
    <3>1. reads + Cardinality(todo) = SoFar(at) + Cardinality(Work(at)) /\ todo = {}
      BY <1>1, <1>2 DEF Complete, Scanning
    <3>2. SoFar(at) = 2 * config.pairs /\ Work(at) = Scanned
      BY <1>2, SoFarIs, WorkIs
    <3> QED
      BY <1>f, <1>p, <1>r, <3>1, <3>2
  <2>3. ASSUME NEW f \in Scanned PROVE LookedAt("silent_handlers", f)'
    BY <1>1, <1>2, <2>3, WorkIs DEF Complete, Scanning, LookedAt
  <2>4. SoFar(at)' = 2 * config.pairs + Cardinality(Scanned)
    BY <2>1 DEF SoFar
  <2>5. \A layer \in Scanning : \A f \in Work(layer) :
           at' \in Later(layer) \/ (at' = layer /\ f \notin todo') => LookedAt(layer, f)'
    BY <1>1, <2>1, <2>3, WorkIs, LaterIs DEF Scanning
  <2>6. (\A layer \in Scanning : \A f \in Work(layer) :
           at \in Later(layer) \/ (at = layer /\ f \notin todo) => LookedAt(layer, f))'
    BY <2>5 DEF Work, Later
  <2> QED
    BY <1>f, <1>p, <1>r, <1>1, <2>1, <2>2, <2>4, <2>6, WorkIs DEF Complete, Scanning, Checks
<1>3. CASE at \in {"convention_sync", "runtime", "selftests"}
  <2>1. at' \in {"runtime", "selftests", "visual"}
    BY <1>r, <1>3, Concluded
  <2>2. reads = 2 * config.pairs + Cardinality(Scanned) + Cardinality(Ruled)
    <3>1. CASE at = "convention_sync"
      <4>1. reads + Cardinality(todo) = SoFar(at) + Cardinality(Work(at)) /\ todo = {}
        BY <1>1, <3>1 DEF Complete, Scanning
      <4>2. SoFar(at) = 2 * config.pairs + Cardinality(Scanned) /\ Work(at) = Ruled
        BY <3>1, SoFarIs, WorkIs
      <4> QED
        BY <1>f, <1>p, <1>r, <4>1, <4>2
    <3>2. CASE at \in {"runtime", "selftests"}
      BY <1>1, <3>2, SoFarIs DEF Complete, Scanning, Checks
    <3> QED
      BY <1>3, <3>1, <3>2
  <2>3. \A layer \in {"silent_handlers", "convention_sync"} : \A f \in Work(layer) : LookedAt(layer, f)'
    BY <1>1, <1>3, LaterIs DEF Complete, Scanning, LookedAt
  <2>4. SoFar(at)' = 2 * config.pairs + Cardinality(Scanned) + Cardinality(Ruled)
    BY <2>1 DEF SoFar
  <2>5. \A layer \in Scanning : \A f \in Work(layer) :
           at' \in Later(layer) \/ (at' = layer /\ f \notin todo') => LookedAt(layer, f)'
    BY <2>1, <2>3, LaterIs DEF Scanning
  <2>6. (\A layer \in Scanning : \A f \in Work(layer) :
           at \in Later(layer) \/ (at = layer /\ f \notin todo) => LookedAt(layer, f))'
    BY <2>5 DEF Work, Later
  <2> QED
    BY <2>1, <2>2, <2>4, <2>6 DEF Complete, Scanning, Checks
<1>4. CASE at = "visual"
  <2>1. at' = "self_review"
    BY <1>r, <1>4, Concluded
  <2>2. reads = 2 * config.pairs + Cardinality(Scanned) + Cardinality(Ruled)
    BY <1>f, <1>p, <1>r, <1>1, <1>4, SoFarIs, WorkIs DEF Complete, Scanning, Checks
  <2>3. \A layer \in {"silent_handlers", "convention_sync"} : \A f \in Work(layer) : LookedAt(layer, f)'
    BY <1>1, <1>4, LaterIs DEF Complete, Scanning, LookedAt
  <2>4. SoFar(at)' = 2 * config.pairs + Cardinality(Scanned) + Cardinality(Ruled)
    BY <2>1 DEF SoFar
  <2>5. \A layer \in Scanning : \A f \in Work(layer) :
           at' \in Later(layer) \/ (at' = layer /\ f \notin todo') => LookedAt(layer, f)'
    BY <1>1, <2>1, <2>3, LaterIs, WorkIs DEF Scanning
  <2>6. (\A layer \in Scanning : \A f \in Work(layer) :
           at \in Later(layer) \/ (at = layer /\ f \notin todo) => LookedAt(layer, f))'
    BY <2>5 DEF Work, Later
  <2> QED
    BY <1>f, <1>p, <1>r, <1>1, <2>1, <2>2, <2>4, <2>6, WorkIs DEF Complete, Scanning, Checks
<1> QED
  BY <1>2, <1>3, <1>4 DEF Scanning

LEMMA CompleteNext ==
    ASSUME PreflightTypes, Complete, [PreflightNext]_preflightVars
    PROVE  Complete'
<1> SUFFICES ASSUME status' = "PASS" PROVE Complete'
  BY DEF Complete
<1>p. config.pairs \in Nat
  BY PairsAreNat
<1>f. /\ Cardinality({}) = 0
      /\ Cardinality(Scanned) \in Nat /\ Cardinality(Ruled) \in Nat /\ Cardinality(Bound) \in Nat
  BY FilesAreFinite, FS_EmptySet
<1>r. reads \in Nat /\ status \in Statuses /\ MaxReads \in Nat
  BY PreflightAssumption DEF PreflightTypes
<1>1. CASE Start
  <2>1. at' = "shape_version" \/ (at' = "done" /\ status' = "NO_GATE")
    BY <1>1 DEF Start, Begin, Layers
  <2>2. at' = "shape_version"
    BY <2>1
  <2> QED
    BY <2>2, LaterIs DEF Complete, Scanning, Checks, Later
<1>2. CASE CheckFails
  BY <1>2, <1>r, Concluded DEF CheckFails, Statuses
<1>3. CASE ShapeChecked
  <2>1. PICK s \in Statuses : s = (IF 2 * config.pairs > MaxReads THEN "FAIL" ELSE "PASS") /\ Conclude(s)
    BY <1>3 DEF ShapeChecked, Statuses
  <2>2. at' = "silent_handlers" /\ todo' = Work(at') /\ s = "PASS" /\ config' = config
    BY <1>3, <1>r, <2>1, Concluded DEF ShapeChecked, target
  <2>3. reads' = 2 * config.pairs
    BY <1>3, <2>1, <2>2 DEF ShapeChecked
  <2>4. SoFar(at)' = 2 * config.pairs
    BY <2>2 DEF SoFar
  <2>5. (\A layer \in Scanning : \A f \in Work(layer) :
             at \in Later(layer) \/ (at = layer /\ f \notin todo) => LookedAt(layer, f))'
    BY <2>2, LaterIs DEF Work, Later, Scanning
  <2>6. Work(at)' = todo'
    BY <2>2 DEF Work
  <2> QED
    BY <1>f, <1>p, <2>2, <2>3, <2>4, <2>5, <2>6, WorkIs DEF Complete, Scanning, Checks
<1>4. CASE ReadFile
  <2>1. PICK f \in todo : todo' = todo \ {f} /\ looked' = looked \cup {<<at, f, tree[f]>>}
    BY <1>4 DEF ReadFile
  <2>2. UNCHANGED <<config, at, status>> /\ at \in Scanning /\ reads' = reads + 1
    BY <1>4 DEF ReadFile, target
  <2>3. Cardinality(todo) \in Nat /\ Cardinality(todo') \in Nat /\ Cardinality(todo') = Cardinality(todo) - 1
    BY <2>1, <2>2, OneLess
  <2>4. reads' + Cardinality(todo') = reads + Cardinality(todo)
    BY <1>r, <2>2, <2>3
  <2>5. SoFar(at)' = SoFar(at) /\ Work(at)' = Work(at)
    BY <2>2 DEF SoFar, Work
  <2>6. \E l \in looked' : l[1] = at /\ l[2] = f
    <3>1. <<at, f, tree[f]>> \in looked'
      BY <2>1
    <3> QED
      BY <3>1
  <2>7. ASSUME NEW layer \in Scanning, NEW g \in Work(layer),
               at \in Later(layer) \/ (at = layer /\ g \notin todo \ {f})
        PROVE  LookedAt(layer, g)'
    <3>1. CASE at = layer /\ g = f
      BY <2>2, <2>6, <3>1 DEF LookedAt
    <3>2. CASE ~(at = layer /\ g = f)
      BY <2>1, <2>2, <2>7, <3>2, LookedAtStays DEF Complete
    <3> QED
      BY <3>1, <3>2
  <2>8. (\A layer \in Scanning : \A g \in Work(layer) :
             at \in Later(layer) \/ (at = layer /\ g \notin todo) => LookedAt(layer, g))'
    BY <2>1, <2>2, <2>7 DEF Work, Later
  <2> QED
    BY <2>2, <2>4, <2>5, <2>8 DEF Complete, Scanning, Checks
<1>5. CASE ReadRefused
  BY <1>5 DEF ReadRefused
<1>6. CASE ScanPasses
  BY <1>6, CompleteConclude DEF ScanPasses, target, history, Statuses, Scanning
<1>7. CASE ReceiptCompared
  <2>1. PICK s \in Statuses : s = (IF reads < MaxReads /\ Reviewed THEN "PASS" ELSE "FAIL") /\ Conclude(s)
    BY <1>7 DEF ReceiptCompared, Statuses
  <2>2. /\ at = "self_review" /\ at' = "done" /\ status = "PASS" /\ s = "PASS" /\ todo = {}
        /\ config' = config /\ looked' = looked
    BY <1>7, <1>r, <2>1, Concluded DEF ReceiptCompared, target, history
  <2>3. reads < MaxReads
    BY <2>1, <2>2
  <2>4. reads = 2 * config.pairs + Cardinality(Scanned) + Cardinality(Ruled) + Cardinality(Bound)
    BY <1>f, <1>p, <1>r, <2>2, SoFarIs, WorkIs DEF Complete, Scanning
  <2>5. SoFar(at)' = reads + 1
    BY <2>2, <2>4 DEF SoFar
  <2>6. \A layer \in Scanning : \A f \in Work(layer) : LookedAt(layer, f)
    BY <2>2, LaterIs, WorkIs DEF Complete, Scanning
  <2>7. (\A layer \in Scanning : \A f \in Work(layer) : LookedAt(layer, f))'
    BY <2>2, <2>6 DEF LookedAt, Work
  <2> QED
    BY <1>r, <2>2, <2>3, <2>5, <2>7 DEF Complete, Scanning, Checks
<1>8. CASE RunCommand
  BY <1>8, CompleteUnchanged DEF RunCommand, target
<1>9. CASE CommandsPass
  BY <1>9, CompleteConclude DEF CommandsPass, target, history, Statuses, Scanning
<1>10. CASE RunVisual
  BY <1>10, CompleteUnchanged DEF RunVisual, target, history
<1>11. CASE NoVisual
  BY <1>11, CompleteConclude DEF NoVisual, target, history, Statuses, Scanning
<1>12. CASE CommandSucceeds
  <2>1. CASE at = "visual"
    <3>1. PICK s \in Statuses : Conclude(s)
      BY <1>12, <2>1 DEF CommandSucceeds, Statuses
    <3> QED
      BY <1>12, <2>1, <3>1, CompleteConclude DEF CommandSucceeds, target, history, Scanning
  <2>2. CASE at # "visual"
    <3>1. /\ UNCHANGED <<config, at, status, reads, looked>> /\ todo' \subseteq todo
          /\ at \in {"runtime", "selftests"}
      BY <1>12, <2>2 DEF CommandSucceeds, target, history, PreflightTypes, Commanding
    <3>2. SoFar(at)' = SoFar(at)
      BY <3>1 DEF SoFar
    <3>3. (\A layer \in Scanning : \A f \in Work(layer) :
             at \in Later(layer) \/ (at = layer /\ f \notin todo) => LookedAt(layer, f))'
      BY <3>1 DEF Complete, Scanning, Work, Later, LookedAt
    <3> QED
      BY <3>1, <3>2, <3>3 DEF Complete, Scanning, Checks
  <2> QED
    BY <2>1, <2>2
<1>13. CASE CommandFails
  BY <1>13, <1>r, Concluded DEF CommandFails, Statuses
<1>14. CASE CommandWrites
  BY <1>14, CompleteUnchanged DEF CommandWrites, Write, check
<1>15. CASE Edit
  BY <1>15, CompleteUnchanged DEF Edit, Write, check
<1>16. CASE Restore
  BY <1>16, CompleteUnchanged DEF Restore, check
<1>17. CASE Review
  BY <1>17, CompleteUnchanged DEF Review, check
<1>18. CASE UNCHANGED preflightVars
  BY <1>18, CompleteUnchanged DEF preflightVars, target, check, history
<1> QED
  BY <1>1, <1>2, <1>3, <1>4, <1>5, <1>6, <1>7, <1>8, <1>9, <1>10, <1>11, <1>12, <1>13,
     <1>14, <1>15, <1>16, <1>17, <1>18 DEF PreflightNext

LEMMA CompleteImplies == Complete => PassIsComplete
BY LaterIs, SoFarIs DEF Complete, PassIsComplete, Passed, LookedAt, Scanning

-----------------------------------------------------------------------------
(* A PASS is about one tree *)

Undisturbed == events \cap {"reviewed", "restored"} = {}

\* What has been looked at in a bound file is as new as what has been reviewed and no
\* newer than what is there, and the self-review, which reads each file once, reads the
\* newest.  The PASS says that this is what has been reviewed.
Versions ==
    /\ at \in Checks /\ Undisturbed =>
          /\ \A l \in looked : l[2] \in Bound => receipt[l[2]] <= l[3] /\ l[3] <= tree[l[2]]
          /\ \A l \in looked : l[1] = "self_review" =>
                /\ at = "self_review" /\ l[2] \notin todo
                /\ \A m \in looked : m[2] = l[2] => m[3] <= l[3]
    /\ OneTree

LEMMA VersionsInit == PreflightInit => Versions
BY DEF PreflightInit, Versions, OneTree, Checks, Passed

\* A check that concludes without a new read, and is not the last one.
LEMMA VersionsKept ==
    ASSUME PreflightTypes, Versions, at \in Checks \ {"self_review"},
           at' \in Checks, todo' \subseteq Work(at'),
           UNCHANGED <<tree, receipt, looked, events>>
    PROVE  Versions'
<1> USE DEF Versions
<1>1. at' # "done"
  BY DEF Checks
<1>2. OneTree'
  BY <1>1 DEF OneTree, Passed
<1>3. ASSUME Undisturbed'
      PROVE  /\ \A l \in looked' : l[2] \in Bound => receipt'[l[2]] <= l[3] /\ l[3] <= tree'[l[2]]
             /\ \A l \in looked' : l[1] # "self_review"
  BY <1>3 DEF Undisturbed
<1> QED
  BY <1>2, <1>3

LEMMA VersionsUnchanged ==
    ASSUME Versions, UNCHANGED <<at, todo, tree, receipt, looked, events, status>>
    PROVE  Versions'
BY DEF Versions, Undisturbed, OneTree, Passed

LEMMA VersionsNext ==
    ASSUME PreflightTypes, Versions, [PreflightNext]_preflightVars
    PROVE  Versions'
<1>r. status \in Statuses
  BY DEF PreflightTypes
<1>b. \A f \in Bound : f \in Files
  BY PreflightAssumption
<1>l. \A l \in looked : l = <<l[1], l[2], l[3]>> /\ l[1] \in Checks /\ l[2] \in Files /\ l[3] \in Nat
  BY DEF PreflightTypes
<1>d. "done" \notin Checks /\ "idle" \notin Checks
  BY DEF Checks
<1>1. CASE Start
  BY <1>1 DEF Start, Versions, OneTree
<1>2. CASE CheckFails
  <2>1. status' # "PASS" /\ at' \in Checks \cup {"done"} /\ todo' = Work(at') /\ at \in Checks
    BY <1>2, <1>r, Concluded DEF CheckFails, Statuses
  <2>2. CASE at' \in Checks
    <3>1. at # "self_review"
      BY <1>2, <1>r, <1>d, <2>2, Concluded DEF CheckFails, Statuses
    <3> QED
      BY <1>2, <2>1, <2>2, <3>1, VersionsKept DEF CheckFails, target, history
  <2>3. CASE at' = "done"
    BY <1>d, <2>1, <2>3 DEF Versions, OneTree, Passed
  <2> QED
    BY <2>1, <2>2, <2>3
<1>3. CASE ShapeChecked
  <2>1. at = "shape_version" /\ at' = "silent_handlers" /\ todo' = Work(at')
    BY <1>3, <1>r, Concluded DEF ShapeChecked, Statuses
  <2> QED
    BY <1>3, <2>1, VersionsKept DEF ShapeChecked, target, history, Checks
<1>4. CASE ReadFile
  <2>1. PICK f \in todo : todo' = todo \ {f} /\ looked' = looked \cup {<<at, f, tree[f]>>}
    BY <1>4 DEF ReadFile
  <2>2. /\ at \in Scanning /\ at \in Checks /\ at' = at
        /\ UNCHANGED <<tree, receipt, events, status>>
    BY <1>4 DEF ReadFile, target, Scanning, Checks
  <2>3. f \in Files /\ tree[f] \in Nat
    BY <2>1, <2>2, WorkIs, PreflightAssumption DEF PreflightTypes, Scanning
  <2>4. OneTree'
    BY <1>d, <2>2 DEF OneTree, Passed
  <2> DEFINE new == <<at, f, tree[f]>>
  <2>5. new[1] = at /\ new[2] = f /\ new[3] = tree[f]
    OBVIOUS
  <2>6. SUFFICES ASSUME Undisturbed'
        PROVE  /\ \A l \in looked' : l[2] \in Bound => receipt[l[2]] <= l[3] /\ l[3] <= tree[l[2]]
               /\ \A l \in looked' : l[1] = "self_review" =>
                     /\ at = "self_review" /\ l[2] \notin todo \ {f}
                     /\ \A m \in looked' : m[2] = l[2] => m[3] <= l[3]
    BY <2>1, <2>2, <2>4 DEF Versions
  <2>7. Undisturbed
    BY <2>2, <2>6 DEF Undisturbed
  <2>8. /\ \A l \in looked : l[2] \in Bound => receipt[l[2]] <= l[3] /\ l[3] <= tree[l[2]]
        /\ \A l \in looked : l[1] = "self_review" =>
              /\ at = "self_review" /\ l[2] \notin todo
              /\ \A m \in looked : m[2] = l[2] => m[3] <= l[3]
    BY <2>2, <2>7 DEF Versions
  <2>9. f \in Bound => receipt[f] <= tree[f]
    BY DEF PreflightTypes
  <2>10. \A l \in looked' : l[2] \in Bound => receipt[l[2]] <= l[3] /\ l[3] <= tree[l[2]]
    BY <2>1, <2>3, <2>5, <2>8, <2>9
  <2>11. ASSUME NEW l \in looked', l[1] = "self_review"
         PROVE  /\ at = "self_review" /\ l[2] \notin todo \ {f}
                /\ \A m \in looked' : m[2] = l[2] => m[3] <= l[3]
    <3>1. CASE l \in looked
      <4>1. at = "self_review" /\ l[2] # f /\ l[2] \notin todo
        BY <2>1, <2>8, <2>11, <3>1
      <4> QED
        BY <2>1, <2>5, <2>8, <2>11, <3>1, <4>1
    <3>2. CASE l = new
      <4>1. at = "self_review" /\ f \in Bound
        BY <2>1, <2>5, <2>11, <3>2, WorkIs DEF PreflightTypes
      <4>2. \A m \in looked' : m[2] = f => m[3] <= tree[f]
        BY <2>1, <2>3, <2>5, <2>8, <4>1
      <4> QED
        BY <2>5, <3>2, <4>1, <4>2
    <3> QED
      BY <2>1, <2>11, <3>1, <3>2
  <2> QED
    BY <2>10, <2>11
<1>5. CASE ReadRefused
  <2>1. /\ at' = at /\ at \in Checks /\ todo' \subseteq todo
        /\ UNCHANGED <<tree, receipt, looked, events>>
    BY <1>5 DEF ReadRefused, target, history, Scanning, Checks
  <2>2. OneTree'
    BY <1>d, <2>1 DEF OneTree, Passed
  <2> QED
    BY <2>1, <2>2 DEF Versions, Undisturbed
<1>6. CASE ScanPasses
  <2>1. /\ at \in {"silent_handlers", "convention_sync"}
        /\ at' \in {"convention_sync", "runtime"} /\ todo' = Work(at')
    BY <1>6, <1>r, Concluded DEF ScanPasses, Statuses, Scanning
  <2> QED
    BY <1>6, <2>1, VersionsKept DEF ScanPasses, target, history, Checks
<1>7. CASE ReceiptCompared
  <2>1. PICK s \in Statuses : s = (IF reads < MaxReads /\ Reviewed THEN "PASS" ELSE "FAIL") /\ Conclude(s)
    BY <1>7 DEF ReceiptCompared, Statuses
  <2>2. /\ at = "self_review" /\ at \in Checks /\ at' = "done"
        /\ UNCHANGED <<tree, receipt, looked, events>>
    BY <1>7, <1>r, <2>1, Concluded DEF ReceiptCompared, target, history, Checks
  <2>3. SUFFICES ASSUME Passed', Undisturbed
        PROVE  \A l \in looked, m \in looked : l[2] = m[2] /\ l[2] \in Bound => l[3] = m[3]
    BY <1>d, <2>2 DEF Versions, OneTree, Undisturbed
  <2>4. Reviewed
    BY <1>r, <2>1, <2>3, Concluded DEF Passed
  <2>5. /\ \A l \in looked : l[2] \in Bound => receipt[l[2]] <= l[3]
        /\ \A l \in looked : l[1] = "self_review" => \A m \in looked : m[2] = l[2] => m[3] <= l[3]
    BY <2>2, <2>3 DEF Versions
  <2>6. ASSUME NEW l \in looked, l[2] \in Bound PROVE l[3] = receipt[l[2]]
    <3>1. <<"self_review", l[2], receipt[l[2]]>> \in looked
      BY <2>4, <2>6 DEF Reviewed
    <3>2. l[3] <= receipt[l[2]] /\ receipt[l[2]] <= l[3]
      BY <2>5, <2>6, <3>1
    <3>3. receipt[l[2]] \in Nat /\ l[3] \in Nat
      BY <1>l, <2>6 DEF PreflightTypes
    <3> QED
      BY <3>2, <3>3
  <2> QED
    BY <2>6
<1>8. CASE RunCommand
  <2>1. PICK new : new = {<<at, f, tree[f]>> : f \in Bound} /\ (looked' = looked \/ looked' = looked \cup new)
    BY <1>8 DEF RunCommand
  <2>2. /\ at' = at /\ at \in {"runtime", "selftests"} /\ at \in Checks
        /\ UNCHANGED <<tree, receipt, events, todo>>
    BY <1>8 DEF RunCommand, target, Checks
  <2>3. OneTree'
    BY <1>d, <2>2 DEF OneTree, Passed
  <2>4. \A l \in new : l[1] = at /\ l[2] \in Bound /\ l[3] = tree[l[2]]
    BY <2>1
  <2>5. SUFFICES ASSUME Undisturbed'
        PROVE  /\ \A l \in looked' : l[2] \in Bound => receipt[l[2]] <= l[3] /\ l[3] <= tree[l[2]]
               /\ \A l \in looked' : l[1] # "self_review"
    BY <2>2, <2>3 DEF Versions
  <2>6. /\ \A l \in looked : l[2] \in Bound => receipt[l[2]] <= l[3] /\ l[3] <= tree[l[2]]
        /\ \A l \in looked : l[1] # "self_review"
    BY <2>2, <2>5 DEF Versions, Undisturbed
  <2>7. \A f \in Bound : receipt[f] <= tree[f] /\ tree[f] \in Nat
    BY <1>b DEF PreflightTypes
  <2>8. \A l \in new : receipt[l[2]] <= l[3] /\ l[3] <= tree[l[2]]
    BY <2>4, <2>7
  <2> QED
    BY <2>1, <2>2, <2>4, <2>6, <2>8
<1>9. CASE CommandsPass
  <2>1. /\ at \in {"runtime", "selftests"}
        /\ at' \in {"selftests", "visual"} /\ todo' = Work(at')
    BY <1>9, <1>r, Concluded DEF CommandsPass, Statuses
  <2> QED
    BY <1>9, <2>1, VersionsKept DEF CommandsPass, target, history, Checks
<1>10. CASE RunVisual
  BY <1>10, VersionsUnchanged DEF RunVisual, target, history
<1>11. CASE NoVisual
  <2>1. at = "visual" /\ at' = "self_review" /\ todo' = Work(at')
    BY <1>11, <1>r, Concluded DEF NoVisual, Statuses
  <2> QED
    BY <1>11, <2>1, VersionsKept DEF NoVisual, target, history, Checks
<1>12. CASE CommandSucceeds
  <2>1. CASE at = "visual"
    <3>1. at' = "self_review" /\ todo' = Work(at')
      BY <1>12, <1>r, <2>1, Concluded DEF CommandSucceeds, Statuses
    <3> QED
      BY <1>12, <2>1, <3>1, VersionsKept DEF CommandSucceeds, target, history, Checks
  <2>2. CASE at # "visual"
    <3>1. at' = at /\ at \in {"runtime", "selftests"} /\ todo' \subseteq Work(at')
      BY <1>12, <2>2 DEF CommandSucceeds, PreflightTypes, Commanding
    <3> QED
      BY <1>12, <3>1, VersionsKept DEF CommandSucceeds, target, history, Checks
  <2> QED
    BY <2>1, <2>2
<1>13. CASE CommandFails
  <2>1. CASE at = "visual"
    <3>1. at' = "self_review" /\ todo' = Work(at')
      BY <1>13, <1>r, <2>1, Concluded DEF CommandFails, Statuses
    <3> QED
      BY <1>13, <2>1, <3>1, VersionsKept DEF CommandFails, target, history, Checks
  <2>2. CASE at # "visual"
    <3>1. at' = at /\ at \in {"runtime", "selftests"} /\ todo' \subseteq Work(at')
      BY <1>13, <2>2 DEF CommandFails, PreflightTypes, Commanding
    <3> QED
      BY <1>13, <3>1, VersionsKept DEF CommandFails, target, history, Checks
  <2> QED
    BY <2>1, <2>2
\* A write only makes what is there newer.
<1>w. ASSUME NEW x \in Files \cup Artifacts, Write(x), events \subseteq events',
             at \in AtRest => events' = events
      PROVE  Versions'
  <2>1. UNCHANGED <<receipt, at, todo, looked, status>>
    BY <1>w DEF Write, check
  <2>2. \A f \in Bound : tree[f] <= tree'[f] /\ tree[f] \in Nat /\ tree'[f] \in Nat
    BY <1>b, <1>w, WriteTypes DEF PreflightTypes
  <2>3. OneTree'
    BY <1>w, <2>1 DEF Versions, OneTree, Passed, AtRest
  <2>4. Undisturbed' => Undisturbed
    BY <1>w DEF Undisturbed
  <2>5. ASSUME at \in Checks, Undisturbed', NEW l \in looked, l[2] \in Bound
        PROVE  receipt[l[2]] <= l[3] /\ l[3] <= tree'[l[2]]
    <3>1. receipt[l[2]] <= l[3] /\ l[3] <= tree[l[2]]
      BY <2>4, <2>5 DEF Versions
    <3> QED
      BY <1>l, <2>2, <2>5, <3>1
  <2> QED
    BY <2>1, <2>3, <2>4, <2>5 DEF Versions
<1>14. CASE CommandWrites
  BY <1>14, <1>w DEF CommandWrites
<1>15. CASE Edit
  BY <1>15, <1>w DEF Edit, Happens, AtRest
<1>16. CASE Restore
  BY <1>16 DEF Restore, Happens, check, Versions, Undisturbed, OneTree, Passed, Checks, AtRest, PreflightTypes
<1>17. CASE Review
  BY <1>17 DEF Review, Happens, check, Versions, Undisturbed, OneTree, Passed, Checks, AtRest, PreflightTypes
<1>18. CASE UNCHANGED preflightVars
  BY <1>18, VersionsUnchanged DEF preflightVars, target, check, history
<1> QED
  BY <1>1, <1>2, <1>3, <1>4, <1>5, <1>6, <1>7, <1>8, <1>9, <1>10, <1>11, <1>12, <1>13,
     <1>14, <1>15, <1>16, <1>17, <1>18 DEF PreflightNext

-----------------------------------------------------------------------------
(* A PASS has seen its own artifacts *)

Own == "artifact" \notin events

\* Artifacts that are not as they were before the visual command are its own.
Artificial ==
    /\ at = "visual" /\ running /\ Own => \A a \in Artifacts : tree[a] # before[a] => a \in made
    /\ at \in {"self_review", "done"} /\ status = "PASS" /\ config.visual = "required" /\ Own
          => made = Artifacts

LEMMA ArtificialInit == PreflightInit => Artificial
BY DEF PreflightInit, Artificial

LEMMA ArtificialKept ==
    ASSUME Artificial, UNCHANGED <<config, made, events>>,
           at' \notin {"visual", "self_review"},
           at' = "done" => at \in {"self_review", "done"} /\ (status' = "PASS" => status = "PASS")
    PROVE  Artificial'
BY DEF Artificial, Own

LEMMA ArtificialNext ==
    ASSUME PreflightTypes, Artificial, [PreflightNext]_preflightVars
    PROVE  Artificial'
<1>r. status \in Statuses
  BY DEF PreflightTypes
<1>a. Artifacts \cap Files = {} /\ Bound \subseteq Files
  BY PreflightAssumption
<1>1. CASE Start
  <2>1. at' = "shape_version" \/ (at' = "done" /\ status' = "NO_GATE")
    BY <1>1 DEF Start, Begin, Layers
  <2> QED
    BY <2>1 DEF Artificial
\* A check that hands over, and not to the one behind the visual check.
<1>c. ASSUME NEW s \in Statuses, Conclude(s), ~running, ~running',
             UNCHANGED <<config, made, events>>, at # "visual"
      PROVE  Artificial'
  <2>1. at' = "done" => at = "self_review"
    BY <1>c, <1>r, Concluded DEF Checks
  <2>2. at' # "self_review" /\ (status' = "PASS" => status = "PASS")
    BY <1>c, <1>r, Concluded DEF Checks
  <2> QED
    BY <1>c, <2>1, <2>2 DEF Artificial, Own
<1>2. CASE CheckFails
  <2>1. Conclude("FAIL") /\ status' # "PASS" /\ ~running' /\ "FAIL" \in Statuses
    BY <1>2, <1>r, Concluded DEF CheckFails, Statuses
  <2> QED
    BY <2>1 DEF Artificial
<1>3. CASE ShapeChecked
  <2>1. /\ ~running /\ running' = running /\ UNCHANGED <<config, made, events>> /\ at = "shape_version"
        /\ \E s \in Statuses : Conclude(s)
    BY <1>3 DEF ShapeChecked, target, history, PreflightTypes, Commanding, Statuses
  <2> QED
    BY <1>c, <2>1
<1>4. CASE ReadFile
  BY <1>4 DEF ReadFile, target, Artificial, Own, Scanning
<1>5. CASE ReadRefused
  BY <1>5 DEF ReadRefused, target, history, Artificial, Scanning
<1>6. CASE ScanPasses
  <2>1. /\ ~running /\ running' = running /\ UNCHANGED <<config, made, events>> /\ at # "visual"
        /\ \E s \in Statuses : Conclude(s)
    BY <1>6 DEF ScanPasses, target, history, PreflightTypes, Commanding, Statuses, Scanning
  <2> QED
    BY <1>c, <2>1
<1>7. CASE ReceiptCompared
  <2>1. /\ ~running /\ running' = running /\ UNCHANGED <<config, made, events>> /\ at = "self_review"
        /\ \E s \in Statuses : Conclude(s)
    BY <1>7 DEF ReceiptCompared, target, history, PreflightTypes, Commanding, Statuses
  <2> QED
    BY <1>c, <2>1
<1>8. CASE RunCommand
  BY <1>8 DEF RunCommand, target, Artificial
<1>9. CASE CommandsPass
  <2>1. at' \in {"selftests", "visual"} /\ (at = "runtime" => at' = "selftests") /\ at \in {"runtime", "selftests"}
    BY <1>9, <1>r, Concluded DEF CommandsPass, Statuses
  <2>2. ~running'
    BY <1>9, <2>1 DEF CommandsPass, PreflightTypes
  <2> QED
    BY <2>1, <2>2 DEF Artificial
<1>10. CASE RunVisual
  BY <1>10 DEF RunVisual, target, history, Artificial
<1>11. CASE NoVisual
  <2>1. ~running' /\ config' = config /\ at' = "self_review" /\ (status' = "PASS" => config.visual # "required")
    BY <1>11, <1>r, Concluded DEF NoVisual, target, Statuses
  <2> QED
    BY <2>1 DEF Artificial
<1>12. CASE CommandSucceeds
  <2>1. CASE at = "visual"
    <3>1. PICK s \in Statuses : s = (IF \A a \in Artifacts : Fresh(a) THEN "PASS" ELSE "FAIL") /\ Conclude(s)
      BY <1>12, <2>1 DEF CommandSucceeds, Statuses
    <3>2. /\ at' = "self_review" /\ (status' = "PASS" => s = "PASS")
          /\ running /\ ~running' /\ UNCHANGED <<made, events>>
      BY <1>12, <1>r, <2>1, <3>1, Concluded DEF CommandSucceeds, history
    <3>3. ASSUME status' = "PASS", Own PROVE made = Artifacts
      <4>1. \A a \in Artifacts : tree[a] # before[a]
        BY <3>1, <3>2, <3>3 DEF Fresh
      <4>2. \A a \in Artifacts : a \in made
        BY <2>1, <3>2, <3>3, <4>1 DEF Artificial
      <4> QED
        BY <4>2 DEF PreflightTypes
    <3> QED
      BY <3>2, <3>3 DEF Artificial, Own
  <2>2. CASE at # "visual"
    BY <1>12, <2>2 DEF CommandSucceeds, PreflightTypes, Commanding, Artificial
  <2> QED
    BY <2>1, <2>2
<1>13. CASE CommandFails
  <2>1. CASE at = "visual"
    <3>1. ~running' /\ status' # "PASS"
      BY <1>13, <1>r, <2>1, Concluded DEF CommandFails, Statuses
    <3> QED
      BY <3>1 DEF Artificial
  <2>2. CASE at # "visual"
    BY <1>13, <2>2 DEF CommandFails, PreflightTypes, Commanding, Artificial
  <2> QED
    BY <2>1, <2>2
<1>14. CASE CommandWrites
  <2>1. PICK x \in Files \cup Artifacts :
           /\ Write(x)
           /\ made' = IF at = "visual" THEN made \cup ({x} \cap Artifacts) ELSE made
    BY <1>14 DEF CommandWrites
  <2>2. UNCHANGED <<config, check, events>> /\ \A a \in Artifacts : a # x => tree'[a] = tree[a]
    BY <2>1, <1>14 DEF Write, CommandWrites, PreflightTypes
  <2>3. at \in Commanding
    BY <1>14 DEF CommandWrites, PreflightTypes, Commanding
  <2> QED
    BY <2>1, <2>2, <2>3 DEF Artificial, Own, check, Commanding
<1>15. CASE Edit
  <2>1. PICK x \in Files \cup Artifacts :
           Write(x) /\ (IF x \in Files THEN UNCHANGED events ELSE Happens("artifact"))
    BY <1>15 DEF Edit
  <2>2. UNCHANGED <<config, check, made>> /\ \A a \in Artifacts : a # x => tree'[a] = tree[a]
    BY <2>1, <1>15 DEF Write, Edit, PreflightTypes
  <2>3. CASE x \in Files
    BY <1>a, <2>1, <2>2, <2>3 DEF Artificial, Own, check
  <2>4. CASE x \notin Files
    BY <2>1, <2>2, <2>4 DEF Artificial, Own, check, Happens
  <2> QED
    BY <2>3, <2>4
<1>16. CASE Restore
  <2>1. PICK f \in Bound : tree' = [tree EXCEPT ![f] = receipt[f]]
    BY <1>16 DEF Restore
  <2>2. \A a \in Artifacts : tree'[a] = tree[a]
    BY <1>a, <2>1 DEF PreflightTypes
  <2> QED
    BY <1>16, <2>2 DEF Restore, Happens, check, Artificial, Own
<1>17. CASE Review
  BY <1>17 DEF Review, Happens, check, Artificial, Own
<1>18. CASE UNCHANGED preflightVars
  BY <1>18 DEF preflightVars, target, check, history, Artificial, Own
<1> QED
  BY <1>1, <1>2, <1>3, <1>4, <1>5, <1>6, <1>7, <1>8, <1>9, <1>10, <1>11, <1>12, <1>13,
     <1>14, <1>15, <1>16, <1>17, <1>18 DEF PreflightNext

-----------------------------------------------------------------------------
(* The theorems *)

PreflightInv == PreflightTypes /\ Complete /\ Versions /\ Artificial

\* The preflight's part of a behaviour of the gates.
LEMMA PreflightInvariant == Spec => []PreflightInv
<1>1. Init => PreflightInv
  BY PreflightInitTypes, CompleteInit, VersionsInit, ArtificialInit DEF Init, PreflightInv
<1>2. PreflightInv /\ [Next]_vars => PreflightInv'
  <2> SUFFICES ASSUME PreflightInv, [Next]_vars PROVE PreflightInv'
    OBVIOUS
  <2>1. [PreflightNext]_preflightVars
    BY DEF Next, vars
  <2> QED
    BY <2>1, PreflightNextTypes, CompleteNext, VersionsNext, ArtificialNext DEF PreflightInv
<1> QED
  BY <1>1, <1>2, PTL DEF Spec

\* Types of the preflight's state, and that no version is reviewed before it is written.
THEOREM PreflightTypeCorrect == Spec => []PreflightTypes
BY PreflightInvariant, PTL DEF PreflightInv

\* A PASS has read everything on one budget, whatever the order of the reads, for any
\* number of files.
THEOREM PassesAreComplete == Spec => []PassIsComplete
<1>1. PreflightInv => PassIsComplete
  BY CompleteImplies DEF PreflightInv
<1> QED
  BY <1>1, PreflightInvariant, PTL

\* A PASS is about one tree, whoever writes between its checks.
THEOREM PassesAreOfOneTree == Spec => []OneTree
<1>1. PreflightInv => OneTree
  BY DEF PreflightInv, Versions
<1> QED
  BY <1>1, PreflightInvariant, PTL

\* A PASS with a required visual check rests on artifacts of its own command.
THEOREM VisualsAreFresh == Spec => []VisualIsFresh
<1>1. PreflightInv => VisualIsFresh
  BY DEF PreflightInv, Artificial, VisualIsFresh, Passed, Own
<1> QED
  BY <1>1, PreflightInvariant, PTL

=============================================================================
