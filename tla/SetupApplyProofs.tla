--------------------------- MODULE SetupApplyProofs ---------------------------
(***************************************************************************)
(* The properties of SetupApply for any number of runs, destinations,       *)
(* directories, faults and edits.                                           *)
(*                                                                         *)
(* First the types; then what one step of the system does to each piece of  *)
(* state (EarlyStep, MadeStep, TargetStep, ...), one case per action; then  *)
(* the parts of the invariant SetupInv, which only use those; then what     *)
(* holds while nothing fails and nobody edits (CalmInv).                    *)
(***************************************************************************)
EXTENDS SetupApply, FiniteSetTheorems, WellFoundedInduction, TLAPS

Contents == Nat \cup {Missing, Partial, Foreign, Blocked}
Rows == {"NONE", "MISSING", "IDENTICAL", "CONFLICT", "BLOCKED"}
Plans == [kit : [Files -> Nat], head : Nat, rows : [Files -> Rows]]
States == {"STARTED", "IDENTICAL", "PENDING_DIRECTORY", "CREATED_DIRECTORY", "EXISTING_DIRECTORY",
           "PENDING_FILE", "PARTIAL_FILE", "CREATED_FILE", "COMPLETED", "FAILED"}
Lines == (Files \cup Dirs \cup {Root}) \X States
Outcomes == {"none", "UNCONFIGURED", "APPLIED_WITH_UNRESOLVED_ITEMS", "FAILED"}

\* Where a run is: before it has noted anything; at a destination; and beyond.
Early == {"idle", "plan", "planned", "check", "open", "start"}
Taken == {"classify", "parent", "mkdir", "dirnote", "intent", "create", "write", "partial",
          "readback"}
Places == Early \cup Taken \cup {"verify", "next", "final", "complete", "fail", "done", "dead"}

WorldTypes ==
    /\ target \in [Files -> Contents] /\ dirs \subseteq Dirs /\ extra \in BOOLEAN
    /\ kit \in [Files -> Nat] /\ head \in Nat
    /\ faults \in Nat /\ edits \in Nat
    /\ made \in [Files \cup Dirs -> Runs \cup {Root}] /\ touched \subseteq Files \cup {Root}

ScanTypes ==
    /\ plan \in [Runs -> Plans] /\ base \in [Runs -> [Files -> Nat]]
    /\ rows \in [Runs -> [Files -> Rows]]

ControlTypes ==
    /\ pc \in [Runs -> Places]
    /\ selected \in [Runs -> SUBSET Files] /\ todo \in [Runs -> SUBSET Files]
    /\ at \in [Runs -> Files \cup {Root}]
    /\ \A p \in Runs : pc[p] \in Taken => at[p] \in selected[p]
    /\ \A p \in Runs : pc[p] \in Taken \cup {"next"} => todo[p] \subseteq selected[p]
    /\ \A p \in Runs : pc[p] \in {"mkdir", "dirnote"} => Parent[at[p]] \in Dirs

ReportTypes ==
    /\ noted \in [Runs -> SUBSET Lines] /\ broken \in [Runs -> BOOLEAN]
    /\ outcome \in [Runs -> Outcomes]

SetupTypes == WorldTypes /\ ScanTypes /\ ControlTypes /\ ReportTypes

\* The four contents differ, as their number says.
LEMMA FourContents ==
    /\ Missing # Partial /\ Missing # Foreign /\ Missing # Blocked
    /\ Partial # Foreign /\ Partial # Blocked /\ Foreign # Blocked
    /\ Missing \notin Nat /\ Partial \notin Nat /\ Foreign \notin Nat /\ Blocked \notin Nat
<1>1. Missing \notin Nat /\ Partial \notin Nat /\ Foreign \notin Nat /\ Blocked \notin Nat
  BY SetupAssumption
<1>2. ASSUME NEW a, NEW b, NEW c PROVE Cardinality({a, b, c}) \in 0..3
  <2>1. IsFiniteSet({a}) /\ Cardinality({a}) = 1
    BY FS_Singleton
  <2>2. IsFiniteSet({a} \cup {b}) /\ Cardinality({a} \cup {b}) \in 0..2
    BY <2>1, FS_AddElement
  <2>3. Cardinality(({a} \cup {b}) \cup {c}) \in 0..3
    BY <2>2, FS_AddElement
  <2>4. {a, b, c} = ({a} \cup {b}) \cup {c}
    OBVIOUS
  <2> QED
    BY <2>3, <2>4
<1> DEFINE All == {Missing, Partial, Foreign, Blocked}
<1>3. Cardinality(All) = 4
  BY SetupAssumption
<1> HIDE DEF All
<1>4. ASSUME NEW a, NEW b, NEW c, All = {a, b, c} PROVE FALSE
  <2>1. Cardinality(All) \in 0..3
    BY <1>2, <1>4
  <2> QED
    BY <1>3, <2>1
<1> QED
  <2>1. ASSUME Missing = Partial PROVE FALSE
    <3>1. All = {Missing, Foreign, Blocked}
      BY <2>1 DEF All
    <3> QED
      BY <1>4, <3>1
  <2>2. ASSUME Missing = Foreign \/ Partial = Foreign PROVE FALSE
    <3>1. All = {Missing, Partial, Blocked}
      BY <2>2 DEF All
    <3> QED
      BY <1>4, <3>1
  <2>3. ASSUME Missing = Blocked \/ Partial = Blocked \/ Foreign = Blocked PROVE FALSE
    <3>1. All = {Missing, Partial, Foreign}
      BY <2>3 DEF All
    <3> QED
      BY <1>4, <3>1
  <2> QED
    BY <1>1, <2>1, <2>2, <2>3

\* A line more, and all others stay.
LEMMA Noted ==
    ASSUME noted \in [Runs -> SUBSET Lines], NEW p \in Runs, NEW path \in Files \cup Dirs \cup {Root},
           NEW state \in States, Note(p, path, state)
    PROVE  /\ noted' \in [Runs -> SUBSET Lines]
           /\ noted'[p] = noted[p] \cup {<<path, state>>}
           /\ \A q \in Runs \ {p} : noted'[q] = noted[q]
<1>1. <<path, state>> \in Lines
  BY DEF Lines
<1> QED
  BY <1>1 DEF Note

\* The types hold at first, and each step keeps them.
\* The types hold at first, and each step keeps them, part by part.
LEMMA TypesInit == Init => SetupTypes
<1> SUFFICES ASSUME Init PROVE SetupTypes
  OBVIOUS
<1>1. WorldTypes
  <2>1. target \in [Files -> Contents] /\ dirs \subseteq Dirs
    BY DEF Init, Contents
  <2>2. made \in [Files \cup Dirs -> Runs \cup {Root}]
    BY DEF Init
  <2> QED
    BY <2>1, <2>2 DEF Init, WorldTypes
<1>2. ScanTypes
  BY DEF Init, ScanTypes, Plans, Rows, Blank
<1>3. ControlTypes
  BY DEF Init, ControlTypes, Places, Early, Taken
<1>4. ReportTypes
  BY DEF Init, ReportTypes, Outcomes
<1> QED
  BY <1>1, <1>2, <1>3, <1>4 DEF SetupTypes

LEMMA WorldNext == SetupTypes /\ [Next]_vars => WorldTypes'
<1> SUFFICES ASSUME SetupTypes, [Next]_vars
             PROVE  WorldTypes'
  OBVIOUS
<1> USE SetupAssumption DEF SetupTypes, WorldTypes, people, work, Fault, Edit
<1>1. CASE UNCHANGED vars
  BY <1>1 DEF vars
<1>2. ASSUME NEW p \in Runs, Before(p) PROVE WorldTypes'
  <2>1. CASE BeginPlan(p)  BY <2>1 DEF BeginPlan
  <2>2. CASE ScanRow(p)  BY <2>2 DEF ScanRow
  <2>3. CASE Planned(p)  BY <2>3 DEF Planned
  <2>4. CASE BeginApply(p)  BY <2>4 DEF BeginApply
  <2>5. CASE Check(p)  BY <2>5 DEF Check
  <2>6. CASE OpenReceipt(p)  BY <2>6 DEF OpenReceipt
  <2> QED
    BY <1>2, <2>1, <2>2, <2>3, <2>4, <2>5, <2>6 DEF Before
<1>3. ASSUME NEW p \in Runs, EachFile(p) PROVE WorldTypes'
  <2>1. CASE Take(p)  BY <2>1 DEF Take
  <2>2. CASE TakeUp(p)  BY <2>2 DEF TakeUp
  <2>3. CASE OpenParent(p)  BY <2>3 DEF OpenParent
  <2>4. CASE MakeDirectory(p)  BY <2>4 DEF MakeDirectory, ControlTypes, Taken, Goto
  <2>5. CASE NoteDirectory(p)  BY <2>5 DEF NoteDirectory
  <2>6. CASE Intend(p)  BY <2>6 DEF Intend
  <2>7. CASE Create(p)  BY <2>7 DEF Create, Contents, ControlTypes, Taken, Goto
  <2>8. CASE Write(p)  BY <2>8 DEF Write, Written, Contents, ScanTypes, ControlTypes, Taken, Goto
  <2>9. CASE NotePartial(p)  BY <2>9 DEF NotePartial
  <2>10. CASE ReadBack(p)  BY <2>10 DEF ReadBack
  <2> QED
    BY <1>3, <2>1, <2>2, <2>3, <2>4, <2>5, <2>6, <2>7, <2>8, <2>9, <2>10 DEF EachFile
<1>4. ASSUME NEW p \in Runs, AtEnd(p) PROVE WorldTypes'
  <2>1. CASE Start(p)  BY <2>1 DEF Start
  <2>2. CASE Verify(p)  BY <2>2 DEF Verify
  <2>3. CASE BeginFinal(p)  BY <2>3 DEF BeginFinal
  <2>4. CASE Complete(p)  BY <2>4 DEF Complete
  <2>5. CASE Completed(p)  BY <2>5 DEF Completed
  <2>6. CASE NoteFailure(p)  BY <2>6 DEF NoteFailure
  <2> QED
    BY <1>4, <2>1, <2>2, <2>3, <2>4, <2>5, <2>6 DEF AtEnd
<1>5. ASSUME NEW p \in Runs, Failure(p) PROVE WorldTypes'
  <2>1. CASE WriteFails(p)
    <3>1. at[p] \in Files /\ base[p][at[p]] \in Contents
      BY <2>1 DEF WriteFails, Contents, ScanTypes, ControlTypes, Taken, Goto
    <3>2. Written(p) \in [Files -> Contents]
      BY <3>1 DEF Written
    <3>3. target' \in [Files -> Contents]
      BY <2>1, <3>2 DEF WriteFails
    <3> QED
      BY <2>1, <3>3 DEF WriteFails
  <2>2. CASE NoteFails(p)  BY <2>2 DEF NoteFails
  <2>3. CASE CallFails(p)  BY <2>3 DEF CallFails
  <2>4. CASE PlanFails(p)  BY <2>4 DEF PlanFails
  <2>5. CASE Crash(p)  BY <2>5 DEF Crash
  <2> QED
    BY <1>5, <2>1, <2>2, <2>3, <2>4, <2>5 DEF Failure
<1>6. CASE People
  <2>1. ASSUME NEW f \in Files, EditFile(f) PROVE WorldTypes'
    BY <2>1 DEF EditFile, Contents
  <2>2. ASSUME NEW f \in Files, ChangeKit(f) PROVE WorldTypes'
    BY <2>2 DEF ChangeKit
  <2>3. CASE AddExtra  BY <2>3 DEF AddExtra
  <2>4. CASE MoveHead  BY <2>4 DEF MoveHead
  <2> QED
    BY <1>6, <2>1, <2>2, <2>3, <2>4 DEF People
<1> QED
  BY <1>1, <1>2, <1>3, <1>4, <1>5, <1>6 DEF Next

LEMMA ScanNext == SetupTypes /\ [Next]_vars => ScanTypes'
<1> SUFFICES ASSUME SetupTypes, [Next]_vars
             PROVE  ScanTypes'
  OBVIOUS
<1> USE DEF SetupTypes, ScanTypes, choice
<1>1. CASE UNCHANGED vars
  BY <1>1 DEF vars
<1>2. ASSUME NEW p \in Runs, Before(p) PROVE ScanTypes'
  <2>1. CASE BeginPlan(p)  BY <2>1 DEF BeginPlan, BeginScan, Blank, WorldTypes, Plans, Rows
  <2>2. CASE ScanRow(p)  BY <2>2 DEF ScanRow, Classify, Rows
  <2>3. CASE Planned(p)  BY <2>3 DEF Planned, Plans
  <2>4. CASE BeginApply(p)  BY <2>4 DEF BeginApply, BeginScan, Blank, WorldTypes, Rows
  <2>5. CASE Check(p)  BY <2>5 DEF Check
  <2>6. CASE OpenReceipt(p)  BY <2>6 DEF OpenReceipt
  <2> QED
    BY <1>2, <2>1, <2>2, <2>3, <2>4, <2>5, <2>6 DEF Before
<1>3. ASSUME NEW p \in Runs, EachFile(p) PROVE ScanTypes'
  <2>1. CASE Take(p)  BY <2>1 DEF Take
  <2>2. CASE TakeUp(p)  BY <2>2 DEF TakeUp
  <2>3. CASE OpenParent(p)  BY <2>3 DEF OpenParent
  <2>4. CASE MakeDirectory(p)  BY <2>4 DEF MakeDirectory
  <2>5. CASE NoteDirectory(p)  BY <2>5 DEF NoteDirectory
  <2>6. CASE Intend(p)  BY <2>6 DEF Intend
  <2>7. CASE Create(p)  BY <2>7 DEF Create
  <2>8. CASE Write(p)  BY <2>8 DEF Write
  <2>9. CASE NotePartial(p)  BY <2>9 DEF NotePartial
  <2>10. CASE ReadBack(p)  BY <2>10 DEF ReadBack
  <2> QED
    BY <1>3, <2>1, <2>2, <2>3, <2>4, <2>5, <2>6, <2>7, <2>8, <2>9, <2>10 DEF EachFile
<1>4. ASSUME NEW p \in Runs, AtEnd(p) PROVE ScanTypes'
  <2>1. CASE Start(p)  BY <2>1 DEF Start
  <2>2. CASE Verify(p)  BY <2>2 DEF Verify
  <2>3. CASE BeginFinal(p)  BY <2>3 DEF BeginFinal, BeginScan, Blank, WorldTypes, Rows
  <2>4. CASE Complete(p)  BY <2>4 DEF Complete
  <2>5. CASE Completed(p)  BY <2>5 DEF Completed
  <2>6. CASE NoteFailure(p)  BY <2>6 DEF NoteFailure
  <2> QED
    BY <1>4, <2>1, <2>2, <2>3, <2>4, <2>5, <2>6 DEF AtEnd
<1>5. ASSUME NEW p \in Runs, Failure(p) PROVE ScanTypes'
  <2>1. CASE WriteFails(p)  BY <2>1 DEF WriteFails
  <2>2. CASE NoteFails(p)  BY <2>2 DEF NoteFails
  <2>3. CASE CallFails(p)  BY <2>3 DEF CallFails
  <2>4. CASE PlanFails(p)  BY <2>4 DEF PlanFails
  <2>5. CASE Crash(p)  BY <2>5 DEF Crash
  <2> QED
    BY <1>5, <2>1, <2>2, <2>3, <2>4, <2>5 DEF Failure
<1>6. CASE People
  <2>1. ASSUME NEW f \in Files, EditFile(f) PROVE ScanTypes'
    BY <2>1 DEF EditFile
  <2>2. ASSUME NEW f \in Files, ChangeKit(f) PROVE ScanTypes'
    BY <2>2 DEF ChangeKit
  <2>3. CASE AddExtra  BY <2>3 DEF AddExtra
  <2>4. CASE MoveHead  BY <2>4 DEF MoveHead
  <2> QED
    BY <1>6, <2>1, <2>2, <2>3, <2>4 DEF People
<1> QED
  BY <1>1, <1>2, <1>3, <1>4, <1>5, <1>6 DEF Next

LEMMA ControlNext == SetupTypes /\ [Next]_vars => ControlTypes'
<1> SUFFICES ASSUME SetupTypes, [Next]_vars
             PROVE  ControlTypes'
  OBVIOUS
<1> USE DEF SetupTypes, ControlTypes, choice, Goto, Places, Early, Taken
<1>1. CASE UNCHANGED vars
  BY <1>1 DEF vars
<1>2. ASSUME NEW p \in Runs, Before(p) PROVE ControlTypes'
  <2>1. CASE BeginPlan(p)  BY <2>1 DEF BeginPlan
  <2>2. CASE ScanRow(p)  BY <2>2 DEF ScanRow
  <2>3. CASE Planned(p)  BY <2>3 DEF Planned
  <2>4. CASE BeginApply(p)  BY <2>4 DEF BeginApply
  <2>5. CASE Check(p)  BY <2>5 DEF Check
  <2>6. CASE OpenReceipt(p)  BY <2>6 DEF OpenReceipt
  <2> QED
    BY <1>2, <2>1, <2>2, <2>3, <2>4, <2>5, <2>6 DEF Before
<1>3. ASSUME NEW p \in Runs, EachFile(p) PROVE ControlTypes'
  <2>1. CASE Take(p)  BY <2>1 DEF Take
  <2>2. CASE TakeUp(p)  BY <2>2 DEF TakeUp
  <2>3. CASE OpenParent(p)  BY <2>3, SetupAssumption DEF OpenParent
  <2>4. CASE MakeDirectory(p)  BY <2>4 DEF MakeDirectory
  <2>5. CASE NoteDirectory(p)  BY <2>5 DEF NoteDirectory
  <2>6. CASE Intend(p)  BY <2>6 DEF Intend
  <2>7. CASE Create(p)  BY <2>7 DEF Create
  <2>8. CASE Write(p)  BY <2>8 DEF Write
  <2>9. CASE NotePartial(p)  BY <2>9 DEF NotePartial
  <2>10. CASE ReadBack(p)  BY <2>10 DEF ReadBack
  <2> QED
    BY <1>3, <2>1, <2>2, <2>3, <2>4, <2>5, <2>6, <2>7, <2>8, <2>9, <2>10 DEF EachFile
<1>4. ASSUME NEW p \in Runs, AtEnd(p) PROVE ControlTypes'
  <2>1. CASE Start(p)  BY <2>1 DEF Start
  <2>2. CASE Verify(p)  BY <2>2 DEF Verify
  <2>3. CASE BeginFinal(p)  BY <2>3 DEF BeginFinal
  <2>4. CASE Complete(p)  BY <2>4 DEF Complete
  <2>5. CASE Completed(p)  BY <2>5 DEF Completed
  <2>6. CASE NoteFailure(p)  BY <2>6 DEF NoteFailure
  <2> QED
    BY <1>4, <2>1, <2>2, <2>3, <2>4, <2>5, <2>6 DEF AtEnd
<1>5. ASSUME NEW p \in Runs, Failure(p) PROVE ControlTypes'
  <2>1. CASE WriteFails(p)  BY <2>1 DEF WriteFails
  <2>2. CASE NoteFails(p)  BY <2>2 DEF NoteFails, Noting
  <2>3. CASE CallFails(p)  BY <2>3 DEF CallFails
  <2>4. CASE PlanFails(p)  BY <2>4 DEF PlanFails
  <2>5. CASE Crash(p)  BY <2>5 DEF Crash
  <2> QED
    BY <1>5, <2>1, <2>2, <2>3, <2>4, <2>5 DEF Failure
<1>6. CASE People
  <2>1. ASSUME NEW f \in Files, EditFile(f) PROVE ControlTypes'
    BY <2>1 DEF EditFile
  <2>2. ASSUME NEW f \in Files, ChangeKit(f) PROVE ControlTypes'
    BY <2>2 DEF ChangeKit
  <2>3. CASE AddExtra  BY <2>3 DEF AddExtra
  <2>4. CASE MoveHead  BY <2>4 DEF MoveHead
  <2> QED
    BY <1>6, <2>1, <2>2, <2>3, <2>4 DEF People
<1> QED
  BY <1>1, <1>2, <1>3, <1>4, <1>5, <1>6 DEF Next

LEMMA ReportNext == SetupTypes /\ [Next]_vars => ReportTypes'
<1> SUFFICES ASSUME SetupTypes, [Next]_vars
             PROVE  ReportTypes'
  OBVIOUS
<1> USE DEF SetupTypes, ReportTypes, Finish, Outcomes
<1>1. CASE UNCHANGED vars
  BY <1>1 DEF vars
<1>2. ASSUME NEW p \in Runs, Before(p) PROVE ReportTypes'
  <2>1. CASE BeginPlan(p)  BY <2>1 DEF BeginPlan
  <2>2. CASE ScanRow(p)  BY <2>2 DEF ScanRow
  <2>3. CASE Planned(p)  BY <2>3 DEF Planned
  <2>4. CASE BeginApply(p)  BY <2>4 DEF BeginApply
  <2>5. CASE Check(p)  BY <2>5 DEF Check
  <2>6. CASE OpenReceipt(p)  BY <2>6 DEF OpenReceipt
  <2> QED
    BY <1>2, <2>1, <2>2, <2>3, <2>4, <2>5, <2>6 DEF Before
<1>3. ASSUME NEW p \in Runs, EachFile(p) PROVE ReportTypes'
  <2>1. CASE Take(p)  BY <2>1 DEF Take
  <2>2. CASE TakeUp(p)
    <3>1. at[p] \in Files \cup Dirs \cup {Root} /\ "IDENTICAL" \in States
      BY <2>2, SetupAssumption DEF ControlTypes, Goto, Taken, States, TakeUp
    <3>2. noted' \in [Runs -> SUBSET Lines]
      BY <2>2, <3>1, Noted DEF TakeUp
    <3> QED
      BY <2>2, <3>2 DEF TakeUp
  <2>3. CASE OpenParent(p)
    <3>1. Parent[at[p]] \in Files \cup Dirs \cup {Root} /\ "PENDING_DIRECTORY" \in States
      BY <2>3, SetupAssumption DEF ControlTypes, Goto, Taken, States, OpenParent
    <3>2. noted' \in [Runs -> SUBSET Lines]
      BY <2>3, <3>1, Noted DEF OpenParent
    <3> QED
      BY <2>3, <3>2 DEF OpenParent
  <2>4. CASE MakeDirectory(p)  BY <2>4 DEF MakeDirectory
  <2>5. CASE NoteDirectory(p)
    <3>1. Parent[at[p]] \in Files \cup Dirs \cup {Root}
      BY <2>5 DEF ControlTypes, Goto, NoteDirectory
    <3>2. PICK state \in {"CREATED_DIRECTORY", "EXISTING_DIRECTORY"} : Note(p, Parent[at[p]], state)
      BY <2>5 DEF NoteDirectory
    <3>3. state \in States
      BY DEF States
    <3>4. noted' \in [Runs -> SUBSET Lines]
      BY <3>1, <3>2, <3>3, Noted
    <3> QED
      BY <2>5, <3>4 DEF NoteDirectory
  <2>6. CASE Intend(p)
    <3>1. at[p] \in Files \cup Dirs \cup {Root} /\ "PENDING_FILE" \in States
      BY <2>6, SetupAssumption DEF ControlTypes, Goto, Taken, States, Intend
    <3>2. noted' \in [Runs -> SUBSET Lines]
      BY <2>6, <3>1, Noted DEF Intend
    <3> QED
      BY <2>6, <3>2 DEF Intend
  <2>7. CASE Create(p)  BY <2>7 DEF Create
  <2>8. CASE Write(p)  BY <2>8 DEF Write
  <2>9. CASE NotePartial(p)
    <3>1. at[p] \in Files \cup Dirs \cup {Root} /\ "PARTIAL_FILE" \in States
      BY <2>9, SetupAssumption DEF ControlTypes, Goto, Taken, States, NotePartial
    <3>2. noted' \in [Runs -> SUBSET Lines]
      BY <2>9, <3>1, Noted DEF NotePartial
    <3> QED
      BY <2>9, <3>2 DEF NotePartial
  <2>10. CASE ReadBack(p)
    <3>1. at[p] \in Files \cup Dirs \cup {Root} /\ "CREATED_FILE" \in States
      BY <2>10, SetupAssumption DEF ControlTypes, Goto, Taken, States, ReadBack
    <3>2. noted' \in [Runs -> SUBSET Lines]
      BY <2>10, <3>1, Noted DEF ReadBack
    <3> QED
      BY <2>10, <3>2 DEF ReadBack
  <2> QED
    BY <1>3, <2>1, <2>2, <2>3, <2>4, <2>5, <2>6, <2>7, <2>8, <2>9, <2>10 DEF EachFile
<1>4. ASSUME NEW p \in Runs, AtEnd(p) PROVE ReportTypes'
  <2>1. CASE Start(p)
    <3>1. Root \in Files \cup Dirs \cup {Root} /\ "STARTED" \in States
      BY <2>1, SetupAssumption DEF ControlTypes, Goto, Taken, States, Start
    <3>2. noted' \in [Runs -> SUBSET Lines]
      BY <2>1, <3>1, Noted DEF Start
    <3> QED
      BY <2>1, <3>2 DEF Start
  <2>2. CASE Verify(p)  BY <2>2 DEF Verify
  <2>3. CASE BeginFinal(p)  BY <2>3 DEF BeginFinal
  <2>4. CASE Complete(p)  BY <2>4 DEF Complete
  <2>5. CASE Completed(p)
    <3>1. Root \in Files \cup Dirs \cup {Root} /\ "COMPLETED" \in States
      BY <2>5, SetupAssumption DEF ControlTypes, Goto, Taken, States, Completed
    <3>2. noted' \in [Runs -> SUBSET Lines]
      BY <2>5, <3>1, Noted DEF Completed
    <3> QED
      BY <2>5, <3>2 DEF Completed
  <2>6. CASE NoteFailure(p)
    <3>1. Root \in Files \cup Dirs \cup {Root} /\ "FAILED" \in States
      BY <2>6, SetupAssumption DEF ControlTypes, Goto, Taken, States, NoteFailure
    <3>2. noted' \in [Runs -> SUBSET Lines]
      BY <2>6, <3>1, Noted DEF NoteFailure
    <3> QED
      BY <2>6, <3>2 DEF NoteFailure
  <2> QED
    BY <1>4, <2>1, <2>2, <2>3, <2>4, <2>5, <2>6 DEF AtEnd
<1>5. ASSUME NEW p \in Runs, Failure(p) PROVE ReportTypes'
  <2>1. CASE WriteFails(p)  BY <2>1 DEF WriteFails
  <2>2. CASE NoteFails(p)  BY <2>2 DEF NoteFails
  <2>3. CASE CallFails(p)  BY <2>3 DEF CallFails
  <2>4. CASE PlanFails(p)  BY <2>4 DEF PlanFails
  <2>5. CASE Crash(p)  BY <2>5 DEF Crash
  <2> QED
    BY <1>5, <2>1, <2>2, <2>3, <2>4, <2>5 DEF Failure
<1>6. CASE People
  <2>1. ASSUME NEW f \in Files, EditFile(f) PROVE ReportTypes'
    BY <2>1 DEF EditFile
  <2>2. ASSUME NEW f \in Files, ChangeKit(f) PROVE ReportTypes'
    BY <2>2 DEF ChangeKit
  <2>3. CASE AddExtra  BY <2>3 DEF AddExtra
  <2>4. CASE MoveHead  BY <2>4 DEF MoveHead
  <2> QED
    BY <1>6, <2>1, <2>2, <2>3, <2>4 DEF People
<1> QED
  BY <1>1, <1>2, <1>3, <1>4, <1>5, <1>6 DEF Next

\* A step changes neither a plan that was reviewed, nor a selection that was checked; and
\* before the receipt there is no line.
EarlyStep(q) ==
    /\ plan'[q] # plan[q] => pc[q] \in {"idle", "plan"}
    /\ selected'[q] # selected[q] => pc[q] = "planned"
    /\ pc'[q] \in Early => pc[q] \in Early /\ noted'[q] = noted[q]
    /\ pc'[q] = "verify" => pc[q] \in Early \cup {"verify"}
    /\ noted[q] \subseteq noted'[q]

LEMMA EarlySteps == SetupTypes /\ [Next]_vars => \A q \in Runs : EarlyStep(q)
<1> SUFFICES ASSUME SetupTypes, [Next]_vars, NEW q \in Runs
             PROVE  EarlyStep(q)
  OBVIOUS
<1> USE DEF SetupTypes, ScanTypes, ControlTypes, ReportTypes, choice, Goto, Early, EarlyStep
<1>1. CASE UNCHANGED vars
  BY <1>1 DEF vars
<1>2. ASSUME NEW p \in Runs, Before(p) PROVE EarlyStep(q)
  <2>1. CASE BeginPlan(p)  BY <2>1 DEF BeginPlan
  <2>2. CASE ScanRow(p)  BY <2>2 DEF ScanRow
  <2>3. CASE Planned(p)  BY <2>3 DEF Planned
  <2>4. CASE BeginApply(p)  BY <2>4 DEF BeginApply
  <2>5. CASE Check(p)  BY <2>5 DEF Check
  <2>6. CASE OpenReceipt(p)  BY <2>6 DEF OpenReceipt
  <2> QED
    BY <1>2, <2>1, <2>2, <2>3, <2>4, <2>5, <2>6 DEF Before
<1>3. ASSUME NEW p \in Runs, EachFile(p) PROVE EarlyStep(q)
  <2>1. CASE Take(p)  BY <2>1 DEF Take
  <2>2. CASE TakeUp(p)  BY <2>2 DEF TakeUp, Note
  <2>3. CASE OpenParent(p)  BY <2>3 DEF OpenParent, Note
  <2>4. CASE MakeDirectory(p)  BY <2>4 DEF MakeDirectory
  <2>5. CASE NoteDirectory(p)  BY <2>5 DEF NoteDirectory, Note
  <2>6. CASE Intend(p)  BY <2>6 DEF Intend, Note
  <2>7. CASE Create(p)  BY <2>7 DEF Create
  <2>8. CASE Write(p)  BY <2>8 DEF Write
  <2>9. CASE NotePartial(p)  BY <2>9 DEF NotePartial, Note
  <2>10. CASE ReadBack(p)  BY <2>10 DEF ReadBack, Note
  <2> QED
    BY <1>3, <2>1, <2>2, <2>3, <2>4, <2>5, <2>6, <2>7, <2>8, <2>9, <2>10 DEF EachFile
<1>4. ASSUME NEW p \in Runs, AtEnd(p) PROVE EarlyStep(q)
  <2>1. CASE Start(p)  BY <2>1 DEF Start, Note
  <2>2. CASE Verify(p)  BY <2>2 DEF Verify
  <2>3. CASE BeginFinal(p)  BY <2>3 DEF BeginFinal
  <2>4. CASE Complete(p)  BY <2>4 DEF Complete
  <2>5. CASE Completed(p)  BY <2>5 DEF Completed, Note
  <2>6. CASE NoteFailure(p)  BY <2>6 DEF NoteFailure, Note
  <2> QED
    BY <1>4, <2>1, <2>2, <2>3, <2>4, <2>5, <2>6 DEF AtEnd
<1>5. ASSUME NEW p \in Runs, Failure(p) PROVE EarlyStep(q)
  <2>1. CASE WriteFails(p)  BY <2>1 DEF WriteFails
  <2>2. CASE NoteFails(p)  BY <2>2 DEF NoteFails, Noting
  <2>3. CASE CallFails(p)  BY <2>3 DEF CallFails
  <2>4. CASE PlanFails(p)  BY <2>4 DEF PlanFails
  <2>5. CASE Crash(p)  BY <2>5 DEF Crash
  <2> QED
    BY <1>5, <2>1, <2>2, <2>3, <2>4, <2>5 DEF Failure
<1>6. CASE People
  <2>1. ASSUME NEW f \in Files, EditFile(f) PROVE EarlyStep(q)
    BY <2>1 DEF EditFile
  <2>2. ASSUME NEW f \in Files, ChangeKit(f) PROVE EarlyStep(q)
    BY <2>2 DEF ChangeKit
  <2>3. CASE AddExtra  BY <2>3 DEF AddExtra
  <2>4. CASE MoveHead  BY <2>4 DEF MoveHead
  <2> QED
    BY <1>6, <2>1, <2>2, <2>3, <2>4 DEF People
<1> QED
  BY <1>1, <1>2, <1>3, <1>4, <1>5, <1>6 DEF Next

\* What a run has made is a file that was missing, or a directory it has announced.
MadeStep(x) ==
    \/ made'[x] = made[x]
    \/ made'[x] = Root /\ x \in touched'
    \/ \E p \in Runs :
          /\ made'[x] = p
          /\ \/ /\ pc[p] = "create" /\ pc'[p] = "write" /\ at[p] = x /\ x \in Files
                /\ target[x] = Missing /\ target'[x] = Partial
             \/ pc[p] = "mkdir" /\ Parent[at[p]] = x /\ x \in Dirs

LEMMA MadeSteps == SetupTypes /\ [Next]_vars => \A x \in Files \cup Dirs : MadeStep(x)
<1> SUFFICES ASSUME SetupTypes, [Next]_vars
             PROVE  \A x \in Files \cup Dirs : MadeStep(x)
  OBVIOUS
<1> USE DEF SetupTypes, WorldTypes, ControlTypes, work, people, Goto, Taken, MadeStep
<1>1. CASE UNCHANGED vars
  BY <1>1 DEF vars
<1>2. ASSUME NEW p \in Runs, Before(p) PROVE \A x \in Files \cup Dirs : MadeStep(x)
  <2>1. CASE BeginPlan(p)  BY <2>1 DEF BeginPlan
  <2>2. CASE ScanRow(p)  BY <2>2 DEF ScanRow
  <2>3. CASE Planned(p)  BY <2>3 DEF Planned
  <2>4. CASE BeginApply(p)  BY <2>4 DEF BeginApply
  <2>5. CASE Check(p)  BY <2>5 DEF Check
  <2>6. CASE OpenReceipt(p)  BY <2>6 DEF OpenReceipt
  <2> QED
    BY <1>2, <2>1, <2>2, <2>3, <2>4, <2>5, <2>6 DEF Before
<1>3. ASSUME NEW p \in Runs, EachFile(p) PROVE \A x \in Files \cup Dirs : MadeStep(x)
  <2>1. CASE Take(p)  BY <2>1 DEF Take
  <2>2. CASE TakeUp(p)  BY <2>2 DEF TakeUp
  <2>3. CASE OpenParent(p)  BY <2>3 DEF OpenParent
  <2>4. CASE MakeDirectory(p)  BY <2>4 DEF MakeDirectory
  <2>5. CASE NoteDirectory(p)  BY <2>5 DEF NoteDirectory
  <2>6. CASE Intend(p)  BY <2>6 DEF Intend
  <2>7. CASE Create(p)  BY <2>7 DEF Create, Exclusive
  <2>8. CASE Write(p)  BY <2>8 DEF Write
  <2>9. CASE NotePartial(p)  BY <2>9 DEF NotePartial
  <2>10. CASE ReadBack(p)  BY <2>10 DEF ReadBack
  <2> QED
    BY <1>3, <2>1, <2>2, <2>3, <2>4, <2>5, <2>6, <2>7, <2>8, <2>9, <2>10 DEF EachFile
<1>4. ASSUME NEW p \in Runs, AtEnd(p) PROVE \A x \in Files \cup Dirs : MadeStep(x)
  <2>1. CASE Start(p)  BY <2>1 DEF Start
  <2>2. CASE Verify(p)  BY <2>2 DEF Verify
  <2>3. CASE BeginFinal(p)  BY <2>3 DEF BeginFinal
  <2>4. CASE Complete(p)  BY <2>4 DEF Complete
  <2>5. CASE Completed(p)  BY <2>5 DEF Completed
  <2>6. CASE NoteFailure(p)  BY <2>6 DEF NoteFailure
  <2> QED
    BY <1>4, <2>1, <2>2, <2>3, <2>4, <2>5, <2>6 DEF AtEnd
<1>5. ASSUME NEW p \in Runs, Failure(p) PROVE \A x \in Files \cup Dirs : MadeStep(x)
  <2>1. CASE WriteFails(p)  BY <2>1 DEF WriteFails
  <2>2. CASE NoteFails(p)  BY <2>2 DEF NoteFails
  <2>3. CASE CallFails(p)  BY <2>3 DEF CallFails
  <2>4. CASE PlanFails(p)  BY <2>4 DEF PlanFails
  <2>5. CASE Crash(p)  BY <2>5 DEF Crash
  <2> QED
    BY <1>5, <2>1, <2>2, <2>3, <2>4, <2>5 DEF Failure
<1>6. CASE People
  <2>1. ASSUME NEW f \in Files, EditFile(f) PROVE \A x \in Files \cup Dirs : MadeStep(x)
    BY <2>1 DEF EditFile
  <2>2. ASSUME NEW f \in Files, ChangeKit(f) PROVE \A x \in Files \cup Dirs : MadeStep(x)
    BY <2>2 DEF ChangeKit
  <2>3. CASE AddExtra  BY <2>3 DEF AddExtra
  <2>4. CASE MoveHead  BY <2>4 DEF MoveHead
  <2> QED
    BY <1>6, <2>1, <2>2, <2>3, <2>4 DEF People
<1> QED
  BY <1>1, <1>2, <1>3, <1>4, <1>5, <1>6 DEF Next

\* A destination changes under its people's hands, when it is created, and when who created
\* it writes it.
TargetStep(f) ==
    /\ f \in touched => f \in touched'
    /\ \/ target'[f] = target[f]
       \/ f \in touched' /\ made'[f] = Root /\ target'[f] \in {Missing, Foreign, Blocked} /\ edits' # edits
       \/ \E p \in Runs : pc[p] = "create" /\ at[p] = f /\ target[f] = Missing
                          /\ target'[f] = Partial /\ made'[f] = p
       \/ \E p \in Runs : pc[p] = "write" /\ at[p] = f /\ made[f] = p
                          /\ target'[f] = base[p][f] /\ made'[f] = p

LEMMA TargetSteps == SetupTypes /\ [Next]_vars => \A f \in Files : TargetStep(f)
<1> SUFFICES ASSUME SetupTypes, [Next]_vars
             PROVE  \A f \in Files : TargetStep(f)
  OBVIOUS
<1> USE DEF SetupTypes, WorldTypes, ControlTypes, work, people, Goto, Taken, TargetStep
<1>1. CASE UNCHANGED vars
  BY <1>1 DEF vars
<1>2. ASSUME NEW p \in Runs, Before(p) PROVE \A f \in Files : TargetStep(f)
  <2>1. CASE BeginPlan(p)  BY <2>1 DEF BeginPlan
  <2>2. CASE ScanRow(p)  BY <2>2 DEF ScanRow
  <2>3. CASE Planned(p)  BY <2>3 DEF Planned
  <2>4. CASE BeginApply(p)  BY <2>4 DEF BeginApply
  <2>5. CASE Check(p)  BY <2>5 DEF Check
  <2>6. CASE OpenReceipt(p)  BY <2>6 DEF OpenReceipt
  <2> QED
    BY <1>2, <2>1, <2>2, <2>3, <2>4, <2>5, <2>6 DEF Before
<1>3. ASSUME NEW p \in Runs, EachFile(p) PROVE \A f \in Files : TargetStep(f)
  <2>1. CASE Take(p)  BY <2>1 DEF Take
  <2>2. CASE TakeUp(p)  BY <2>2 DEF TakeUp
  <2>3. CASE OpenParent(p)  BY <2>3 DEF OpenParent
  <2>4. CASE MakeDirectory(p)  BY <2>4 DEF MakeDirectory
  <2>5. CASE NoteDirectory(p)  BY <2>5 DEF NoteDirectory
  <2>6. CASE Intend(p)  BY <2>6 DEF Intend
  <2>7. CASE Create(p)  BY <2>7 DEF Create, Exclusive
  <2>8. CASE Write(p)  BY <2>8 DEF Write, Written
  <2>9. CASE NotePartial(p)  BY <2>9 DEF NotePartial
  <2>10. CASE ReadBack(p)  BY <2>10 DEF ReadBack
  <2> QED
    BY <1>3, <2>1, <2>2, <2>3, <2>4, <2>5, <2>6, <2>7, <2>8, <2>9, <2>10 DEF EachFile
<1>4. ASSUME NEW p \in Runs, AtEnd(p) PROVE \A f \in Files : TargetStep(f)
  <2>1. CASE Start(p)  BY <2>1 DEF Start
  <2>2. CASE Verify(p)  BY <2>2 DEF Verify
  <2>3. CASE BeginFinal(p)  BY <2>3 DEF BeginFinal
  <2>4. CASE Complete(p)  BY <2>4 DEF Complete
  <2>5. CASE Completed(p)  BY <2>5 DEF Completed
  <2>6. CASE NoteFailure(p)  BY <2>6 DEF NoteFailure
  <2> QED
    BY <1>4, <2>1, <2>2, <2>3, <2>4, <2>5, <2>6 DEF AtEnd
<1>5. ASSUME NEW p \in Runs, Failure(p) PROVE \A f \in Files : TargetStep(f)
  <2>1. CASE WriteFails(p)  BY <2>1 DEF WriteFails, Written
  <2>2. CASE NoteFails(p)  BY <2>2 DEF NoteFails
  <2>3. CASE CallFails(p)  BY <2>3 DEF CallFails
  <2>4. CASE PlanFails(p)  BY <2>4 DEF PlanFails
  <2>5. CASE Crash(p)  BY <2>5 DEF Crash
  <2> QED
    BY <1>5, <2>1, <2>2, <2>3, <2>4, <2>5 DEF Failure
<1>6. CASE People
  <2>1. ASSUME NEW f \in Files, EditFile(f) PROVE \A g \in Files : TargetStep(g)
    BY <2>1 DEF EditFile, Edit
  <2>2. ASSUME NEW f \in Files, ChangeKit(f) PROVE \A g \in Files : TargetStep(g)
    BY <2>2 DEF ChangeKit
  <2>3. CASE AddExtra  BY <2>3 DEF AddExtra
  <2>4. CASE MoveHead  BY <2>4 DEF MoveHead
  <2> QED
    BY <1>6, <2>1, <2>2, <2>3, <2>4 DEF People
<1> QED
  BY <1>1, <1>2, <1>3, <1>4, <1>5, <1>6 DEF Next

\* From the check of the selection on, a run holds the sources of its plan.
Based(p) == pc[p] \in {"check", "open", "start", "verify", "next"} \cup Taken => base[p] = plan[p].kit

LEMMA BasedNext ==
    SetupTypes /\ (\A q \in Runs : Based(q)) /\ [Next]_vars
    => \A q \in Runs : Based(q)'
<1> SUFFICES ASSUME SetupTypes, \A r \in Runs : Based(r), [Next]_vars, NEW q \in Runs
             PROVE  Based(q)'
  OBVIOUS
<1> USE DEF SetupTypes, ScanTypes, ControlTypes, choice, people, Goto, Taken, Based
<1>1. CASE UNCHANGED vars
  BY <1>1 DEF vars
<1>2. ASSUME NEW p \in Runs, Before(p) PROVE Based(q)'
  <2>1. CASE BeginPlan(p)  BY <2>1 DEF BeginPlan, BeginScan
  <2>2. CASE ScanRow(p)  BY <2>2 DEF ScanRow
  <2>3. CASE Planned(p)  BY <2>3 DEF Planned, Plans
  <2>4. CASE BeginApply(p)  BY <2>4 DEF BeginApply, BeginScan, Reviewed, Plans
  <2>5. CASE Check(p)  BY <2>5 DEF Check
  <2>6. CASE OpenReceipt(p)  BY <2>6 DEF OpenReceipt
  <2> QED
    BY <1>2, <2>1, <2>2, <2>3, <2>4, <2>5, <2>6 DEF Before
<1>3. ASSUME NEW p \in Runs, EachFile(p) PROVE Based(q)'
  <2>1. CASE Take(p)  BY <2>1 DEF Take
  <2>2. CASE TakeUp(p)  BY <2>2 DEF TakeUp
  <2>3. CASE OpenParent(p)  BY <2>3 DEF OpenParent
  <2>4. CASE MakeDirectory(p)  BY <2>4 DEF MakeDirectory
  <2>5. CASE NoteDirectory(p)  BY <2>5 DEF NoteDirectory
  <2>6. CASE Intend(p)  BY <2>6 DEF Intend
  <2>7. CASE Create(p)  BY <2>7 DEF Create
  <2>8. CASE Write(p)  BY <2>8 DEF Write
  <2>9. CASE NotePartial(p)  BY <2>9 DEF NotePartial
  <2>10. CASE ReadBack(p)  BY <2>10 DEF ReadBack
  <2> QED
    BY <1>3, <2>1, <2>2, <2>3, <2>4, <2>5, <2>6, <2>7, <2>8, <2>9, <2>10 DEF EachFile
<1>4. ASSUME NEW p \in Runs, AtEnd(p) PROVE Based(q)'
  <2>1. CASE Start(p)  BY <2>1 DEF Start
  <2>2. CASE Verify(p)  BY <2>2 DEF Verify
  <2>3. CASE BeginFinal(p)  BY <2>3 DEF BeginFinal, BeginScan
  <2>4. CASE Complete(p)  BY <2>4 DEF Complete
  <2>5. CASE Completed(p)  BY <2>5 DEF Completed
  <2>6. CASE NoteFailure(p)  BY <2>6 DEF NoteFailure
  <2> QED
    BY <1>4, <2>1, <2>2, <2>3, <2>4, <2>5, <2>6 DEF AtEnd
<1>5. ASSUME NEW p \in Runs, Failure(p) PROVE Based(q)'
  <2>1. CASE WriteFails(p)  BY <2>1 DEF WriteFails
  <2>2. CASE NoteFails(p)  BY <2>2 DEF NoteFails, Noting
  <2>3. CASE CallFails(p)  BY <2>3 DEF CallFails
  <2>4. CASE PlanFails(p)  BY <2>4 DEF PlanFails
  <2>5. CASE Crash(p)  BY <2>5 DEF Crash
  <2> QED
    BY <1>5, <2>1, <2>2, <2>3, <2>4, <2>5 DEF Failure
<1>6. CASE People
  <2>1. ASSUME NEW f \in Files, EditFile(f) PROVE Based(q)'
    BY <2>1 DEF EditFile
  <2>2. ASSUME NEW f \in Files, ChangeKit(f) PROVE Based(q)'
    BY <2>2 DEF ChangeKit
  <2>3. CASE AddExtra  BY <2>3 DEF AddExtra
  <2>4. CASE MoveHead  BY <2>4 DEF MoveHead
  <2> QED
    BY <1>6, <2>1, <2>2, <2>3, <2>4 DEF People
<1> QED
  BY <1>1, <1>2, <1>3, <1>4, <1>5, <1>6 DEF Next

\* Before its receipt a run has made nothing.
Fresh(p) ==
    /\ pc[p] \in Early \cup {"verify"} => \A x \in Files \cup Dirs : made[x] # p
    /\ pc[p] \in Early => noted[p] = {}

LEMMA FreshNext ==
    SetupTypes /\ (\A q \in Runs : Fresh(q)) /\ [Next]_vars
    => \A q \in Runs : Fresh(q)'
<1> SUFFICES ASSUME SetupTypes, \A r \in Runs : Fresh(r), [Next]_vars, NEW q \in Runs
             PROVE  Fresh(q)'
  OBVIOUS
<1>1. EarlyStep(q)
  BY EarlySteps
<1>2. ASSUME pc'[q] \in Early \cup {"verify"}, NEW x \in Files \cup Dirs, made'[x] = q PROVE FALSE
  <2>1. pc[q] \in Early \cup {"verify"}
    BY <1>1, <1>2 DEF EarlyStep
  <2>2. made[x] # q /\ Root \notin Runs
    BY <2>1, SetupAssumption DEF Fresh
  <2>3. MadeStep(x)
    BY MadeSteps
  <2>4. pc[q] \notin {"create", "mkdir"}
    BY <2>1 DEF Early
  <2> QED
    BY <1>2, <2>2, <2>3, <2>4 DEF MadeStep
<1>3. pc'[q] \in Early => noted'[q] = {}
  BY <1>1 DEF EarlyStep, Fresh
<1> QED
  BY <1>2, <1>3 DEF Fresh

\* What a run has created is half-written or what its plan says.
Owned(p) == \A f \in Files : made[f] = p => target[f] \in {Partial, plan[p].kit[f]}

LEMMA OwnedNext ==
    SetupTypes /\ (\A q \in Runs : Fresh(q) /\ Based(q) /\ Owned(q)) /\ [Next]_vars
    => \A q \in Runs : Owned(q)'
<1> SUFFICES ASSUME SetupTypes, \A r \in Runs : Fresh(r) /\ Based(r) /\ Owned(r), [Next]_vars,
                    NEW q \in Runs, NEW f \in Files, made'[f] = q
             PROVE  target'[f] \in {Partial, plan'[q].kit[f]}
  BY DEF Owned
<1>1. TargetStep(f) /\ MadeStep(f) /\ EarlyStep(q) /\ Root \notin Runs /\ f \notin Dirs
  BY TargetSteps, MadeSteps, EarlySteps, SetupAssumption
<1>2. CASE made[f] = q
  <2>1. plan'[q] = plan[q]
    BY <1>1, <1>2 DEF EarlyStep, Fresh, Early
  <2>2. target[f] \in {Partial, plan[q].kit[f]}
    BY <1>2 DEF Owned
  <2>3. pc[q] = "write" => base[q] = plan[q].kit
    BY DEF Based, Taken
  <2> QED
    BY <1>1, <2>1, <2>2, <2>3 DEF TargetStep
<1>3. CASE made[f] # q
  BY <1>1, <1>3 DEF MadeStep
<1> QED
  BY <1>2, <1>3

\* A version at a destination stays until people touch it: runs create what is missing, and
\* write what they have created with the version of their plan.
LEMMA VersionStays ==
    ASSUME SetupTypes, \A r \in Runs : Based(r) /\ Owned(r), [Next]_vars,
           NEW f \in Files, f \notin touched', target[f] \in Nat
    PROVE  f \notin touched /\ target'[f] = target[f]
<1>1. TargetStep(f)
  BY TargetSteps
<1>2. ASSUME NEW p \in Runs, pc[p] = "write", made[f] = p PROVE base[p][f] = target[f]
  <2>1. base[p] = plan[p].kit
    BY <1>2 DEF Based, Taken
  <2>2. target[f] \in {Partial, plan[p].kit[f]}
    BY <1>2 DEF Owned
  <2> QED
    BY <2>1, <2>2, FourContents
<1> QED
  BY <1>1, <1>2, FourContents DEF TargetStep

\* A run about to use a directory or a destination has announced it.
Announced(p) ==
    /\ pc[p] \in {"mkdir", "dirnote"} => <<Parent[at[p]], "PENDING_DIRECTORY">> \in noted[p]
    /\ pc[p] \in {"create", "write", "partial", "readback"} => <<at[p], "PENDING_FILE">> \in noted[p]

LEMMA AnnouncedNext ==
    SetupTypes /\ (\A q \in Runs : Announced(q)) /\ [Next]_vars
    => \A q \in Runs : Announced(q)'
<1> SUFFICES ASSUME SetupTypes, \A r \in Runs : Announced(r), [Next]_vars, NEW q \in Runs
             PROVE  Announced(q)'
  OBVIOUS
<1> USE DEF SetupTypes, ControlTypes, ReportTypes, Goto, Note, Announced
<1>1. CASE UNCHANGED vars
  BY <1>1 DEF vars
<1>2. ASSUME NEW p \in Runs, Before(p) PROVE Announced(q)'
  <2>1. CASE BeginPlan(p)  BY <2>1 DEF BeginPlan
  <2>2. CASE ScanRow(p)  BY <2>2 DEF ScanRow
  <2>3. CASE Planned(p)  BY <2>3 DEF Planned
  <2>4. CASE BeginApply(p)  BY <2>4 DEF BeginApply
  <2>5. CASE Check(p)  BY <2>5 DEF Check
  <2>6. CASE OpenReceipt(p)  BY <2>6 DEF OpenReceipt
  <2> QED
    BY <1>2, <2>1, <2>2, <2>3, <2>4, <2>5, <2>6 DEF Before
<1>3. ASSUME NEW p \in Runs, EachFile(p) PROVE Announced(q)'
  <2>1. CASE Take(p)  BY <2>1 DEF Take
  <2>2. CASE TakeUp(p)  BY <2>2 DEF TakeUp
  <2>3. CASE OpenParent(p)  BY <2>3 DEF OpenParent
  <2>4. CASE MakeDirectory(p)  BY <2>4 DEF MakeDirectory
  <2>5. CASE NoteDirectory(p)  BY <2>5 DEF NoteDirectory
  <2>6. CASE Intend(p)  BY <2>6 DEF Intend
  <2>7. CASE Create(p)  BY <2>7 DEF Create
  <2>8. CASE Write(p)  BY <2>8 DEF Write
  <2>9. CASE NotePartial(p)  BY <2>9 DEF NotePartial
  <2>10. CASE ReadBack(p)  BY <2>10 DEF ReadBack
  <2> QED
    BY <1>3, <2>1, <2>2, <2>3, <2>4, <2>5, <2>6, <2>7, <2>8, <2>9, <2>10 DEF EachFile
<1>4. ASSUME NEW p \in Runs, AtEnd(p) PROVE Announced(q)'
  <2>1. CASE Start(p)  BY <2>1 DEF Start
  <2>2. CASE Verify(p)  BY <2>2 DEF Verify
  <2>3. CASE BeginFinal(p)  BY <2>3 DEF BeginFinal
  <2>4. CASE Complete(p)  BY <2>4 DEF Complete
  <2>5. CASE Completed(p)  BY <2>5 DEF Completed
  <2>6. CASE NoteFailure(p)  BY <2>6 DEF NoteFailure
  <2> QED
    BY <1>4, <2>1, <2>2, <2>3, <2>4, <2>5, <2>6 DEF AtEnd
<1>5. ASSUME NEW p \in Runs, Failure(p) PROVE Announced(q)'
  <2>1. CASE WriteFails(p)  BY <2>1 DEF WriteFails
  <2>2. CASE NoteFails(p)  BY <2>2 DEF NoteFails, Noting
  <2>3. CASE CallFails(p)  BY <2>3 DEF CallFails
  <2>4. CASE PlanFails(p)  BY <2>4 DEF PlanFails
  <2>5. CASE Crash(p)  BY <2>5 DEF Crash
  <2> QED
    BY <1>5, <2>1, <2>2, <2>3, <2>4, <2>5 DEF Failure
<1>6. CASE People
  <2>1. ASSUME NEW f \in Files, EditFile(f) PROVE Announced(q)'
    BY <2>1 DEF EditFile
  <2>2. ASSUME NEW f \in Files, ChangeKit(f) PROVE Announced(q)'
    BY <2>2 DEF ChangeKit
  <2>3. CASE AddExtra  BY <2>3 DEF AddExtra
  <2>4. CASE MoveHead  BY <2>4 DEF MoveHead
  <2> QED
    BY <1>6, <2>1, <2>2, <2>3, <2>4 DEF People
<1> QED
  BY <1>1, <1>2, <1>3, <1>4, <1>5, <1>6 DEF Next

\* What a step makes was announced by the steps before.
LEMMA CoversNext ==
    SetupTypes /\ (\A q \in Runs : Fresh(q) /\ Announced(q)) /\ ReceiptCovers /\ [Next]_vars
    => ReceiptCovers'
<1> SUFFICES ASSUME SetupTypes, \A r \in Runs : Fresh(r) /\ Announced(r), ReceiptCovers, [Next]_vars,
                    NEW p \in Runs
             PROVE  /\ \A f \in Files : made'[f] = p =>
                          f \in selected'[p] /\ <<f, "PENDING_FILE">> \in noted'[p]
                    /\ \A d \in Dirs : made'[d] = p => <<d, "PENDING_DIRECTORY">> \in noted'[p]
  BY DEF ReceiptCovers
<1>1. EarlyStep(p) /\ Root \notin Runs /\ Dirs \cap Files = {}
  BY EarlySteps, SetupAssumption
<1>2. ASSUME NEW f \in Files, made'[f] = p
      PROVE  f \in selected'[p] /\ <<f, "PENDING_FILE">> \in noted'[p]
  <2>1. f \in selected[p] /\ <<f, "PENDING_FILE">> \in noted[p] /\ pc[p] # "planned"
    <3>1. CASE made[f] = p
      BY <3>1 DEF ReceiptCovers, Fresh, Early
    <3>2. CASE made[f] # p
      <4>1. pc[p] = "create" /\ at[p] = f
        BY <1>1, <1>2, <3>2, MadeSteps DEF MadeStep
      <4> QED
        BY <4>1 DEF SetupTypes, ControlTypes, Taken, Announced
    <3> QED
      BY <3>1, <3>2
  <2> QED
    BY <1>1, <2>1 DEF EarlyStep
<1>3. ASSUME NEW d \in Dirs, made'[d] = p PROVE <<d, "PENDING_DIRECTORY">> \in noted'[p]
  <2>1. CASE made[d] = p
    BY <1>1, <2>1 DEF ReceiptCovers, EarlyStep
  <2>2. CASE made[d] # p
    <3>1. pc[p] = "mkdir" /\ Parent[at[p]] = d
      BY <1>1, <1>3, <2>2, MadeSteps DEF MadeStep
    <3> QED
      BY <1>1, <3>1 DEF Announced, EarlyStep
  <2> QED
    BY <2>1, <2>2
<1> QED
  BY <1>2, <1>3

\* What a run is writing, it has created, unless people took the path from it.
Writing(p) ==
    pc[p] \in {"write", "partial", "readback"} => made[at[p]] = p \/ at[p] \in touched

LEMMA WritingNext ==
    SetupTypes /\ (\A q \in Runs : Owned(q) /\ Writing(q)) /\ [Next]_vars
    => \A q \in Runs : Writing(q)'
<1> SUFFICES ASSUME SetupTypes, \A r \in Runs : Owned(r) /\ Writing(r), [Next]_vars, NEW q \in Runs
             PROVE  Writing(q)'
  OBVIOUS
<1> USE SetupAssumption DEF SetupTypes, WorldTypes, ControlTypes, work, people, Goto, Taken, Writing
<1>1. CASE UNCHANGED vars
  BY <1>1 DEF vars
<1>2. ASSUME NEW p \in Runs, Before(p) PROVE Writing(q)'
  <2>1. CASE BeginPlan(p)  BY <2>1 DEF BeginPlan
  <2>2. CASE ScanRow(p)  BY <2>2 DEF ScanRow
  <2>3. CASE Planned(p)  BY <2>3 DEF Planned
  <2>4. CASE BeginApply(p)  BY <2>4 DEF BeginApply
  <2>5. CASE Check(p)  BY <2>5 DEF Check
  <2>6. CASE OpenReceipt(p)  BY <2>6 DEF OpenReceipt
  <2> QED
    BY <1>2, <2>1, <2>2, <2>3, <2>4, <2>5, <2>6 DEF Before
<1>3. ASSUME NEW p \in Runs, EachFile(p) PROVE Writing(q)'
  <2>1. CASE Take(p)  BY <2>1 DEF Take
  <2>2. CASE TakeUp(p)  BY <2>2 DEF TakeUp
  <2>3. CASE OpenParent(p)  BY <2>3 DEF OpenParent
  <2>4. CASE MakeDirectory(p)  BY <2>4 DEF MakeDirectory
  <2>5. CASE NoteDirectory(p)  BY <2>5 DEF NoteDirectory
  <2>6. CASE Intend(p)  BY <2>6 DEF Intend
  <2>7. CASE Create(p)
    <3>1. CASE p = q
      BY <2>7, <3>1 DEF Create
    <3>2. CASE p # q /\ pc[q] \in {"write", "partial", "readback"}
      <4>1. Root \notin Runs /\ at[q] \in Files
        BY <3>2, SetupAssumption
      <4>2. made[at[q]] = q => target[at[q]] # Missing
        BY <3>2, <4>1, FourContents DEF Owned, ScanTypes, Plans
      <4>3. made'[at[q]] # made[at[q]] => at[q] = at[p] /\ target[at[p]] = Missing
        BY <2>7, <4>1 DEF Create, Exclusive
      <4> QED
        BY <2>7, <3>2, <4>1, <4>2, <4>3 DEF Create
    <3> QED
      BY <2>7, <3>1, <3>2 DEF Create
  <2>8. CASE Write(p)  BY <2>8 DEF Write
  <2>9. CASE NotePartial(p)  BY <2>9 DEF NotePartial
  <2>10. CASE ReadBack(p)  BY <2>10 DEF ReadBack
  <2> QED
    BY <1>3, <2>1, <2>2, <2>3, <2>4, <2>5, <2>6, <2>7, <2>8, <2>9, <2>10 DEF EachFile
<1>4. ASSUME NEW p \in Runs, AtEnd(p) PROVE Writing(q)'
  <2>1. CASE Start(p)  BY <2>1 DEF Start
  <2>2. CASE Verify(p)  BY <2>2 DEF Verify
  <2>3. CASE BeginFinal(p)  BY <2>3 DEF BeginFinal
  <2>4. CASE Complete(p)  BY <2>4 DEF Complete
  <2>5. CASE Completed(p)  BY <2>5 DEF Completed
  <2>6. CASE NoteFailure(p)  BY <2>6 DEF NoteFailure
  <2> QED
    BY <1>4, <2>1, <2>2, <2>3, <2>4, <2>5, <2>6 DEF AtEnd
<1>5. ASSUME NEW p \in Runs, Failure(p) PROVE Writing(q)'
  <2>1. CASE WriteFails(p)  BY <2>1 DEF WriteFails
  <2>2. CASE NoteFails(p)  BY <2>2 DEF NoteFails, Noting
  <2>3. CASE CallFails(p)  BY <2>3 DEF CallFails
  <2>4. CASE PlanFails(p)  BY <2>4 DEF PlanFails
  <2>5. CASE Crash(p)  BY <2>5 DEF Crash
  <2> QED
    BY <1>5, <2>1, <2>2, <2>3, <2>4, <2>5 DEF Failure
<1>6. CASE People
  <2>1. ASSUME NEW f \in Files, EditFile(f) PROVE Writing(q)'
    BY <2>1 DEF EditFile
  <2>2. ASSUME NEW f \in Files, ChangeKit(f) PROVE Writing(q)'
    BY <2>2 DEF ChangeKit
  <2>3. CASE AddExtra  BY <2>3 DEF AddExtra
  <2>4. CASE MoveHead  BY <2>4 DEF MoveHead
  <2> QED
    BY <1>6, <2>1, <2>2, <2>3, <2>4 DEF People
<1> QED
  BY <1>1, <1>2, <1>3, <1>4, <1>5, <1>6 DEF Next

\* A file left half-written is in the receipt, or its run was cut off, or is about to note it.
HalfWritten(p) ==
    \A f \in Files : target[f] = Partial /\ made[f] = p =>
        \/ broken[p] \/ pc[p] = "dead" \/ <<f, "PARTIAL_FILE">> \in noted[p]
        \/ pc[p] \in {"write", "partial"} /\ at[p] = f


\* How a write ends.
WriteStep(q) ==
    /\ broken[q] => broken'[q]
    /\ pc[q] = "dead" => pc'[q] = "dead"
    /\ pc[q] = "create" => at'[q] = at[q]
    /\ pc[q] = "write" =>
          at'[q] = at[q] /\ (pc'[q] \in {"write", "partial", "dead"} \/ target' = Written(q))
    /\ pc[q] = "partial" =>
          /\ at'[q] = at[q]
          /\ pc'[q] \in {"partial", "dead"} \/ broken'[q] \/ <<at[q], "PARTIAL_FILE">> \in noted'[q]

LEMMA WriteSteps == SetupTypes /\ [Next]_vars => \A q \in Runs : WriteStep(q)
<1> SUFFICES ASSUME SetupTypes, [Next]_vars, NEW q \in Runs
             PROVE  WriteStep(q)
  OBVIOUS
<1> USE DEF SetupTypes, ControlTypes, ReportTypes, Goto, WriteStep
<1>1. CASE UNCHANGED vars
  BY <1>1 DEF vars
<1>2. ASSUME NEW p \in Runs, Before(p) PROVE WriteStep(q)
  <2>1. CASE BeginPlan(p)  BY <2>1 DEF BeginPlan
  <2>2. CASE ScanRow(p)  BY <2>2 DEF ScanRow
  <2>3. CASE Planned(p)  BY <2>3 DEF Planned
  <2>4. CASE BeginApply(p)  BY <2>4 DEF BeginApply
  <2>5. CASE Check(p)  BY <2>5 DEF Check
  <2>6. CASE OpenReceipt(p)  BY <2>6 DEF OpenReceipt
  <2> QED
    BY <1>2, <2>1, <2>2, <2>3, <2>4, <2>5, <2>6 DEF Before
<1>3. ASSUME NEW p \in Runs, EachFile(p) PROVE WriteStep(q)
  <2>1. CASE Take(p)  BY <2>1 DEF Take
  <2>2. CASE TakeUp(p)  BY <2>2 DEF TakeUp
  <2>3. CASE OpenParent(p)  BY <2>3 DEF OpenParent
  <2>4. CASE MakeDirectory(p)  BY <2>4 DEF MakeDirectory
  <2>5. CASE NoteDirectory(p)  BY <2>5 DEF NoteDirectory
  <2>6. CASE Intend(p)  BY <2>6 DEF Intend
  <2>7. CASE Create(p)  BY <2>7 DEF Create
  <2>8. CASE Write(p)  BY <2>8 DEF Write
  <2>9. CASE NotePartial(p)  BY <2>9 DEF NotePartial, Note
  <2>10. CASE ReadBack(p)  BY <2>10 DEF ReadBack
  <2> QED
    BY <1>3, <2>1, <2>2, <2>3, <2>4, <2>5, <2>6, <2>7, <2>8, <2>9, <2>10 DEF EachFile
<1>4. ASSUME NEW p \in Runs, AtEnd(p) PROVE WriteStep(q)
  <2>1. CASE Start(p)  BY <2>1 DEF Start
  <2>2. CASE Verify(p)  BY <2>2 DEF Verify
  <2>3. CASE BeginFinal(p)  BY <2>3 DEF BeginFinal
  <2>4. CASE Complete(p)  BY <2>4 DEF Complete
  <2>5. CASE Completed(p)  BY <2>5 DEF Completed
  <2>6. CASE NoteFailure(p)  BY <2>6 DEF NoteFailure
  <2> QED
    BY <1>4, <2>1, <2>2, <2>3, <2>4, <2>5, <2>6 DEF AtEnd
<1>5. ASSUME NEW p \in Runs, Failure(p) PROVE WriteStep(q)
  <2>1. CASE WriteFails(p)  BY <2>1 DEF WriteFails
  <2>2. CASE NoteFails(p)  BY <2>2 DEF NoteFails, Noting
  <2>3. CASE CallFails(p)  BY <2>3 DEF CallFails
  <2>4. CASE PlanFails(p)  BY <2>4 DEF PlanFails
  <2>5. CASE Crash(p)  BY <2>5 DEF Crash
  <2> QED
    BY <1>5, <2>1, <2>2, <2>3, <2>4, <2>5 DEF Failure
<1>6. CASE People
  <2>1. ASSUME NEW f \in Files, EditFile(f) PROVE WriteStep(q)
    BY <2>1 DEF EditFile
  <2>2. ASSUME NEW f \in Files, ChangeKit(f) PROVE WriteStep(q)
    BY <2>2 DEF ChangeKit
  <2>3. CASE AddExtra  BY <2>3 DEF AddExtra
  <2>4. CASE MoveHead  BY <2>4 DEF MoveHead
  <2> QED
    BY <1>6, <2>1, <2>2, <2>3, <2>4 DEF People
<1> QED
  BY <1>1, <1>2, <1>3, <1>4, <1>5, <1>6 DEF Next

LEMMA HalfWrittenNext ==
    SetupTypes /\ (\A q \in Runs : Owned(q) /\ HalfWritten(q)) /\ [Next]_vars
    => \A q \in Runs : HalfWritten(q)'
<1> SUFFICES ASSUME SetupTypes, \A r \in Runs : Owned(r) /\ HalfWritten(r), [Next]_vars,
                    NEW q \in Runs, NEW f \in Files, target'[f] = Partial, made'[f] = q
             PROVE  \/ broken'[q] \/ pc'[q] = "dead" \/ <<f, "PARTIAL_FILE">> \in noted'[q]
                    \/ pc'[q] \in {"write", "partial"} /\ at'[q] = f
  BY DEF HalfWritten
<1>1. WriteStep(q) /\ noted[q] \subseteq noted'[q]
  BY WriteSteps, EarlySteps DEF EarlyStep
<1>2. TargetStep(f) /\ MadeStep(f) /\ f \notin Dirs /\ Root \notin Runs
  BY TargetSteps, MadeSteps, SetupAssumption
<1>3. ASSUME NEW p \in Runs, p = q, pc[p] = "create", at[p] = f, pc'[p] = "write" PROVE at'[q] = f
  BY <1>1, <1>3 DEF WriteStep
<1>4. CASE made[f] # q
  BY <1>2, <1>3, <1>4 DEF MadeStep
<1>5. CASE made[f] = q
  <2>1. /\ base \in [Runs -> [Files -> Nat]] /\ target \in [Files -> Contents]
        /\ at \in [Runs -> Files \cup {Root}]
    BY DEF SetupTypes, WorldTypes, ScanTypes, ControlTypes
  <2>2. target[f] = Partial
    <3>1. target[f] \in {Partial, plan[q].kit[f]} /\ plan[q].kit[f] \in Nat
      BY <1>5 DEF Owned, SetupTypes, ScanTypes, Plans
    <3> QED
      BY <1>2, <2>1, <3>1, FourContents DEF TargetStep
  <2>3. at[q] = f => target' # Written(q)
    BY <1>5, <2>1, FourContents DEF Written
  <2> QED
    BY <1>1, <1>5, <2>2, <2>3 DEF HalfWritten, WriteStep
<1> QED
  BY <1>4, <1>5

\* A run comes to a destination by taking it, the first of those left; at a mirror it looks
\* whether the skill is whole.  It leaves the destination for the next one when it has the
\* reviewed bytes, and goes on to create it when it was missing.
Creating == {"parent", "mkdir", "dirnote", "intent", "create"}

TakenStep(q) ==
    /\ pc[q] \in Taken /\ pc'[q] = "next" => target[at[q]] = base[q][at[q]]
    /\ pc'[q] = "classify" => pc[q] \in {"classify", "next"}
    /\ pc'[q] \in Creating =>
          pc[q] \in Creating \/ (pc[q] = "classify" /\ target[at[q]] = Missing)
    /\ pc'[q] \in Taken \cup {"next"} =>
        \/ /\ pc[q] \in Taken \cup {"next"} /\ todo'[q] = todo[q]
           /\ pc'[q] \in Taken => pc[q] \in Taken /\ at'[q] = at[q]
        \/ pc[q] = "verify" /\ pc'[q] = "next" /\ todo'[q] = selected[q]
        \/ /\ pc[q] = "next" /\ pc'[q] = "classify" /\ at'[q] \in todo[q]
           /\ todo'[q] = todo[q] \ {at'[q]} /\ \A g \in todo[q] : at'[q] <= g
           /\ at'[q] \in Mirrors => Ready(q, {})

LEMMA TakenSteps == SetupTypes /\ [Next]_vars => \A q \in Runs : TakenStep(q)
<1> SUFFICES ASSUME SetupTypes, [Next]_vars, NEW q \in Runs
             PROVE  TakenStep(q)
  OBVIOUS
<1> USE DEF SetupTypes, ControlTypes, Goto, Taken, Creating, TakenStep
<1>1. CASE UNCHANGED vars
  BY <1>1 DEF vars
<1>2. ASSUME NEW p \in Runs, Before(p) PROVE TakenStep(q)
  <2>1. CASE BeginPlan(p)  BY <2>1 DEF BeginPlan
  <2>2. CASE ScanRow(p)  BY <2>2 DEF ScanRow
  <2>3. CASE Planned(p)  BY <2>3 DEF Planned
  <2>4. CASE BeginApply(p)  BY <2>4 DEF BeginApply
  <2>5. CASE Check(p)  BY <2>5 DEF Check
  <2>6. CASE OpenReceipt(p)  BY <2>6 DEF OpenReceipt
  <2> QED
    BY <1>2, <2>1, <2>2, <2>3, <2>4, <2>5, <2>6 DEF Before
<1>3. ASSUME NEW p \in Runs, EachFile(p) PROVE TakenStep(q)
  <2>1. CASE Take(p)  BY <2>1 DEF Take
  <2>2. CASE TakeUp(p)  BY <2>2 DEF TakeUp, Classify
  <2>3. CASE OpenParent(p)  BY <2>3 DEF OpenParent
  <2>4. CASE MakeDirectory(p)  BY <2>4 DEF MakeDirectory
  <2>5. CASE NoteDirectory(p)  BY <2>5 DEF NoteDirectory
  <2>6. CASE Intend(p)  BY <2>6 DEF Intend
  <2>7. CASE Create(p)  BY <2>7 DEF Create
  <2>8. CASE Write(p)  BY <2>8 DEF Write
  <2>9. CASE NotePartial(p)  BY <2>9 DEF NotePartial
  <2>10. CASE ReadBack(p)  BY <2>10 DEF ReadBack, SameBytes
  <2> QED
    BY <1>3, <2>1, <2>2, <2>3, <2>4, <2>5, <2>6, <2>7, <2>8, <2>9, <2>10 DEF EachFile
<1>4. ASSUME NEW p \in Runs, AtEnd(p) PROVE TakenStep(q)
  <2>1. CASE Start(p)  BY <2>1 DEF Start
  <2>2. CASE Verify(p)  BY <2>2 DEF Verify
  <2>3. CASE BeginFinal(p)  BY <2>3 DEF BeginFinal
  <2>4. CASE Complete(p)  BY <2>4 DEF Complete
  <2>5. CASE Completed(p)  BY <2>5 DEF Completed
  <2>6. CASE NoteFailure(p)  BY <2>6 DEF NoteFailure
  <2> QED
    BY <1>4, <2>1, <2>2, <2>3, <2>4, <2>5, <2>6 DEF AtEnd
<1>5. ASSUME NEW p \in Runs, Failure(p) PROVE TakenStep(q)
  <2>1. CASE WriteFails(p)  BY <2>1 DEF WriteFails
  <2>2. CASE NoteFails(p)  BY <2>2 DEF NoteFails, Noting
  <2>3. CASE CallFails(p)  BY <2>3 DEF CallFails
  <2>4. CASE PlanFails(p)  BY <2>4 DEF PlanFails
  <2>5. CASE Crash(p)  BY <2>5 DEF Crash
  <2> QED
    BY <1>5, <2>1, <2>2, <2>3, <2>4, <2>5 DEF Failure
<1>6. CASE People
  <2>1. ASSUME NEW f \in Files, EditFile(f) PROVE TakenStep(q)
    BY <2>1 DEF EditFile
  <2>2. ASSUME NEW f \in Files, ChangeKit(f) PROVE TakenStep(q)
    BY <2>2 DEF ChangeKit
  <2>3. CASE AddExtra  BY <2>3 DEF AddExtra
  <2>4. CASE MoveHead  BY <2>4 DEF MoveHead
  <2> QED
    BY <1>6, <2>1, <2>2, <2>3, <2>4 DEF People
<1> QED
  BY <1>1, <1>2, <1>3, <1>4, <1>5, <1>6 DEF Next

\* Who is at a mirror has seen its whole canonical skill.
Mirrored(p) ==
    pc[p] \in Taken /\ at[p] \in Mirrors =>
        \A c \in Canonical : c \notin touched => target[c] = plan[p].kit[c]

LEMMA MirroredNext ==
    SetupTypes /\ (\A q \in Runs : Based(q) /\ Owned(q) /\ Mirrored(q)) /\ [Next]_vars
    => \A q \in Runs : Mirrored(q)'
<1> SUFFICES ASSUME SetupTypes, \A r \in Runs : Based(r) /\ Owned(r) /\ Mirrored(r), [Next]_vars,
                    NEW q \in Runs, pc'[q] \in Taken, at'[q] \in Mirrors,
                    NEW c \in Canonical, c \notin touched'
             PROVE  target'[c] = plan'[q].kit[c]
  BY DEF Mirrored
<1>1. c \in Files /\ TargetStep(c) /\ c \notin touched
  BY TargetSteps, SetupAssumption DEF TargetStep
<1>2. TakenStep(q) /\ EarlyStep(q)
  BY TakenSteps, EarlySteps
<1>3. pc[q] \in Taken \cup {"next"}
  BY <1>2 DEF TakenStep, Taken
<1>4. plan'[q] = plan[q] /\ plan[q].kit[c] \in Nat
  BY <1>1, <1>2, <1>3 DEF EarlyStep, Taken, SetupTypes, ScanTypes, Plans
<1>5. target[c] = plan[q].kit[c]
  <2>1. CASE pc[q] \in Taken
    BY <1>1, <1>2, <2>1 DEF Mirrored, TakenStep, Taken
  <2>2. CASE pc[q] = "next"
    BY <1>1, <1>2, <2>2 DEF TakenStep, Taken, Ready, Based
  <2> QED
    BY <1>3, <2>1, <2>2
<1> QED
  BY <1>1, <1>4, <1>5, VersionStays

\* A mirror is made by who is at it; its skill stays.
LEMMA MirrorsNext ==
    /\ SetupTypes /\ (\A q \in Runs : Fresh(q) /\ Based(q) /\ Owned(q) /\ Mirrored(q))
    /\ MirrorsFollow /\ [Next]_vars
    => MirrorsFollow'
<1> SUFFICES ASSUME SetupTypes, \A r \in Runs : Fresh(r) /\ Based(r) /\ Owned(r) /\ Mirrored(r),
                    MirrorsFollow, [Next]_vars,
                    NEW m \in Mirrors, NEW c \in Canonical, NEW p \in Runs,
                    made'[m] = p, c \notin touched'
             PROVE  target'[c] = plan'[p].kit[c]
  BY DEF MirrorsFollow
<1>1. m \in Files /\ c \in Files /\ m \notin Dirs /\ Root \notin Runs
  BY SetupAssumption
<1>2. MadeStep(m) /\ EarlyStep(p) /\ TargetStep(c) /\ c \notin touched
  BY <1>1, MadeSteps, EarlySteps, TargetSteps DEF TargetStep
<1>3. target[c] = plan[p].kit[c] /\ pc[p] \notin {"idle", "plan"}
  <2>1. CASE made[m] = p
    BY <1>1, <1>2, <2>1 DEF MirrorsFollow, Fresh, Early
  <2>2. CASE made[m] # p
    <3>1. pc[p] = "create" /\ at[p] = m
      BY <1>1, <1>2, <2>2 DEF MadeStep
    <3> QED
      BY <1>2, <3>1 DEF Mirrored, Taken
  <2> QED
    BY <2>1, <2>2
<1>4. plan'[p] = plan[p] /\ plan[p].kit[c] \in Nat
  BY <1>1, <1>2, <1>3 DEF EarlyStep, SetupTypes, ScanTypes, Plans
<1> QED
  BY <1>1, <1>3, <1>4, VersionStays

\* A row IDENTICAL was, and is; and UNCONFIGURED was said of such rows only.
Seen(p) ==
    /\ \A f \in Files : rows[p][f] = "IDENTICAL" /\ f \notin touched => target[f] = base[p][f]
    /\ outcome[p] = "UNCONFIGURED" =>
          pc[p] \in {"complete", "done", "dead"} /\ \A f \in Files : rows[p][f] = "IDENTICAL"

\* A row stands for what was there when it was classified, until the next scan begins.
RowStep(q) ==
    /\ \/ base'[q] = base[q] /\ rows'[q] = rows[q]
       \/ rows'[q] = Blank /\ pc[q] \in {"idle", "planned", "next"}
       \/ /\ base'[q] = base[q] /\ pc[q] \in Scanning
          /\ \A f \in Files : rows'[q][f] = rows[q][f] \/ rows'[q][f] = Classify(q, f)
    /\ outcome'[q] = "UNCONFIGURED" =>
          \/ /\ outcome[q] = "UNCONFIGURED"
             /\ pc[q] \in {"complete", "done", "dead"} => pc'[q] \in {"complete", "done", "dead"}
          \/ pc'[q] = "complete" /\ rows'[q] = rows[q] /\ \A f \in Files : rows[q][f] = "IDENTICAL"

LEMMA RowSteps == SetupTypes /\ [Next]_vars => \A q \in Runs : RowStep(q)
<1> SUFFICES ASSUME SetupTypes, [Next]_vars, NEW q \in Runs
             PROVE  RowStep(q)
  OBVIOUS
<1> USE DEF SetupTypes, ScanTypes, ControlTypes, ReportTypes, choice, Goto, RowStep, Finish
<1>1. CASE UNCHANGED vars
  BY <1>1 DEF vars
<1>2. ASSUME NEW p \in Runs, Before(p) PROVE RowStep(q)
  <2>1. CASE BeginPlan(p)  BY <2>1 DEF BeginPlan, BeginScan
  <2>2. CASE ScanRow(p)  BY <2>2 DEF ScanRow
  <2>3. CASE Planned(p)  BY <2>3 DEF Planned
  <2>4. CASE BeginApply(p)  BY <2>4 DEF BeginApply, BeginScan
  <2>5. CASE Check(p)  BY <2>5 DEF Check
  <2>6. CASE OpenReceipt(p)  BY <2>6 DEF OpenReceipt
  <2> QED
    BY <1>2, <2>1, <2>2, <2>3, <2>4, <2>5, <2>6 DEF Before
<1>3. ASSUME NEW p \in Runs, EachFile(p) PROVE RowStep(q)
  <2>1. CASE Take(p)  BY <2>1 DEF Take
  <2>2. CASE TakeUp(p)  BY <2>2 DEF TakeUp
  <2>3. CASE OpenParent(p)  BY <2>3 DEF OpenParent
  <2>4. CASE MakeDirectory(p)  BY <2>4 DEF MakeDirectory
  <2>5. CASE NoteDirectory(p)  BY <2>5 DEF NoteDirectory
  <2>6. CASE Intend(p)  BY <2>6 DEF Intend
  <2>7. CASE Create(p)  BY <2>7 DEF Create
  <2>8. CASE Write(p)  BY <2>8 DEF Write
  <2>9. CASE NotePartial(p)  BY <2>9 DEF NotePartial
  <2>10. CASE ReadBack(p)  BY <2>10 DEF ReadBack
  <2> QED
    BY <1>3, <2>1, <2>2, <2>3, <2>4, <2>5, <2>6, <2>7, <2>8, <2>9, <2>10 DEF EachFile
<1>4. ASSUME NEW p \in Runs, AtEnd(p) PROVE RowStep(q)
  <2>1. CASE Start(p)  BY <2>1 DEF Start
  <2>2. CASE Verify(p)  BY <2>2 DEF Verify
  <2>3. CASE BeginFinal(p)  BY <2>3 DEF BeginFinal, BeginScan
  <2>4. CASE Complete(p)  BY <2>4 DEF Complete, Unresolved
  <2>5. CASE Completed(p)  BY <2>5 DEF Completed
  <2>6. CASE NoteFailure(p)  BY <2>6 DEF NoteFailure
  <2> QED
    BY <1>4, <2>1, <2>2, <2>3, <2>4, <2>5, <2>6 DEF AtEnd
<1>5. ASSUME NEW p \in Runs, Failure(p) PROVE RowStep(q)
  <2>1. CASE WriteFails(p)  BY <2>1 DEF WriteFails
  <2>2. CASE NoteFails(p)  BY <2>2 DEF NoteFails, Noting
  <2>3. CASE CallFails(p)  BY <2>3 DEF CallFails
  <2>4. CASE PlanFails(p)  BY <2>4 DEF PlanFails
  <2>5. CASE Crash(p)  BY <2>5 DEF Crash
  <2> QED
    BY <1>5, <2>1, <2>2, <2>3, <2>4, <2>5 DEF Failure
<1>6. CASE People
  <2>1. ASSUME NEW f \in Files, EditFile(f) PROVE RowStep(q)
    BY <2>1 DEF EditFile
  <2>2. ASSUME NEW f \in Files, ChangeKit(f) PROVE RowStep(q)
    BY <2>2 DEF ChangeKit
  <2>3. CASE AddExtra  BY <2>3 DEF AddExtra
  <2>4. CASE MoveHead  BY <2>4 DEF MoveHead
  <2> QED
    BY <1>6, <2>1, <2>2, <2>3, <2>4 DEF People
<1> QED
  BY <1>1, <1>2, <1>3, <1>4, <1>5, <1>6 DEF Next

LEMMA SeenNext ==
    SetupTypes /\ (\A q \in Runs : Based(q) /\ Owned(q) /\ Seen(q)) /\ [Next]_vars
    => \A q \in Runs : Seen(q)'
<1> SUFFICES ASSUME SetupTypes, \A r \in Runs : Based(r) /\ Owned(r) /\ Seen(r), [Next]_vars,
                    NEW q \in Runs
             PROVE  Seen(q)'
  OBVIOUS
<1>1. RowStep(q)
  BY RowSteps
<1>2. ASSUME NEW f \in Files, rows'[q][f] = "IDENTICAL", f \notin touched'
      PROVE  target'[f] = base'[q][f]
  <2>1. f \notin touched
    BY <1>2, TargetSteps DEF TargetStep
  <2>2. target[f] = base[q][f] /\ base'[q] = base[q]
    BY <1>1, <1>2, <2>1 DEF RowStep, Seen, Classify, Blank
  <2>3. target[f] \in Nat
    BY <2>2 DEF SetupTypes, ScanTypes
  <2> QED
    BY <1>2, <2>2, <2>3, VersionStays
<1>3. ASSUME outcome'[q] = "UNCONFIGURED"
      PROVE  pc'[q] \in {"complete", "done", "dead"} /\ \A f \in Files : rows'[q][f] = "IDENTICAL"
  BY <1>1, <1>3 DEF RowStep, Seen, Scanning
<1> QED
  BY <1>2, <1>3 DEF Seen

\* What a run notes as created, it has just read back; as partial, it has failed to write.
FileStep(q) ==
    \A f \in Files :
        /\ <<f, "CREATED_FILE">> \in noted'[q] =>
              \/ <<f, "CREATED_FILE">> \in noted[q]
              \/ pc[q] = "readback" /\ at[q] = f /\ target[f] = base[q][f] /\ made' = made
        /\ <<f, "PARTIAL_FILE">> \in noted'[q] =>
              <<f, "PARTIAL_FILE">> \in noted[q] \/ pc[q] = "partial"

LEMMA FileSteps == SetupTypes /\ [Next]_vars => \A q \in Runs : FileStep(q)
<1> SUFFICES ASSUME SetupTypes, [Next]_vars, NEW q \in Runs
             PROVE  FileStep(q)
  OBVIOUS
<1> USE DEF SetupTypes, ReportTypes, Goto, FileStep
<1>1. CASE UNCHANGED vars
  BY <1>1 DEF vars
<1>2. ASSUME NEW p \in Runs, Before(p) PROVE FileStep(q)
  <2>1. CASE BeginPlan(p)  BY <2>1 DEF BeginPlan
  <2>2. CASE ScanRow(p)  BY <2>2 DEF ScanRow
  <2>3. CASE Planned(p)  BY <2>3 DEF Planned
  <2>4. CASE BeginApply(p)  BY <2>4 DEF BeginApply
  <2>5. CASE Check(p)  BY <2>5 DEF Check
  <2>6. CASE OpenReceipt(p)  BY <2>6 DEF OpenReceipt
  <2> QED
    BY <1>2, <2>1, <2>2, <2>3, <2>4, <2>5, <2>6 DEF Before
<1>3. ASSUME NEW p \in Runs, EachFile(p) PROVE FileStep(q)
  <2>1. CASE Take(p)  BY <2>1 DEF Take
  <2>2. CASE TakeUp(p)  BY <2>2 DEF TakeUp, Note
  <2>3. CASE OpenParent(p)  BY <2>3 DEF OpenParent, Note
  <2>4. CASE MakeDirectory(p)  BY <2>4 DEF MakeDirectory
  <2>5. CASE NoteDirectory(p)  BY <2>5 DEF NoteDirectory, Note
  <2>6. CASE Intend(p)  BY <2>6 DEF Intend, Note
  <2>7. CASE Create(p)  BY <2>7 DEF Create
  <2>8. CASE Write(p)  BY <2>8 DEF Write
  <2>9. CASE NotePartial(p)  BY <2>9 DEF NotePartial, Note
  <2>10. CASE ReadBack(p)  BY <2>10 DEF ReadBack, Note, work, SameBytes
  <2> QED
    BY <1>3, <2>1, <2>2, <2>3, <2>4, <2>5, <2>6, <2>7, <2>8, <2>9, <2>10 DEF EachFile
<1>4. ASSUME NEW p \in Runs, AtEnd(p) PROVE FileStep(q)
  <2>1. CASE Start(p)  BY <2>1 DEF Start, Note
  <2>2. CASE Verify(p)  BY <2>2 DEF Verify
  <2>3. CASE BeginFinal(p)  BY <2>3 DEF BeginFinal
  <2>4. CASE Complete(p)  BY <2>4 DEF Complete
  <2>5. CASE Completed(p)  BY <2>5 DEF Completed, Note
  <2>6. CASE NoteFailure(p)  BY <2>6 DEF NoteFailure, Note
  <2> QED
    BY <1>4, <2>1, <2>2, <2>3, <2>4, <2>5, <2>6 DEF AtEnd
<1>5. ASSUME NEW p \in Runs, Failure(p) PROVE FileStep(q)
  <2>1. CASE WriteFails(p)  BY <2>1 DEF WriteFails
  <2>2. CASE NoteFails(p)  BY <2>2 DEF NoteFails, Noting
  <2>3. CASE CallFails(p)  BY <2>3 DEF CallFails
  <2>4. CASE PlanFails(p)  BY <2>4 DEF PlanFails
  <2>5. CASE Crash(p)  BY <2>5 DEF Crash
  <2> QED
    BY <1>5, <2>1, <2>2, <2>3, <2>4, <2>5 DEF Failure
<1>6. CASE People
  <2>1. ASSUME NEW f \in Files, EditFile(f) PROVE FileStep(q)
    BY <2>1 DEF EditFile
  <2>2. ASSUME NEW f \in Files, ChangeKit(f) PROVE FileStep(q)
    BY <2>2 DEF ChangeKit
  <2>3. CASE AddExtra  BY <2>3 DEF AddExtra
  <2>4. CASE MoveHead  BY <2>4 DEF MoveHead
  <2> QED
    BY <1>6, <2>1, <2>2, <2>3, <2>4 DEF People
<1> QED
  BY <1>1, <1>2, <1>3, <1>4, <1>5, <1>6 DEF Next

\* What is noted as created has just been read back, and stays.
LEMMA CreatedNext ==
    /\ SetupTypes /\ (\A q \in Runs : Fresh(q) /\ Based(q) /\ Owned(q) /\ Writing(q))
    /\ CreatedIsTrue /\ [Next]_vars
    => CreatedIsTrue'
<1> SUFFICES ASSUME SetupTypes, \A r \in Runs : Fresh(r) /\ Based(r) /\ Owned(r) /\ Writing(r),
                    CreatedIsTrue, [Next]_vars, NEW p \in Runs, NEW f \in Files,
                    <<f, "CREATED_FILE">> \in noted'[p], f \notin touched'
             PROVE  made'[f] = p /\ target'[f] = plan'[p].kit[f]
  BY DEF CreatedIsTrue
<1>1. /\ FileStep(p) /\ EarlyStep(p) /\ TargetStep(f) /\ MadeStep(f)
      /\ f \notin touched /\ f \notin Dirs /\ Root \notin Runs
  BY FileSteps, EarlySteps, TargetSteps, MadeSteps, SetupAssumption DEF TargetStep
<1>2. made[f] = p /\ target[f] = plan[p].kit[f] /\ pc[p] \notin {"idle", "plan"}
  <2>1. CASE <<f, "CREATED_FILE">> \in noted[p]
    BY <1>1, <2>1 DEF CreatedIsTrue, Fresh, Early
  <2>2. CASE <<f, "CREATED_FILE">> \notin noted[p]
    <3>1. pc[p] = "readback" /\ at[p] = f /\ target[f] = base[p][f]
      BY <1>1, <2>2 DEF FileStep
    <3> QED
      BY <1>1, <3>1 DEF Writing, Based, Taken
  <2> QED
    BY <2>1, <2>2
<1>3. plan'[p] = plan[p] /\ target[f] \in Nat
  BY <1>1, <1>2 DEF EarlyStep, SetupTypes, ScanTypes, Plans
<1>4. target'[f] = target[f]
  BY <1>3, VersionStays
<1>5. made'[f] = made[f]
  BY <1>1, <1>3, FourContents DEF MadeStep
<1> QED
  BY <1>2, <1>3, <1>4, <1>5

-----------------------------------------------------------------------------
(* The invariant, and what it implies *)

RunInv(p) ==
    /\ Fresh(p) /\ Based(p) /\ Owned(p) /\ Announced(p)
    /\ Writing(p) /\ HalfWritten(p) /\ Mirrored(p) /\ Seen(p)

SetupInv ==
    SetupTypes /\ (\A p \in Runs : RunInv(p)) /\ ReceiptCovers /\ CreatedIsTrue /\ MirrorsFollow

\* It holds at first, and each step keeps it.

LEMMA SetupInvInit == Init => SetupInv
<1> SUFFICES ASSUME Init PROVE SetupInv
  OBVIOUS
<1>1. SetupTypes
  BY TypesInit
<1>2. /\ Root \notin Runs /\ \A x \in Files \cup Dirs : made[x] = Root
      /\ \A p \in Runs : noted[p] = {}
  BY SetupAssumption DEF Init
<1>3. \A p \in Runs : pc[p] = "idle" /\ rows[p] = Blank /\ outcome[p] = "none"
  BY DEF Init
<1>4. \A p \in Runs : Fresh(p) /\ Based(p) /\ Owned(p) /\ Announced(p) /\ Writing(p) /\ Mirrored(p)
  BY <1>2, <1>3 DEF Fresh, Based, Owned, Announced, Writing, Mirrored, Taken
<1>5. \A p \in Runs : HalfWritten(p) /\ Seen(p)
  BY <1>2, <1>3 DEF HalfWritten, Seen, Blank
<1>6. ReceiptCovers /\ CreatedIsTrue /\ MirrorsFollow
  BY <1>2, SetupAssumption DEF ReceiptCovers, CreatedIsTrue, MirrorsFollow
<1> QED
  BY <1>1, <1>4, <1>5, <1>6 DEF SetupInv, RunInv

LEMMA SetupInvNext == SetupInv /\ [Next]_vars => SetupInv'
<1> SUFFICES ASSUME SetupInv, [Next]_vars PROVE SetupInv'
  OBVIOUS
<1>1. /\ SetupTypes /\ ReceiptCovers /\ CreatedIsTrue /\ MirrorsFollow
      /\ \A p \in Runs : RunInv(p)
  BY DEF SetupInv
<1>2. \A p \in Runs : Fresh(p) /\ Based(p) /\ Owned(p) /\ Announced(p)
  BY <1>1 DEF RunInv
<1>3. \A p \in Runs : Writing(p) /\ HalfWritten(p) /\ Mirrored(p) /\ Seen(p)
  BY <1>1 DEF RunInv
<1>4. SetupTypes'
  BY <1>1, WorldNext, ScanNext, ControlNext, ReportNext DEF SetupTypes
<1>5. (\A p \in Runs : Fresh(p) /\ Based(p) /\ Owned(p) /\ Announced(p))'
  BY <1>1, <1>2, FreshNext, BasedNext, OwnedNext, AnnouncedNext
<1>6. (\A p \in Runs : Writing(p) /\ HalfWritten(p) /\ Mirrored(p) /\ Seen(p))'
  BY <1>1, <1>2, <1>3, WritingNext, HalfWrittenNext, MirroredNext, SeenNext
<1>7. ReceiptCovers' /\ CreatedIsTrue' /\ MirrorsFollow'
  BY <1>1, <1>2, <1>3, CoversNext, CreatedNext, MirrorsNext
<1>8. (\A p \in Runs : RunInv(p))'
  BY <1>5, <1>6 DEF RunInv
<1> QED
  BY <1>4, <1>7, <1>8 DEF SetupInv

\* The invariant holds always.
LEMMA SetupInvAlways == Spec => []SetupInv
  BY SetupInvInit, SetupInvNext, PTL DEF Spec

\* Whatever a run has created was selected and is announced in its receipt, wherever the run
\* was cut off: the intent is durable before mkdir and before the exclusive open.
THEOREM ReceiptsCoverCreations == Spec => []ReceiptCovers
<1>1. SetupInv => ReceiptCovers
  BY DEF SetupInv
<1> QED
  BY <1>1, SetupInvAlways, PTL

\* A line CREATED_FILE is true as long as people leave the file alone, whatever other runs do.
THEOREM CreatedLinesAreTrue == Spec => []CreatedIsTrue
<1>1. SetupInv => CreatedIsTrue
  BY DEF SetupInv
<1> QED
  BY <1>1, SetupInvAlways, PTL

\* A run that has created a mirror had its whole skill beside it, in the version of its plan.
THEOREM MirrorsFollowSkills == Spec => []MirrorsFollow
<1>1. SetupInv => MirrorsFollow
  BY DEF SetupInv
<1> QED
  BY <1>1, SetupInvAlways, PTL

\* A run that ended with an intact receipt names the file it left half-written.
THEOREM PartialFilesAreReported == Spec => []PartialIsReported
<1>1. SetupInv => PartialIsReported
  BY DEF SetupInv, RunInv, HalfWritten, PartialIsReported
<1> QED
  BY <1>1, SetupInvAlways, PTL

\* A run that says UNCONFIGURED has seen every destination with the bytes of the kit it read.
THEOREM UnconfiguredIsWhole == Spec => []CompleteIsWhole
<1>1. SetupInv => CompleteIsWhole
  BY DEF SetupInv, RunInv, Seen, CompleteIsWhole
<1> QED
  BY <1>1, SetupInvAlways, PTL

\* What is at a destination only changes by people, or by the run that has created it and is
\* still writing it.
THEOREM RacingWritersArePreserved == Spec => WritersPreserved
<1>1. ASSUME SetupTypes, [Next]_vars, NEW f \in Files, target[f] # Missing, target'[f] # target[f]
      PROVE  edits' # edits \/ \E p \in Runs : pc[p] = "write" /\ at[p] = f /\ made[f] = p
  BY <1>1, TargetSteps DEF TargetStep
<1>2. SetupInv => SetupTypes
  BY DEF SetupInv
<1>3. SetupInv /\ [Next]_vars =>
        [\A f \in Files :
            target[f] # Missing /\ target'[f] # target[f] =>
              \/ edits' # edits
              \/ \E p \in Runs : pc[p] = "write" /\ at[p] = f /\ made[f] = p]_vars
  BY <1>1, <1>2
<1> QED
  BY <1>3, SetupInvAlways, PTL DEF Spec, WritersPreserved

-----------------------------------------------------------------------------
(* Runs that only disturb each other: nothing fails, and nobody edits *)

Calm == faults = 0 /\ edits = 0

Still ==
    /\ ~extra /\ touched = {}
    /\ \A p \in Runs :
          /\ plan[p].kit = kit /\ base[p] = kit /\ plan[p].head = head
          /\ ~broken[p] /\ pc[p] \notin {"dead", "partial"}
          /\ outcome[p] = "FAILED" => pc[p] = "done"
          /\ \A f \in Files : <<f, "PARTIAL_FILE">> \notin noted[p]

\* It was calm before a step if it is after it, and nothing of the surroundings moves.
CalmStep ==
    Calm' =>
        /\ Calm /\ kit' = kit /\ head' = head /\ extra' = extra /\ touched' = touched
        /\ \A q \in Runs :
              /\ broken'[q] = broken[q]
              /\ pc'[q] \in {"dead", "partial"} => pc[q] \in {"dead", "partial"}
              /\ outcome'[q] = "FAILED" => outcome[q] = "FAILED" \/ pc'[q] = "done"
              /\ pc[q] = "done" => pc'[q] = "done"
              /\ plan'[q].kit \in {plan[q].kit, kit} /\ plan'[q].head \in {plan[q].head, head}
              /\ base'[q] \in {base[q], kit}

LEMMA CalmSteps == SetupTypes /\ [Next]_vars => CalmStep
<1> SUFFICES ASSUME SetupTypes, [Next]_vars
             PROVE  CalmStep
  OBVIOUS
<1> USE DEF SetupTypes, WorldTypes, ScanTypes, ControlTypes, ReportTypes, people, choice, Finish,
          Goto, Calm, CalmStep
<1>1. CASE UNCHANGED vars
  BY <1>1 DEF vars
<1>2. ASSUME NEW p \in Runs, Before(p) PROVE CalmStep
  <2>1. CASE BeginPlan(p)  BY <2>1 DEF BeginPlan, BeginScan, Plans
  <2>2. CASE ScanRow(p)  BY <2>2 DEF ScanRow
  <2>3. CASE Planned(p)  BY <2>3 DEF Planned, Plans
  <2>4. CASE BeginApply(p)  BY <2>4 DEF BeginApply, BeginScan
  <2>5. CASE Check(p)  BY <2>5 DEF Check
  <2>6. CASE OpenReceipt(p)  BY <2>6 DEF OpenReceipt
  <2> QED
    BY <1>2, <2>1, <2>2, <2>3, <2>4, <2>5, <2>6 DEF Before
<1>3. ASSUME NEW p \in Runs, EachFile(p) PROVE CalmStep
  <2>1. CASE Take(p)  BY <2>1 DEF Take
  <2>2. CASE TakeUp(p)  BY <2>2 DEF TakeUp
  <2>3. CASE OpenParent(p)  BY <2>3 DEF OpenParent
  <2>4. CASE MakeDirectory(p)  BY <2>4 DEF MakeDirectory
  <2>5. CASE NoteDirectory(p)  BY <2>5 DEF NoteDirectory
  <2>6. CASE Intend(p)  BY <2>6 DEF Intend
  <2>7. CASE Create(p)  BY <2>7 DEF Create
  <2>8. CASE Write(p)  BY <2>8 DEF Write
  <2>9. CASE NotePartial(p)  BY <2>9 DEF NotePartial
  <2>10. CASE ReadBack(p)  BY <2>10 DEF ReadBack
  <2> QED
    BY <1>3, <2>1, <2>2, <2>3, <2>4, <2>5, <2>6, <2>7, <2>8, <2>9, <2>10 DEF EachFile
<1>4. ASSUME NEW p \in Runs, AtEnd(p) PROVE CalmStep
  <2>1. CASE Start(p)  BY <2>1 DEF Start
  <2>2. CASE Verify(p)  BY <2>2 DEF Verify
  <2>3. CASE BeginFinal(p)  BY <2>3 DEF BeginFinal, BeginScan
  <2>4. CASE Complete(p)  BY <2>4 DEF Complete
  <2>5. CASE Completed(p)  BY <2>5 DEF Completed
  <2>6. CASE NoteFailure(p)  BY <2>6 DEF NoteFailure
  <2> QED
    BY <1>4, <2>1, <2>2, <2>3, <2>4, <2>5, <2>6 DEF AtEnd
<1>5. ASSUME NEW p \in Runs, Failure(p) PROVE CalmStep
  <2>1. CASE WriteFails(p)  BY <2>1 DEF WriteFails, Fault
  <2>2. CASE NoteFails(p)  BY <2>2 DEF NoteFails, Fault
  <2>3. CASE CallFails(p)  BY <2>3 DEF CallFails, Fault
  <2>4. CASE PlanFails(p)  BY <2>4 DEF PlanFails, Fault
  <2>5. CASE Crash(p)  BY <2>5 DEF Crash, Fault
  <2> QED
    BY <1>5, <2>1, <2>2, <2>3, <2>4, <2>5 DEF Failure
<1>6. CASE People
  <2>1. ASSUME NEW f \in Files, EditFile(f) PROVE CalmStep
    BY <2>1 DEF EditFile, Edit
  <2>2. ASSUME NEW f \in Files, ChangeKit(f) PROVE CalmStep
    BY <2>2 DEF ChangeKit, Edit
  <2>3. CASE AddExtra  BY <2>3 DEF AddExtra, Edit
  <2>4. CASE MoveHead  BY <2>4 DEF MoveHead, Edit
  <2> QED
    BY <1>6, <2>1, <2>2, <2>3, <2>4 DEF People
<1> QED
  BY <1>1, <1>2, <1>3, <1>4, <1>5, <1>6 DEF Next

\* While it is calm, nothing around the runs moves.
LEMMA StillNext == SetupTypes /\ (Calm => Still) /\ [Next]_vars => (Calm => Still)'
<1> SUFFICES ASSUME SetupTypes, Calm => Still, [Next]_vars, Calm' PROVE Still'
  OBVIOUS
<1>1. CalmStep /\ Calm /\ Still
  BY CalmSteps DEF CalmStep
<1>2. \A p \in Runs, f \in Files : <<f, "PARTIAL_FILE">> \notin noted'[p]
  BY <1>1, FileSteps DEF FileStep, Still
<1> QED
  BY <1>1, <1>2 DEF CalmStep, Still

\* Calm again: the kit's bytes stay, what was missing is missing or made by a run, and who
\* made a file stays its maker.
Settled(f) == target[f] = Missing \/ made[f] \in Runs

LEMMA CalmTarget ==
    ASSUME SetupTypes, \A r \in Runs : Based(r) /\ Owned(r), Still, [Next]_vars, Calm', Still',
           NEW f \in Files
    PROVE  /\ target[f] = kit[f] => target'[f] = kit'[f]
           /\ target'[f] = Blocked <=> target[f] = Blocked
           /\ Settled(f) => Settled(f)'
           /\ made[f] \in Runs => made'[f] = made[f]
<1>1. TargetStep(f) /\ MadeStep(f) /\ f \notin touched' /\ kit' = kit /\ f \notin Dirs
  BY TargetSteps, MadeSteps, CalmSteps, SetupAssumption DEF CalmStep, Still
<1>2. target[f] = kit[f] => target'[f] = kit'[f]
  BY <1>1, VersionStays DEF SetupTypes, WorldTypes
<1>3. made[f] \in Runs => target[f] # Missing
  BY FourContents DEF Owned, SetupTypes, ScanTypes, Plans
<1>4. made[f] \in Runs => made'[f] = made[f]
  BY <1>1, <1>3 DEF MadeStep
<1>5. Settled(f) => Settled(f)'
  BY <1>1, <1>4 DEF Settled, TargetStep
<1>6. target'[f] = Blocked <=> target[f] = Blocked
  <2>1. \A p \in Runs : base[p] = kit
    BY DEF Still
  <2>2. \A p \in Runs : made[f] = p => target[f] # Blocked
    BY FourContents, <2>1 DEF Owned, SetupTypes, ScanTypes, WorldTypes, Plans
  <2> QED
    BY <1>1, <2>1, <2>2, FourContents DEF TargetStep, SetupTypes, WorldTypes
<1> QED
  BY <1>2, <1>4, <1>5, <1>6

\* What the rows of a run say of a destination stays so.
Told(p, f) ==
    /\ "MISSING" \in {plan[p].rows[f], rows[p][f]} => Settled(f)
    /\ "IDENTICAL" \in {plan[p].rows[f], rows[p][f]} => target[f] = kit[f]
    /\ plan[p].rows[f] = "IDENTICAL" => rows[p][f] \in {"NONE", "IDENTICAL"}
    /\ plan[p].rows[f] = "MISSING" /\ rows[p][f] = "CONFLICT" => made[f] \in Runs
    /\ "BLOCKED" \in {plan[p].rows[f], rows[p][f]} => target[f] = Blocked
    /\ target[f] = Blocked =>
          plan[p].rows[f] \in {"NONE", "BLOCKED"} /\ rows[p][f] \in {"NONE", "BLOCKED"}
    /\ pc[p] \in {"planned", "check"} => plan[p].rows[f] # "NONE"

PlanRowStep(q) ==
    \/ /\ plan'[q].rows = plan[q].rows
       /\ pc'[q] \in {"planned", "check"} => pc[q] \in {"planned", "check"}
    \/ plan'[q].rows = rows[q] /\ rows'[q] = rows[q] /\ Scanned(q)

LEMMA PlanRowSteps == SetupTypes /\ [Next]_vars => \A q \in Runs : PlanRowStep(q)
<1> SUFFICES ASSUME SetupTypes, [Next]_vars, NEW q \in Runs
             PROVE  PlanRowStep(q)
  OBVIOUS
<1> USE DEF SetupTypes, ScanTypes, ControlTypes, choice, Goto, PlanRowStep
<1>1. CASE UNCHANGED vars
  BY <1>1 DEF vars
<1>2. ASSUME NEW p \in Runs, Before(p) PROVE PlanRowStep(q)
  <2>1. CASE BeginPlan(p)  BY <2>1 DEF BeginPlan, Plans
  <2>2. CASE ScanRow(p)  BY <2>2 DEF ScanRow
  <2>3. CASE Planned(p)  BY <2>3 DEF Planned, Plans
  <2>4. CASE BeginApply(p)  BY <2>4 DEF BeginApply
  <2>5. CASE Check(p)  BY <2>5 DEF Check
  <2>6. CASE OpenReceipt(p)  BY <2>6 DEF OpenReceipt
  <2> QED
    BY <1>2, <2>1, <2>2, <2>3, <2>4, <2>5, <2>6 DEF Before
<1>3. ASSUME NEW p \in Runs, EachFile(p) PROVE PlanRowStep(q)
  <2>1. CASE Take(p)  BY <2>1 DEF Take
  <2>2. CASE TakeUp(p)  BY <2>2 DEF TakeUp
  <2>3. CASE OpenParent(p)  BY <2>3 DEF OpenParent
  <2>4. CASE MakeDirectory(p)  BY <2>4 DEF MakeDirectory
  <2>5. CASE NoteDirectory(p)  BY <2>5 DEF NoteDirectory
  <2>6. CASE Intend(p)  BY <2>6 DEF Intend
  <2>7. CASE Create(p)  BY <2>7 DEF Create
  <2>8. CASE Write(p)  BY <2>8 DEF Write
  <2>9. CASE NotePartial(p)  BY <2>9 DEF NotePartial
  <2>10. CASE ReadBack(p)  BY <2>10 DEF ReadBack
  <2> QED
    BY <1>3, <2>1, <2>2, <2>3, <2>4, <2>5, <2>6, <2>7, <2>8, <2>9, <2>10 DEF EachFile
<1>4. ASSUME NEW p \in Runs, AtEnd(p) PROVE PlanRowStep(q)
  <2>1. CASE Start(p)  BY <2>1 DEF Start
  <2>2. CASE Verify(p)  BY <2>2 DEF Verify
  <2>3. CASE BeginFinal(p)  BY <2>3 DEF BeginFinal
  <2>4. CASE Complete(p)  BY <2>4 DEF Complete
  <2>5. CASE Completed(p)  BY <2>5 DEF Completed
  <2>6. CASE NoteFailure(p)  BY <2>6 DEF NoteFailure
  <2> QED
    BY <1>4, <2>1, <2>2, <2>3, <2>4, <2>5, <2>6 DEF AtEnd
<1>5. ASSUME NEW p \in Runs, Failure(p) PROVE PlanRowStep(q)
  <2>1. CASE WriteFails(p)  BY <2>1 DEF WriteFails
  <2>2. CASE NoteFails(p)  BY <2>2 DEF NoteFails
  <2>3. CASE CallFails(p)  BY <2>3 DEF CallFails
  <2>4. CASE PlanFails(p)  BY <2>4 DEF PlanFails
  <2>5. CASE Crash(p)  BY <2>5 DEF Crash
  <2> QED
    BY <1>5, <2>1, <2>2, <2>3, <2>4, <2>5 DEF Failure
<1>6. CASE People
  <2>1. ASSUME NEW f \in Files, EditFile(f) PROVE PlanRowStep(q)
    BY <2>1 DEF EditFile
  <2>2. ASSUME NEW f \in Files, ChangeKit(f) PROVE PlanRowStep(q)
    BY <2>2 DEF ChangeKit
  <2>3. CASE AddExtra  BY <2>3 DEF AddExtra
  <2>4. CASE MoveHead  BY <2>4 DEF MoveHead
  <2> QED
    BY <1>6, <2>1, <2>2, <2>3, <2>4 DEF People
<1> QED
  BY <1>1, <1>2, <1>3, <1>4, <1>5, <1>6 DEF Next

LEMMA ToldNext ==
    ASSUME SetupTypes, \A r \in Runs : Based(r) /\ Owned(r), Still, [Next]_vars, Calm', Still',
           NEW q \in Runs, NEW f \in Files, Told(q, f)
    PROVE  Told(q, f)'
<1>1. RowStep(q) /\ PlanRowStep(q)
  BY RowSteps, PlanRowSteps
<1>2. /\ target[f] = kit[f] => target'[f] = kit'[f]
      /\ Settled(f) => Settled(f)'
      /\ made[f] \in Runs => made'[f] \in Runs
      /\ target'[f] = Blocked <=> target[f] = Blocked
  BY CalmTarget
<1>3. base[q] = kit /\ kit[f] \in Nat /\ kit[f] # Missing /\ kit[f] # Blocked /\ Missing # Blocked
  BY FourContents DEF Still, SetupTypes, WorldTypes
<1>4. rows'[q][f] \in {rows[q][f], "NONE", Classify(q, f)}
  BY <1>1 DEF RowStep, Blank
<1>5. CASE rows'[q][f] = rows[q][f]
  BY <1>1, <1>2, <1>5 DEF Told, PlanRowStep, Scanned
<1>6. CASE rows'[q][f] = "NONE"
  BY <1>1, <1>2, <1>6 DEF Told, PlanRowStep, Scanned
<1>7. CASE rows'[q][f] = Classify(q, f)
  <2>1. CASE plan'[q].rows = rows[q] /\ rows'[q] = rows[q] /\ Scanned(q)
    BY <1>2, <2>1 DEF Told, Scanned
  <2>2. CASE /\ plan'[q].rows = plan[q].rows
             /\ pc'[q] \in {"planned", "check"} => pc[q] \in {"planned", "check"}
    <3>1. CASE target[f] = kit[f]
      BY <1>2, <1>3, <1>7, <2>2, <3>1 DEF Told, Classify
    <3>2. CASE target[f] = Missing
      BY <1>2, <1>3, <1>7, <2>2, <3>2 DEF Told, Classify, Settled
    <3>3. CASE target[f] # kit[f] /\ target[f] # Missing
      BY <1>2, <1>3, <1>7, <2>2, <3>3 DEF Told, Classify, Settled
    <3> QED
      BY <3>1, <3>2, <3>3
  <2> QED
    BY <1>1, <2>1, <2>2 DEF PlanRowStep
<1> QED
  BY <1>4, <1>5, <1>6, <1>7

\* A run takes its destinations in order, makes them in that order, and leaves none behind.
Ordered(p) ==
    /\ pc[p] \in Taken => \A g \in todo[p] : at[p] < g
    /\ \A f \in Files : made[f] = p =>
          /\ pc[p] \in Taken \cup {"next"} => \A g \in todo[p] : f < g
          /\ pc[p] \in Taken => f <= at[p]
          /\ pc[p] \in Creating \cup {"classify"} => f < at[p]

Waiting(p) == pc[p] \in Creating => Settled(at[p])

Behind(p) ==
    pc[p] \in Taken \cup {"next"} =>
        \A g \in selected[p] \ todo[p] : target[g] = kit[g] \/ (pc[p] \in Taken /\ g = at[p])

LEMMA OrderedNext ==
    SetupTypes /\ (\A q \in Runs : Fresh(q) /\ Ordered(q)) /\ [Next]_vars
    => \A q \in Runs : Ordered(q)'
<1> SUFFICES ASSUME SetupTypes, \A r \in Runs : Fresh(r) /\ Ordered(r), [Next]_vars, NEW q \in Runs
             PROVE  Ordered(q)'
  OBVIOUS
<1> USE DEF Creating, Taken
<1>1. TakenStep(q) /\ SetupTypes'
  BY TakenSteps, WorldNext, ScanNext, ControlNext, ReportNext DEF SetupTypes
<1>2. /\ todo[q] \subseteq Files /\ todo'[q] \subseteq Files /\ Files \subseteq Nat
      /\ pc[q] \in Taken => at[q] \in Files
      /\ pc'[q] \in Taken => at'[q] \in Files
  BY <1>1, SetupAssumption DEF SetupTypes, ControlTypes, Files
<1>3. pc'[q] \in Taken => \A g \in todo'[q] : at'[q] < g
  <2>1. CASE pc[q] \in Taken
    BY <1>1, <2>1 DEF TakenStep, Ordered
  <2>2. ASSUME pc'[q] \in Taken, pc[q] \notin Taken, NEW g \in todo'[q] PROVE at'[q] < g
    <3>1. at'[q] <= g /\ at'[q] # g
      BY <1>1, <2>2 DEF TakenStep
    <3>2. at'[q] \in Nat /\ g \in Nat
      BY <1>2, <2>2
    <3> QED
      BY <3>1, <3>2
  <2> QED
    BY <2>1, <2>2
<1>4. ASSUME NEW f \in Files, made'[f] = q
      PROVE  /\ pc'[q] \in Taken \cup {"next"} => \A g \in todo'[q] : f < g
             /\ pc'[q] \in Taken => f <= at'[q]
             /\ pc'[q] \in Creating \cup {"classify"} => f < at'[q]
  <2>1. MadeStep(f) /\ f \notin Dirs /\ Root \notin Runs
    BY MadeSteps, SetupAssumption
  <2>2. CASE made[f] # q
    <3>1. pc[q] = "create" /\ pc'[q] = "write" /\ at[q] = f
      BY <1>4, <2>1, <2>2 DEF MadeStep
    <3> QED
      BY <1>1, <1>2, <3>1 DEF TakenStep, Ordered
  <2>3. CASE made[f] = q
    <3>1. pc[q] # "verify"
      BY <2>3 DEF Fresh
    <3>2. CASE pc[q] = "next" /\ pc'[q] = "classify" /\ at'[q] \in todo[q]
               /\ todo'[q] = todo[q] \ {at'[q]}
      <4>1. \A g \in todo[q] : f < g /\ f \in Nat /\ g \in Nat
        BY <1>2, <2>3, <3>2 DEF Ordered
      <4> QED
        BY <3>2, <4>1
    <3>3. CASE pc[q] \in Taken \cup {"next"} /\ todo'[q] = todo[q]
               /\ (pc'[q] \in Taken => pc[q] \in Taken /\ at'[q] = at[q])
      <4>1. pc'[q] \in Taken \cup {"next"} => \A g \in todo'[q] : f < g
        BY <2>3, <3>3 DEF Ordered
      <4>2. pc'[q] \in Taken => f <= at'[q]
        BY <2>3, <3>3 DEF Ordered
      <4>3. pc'[q] \in Creating \cup {"classify"} => f < at'[q]
        BY <1>1, <2>3, <3>3 DEF Ordered, TakenStep
      <4> QED
        BY <4>1, <4>2, <4>3
    <3> QED
      BY <1>1, <3>1, <3>2, <3>3 DEF TakenStep
  <2> QED
    BY <2>2, <2>3
<1> QED
  BY <1>3, <1>4 DEF Ordered

LEMMA WaitingNext ==
    ASSUME SetupTypes, \A r \in Runs : Based(r) /\ Owned(r), Still, [Next]_vars, Calm', Still',
           NEW q \in Runs, Waiting(q)
    PROVE  Waiting(q)'
<1> SUFFICES ASSUME pc'[q] \in Creating PROVE Settled(at[q])' /\ at'[q] = at[q]
  BY DEF Waiting, Settled
<1>1. TakenStep(q)
  BY TakenSteps
<1>2. pc[q] \in Taken /\ Settled(at[q])
  BY <1>1 DEF TakenStep, Waiting, Settled, Creating, Taken
<1>3. at'[q] = at[q]
  BY <1>1, <1>2 DEF TakenStep, Creating, Taken
<1>4. at[q] \in Files
  BY <1>2 DEF SetupTypes, ControlTypes
<1> QED
  BY <1>2, <1>3, <1>4, CalmTarget DEF Settled

LEMMA BehindNext ==
    ASSUME SetupTypes, \A r \in Runs : Based(r) /\ Owned(r), Still, [Next]_vars, Calm', Still',
           NEW q \in Runs, Behind(q)
    PROVE  Behind(q)'
<1> SUFFICES ASSUME pc'[q] \in Taken \cup {"next"}, NEW g \in selected'[q] \ todo'[q]
             PROVE  target'[g] = kit'[g] \/ (pc'[q] \in Taken /\ g = at'[q])
  BY DEF Behind
<1>1. TakenStep(q) /\ EarlyStep(q) /\ base[q] = kit
  BY TakenSteps, EarlySteps DEF Still
<1>2. selected'[q] = selected[q] /\ g \in Files
  BY <1>1 DEF TakenStep, EarlyStep, SetupTypes, ControlTypes, Taken
<1>3. target[g] = kit[g] => target'[g] = kit'[g]
  BY <1>2, CalmTarget
<1>4. CASE pc[q] \in Taken \cup {"next"} /\ todo'[q] = todo[q]
           /\ (pc'[q] \in Taken => pc[q] \in Taken /\ at'[q] = at[q])
  <2>1. CASE pc[q] \in Taken /\ pc'[q] = "next"
    BY <1>1, <1>2, <1>3, <1>4, <2>1 DEF Behind, TakenStep
  <2>2. CASE ~(pc[q] \in Taken /\ pc'[q] = "next")
    BY <1>2, <1>3, <1>4, <2>2 DEF Behind
  <2> QED
    BY <2>1, <2>2
<1>5. CASE pc[q] = "next" /\ pc'[q] = "classify" /\ todo'[q] = todo[q] \ {at'[q]}
  BY <1>2, <1>3, <1>5 DEF Behind, Taken
<1> QED
  BY <1>1, <1>2, <1>4, <1>5 DEF TakenStep

-----------------------------------------------------------------------------
(* Why a run may fail when all is calm *)

Failed(p) == pc[p] = "fail" \/ outcome[p] = "FAILED"

\* Another run has made a destination beyond all that this one has made.
Outdone(p) == \E f \in Files : made[f] \in Runs \ {p} /\ \A g \in Files : made[g] = p => g < f

FailStep(q) ==
    Calm' /\ Failed(q)' /\ ~Failed(q) =>
        /\ target' = target /\ made' = made /\ plan' = plan
        /\ pc[q] # "planned" => selected' = selected
        /\ \/ pc[q] = "planned" /\ ~Reviewed(q)
           \/ pc[q] = "check" /\ \E f \in selected[q] : rows[q][f] # "NONE" /\ ~Selectable(q, f)
           \/ pc[q] = "check" /\ ~SameKeys(q) /\ Scanned(q)
           \/ /\ pc[q] = "open"
              /\ ~(kit = base[q] /\ (selected[q] \cap Mirrors # {} => Ready(q, selected[q])))
           \/ pc[q] = "verify" /\ head # plan[q].head
           \/ /\ pc[q] = "next" /\ \E f \in todo[q] \cap Mirrors :
                    (\A g \in todo[q] : f <= g) /\ ~Ready(q, {})
           \/ pc[q] = "classify" /\ Classify(q, at[q]) \in {"CONFLICT", "BLOCKED"}
           \/ pc[q] = "create" /\ target[at[q]] # Missing
           \/ pc[q] = "readback" /\ target[at[q]] # base[q][at[q]]

LEMMA FailSteps == SetupTypes /\ Still /\ [Next]_vars => \A q \in Runs : FailStep(q)
<1> SUFFICES ASSUME SetupTypes, Still, [Next]_vars, NEW q \in Runs
             PROVE  FailStep(q)
  OBVIOUS
<1>still. \A p \in Runs : pc[p] # "partial" /\ (outcome[p] = "FAILED" => pc[p] = "done")
  BY DEF Still
<1> USE DEF SetupTypes, WorldTypes, ControlTypes, ReportTypes, work, choice, people,
          Goto, Calm, Finish, Failed, FailStep
<1>1. CASE UNCHANGED vars
  BY <1>1 DEF vars
<1>2. ASSUME NEW p \in Runs, Before(p) PROVE FailStep(q)
  <2>1. CASE BeginPlan(p)  BY <2>1 DEF BeginPlan
  <2>2. CASE ScanRow(p)  BY <2>2 DEF ScanRow
  <2>3. CASE Planned(p)  BY <2>3 DEF Planned
  <2>4. CASE BeginApply(p)  BY <2>4 DEF BeginApply
  <2>5. CASE Check(p)  BY <2>5 DEF Check, Scanned
  <2>6. CASE OpenReceipt(p)  BY <2>6 DEF OpenReceipt
  <2> QED
    BY <1>2, <2>1, <2>2, <2>3, <2>4, <2>5, <2>6 DEF Before
<1>3. ASSUME NEW p \in Runs, EachFile(p) PROVE FailStep(q)
  <2>1. CASE Take(p)  BY <2>1 DEF Take
  <2>2. CASE TakeUp(p)  BY <2>2 DEF TakeUp
  <2>3. CASE OpenParent(p)  BY <2>3 DEF OpenParent
  <2>4. CASE MakeDirectory(p)  BY <2>4 DEF MakeDirectory
  <2>5. CASE NoteDirectory(p)  BY <2>5 DEF NoteDirectory
  <2>6. CASE Intend(p)  BY <2>6 DEF Intend
  <2>7. CASE Create(p)  BY <2>7 DEF Create, Exclusive
  <2>8. CASE Write(p)  BY <2>8 DEF Write
  <2>9. CASE NotePartial(p)  BY <2>9, <1>still DEF NotePartial
  <2>10. CASE ReadBack(p)  BY <2>10 DEF ReadBack, SameBytes
  <2> QED
    BY <1>3, <2>1, <2>2, <2>3, <2>4, <2>5, <2>6, <2>7, <2>8, <2>9, <2>10 DEF EachFile
<1>4. ASSUME NEW p \in Runs, AtEnd(p) PROVE FailStep(q)
  <2>1. CASE Start(p)  BY <2>1 DEF Start
  <2>2. CASE Verify(p)  BY <2>2 DEF Verify
  <2>3. CASE BeginFinal(p)  BY <2>3 DEF BeginFinal
  <2>4. CASE Complete(p)  BY <2>4 DEF Complete
  <2>5. CASE Completed(p)  BY <2>5 DEF Completed
  <2>6. CASE NoteFailure(p)  BY <2>6 DEF NoteFailure
  <2> QED
    BY <1>4, <2>1, <2>2, <2>3, <2>4, <2>5, <2>6 DEF AtEnd
<1>5. ASSUME NEW p \in Runs, Failure(p) PROVE FailStep(q)
  <2>1. CASE WriteFails(p)  BY <2>1 DEF WriteFails, Fault
  <2>2. CASE NoteFails(p)  BY <2>2 DEF NoteFails, Fault
  <2>3. CASE CallFails(p)  BY <2>3 DEF CallFails, Fault
  <2>4. CASE PlanFails(p)  BY <2>4 DEF PlanFails, Fault
  <2>5. CASE Crash(p)  BY <2>5 DEF Crash, Fault
  <2> QED
    BY <1>5, <2>1, <2>2, <2>3, <2>4, <2>5 DEF Failure
<1>6. CASE People
  <2>1. ASSUME NEW f \in Files, EditFile(f) PROVE FailStep(q)
    BY <2>1 DEF EditFile
  <2>2. ASSUME NEW f \in Files, ChangeKit(f) PROVE FailStep(q)
    BY <2>2 DEF ChangeKit
  <2>3. CASE AddExtra  BY <2>3 DEF AddExtra
  <2>4. CASE MoveHead  BY <2>4 DEF MoveHead
  <2> QED
    BY <1>6, <2>1, <2>2, <2>3, <2>4 DEF People
<1> QED
  BY <1>1, <1>2, <1>3, <1>4, <1>5, <1>6 DEF Next
\* What the plan of an eligible run says of a destination it depends on.
Depends(p, f) == f \in selected[p] \/ (selected[p] \cap Mirrors # {} /\ f \in Canonical)

\* What an eligible run depends on and does not find was missing in its plan.
LEMMA EligibleRows ==
    ASSUME SetupTypes, Still, NEW q \in Runs, Eligible(q), NEW f \in Files, Told(q, f), Depends(q, f),
           target[f] # kit[f]
    PROVE  f \in selected[q] /\ Settled(f)
<1>1. plan[q].rows[f] # "IDENTICAL"
  BY DEF Told
<1>2. f \in selected[q]
  BY <1>1 DEF Depends, Eligible
<1> QED
  BY <1>1, <1>2 DEF Eligible, Told

\* A run only fails at a destination that another run has made, before or as far as it came.
LEMMA FailsBehind ==
    ASSUME SetupInv, Still, [Next]_vars, Calm', NEW q \in Runs, Failed(q)', ~Failed(q), Eligible(q),
           \A f \in Files : Told(q, f), Ordered(q), Waiting(q), Behind(q)
    PROVE  Outdone(q)
<1> USE DEF Taken
<1>1. /\ SetupTypes /\ RunInv(q) /\ FailStep(q)
      /\ base[q] = kit /\ plan[q].kit = kit /\ plan[q].head = head /\ touched = {} /\ ~extra
  BY FailSteps DEF SetupInv, Still
<1>2. /\ Root \notin Runs /\ Canonical \subseteq Files /\ Mirrors \subseteq Files
      /\ \A c \in Canonical, m \in Mirrors : c < m
  BY SetupAssumption
<1>3. \A f \in Files : kit[f] \in Nat /\ kit[f] # Missing
  BY <1>1, FourContents DEF SetupTypes, WorldTypes
<1>4. ASSUME NEW f \in Files, made[f] \in Runs \ {q}, \A g \in Files : made[g] = q => g < f
      PROVE  Outdone(q)
  BY <1>4 DEF Outdone
<1>5. ASSUME pc[q] \in Early, NEW f \in Files, made[f] \in Runs PROVE Outdone(q)
  BY <1>1, <1>4, <1>5 DEF RunInv, Fresh
<1>6. pc[q] # "planned" \/ Reviewed(q)
  BY <1>1 DEF Reviewed
<1>7. CASE pc[q] = "check" /\ \E f \in selected[q] : rows[q][f] # "NONE" /\ ~Selectable(q, f)
  <2>1. PICK f \in selected[q] : rows[q][f] # "NONE" /\ ~Selectable(q, f)
    BY <1>7
  <2>2. f \in Files /\ rows[q][f] \in Rows
    BY <1>1, <2>1 DEF SetupTypes, ControlTypes, ScanTypes
  <2>3. made[f] \in Runs
    BY <2>1, <2>2 DEF Selectable, Eligible, Told, Rows
  <2> QED
    BY <1>5, <1>7, <2>2, <2>3 DEF Early
<1>12. ~(pc[q] = "check" /\ ~SameKeys(q) /\ Scanned(q))
  BY <1>1 DEF SameKeys, Scanned, Told, SetupTypes, ScanTypes, Plans
<1>8. CASE pc[q] = "open"
           /\ ~(kit = base[q] /\ (selected[q] \cap Mirrors # {} => Ready(q, selected[q])))
  <2>1. selected[q] \cap Mirrors # {} /\ ~Ready(q, selected[q])
    BY <1>1, <1>8
  <2>2. PICK c \in Canonical : target[c] # kit[c] /\ ~(target[c] = Missing /\ c \in selected[q])
    BY <1>1, <1>2, <1>3, <2>1 DEF Ready
  <2>3. c \in selected[q] /\ Settled(c)
    BY <1>1, <1>2, <2>1, <2>2, EligibleRows DEF Depends
  <2> QED
    BY <1>2, <1>5, <1>8, <2>2, <2>3 DEF Early, Settled
<1>9. CASE pc[q] = "next"
           /\ \E f \in todo[q] \cap Mirrors : (\A g \in todo[q] : f <= g) /\ ~Ready(q, {})
  <2>1. PICK f \in todo[q] \cap Mirrors : (\A g \in todo[q] : f <= g) /\ ~Ready(q, {})
    BY <1>9
  <2>2. PICK c \in Canonical : target[c] # kit[c]
    BY <1>1, <1>2, <1>3, <2>1 DEF Ready
  <2>3. f \in selected[q]
    BY <1>1, <1>9, <2>1 DEF SetupTypes, ControlTypes
  <2>4. c \in selected[q]
    BY <1>1, <1>2, <2>1, <2>2, <2>3, EligibleRows DEF Depends
  <2>5. c < f /\ ~(f <= c)
    BY <1>2, <2>1 DEF Files
  <2>6. c \notin todo[q]
    BY <2>1, <2>5
  <2> QED
    BY <1>9, <2>2, <2>4, <2>6 DEF Behind
<1>10. CASE pc[q] \in {"classify", "create"} /\ target[at[q]] # Missing
            /\ (pc[q] = "classify" => target[at[q]] # base[q][at[q]])
  <2>1. at[q] \in selected[q] /\ at[q] \in Files
    BY <1>1, <1>10 DEF SetupTypes, ControlTypes
  <2>2. Settled(at[q])
    BY <1>1, <1>10, <2>1, EligibleRows DEF Depends, Waiting, Creating
  <2>3. made[at[q]] # q
    BY <1>10, <2>1 DEF Ordered, Creating, Files
  <2>4. \A g \in Files : made[g] = q => g < at[q]
    BY <1>10 DEF Ordered, Creating
  <2> QED
    BY <1>4, <1>10, <2>1, <2>2, <2>3, <2>4 DEF Settled
<1>11. CASE pc[q] = "readback" /\ target[at[q]] # base[q][at[q]]
  <2>1. at[q] \in Files
    BY <1>1, <1>11 DEF SetupTypes, ControlTypes
  <2>2. made[at[q]] = q
    BY <1>1, <1>11 DEF RunInv, Writing
  <2>3. target[at[q]] = Partial
    BY <1>1, <1>11, <2>1, <2>2 DEF RunInv, Owned
  <2> QED
    BY <1>1, <1>11, <2>1, <2>2, <2>3 DEF RunInv, HalfWritten, Still
<1> QED
  BY <1>1, <1>6, <1>7, <1>12, <1>8, <1>9, <1>10, <1>11 DEF FailStep, Classify

\* Who made a file stays its maker, and a failed run makes nothing more.
LEMMA OutdoneStays ==
    ASSUME SetupInv, Still, [Next]_vars, Calm', Still', NEW q \in Runs, Outdone(q),
           pc[q] \notin {"create", "mkdir"}
    PROVE  Outdone(q)'
<1>1. PICK f \in Files : made[f] \in Runs \ {q} /\ \A g \in Files : made[g] = q => g < f
  BY DEF Outdone
<1>2. SetupTypes /\ \A r \in Runs : Based(r) /\ Owned(r)
  BY DEF SetupInv, RunInv
<1>3. made'[f] = made[f]
  BY <1>1, <1>2, CalmTarget
<1>4. ASSUME NEW g \in Files, made'[g] = q PROVE made[g] = q
  BY <1>2, <1>4, MadeSteps, SetupAssumption DEF MadeStep
<1> QED
  BY <1>1, <1>3, <1>4 DEF Outdone

\* All that is known of the runs while it is calm.
CalmInv ==
    Calm =>
        /\ Still
        /\ \A p \in Runs :
              /\ \A f \in Files : Told(p, f)
              /\ Waiting(p) /\ Behind(p)
              /\ Failed(p) /\ Eligible(p) => Outdone(p)

\* CalmInv holds at first, and each step keeps it.
LEMMA CalmInvInit == Init => CalmInv /\ \A p \in Runs : Ordered(p)
<1> SUFFICES ASSUME Init PROVE CalmInv /\ \A p \in Runs : Ordered(p)
  OBVIOUS
<1>1. \A p \in Runs : /\ pc[p] = "idle" /\ plan[p].kit = kit /\ plan[p].head = head /\ base[p] = kit
                      /\ plan[p].rows = Blank /\ rows[p] = Blank /\ ~broken[p] /\ noted[p] = {}
                      /\ outcome[p] = "none"
  BY DEF Init
<1>2. Still
  BY <1>1 DEF Init, Still
<1>3. \A p \in Runs, f \in Files : Told(p, f)
  BY <1>1 DEF Told, Blank
<1>4. \A p \in Runs : Waiting(p) /\ Behind(p) /\ ~Failed(p)
  BY <1>1 DEF Waiting, Behind, Failed, Creating, Taken
<1>5. \A p \in Runs, f \in Files : made[f] # p
  BY SetupAssumption DEF Init
<1> QED
  BY <1>1, <1>2, <1>3, <1>4, <1>5 DEF CalmInv, Ordered, Creating, Taken

LEMMA CalmInvNext ==
    SetupInv /\ SetupInv' /\ CalmInv /\ (\A p \in Runs : Ordered(p)) /\ [Next]_vars => CalmInv'
<1> SUFFICES ASSUME SetupInv, SetupInv', CalmInv, \A p \in Runs : Ordered(p), [Next]_vars, Calm'
             PROVE  CalmInv'
  BY DEF CalmInv
<1>1. SetupTypes /\ \A r \in Runs : Based(r) /\ Owned(r)
  BY DEF SetupInv, RunInv
<1>2. Calm /\ Still /\ Still'
  BY <1>1, CalmSteps, StillNext DEF CalmStep, CalmInv
<1>3. \A p \in Runs : /\ \A f \in Files : Told(p, f)
                      /\ Waiting(p) /\ Behind(p)
                      /\ Failed(p) /\ Eligible(p) => Outdone(p)
  BY <1>2 DEF CalmInv
<1>4. \A p \in Runs : (\A f \in Files : Told(p, f)') /\ Waiting(p)' /\ Behind(p)'
  BY <1>1, <1>2, <1>3, ToldNext, WaitingNext, BehindNext
<1>5. ASSUME NEW p \in Runs, Failed(p)', Eligible(p)' PROVE Outdone(p)'
  <2>1. CASE Failed(p)
    <3>1. pc[p] \in {"fail", "done"}
      BY <1>2, <2>1 DEF Failed, Still
    <3>2. Eligible(p)
      BY <1>1, <1>5, <3>1, EarlySteps DEF EarlyStep, Eligible
    <3> QED
      BY <1>2, <1>3, <2>1, <3>1, <3>2, OutdoneStays
  <2>2. CASE ~Failed(p)
    <3>1. FailStep(p)
      BY <1>1, <1>2, FailSteps
    <3>2. plan' = plan /\ made' = made /\ pc[p] # "planned" /\ selected' = selected
      BY <1>2, <1>5, <2>2, <3>1 DEF FailStep, Still, Reviewed
    <3>3. Eligible(p)
      BY <1>5, <3>2 DEF Eligible
    <3>4. Outdone(p)
      BY <1>2, <1>3, <1>5, <2>2, <3>3, FailsBehind
    <3> QED
      BY <3>2, <3>4 DEF Outdone
  <2> QED
    BY <2>1, <2>2
<1> QED
  BY <1>2, <1>4, <1>5 DEF CalmInv

\* Among destinations there is a last one.
LEMMA LastOne ==
    ASSUME NEW S \in SUBSET Files, S # {}
    PROVE  \E x \in S : \A y \in S : y <= x
<1> DEFINE T == {N - x : x \in S}
<1>1. T \subseteq Nat /\ T # {}
  <2>1. N \in Nat
    BY SetupAssumption
  <2>2. \A x \in S : N - x \in Nat
    BY <2>1 DEF Files
  <2> QED
    BY <2>2
<1>2. PICK t \in T : \A u \in T : <<u, t>> \notin OpToRel(<, Nat)
  BY <1>1, WFMin, NatLessThanWellFounded
<1>3. PICK x \in S : t = N - x
  BY <1>2
<1>4. ASSUME NEW y \in S PROVE y <= x
  <2>1. ~(N - y < N - x)
    BY <1>1, <1>2, <1>3 DEF OpToRel
  <2> QED
    BY <2>1, SetupAssumption DEF Files
<1> QED
  BY <1>4

\* Both invariants hold always.
LEMMA CalmInvAlways == Spec => [](CalmInv /\ SetupInv)
<1>1. Init => CalmInv /\ SetupInv /\ \A p \in Runs : Ordered(p)
  BY CalmInvInit, SetupInvInit
<1>2. CalmInv /\ SetupInv /\ (\A p \in Runs : Ordered(p)) /\ [Next]_vars
      => (CalmInv /\ SetupInv /\ \A p \in Runs : Ordered(p))'
  <2>1. SetupInv => SetupTypes /\ \A p \in Runs : Fresh(p)
    BY DEF SetupInv, RunInv
  <2> QED
    BY <2>1, CalmInvNext, SetupInvNext, OrderedNext
<1> QED
  BY <1>1, <1>2, PTL DEF Spec

\* When nothing fails and nobody edits, runs with eligible selections cannot all fail: a run
\* that fails is outdone by the maker of a later destination, and there is a last one made.
THEOREM OneRunSucceeds == Spec => []SomeoneSucceeds
<1>1. CalmInv /\ SetupInv => SomeoneSucceeds
  <2> SUFFICES ASSUME CalmInv, SetupInv, Calm, \A p \in Runs : pc[p] = "done" /\ Eligible(p),
                      \A p \in Runs : outcome[p] = "FAILED"
               PROVE  FALSE
    BY DEF SomeoneSucceeds, Calm
  <2> DEFINE S == {f \in Files : made[f] \in Runs}
  <2>1. \A p \in Runs : Outdone(p)
    BY DEF CalmInv, Failed
  <2>2. S # {}
    BY <2>1, SetupAssumption DEF Outdone
  <2>3. PICK x \in S : \A y \in S : y <= x
    BY <2>2, LastOne
  <2>4. PICK f \in Files : made[f] \in Runs /\ x < f
    BY <2>1, <2>3 DEF Outdone
  <2>5. f <= x
    BY <2>3, <2>4
  <2> QED
    BY <2>4, <2>5, SetupAssumption DEF Files
<1> QED
  BY <1>1, CalmInvAlways, PTL

=============================================================================
