--------------------------- MODULE SkillSyncProofs ---------------------------
(***************************************************************************)
(* Proofs about skill synchronization, for any number of runs, skills,      *)
(* files, edits and failures.  The argument is that of a double collect:    *)
(* versions only grow, so a staged copy that equals source_digest, read     *)
(* before it, equals the source at the moment source_digest was complete.   *)
(***************************************************************************)
EXTENDS SkillSync, TLAPS

USE SyncAssumption

\* The present canonical skill is in the history, and edits only bring new versions.
Monotone ==
    \A s \in Skills : source[s] \in was[s] /\ \A f \in Files : source[s][f] < NewVersion

\* A state of the canonical skill between what has been digested and what is staged.
Between(p, below, above) ==
    \E t \in was[skill[p]] : \A f \in Files : below[f] <= t[f] /\ t[f] <= above[f]

\* While the copy is read, that state is also not after what has been copied so far.
Copying(p) ==
    \E t \in was[skill[p]] : \A f \in Files :
        /\ want[p][f] <= t[f] /\ t[f] <= Canonical(p)[f]
        /\ got[p][f] # None => t[f] <= got[p][f]

Sound(p) ==
    /\ pc[p] = "digest" => \A f \in Files : got[p][f] # None => got[p][f] <= Canonical(p)[f]
    /\ pc[p] = "copy" => want[p] # None /\ Copying(p)
    /\ pc[p] = "verify" => want[p] # None /\ Between(p, want[p], staged[p])
    /\ pc[p] \in Moving => staged[p] \in was[skill[p]]
    /\ pc[p] \in Moving => Whole(skill[p], backup[p])
    /\ pc[p] = "install" /\ Replacing(p) => backup[p] # None
    /\ pc[p] \notin {"install", "restore"} => backup[p] = None

Inv ==
    /\ TypeOK
    /\ Monotone
    /\ \A p \in Processes : Sound(p)
    /\ CopiesAreWhole

\* What a run that ends leaves behind.
LEMMA EndFrame ==
    ASSUME TypeOK, NEW p \in Processes, End(p)
    PROVE  /\ pc'[p] = "idle" /\ backup'[p] = None
           /\ \A q \in Processes \ {p} :
                 /\ pc'[q] = pc[q] /\ mode'[q] = mode[q] /\ skill'[q] = skill[q] /\ got'[q] = got[q]
                 /\ seen'[q] = seen[q] /\ want'[q] = want[q]
                 /\ staged'[q] = staged[q] /\ backup'[q] = backup[q]
BY DEF TypeOK, End, Goto

\* A run changes its own variables only.
LEMMA StepFrame ==
    ASSUME TypeOK, NEW p \in Processes, Step(p) \/ Failure(p)
    PROVE  /\ UNCHANGED people
           /\ \A q \in Processes \ {p} :
                 /\ pc'[q] = pc[q] /\ mode'[q] = mode[q] /\ skill'[q] = skill[q] /\ got'[q] = got[q]
                 /\ seen'[q] = seen[q] /\ want'[q] = want[q]
                 /\ staged'[q] = staged[q] /\ backup'[q] = backup[q]
<1> DEFINE Frame == \A q \in Processes \ {p} :
                 /\ pc'[q] = pc[q] /\ mode'[q] = mode[q] /\ skill'[q] = skill[q] /\ got'[q] = got[q]
                 /\ seen'[q] = seen[q] /\ want'[q] = want[q]
                 /\ staged'[q] = staged[q] /\ backup'[q] = backup[q]
<1>1. UNCHANGED people
  BY DEF Step, Failure, Start, NextSkill, Return, ReadFile, CopyVanished, Compared, Decided, Digested, Copied, Verified, MoveAway, Install, InstallRefused, Restore, Delete, DeleteDirectory, Error, TidyFails, Interrupt, Crash, people
<1>2. End(p) => Frame
  BY EndFrame
<1>3. Fail(p) => Frame
  BY <1>2 DEF Fail
<1>4. InstallFailed(p) => Frame
  BY <1>3 DEF InstallFailed, Goto, TypeOK, reading, stage
<1>13. SUFFICES Frame
  BY <1>1
<1> HIDE DEF Frame
<1>5. CASE Start(p) \/ NextSkill(p)
  BY <1>5 DEF Frame, Start, NextSkill, Goto, TypeOK, reading, stage
<1>6. CASE ReadFile(p) \/ Compared(p) \/ Digested(p) \/ Copied(p)
  BY <1>6 DEF Frame, ReadFile, Compared, Digested, Copied, HasRead, Goto, TypeOK, reading, stage
<1>7. CASE Decided(p)
  <2>1. CASE Fail(p)
    BY <1>3, <2>1
  <2>2. CASE ~Fail(p)
    BY <1>7, <2>2 DEF Frame, Decided, HasRead, Goto, TypeOK, reading, stage
  <2> QED
    BY <2>1, <2>2
<1>8. CASE Verified(p)
  <2>1. CASE Fail(p)
    BY <1>3, <2>1
  <2>2. CASE ~Fail(p)
    BY <1>8, <2>2 DEF Frame, Verified, HasRead, Goto, TypeOK, reading, stage
  <2> QED
    BY <2>1, <2>2
<1>9. CASE MoveAway(p) \/ Install(p) \/ Delete(p)
  BY <1>9 DEF Frame, MoveAway, Install, Delete, Goto, TypeOK, reading, stage
<1>10. CASE Return(p) \/ Crash(p)
  BY <1>2, <1>10 DEF Return, Crash
<1>11. CASE CopyVanished(p) \/ Restore(p) \/ TidyFails(p)
  BY <1>3, <1>11 DEF CopyVanished, Restore, TidyFails
<1>14. CASE DeleteDirectory(p)
  <2>1. CASE Fail(p)
    BY <1>3, <2>1
  <2>2. CASE ~Fail(p)
    BY <1>14, <2>2 DEF Frame, DeleteDirectory, Goto, TypeOK, reading, stage
  <2> QED
    BY <2>1, <2>2
<1>12. CASE InstallRefused(p) \/ Error(p) \/ Interrupt(p)
  BY <1>3, <1>4, <1>12 DEF InstallRefused, Error, Interrupt
<1> QED
  BY <1>5, <1>6, <1>7, <1>8, <1>9, <1>10, <1>11, <1>12, <1>14 DEF Step, Failure

-----------------------------------------------------------------------------
(* Types *)

Somewhere == [Files -> Nat \cup {None}]

LEMMA NothingType == Nothing \in Somewhere /\ (\A v \in Nat : Everywhere(v) \in Tree)
BY DEF Nothing, Everywhere, Somewhere, Tree

LEMMA EndType ==
    ASSUME TypeOK, NEW p \in Processes, End(p), UNCHANGED people, dest' \in [Skills -> Tree \cup {None}],
           faults' \in 0..MaxFaults, left' \in [Skills -> SUBSET Tree]
    PROVE  TypeOK'
<1>1. /\ pc' \in [Processes -> {"idle", "next"} \cup Working]
      /\ mode' \in [Processes -> Modes \cup {"none"}]
      /\ todo' \in [Processes -> SUBSET Skills] /\ skill' \in [Processes -> Skills \cup {None}]
  BY DEF TypeOK, End, Goto
<1>2. got' \in [Processes -> Somewhere]
  BY NothingType DEF TypeOK, End, Somewhere
<1>3. /\ seen' \in [Processes -> Tree \cup {None}] /\ want' \in [Processes -> Tree \cup {None}]
      /\ staged' \in [Processes -> Tree \cup {None}] /\ backup' \in [Processes -> Tree \cup {None}]
  BY DEF TypeOK, End
<1>4. \A q \in Processes :
          /\ pc'[q] \in Working => skill'[q] # None
          /\ pc'[q] \in {"verify", "moveAway", "install", "restore"} => staged'[q] # None
          /\ pc'[q] = "restore" => backup'[q] # None
  BY DEF TypeOK, End, Goto, Working, Deleting, Reading, Moving
<1> QED
  BY <1>1, <1>2, <1>3, <1>4 DEF TypeOK, people, Somewhere, Modes

LEMMA TypeStep == Inv /\ [Next]_vars => TypeOK'
<1> SUFFICES ASSUME Inv, [Next]_vars PROVE TypeOK'
  OBVIOUS
<1>1. TypeOK
  BY DEF Inv
<1> USE DEF people, reading, stage, Modes
<1>2. CASE UNCHANGED vars
  BY <1>1, <1>2 DEF TypeOK, vars
<1>3. ASSUME NEW p \in Processes, Fail(p), UNCHANGED people, dest' \in [Skills -> Tree \cup {None}],
             faults' \in 0..MaxFaults
      PROVE  TypeOK'
  BY <1>1, <1>3, EndType DEF Fail, TypeOK
<1>4. ASSUME NEW p \in Processes, NEW tree \in Tree \cup {None}, SetCopy(p, tree)
      PROVE  dest' \in [Skills -> Tree \cup {None}]
  BY <1>1, <1>4 DEF TypeOK, SetCopy
<1>5. ASSUME NEW k, Fault(k) PROVE faults' \in 0..MaxFaults
  BY <1>1, <1>5 DEF TypeOK, Fault
<1>6. ASSUME NEW p \in Processes, InstallFailed(p), pc[p] = "install", UNCHANGED <<people, dest>>,
             faults' \in 0..MaxFaults
      PROVE  TypeOK'
  <2>1. CASE Replacing(p)
    <3>1. backup[p] # None
      BY <1>6, <2>1 DEF Inv, Sound
    <3>2. /\ pc' = [pc EXCEPT ![p] = "restore"]
          /\ UNCHANGED <<people, dest, mode, todo, skill, reading, stage, left>>
      BY <1>6, <2>1 DEF InstallFailed, Goto
    <3>3. /\ pc' \in [Processes -> {"idle", "next"} \cup Working]
          /\ skill[p] # None /\ staged[p] # None
      BY <1>1, <1>6, <3>2 DEF TypeOK, Working, Moving
    <3> QED
      BY <1>1, <1>6, <3>1, <3>2, <3>3 DEF TypeOK
  <2>2. CASE ~Replacing(p)
    BY <1>1, <1>3, <1>6, <2>2 DEF InstallFailed, TypeOK
  <2> QED
    BY <2>1, <2>2
<1>7. ASSUME NEW p \in Processes, Step(p) PROVE TypeOK'
  <2> USE <1>1
  <2>1. CASE Start(p)
    BY <2>1 DEF Start, Goto, TypeOK, Working, Deleting, Reading, Moving
  <2>2. CASE NextSkill(p)
    <3>1. got' \in [Processes -> Somewhere]
      BY <2>2, NothingType DEF NextSkill, TypeOK, Somewhere
    <3> QED
      BY <2>2, <3>1 DEF NextSkill, Goto, TypeOK, Somewhere, Working, Deleting, Reading, Moving
  <2>3. CASE Return(p)
    BY <2>3, EndType DEF Return, TypeOK
  <2>4. CASE ReadFile(p)
    <3>1. skill[p] \in Skills
      BY <2>4 DEF ReadFile, TypeOK, Working
    <3>2. Canonical(p) \in Tree /\ (pc[p] = "compare" => Copy(p) \in Tree)
      BY <2>4, <3>1 DEF ReadFile, TypeOK, Canonical, Copy
    <3>3. got' \in [Processes -> Somewhere]
      BY <2>4, <3>2 DEF ReadFile, TypeOK, Somewhere, Tree
    <3> QED
      BY <2>4, <3>3 DEF ReadFile, TypeOK, Somewhere
  <2>5. CASE CopyVanished(p)
    BY <1>3, <2>5 DEF CopyVanished, TypeOK
  <2>6. ASSUME NEW place, HasRead(p, place) PROVE got[p] \in Tree /\ got' \in [Processes -> Somewhere]
    BY <2>6, NothingType DEF HasRead, Complete, TypeOK, Somewhere, Tree
  <2>7. CASE Compared(p)
    <3>1. got[p] \in Tree /\ got' \in [Processes -> Somewhere]
      BY <2>6, <2>7 DEF Compared
    <3> QED
      BY <2>7, <3>1 DEF Compared, HasRead, Goto, TypeOK, Somewhere, Working, Deleting, Reading, Moving
  <2>8. CASE Decided(p)
    <3>1. CASE Fail(p) /\ UNCHANGED <<people, dest, faults>>
      BY <1>3, <3>1 DEF TypeOK
    <3>2. CASE ~(Fail(p) /\ UNCHANGED <<people, dest, faults>>)
      <4>1. HasRead(p, "against")
        BY <2>8, <3>2 DEF Decided
      <4>2. got' \in [Processes -> Somewhere]
        BY <2>6, <4>1
      <4> QED
        BY <2>8, <3>2, <4>1, <4>2 DEF Decided, HasRead, Goto, TypeOK, Somewhere, Working, Deleting, Reading, Moving
    <3> QED
      BY <3>1, <3>2
  <2>9. CASE Digested(p)
    <3>1. got[p] \in Tree /\ got' \in [Processes -> Somewhere]
      BY <2>6, <2>9 DEF Digested
    <3> QED
      BY <2>9, <3>1 DEF Digested, HasRead, Goto, TypeOK, Somewhere, Working, Deleting, Reading, Moving
  <2>10. CASE Copied(p)
    <3>1. got[p] \in Tree /\ got' \in [Processes -> Somewhere]
      BY <2>6, <2>10 DEF Copied
    <3>2. got[p] # None
      BY <3>1
    <3> QED
      BY <2>10, <3>1, <3>2 DEF Copied, HasRead, Goto, TypeOK, Somewhere, Working, Deleting, Reading, Moving
  <2>11. CASE Verified(p)
    <3>1. CASE Fail(p) /\ UNCHANGED <<people, dest, faults>>
      BY <1>3, <3>1 DEF TypeOK
    <3>2. CASE ~(Fail(p) /\ UNCHANGED <<people, dest, faults>>)
      <4>1. HasRead(p, "verify")
        BY <2>11, <3>2 DEF Verified
      <4>2. got' \in [Processes -> Somewhere]
        BY <2>6, <4>1
      <4> QED
        BY <2>11, <3>2, <4>1, <4>2 DEF Verified, HasRead, Goto, TypeOK, Somewhere, Working, Deleting, Reading, Moving
    <3> QED
      BY <3>1, <3>2
  <2>12. CASE MoveAway(p)
    <3>1. dest' \in [Skills -> Tree \cup {None}]
      BY <1>4, <2>12 DEF MoveAway
    <3>2. Copy(p) \in Tree
      BY <2>12 DEF MoveAway, Copy, TypeOK, Working, Moving
    <3> QED
      BY <2>12, <3>1, <3>2 DEF MoveAway, Goto, TypeOK, Working, Deleting, Reading, Moving
  <2>13. CASE Install(p)
    <3>1. dest' \in [Skills -> Tree \cup {None}]
      BY <1>4, <2>13 DEF Install, TypeOK
    <3> QED
      BY <2>13, <3>1 DEF Install, Goto, TypeOK, Working, Deleting, Reading, Moving
  <2>14. CASE InstallRefused(p)
    BY <1>6, <2>14 DEF InstallRefused, TypeOK
  <2>15. CASE Restore(p)
    <3>1. dest' \in [Skills -> Tree \cup {None}]
      BY <1>4, <2>15 DEF Restore, TypeOK
    <3> QED
      BY <1>3, <2>15, <3>1 DEF Restore, TypeOK
  <2>16. CASE Delete(p)
    <3>1. Copy(p) \in Tree
      BY <2>16 DEF Delete, Copy, TypeOK, Working, Deleting
    <3>2. \A f \in Files : [Copy(p) EXCEPT ![f] = Gone] \in Tree
      BY <3>1 DEF Tree, Gone
    <3>3. dest' \in [Skills -> Tree \cup {None}]
      BY <1>4, <2>16, <3>2 DEF Delete, TypeOK
    <3> QED
      BY <2>16, <3>3 DEF Delete, Goto, TypeOK, Working, Deleting, Reading, Moving
  <2>17. CASE DeleteDirectory(p)
    <3>1. dest' \in [Skills -> Tree \cup {None}]
      BY <1>4, <2>17 DEF DeleteDirectory, TypeOK
    <3>2. CASE Fail(p)
      BY <1>3, <2>17, <3>1, <3>2 DEF DeleteDirectory, TypeOK
    <3>3. CASE ~Fail(p)
      <4>1. pc' = [pc EXCEPT ![p] = "next"] /\ UNCHANGED <<people, mode, todo, skill, reading, stage, faults, left>>
        BY <2>17, <3>3 DEF DeleteDirectory, Goto
      <4> QED
        BY <3>1, <4>1 DEF TypeOK, Working, Deleting, Reading, Moving
    <3> QED
      BY <3>2, <3>3
  <2> QED
    BY <1>7, <2>1, <2>2, <2>3, <2>4, <2>5, <2>7, <2>8, <2>9, <2>10, <2>11, <2>12, <2>13, <2>14, <2>15, <2>16, <2>17 DEF Step
<1>8. ASSUME NEW p \in Processes, Failure(p) PROVE TypeOK'
  <2> USE <1>1
  <2>1. CASE Error(p)
    BY <1>3, <1>5, <1>6, <2>1 DEF Error, TypeOK
  <2>2. CASE TidyFails(p)
    <3>1. dest' \in [Skills -> Tree \cup {None}]
      BY <1>4, <2>2 DEF TidyFails, TypeOK
    <3> QED
      BY <1>3, <1>5, <2>2, <3>1 DEF TidyFails
  <2>3. CASE Interrupt(p)
    <3>1. dest' \in [Skills -> Tree \cup {None}]
      BY <1>4, <2>3 DEF Interrupt, TypeOK
    <3> QED
      BY <1>3, <1>5, <1>6, <2>3, <3>1 DEF Interrupt
  <2>4. CASE Crash(p)
    <3>1. left' \in [Skills -> SUBSET Tree]
      BY <2>4 DEF Crash, TypeOK
    <3> QED
      BY <1>5, <2>4, <3>1, EndType DEF Crash, TypeOK
  <2> QED
    BY <1>8, <2>1, <2>2, <2>3, <2>4 DEF Failure
<1>9. ASSUME NEW s \in Skills, EditSource(s) \/ EditCopy(s) PROVE TypeOK'
  <2> USE <1>1
  <2>1. edits' \in [{"source", "dest"} -> Nat] /\ NewVersion \in Nat
    BY <1>9 DEF EditSource, EditCopy, TypeOK, NewVersion
  <2>2. CASE EditSource(s)
    <3>1. source' \in [Skills -> Tree]
      BY <2>1, <2>2 DEF EditSource, TypeOK, Tree
    <3>2. was' \in [Skills -> SUBSET Tree]
      <4>1. source'[s] \in Tree
        BY <3>1
      <4>2. was' = [was EXCEPT ![s] = was[s] \cup {source'[s]}]
        BY <2>2 DEF EditSource
      <4> QED
        BY <4>1, <4>2 DEF TypeOK
    <3> QED
      BY <2>1, <2>2, <3>1, <3>2 DEF EditSource, TypeOK
  <2>3. CASE EditCopy(s)
    <3>1. dest' \in [Skills -> Tree \cup {None}] /\ dest'[s] \in Tree
      <4>1. CASE dest[s] = None
        BY <2>1, <2>3, <4>1, NothingType DEF EditCopy, TypeOK
      <4>2. CASE dest[s] # None
        <5>1. PICK f \in Files : dest' = [dest EXCEPT ![s][f] = NewVersion]
          BY <2>3, <4>2 DEF EditCopy
        <5>2. dest[s] \in Tree
          BY <4>2 DEF TypeOK
        <5>3. [dest[s] EXCEPT ![f] = NewVersion] \in Tree
          BY <2>1, <5>2 DEF Tree
        <5>4. dest' = [dest EXCEPT ![s] = [dest[s] EXCEPT ![f] = NewVersion]]
          BY <5>1
        <5> QED
          BY <5>3, <5>4 DEF TypeOK
      <4> QED
        BY <4>1, <4>2
    <3>2. theirs' \in [Skills -> SUBSET Tree]
      BY <2>3, <3>1 DEF EditCopy, TypeOK
    <3> QED
      BY <2>1, <2>3, <3>1, <3>2 DEF EditCopy, TypeOK
  <2> QED
    BY <1>9, <2>2, <2>3
<1> QED
  BY <1>2, <1>7, <1>8, <1>9 DEF Next

-----------------------------------------------------------------------------
(* The invariant *)

LEMMA InvInit == Init => Inv
<1> SUFFICES ASSUME Init PROVE Inv
  OBVIOUS
<1>1. Everywhere(1) \in Tree /\ Everywhere(2) \in Tree /\ Nothing \in Somewhere
  BY NothingType
<1>2. TypeOK
  <2>1. source \in [Skills -> Tree] /\ dest \in [Skills -> Tree \cup {None}] /\ use \in Uses
    BY <1>1 DEF Init
  <2>2. was \in [Skills -> SUBSET Tree] /\ theirs \in [Skills -> SUBSET Tree] /\ left \in [Skills -> SUBSET Tree]
    BY <1>1, <2>1 DEF Init
  <2>3. /\ pc \in [Processes -> {"idle", "next"} \cup Working]
        /\ mode \in [Processes -> Modes \cup {"none"}]
        /\ todo \in [Processes -> SUBSET Skills] /\ skill \in [Processes -> Skills \cup {None}]
        /\ got \in [Processes -> Somewhere]
    BY <1>1 DEF Init, Blank
  <2>4. /\ seen \in [Processes -> Tree \cup {None}] /\ want \in [Processes -> Tree \cup {None}]
        /\ staged \in [Processes -> Tree \cup {None}] /\ backup \in [Processes -> Tree \cup {None}]
        /\ edits \in [{"source", "dest"} -> Nat] /\ faults \in 0..MaxFaults
    BY DEF Init, Blank
  <2>5. \A p \in Processes : pc[p] = "idle"
    BY DEF Init
  <2> QED
    BY <2>1, <2>2, <2>3, <2>4, <2>5 DEF TypeOK, Somewhere, Working, Deleting, Reading, Moving
<1>3. Monotone
  BY DEF Init, Monotone, Everywhere, NewVersion
<1>4. \A p \in Processes : Sound(p)
  BY DEF Init, Sound, Blank, Moving
<1>5. CopiesAreWhole
  BY DEF Init, CopiesAreWhole, Whole
<1> QED
  BY <1>2, <1>3, <1>4, <1>5 DEF Inv

\* Histories and versions only grow.
LEMMA Growth ==
    ASSUME Inv, [Next]_vars
    PROVE  /\ Monotone'
           /\ \A s \in Skills :
                 /\ was[s] \subseteq was'[s] /\ theirs[s] \subseteq theirs'[s]
                 /\ \A f \in Files : source[s][f] <= source'[s][f]
<1> DEFINE Grows == \A s \in Skills :
                 /\ was[s] \subseteq was'[s] /\ theirs[s] \subseteq theirs'[s]
                 /\ \A f \in Files : source[s][f] <= source'[s][f]
<1>1. TypeOK /\ Monotone
  BY DEF Inv
<1>2. \A s \in Skills : \A f \in Files : source[s][f] \in Nat
  BY <1>1 DEF TypeOK, Tree
<1>3. CASE UNCHANGED people
  BY <1>1, <1>2, <1>3 DEF Monotone, NewVersion, people
<1>4. ASSUME NEW s \in Skills, EditSource(s) PROVE Monotone' /\ Grows
  <2>1. PICK f \in Files : source' = [source EXCEPT ![s][f] = NewVersion]
    BY <1>4 DEF EditSource
  <2>2. edits["source"] \in Nat /\ edits["dest"] \in Nat
    BY <1>1 DEF TypeOK
  <2>3. NewVersion \in Nat /\ NewVersion' = NewVersion + 1
    <3>1. edits'["source"] = edits["source"] + 1 /\ edits'["dest"] = edits["dest"]
      BY <1>4, <1>1 DEF EditSource, TypeOK
    <3> QED
      BY <2>2, <3>1 DEF NewVersion
  <2>4. \A t \in Skills : t # s => source'[t] = source[t]
    BY <1>1, <2>1 DEF TypeOK
  <2>5. \A g \in Files : source'[s][g] = IF g = f THEN NewVersion ELSE source[s][g]
    BY <1>1, <2>1 DEF TypeOK, Tree
  <2>6. was' = [was EXCEPT ![s] = was[s] \cup {source'[s]}] /\ theirs' = theirs
    BY <1>4 DEF EditSource
  <2>7. \A t \in Skills : was[t] \subseteq was'[t] /\ source'[t] \in was'[t]
    BY <1>1, <2>4, <2>6 DEF TypeOK, Monotone
  <2>8. \A t \in Skills : \A g \in Files : source[t][g] <= source'[t][g] /\ source'[t][g] < NewVersion'
    BY <1>1, <1>2, <2>3, <2>4, <2>5 DEF Monotone
  <2> QED
    BY <2>6, <2>7, <2>8 DEF Monotone
<1>5. ASSUME NEW s \in Skills, EditCopy(s) PROVE Monotone' /\ Grows
  <2>1. UNCHANGED <<source, was>> /\ \A t \in Skills : theirs[t] \subseteq theirs'[t]
    BY <1>1, <1>5 DEF EditCopy, TypeOK
  <2>2. NewVersion \in Nat /\ NewVersion' = NewVersion + 1
    <3>1. edits["source"] \in Nat /\ edits["dest"] \in Nat
      BY <1>1 DEF TypeOK
    <3>2. edits'["dest"] = edits["dest"] + 1 /\ edits'["source"] = edits["source"]
      BY <1>5, <1>1 DEF EditCopy, TypeOK
    <3> QED
      BY <3>1, <3>2 DEF NewVersion
  <2> QED
    BY <1>1, <1>2, <2>1, <2>2 DEF Monotone
<1>6. ASSUME NEW p \in Processes, Step(p) \/ Failure(p) PROVE UNCHANGED people
  BY <1>1, <1>6, StepFrame
<1> QED
  BY <1>3, <1>4, <1>5, <1>6 DEF Next, vars, people

\* A whole copy stays one.
LEMMA WholeStays ==
    ASSUME Inv, [Next]_vars, NEW s \in Skills, NEW c, Whole(s, c)
    PROVE  \/ c \in was'[s] \cup theirs'[s] \cup {None}
           \/ \E f \in Files : c[f] = Gone
BY Growth DEF Whole

\* Each place of a run keeps what the next one relies on.
LEMMA SoundStep == Inv /\ [Next]_vars => \A q \in Processes : Sound(q)'
<1> SUFFICES ASSUME Inv, [Next]_vars, NEW q \in Processes PROVE Sound(q)'
  OBVIOUS
<1>1. TypeOK /\ Sound(q) /\ CopiesAreWhole /\ Monotone
  BY DEF Inv
<1>2. /\ pc[q] \in Working => skill[q] \in Skills
      /\ Moving \subseteq Working /\ Reading \subseteq Working
  BY <1>1 DEF TypeOK, Working, Deleting
\* Steps of others and of people: what q has is the same, versions and histories grow.
<1>3. ASSUME pc'[q] = pc[q], skill'[q] = skill[q], got'[q] = got[q], seen'[q] = seen[q],
             want'[q] = want[q], staged'[q] = staged[q], backup'[q] = backup[q]
      PROVE  Sound(q)'
  <2>1. CASE pc[q] \notin Working
    BY <1>1, <1>2, <1>3, <2>1 DEF Sound, Working, Deleting, Reading, Moving
  <2>2. CASE pc[q] \in Working
    <3> DEFINE s == skill[q]
    <3>1. s \in Skills /\ source[s] \in Tree /\ source'[s] \in Tree /\ was[s] \in SUBSET Tree
      BY <1>1, <1>2, <2>2, TypeStep DEF TypeOK
    <3>2. \A f \in Files : source[s][f] \in Nat /\ source'[s][f] \in Nat /\ source[s][f] <= source'[s][f]
      BY <3>1, Growth DEF Tree
    <3>3. was[s] \subseteq was'[s]
      BY <3>1, Growth
    <3>4. \A f \in Files : got[q][f] \in Nat \cup {None}
      BY <1>1 DEF TypeOK
    <3>5. pc[q] = "digest" => \A f \in Files : got[q][f] # None => got[q][f] <= source'[s][f]
      BY <1>1, <3>2, <3>4 DEF Sound, Canonical
    <3>6. ASSUME pc[q] = "copy"
          PROVE  \E t \in was'[s] : \A f \in Files :
                     /\ want[q][f] <= t[f] /\ t[f] <= source'[s][f]
                     /\ got[q][f] # None => t[f] <= got[q][f]
      <4>1. PICK t \in was[s] : \A f \in Files :
                     /\ want[q][f] <= t[f] /\ t[f] <= source[s][f]
                     /\ got[q][f] # None => t[f] <= got[q][f]
        BY <1>1, <3>6 DEF Sound, Copying, Canonical
      <4>2. \A f \in Files : t[f] \in Nat
        BY <3>1, <4>1 DEF Tree
      <4>3. \A f \in Files : t[f] <= source'[s][f]
        BY <3>2, <4>1, <4>2
      <4> QED
        BY <3>3, <4>1, <4>3
    <3>7. pc[q] = "verify" => \E t \in was'[s] : \A f \in Files : want[q][f] <= t[f] /\ t[f] <= staged[q][f]
      BY <1>1, <3>3 DEF Sound, Between
    <3>8. pc[q] \in Moving => staged[q] \in was'[s]
      BY <1>1, <3>3 DEF Sound
    <3>9. pc[q] \in Moving => \/ backup[q] \in was'[s] \cup theirs'[s] \cup {None}
                              \/ \E f \in Files : backup[q][f] = Gone
      BY <1>1, <3>1, WholeStays DEF Sound
    <3>10. /\ pc[q] = "install" /\ Replacing(q) => backup[q] # None
           /\ pc[q] \notin {"install", "restore"} => backup[q] = None
           /\ pc[q] \in {"copy", "verify"} => want[q] # None
      BY <1>1 DEF Sound
    <3> QED
      BY <1>3, <3>5, <3>6, <3>7, <3>8, <3>9, <3>10 DEF Sound, Copying, Between, Canonical, Whole, Replacing
  <2> QED
    BY <2>1, <2>2
<1>4. ASSUME NEW p \in Processes \ {q}, Step(p) \/ Failure(p) PROVE Sound(q)'
  BY <1>1, <1>3, <1>4, StepFrame
<1>5. ASSUME NEW s \in Skills, EditSource(s) \/ EditCopy(s) PROVE Sound(q)'
  BY <1>3, <1>5 DEF EditSource, EditCopy, reading, stage
<1>6. CASE UNCHANGED vars
  BY <1>3, <1>6 DEF vars, reading, stage
<1>7. ASSUME Fail(q) \/ End(q) PROVE Sound(q)'
  BY <1>1, <1>7, EndFrame DEF Fail, Sound, Moving
\* A place that asks for nothing more than an empty backup.
<1>8. ASSUME pc'[q] \in {"idle", "next", "compare", "against"} \cup Deleting, backup'[q] = None PROVE Sound(q)'
  BY <1>8 DEF Sound, Moving, Deleting
<1>10. ASSUME InstallFailed(q), pc[q] = "install", UNCHANGED people PROVE Sound(q)'
  <2>1. CASE Replacing(q)
    <3>1. /\ pc'[q] = "restore" /\ UNCHANGED <<skill, reading, stage>>
      BY <1>1, <1>10, <2>1 DEF InstallFailed, Goto, TypeOK
    <3>2. staged[q] \in was[skill[q]] /\ Whole(skill[q], backup[q])
      BY <1>1, <1>10 DEF Sound, Moving
    <3> QED
      BY <1>10, <3>1, <3>2 DEF Sound, Whole, people, stage
  <2>2. CASE ~Replacing(q)
    BY <1>7, <1>10, <2>2 DEF InstallFailed
  <2> QED
    BY <2>1, <2>2
<1>9. ASSUME Step(q) PROVE Sound(q)'
  <2>1. CASE Start(q) \/ Return(q)
    <3>1. pc[q] \notin Moving
      BY <2>1 DEF Start, Return, Moving
    <3>2. backup[q] = None
      BY <1>1, <3>1 DEF Sound, Moving
    <3> QED
      BY <1>1, <1>7, <1>8, <2>1, <3>2 DEF Start, Return, Goto, TypeOK, stage
  <2>2. CASE NextSkill(q)
    <3>1. backup'[q] = None /\ pc'[q] \in {"next", "compare", "digest"} /\ got'[q] = Nothing
      BY <1>1, <2>2 DEF NextSkill, Goto, TypeOK, Sound, stage
    <3>2. \A f \in Files : got'[q][f] = None
      BY <3>1 DEF Nothing, Everywhere
    <3> QED
      BY <1>8, <3>1, <3>2 DEF Sound, Moving
  <2>3. CASE ReadFile(q)
    <3>1. UNCHANGED <<people, pc, skill, seen, want, stage>>
      BY <2>3 DEF ReadFile
    <3>2. pc[q] \in Reading /\ skill[q] \in Skills
      BY <1>2, <2>3 DEF ReadFile
    <3>3. PICK f \in Files : got' = [got EXCEPT ![q][f] = IF pc[q] = "compare" THEN Copy(q)[f] ELSE Canonical(q)[f]]
      BY <2>3 DEF ReadFile
    <3>4. pc[q] # "compare" => \A g \in Files : got'[q][g] = IF g = f THEN Canonical(q)[g] ELSE got[q][g]
      BY <1>1, <3>3 DEF TypeOK
    <3>5. \A g \in Files : Canonical(q)[g] \in Nat
      BY <1>1, <3>2 DEF TypeOK, Tree, Canonical
    <3>6. Canonical(q)' = Canonical(q)
      BY <3>1 DEF Canonical, people
    <3>7. pc[q] = "digest" => \A g \in Files : got'[q][g] # None => got'[q][g] <= Canonical(q)[g]
      BY <1>1, <3>4, <3>5 DEF Sound
    <3>8. ASSUME pc[q] = "copy" PROVE Copying(q)'
      <4>1. PICK t \in was[skill[q]] : \A g \in Files :
                     /\ want[q][g] <= t[g] /\ t[g] <= Canonical(q)[g]
                     /\ got[q][g] # None => t[g] <= got[q][g]
        BY <1>1, <3>8 DEF Sound, Copying
      <4>2. \A g \in Files : got'[q][g] # None => t[g] <= got'[q][g]
        BY <3>4, <3>8, <4>1
      <4> QED
        BY <3>1, <3>6, <4>1, <4>2 DEF Copying, people
    <3>9. Between(q, want[q], staged[q]) => Between(q, want[q], staged[q])'
      BY <3>1 DEF Between, people, stage
    <3> QED
      BY <1>1, <3>1, <3>2, <3>6, <3>7, <3>8, <3>9 DEF Sound, Reading, Moving, people, stage
  <2>4. CASE Compared(q)
    BY <1>1, <1>8, <2>4 DEF Compared, Goto, TypeOK, Sound, stage, HasRead
  <2>5. CASE Decided(q)
    <3>1. CASE Fail(q)
      BY <1>7, <3>1
    <3>2. CASE ~Fail(q)
      <4>1. HasRead(q, "against") /\ pc'[q] \in {"delete", "next", "digest"} /\ backup' = backup
        BY <1>1, <2>5, <3>2 DEF Decided, Goto, TypeOK, stage
      <4>2. backup'[q] = None
        BY <1>1, <4>1 DEF Sound, HasRead
      <4>3. \A f \in Files : got'[q][f] = None
        BY <1>1, <4>1 DEF HasRead, TypeOK, Nothing, Everywhere
      <4> QED
        BY <1>8, <4>1, <4>2, <4>3 DEF Sound, Moving
    <3> QED
      BY <3>1, <3>2
  <2>6. CASE Digested(q)
    <3>1. /\ HasRead(q, "digest") /\ UNCHANGED <<people, skill, stage>>
          /\ pc'[q] = "copy" /\ want'[q] = got[q]
      BY <1>1, <2>6 DEF Digested, Goto, TypeOK
    <3>2. pc[q] = "digest" /\ skill[q] \in Skills /\ (\A f \in Files : got[q][f] # None /\ got'[q][f] = None)
      BY <1>1, <1>2, <3>1 DEF HasRead, Complete, TypeOK, Nothing, Everywhere, Reading
    <3>3. \A f \in Files : got[q][f] <= Canonical(q)[f] /\ Canonical(q)[f] \in Nat
      BY <1>1, <3>2 DEF Sound, TypeOK, Tree, Canonical
    <3>4. Canonical(q) \in was[skill[q]]
      BY <1>1, <3>2 DEF Monotone, Canonical
    <3>5. Canonical(q)' = Canonical(q)
      BY <3>1 DEF Canonical, people
    <3>6. Copying(q)'
      BY <3>1, <3>2, <3>3, <3>4, <3>5 DEF Copying, people
    <3>7. want'[q] # None
      <4>1. got[q] \in Tree
        BY <1>1, <3>2 DEF TypeOK, Tree
      <4> QED
        BY <3>1, <4>1
    <3>8. backup'[q] = None
      BY <1>1, <3>1, <3>2 DEF Sound, stage
    <3> QED
      BY <3>1, <3>6, <3>7, <3>8 DEF Sound, Moving
  <2>7. CASE Copied(q)
    <3>1. /\ HasRead(q, "copy") /\ UNCHANGED <<people, skill, want, backup>>
          /\ pc'[q] = "verify" /\ staged'[q] = got[q]
      BY <1>1, <2>7 DEF Copied, Goto, TypeOK
    <3>2. pc[q] = "copy" /\ \A f \in Files : got[q][f] # None
      BY <3>1 DEF HasRead, Complete
    <3>3. PICK t \in was[skill[q]] : \A f \in Files : want[q][f] <= t[f] /\ t[f] <= got[q][f]
      BY <1>1, <3>2 DEF Sound, Copying
    <3>4. Between(q, want[q], staged[q])'
      BY <3>1, <3>3 DEF Between, people
    <3>5. want'[q] # None /\ backup'[q] = None
      BY <1>1, <3>1, <3>2 DEF Sound
    <3> QED
      BY <3>1, <3>4, <3>5 DEF Sound, Moving
  <2>8. CASE Verified(q)
    <3>1. CASE Fail(q)
      BY <1>7, <3>1
    <3>2. CASE ~Fail(q)
      <4>1. /\ HasRead(q, "verify") /\ Unmoved(q) /\ UNCHANGED <<people, skill, stage, seen>>
            /\ pc'[q] = IF Replacing(q) THEN "moveAway" ELSE "install"
        BY <1>1, <2>8, <3>2 DEF Verified, Goto, TypeOK
      <4>2. pc[q] = "verify" /\ skill[q] \in Skills
        BY <1>2, <4>1 DEF HasRead, Reading
      <4>3. PICK t \in was[skill[q]] : \A f \in Files : want[q][f] <= t[f] /\ t[f] <= staged[q][f]
        BY <1>1, <4>2 DEF Sound, Between
      <4>4. t \in Tree /\ staged[q] \in Tree /\ want[q] = staged[q]
        BY <1>1, <4>1, <4>2, <4>3 DEF TypeOK, Unmoved
      <4>5. \A f \in Files : t[f] = staged[q][f]
        BY <4>3, <4>4 DEF Tree
      <4>6. staged[q] = t
        BY <4>4, <4>5 DEF Tree
      <4>7. backup'[q] = None
        BY <1>1, <4>1, <4>2 DEF Sound, stage
      <4>8. staged'[q] \in was'[skill'[q]] /\ (pc'[q] = "install" => ~Replacing(q)')
        BY <4>1, <4>3, <4>6 DEF people, stage, Replacing
      <4> QED
        BY <4>1, <4>7, <4>8 DEF Sound, Whole
    <3> QED
      BY <3>1, <3>2
  <2>9. CASE MoveAway(q)
    <3>1. /\ pc[q] = "moveAway" /\ skill[q] \in Skills /\ Copy(q) # None
          /\ UNCHANGED <<people, skill, staged, seen>>
          /\ pc'[q] = "install" /\ backup'[q] = Copy(q)
      BY <1>1, <1>2, <2>9 DEF MoveAway, Goto, TypeOK, Moving, reading
    <3>2. Whole(skill[q], Copy(q))
      BY <1>1, <3>1 DEF CopiesAreWhole, Copy
    <3>3. Whole(skill[q], backup[q])'
      BY <3>1, <3>2 DEF Whole, people
    <3>4. staged'[q] \in was'[skill'[q]]
      BY <1>1, <3>1 DEF Sound, Moving, people
    <3> QED
      BY <3>1, <3>3, <3>4 DEF Sound
  <2>10. CASE Install(q)
    BY <1>1, <1>8, <2>10 DEF Install, Goto, TypeOK
  <2>11. CASE Delete(q)
    <3>1. pc'[q] \in Deleting /\ backup' = backup /\ pc[q] = "delete"
      BY <1>1, <2>11 DEF Delete, Deleting, Goto, TypeOK, stage
    <3> QED
      BY <1>1, <1>8, <3>1 DEF Sound
  <2>14. CASE DeleteDirectory(q) /\ ~Fail(q)
    <3>1. pc'[q] = "next" /\ backup' = backup /\ pc[q] = "rmdir"
      BY <1>1, <2>14 DEF DeleteDirectory, Goto, TypeOK, stage
    <3> QED
      BY <1>1, <1>8, <3>1 DEF Sound
  <2>15. CASE DeleteDirectory(q) /\ Fail(q)
    BY <1>7, <2>15 DEF DeleteDirectory
  <2>12. CASE InstallRefused(q)
    BY <1>10, <2>12 DEF InstallRefused
  <2>13. CASE CopyVanished(q) \/ Restore(q)
    BY <1>7, <2>13 DEF CopyVanished, Restore
  <2> QED
    BY <1>9, <2>1, <2>2, <2>3, <2>4, <2>5, <2>6, <2>7, <2>8, <2>9, <2>10, <2>11, <2>12, <2>13, <2>14, <2>15 DEF Step
<1>11. ASSUME Failure(q) PROVE Sound(q)'
  <2>1. CASE End(q)
    BY <1>7, <2>1
  <2>2. CASE ~End(q)
    <3>1. InstallFailed(q) /\ pc[q] = "install" /\ UNCHANGED people
      BY <1>11, <2>2 DEF Failure, Error, TidyFails, Interrupt, Crash, Fail
    <3> QED
      BY <1>10, <3>1
  <2> QED
    BY <2>1, <2>2
<1> QED
  BY <1>4, <1>5, <1>6, <1>9, <1>11 DEF Next

\* The copy that a step leaves is whole: a run puts there what it has staged or kept.
LEMMA CopiesStep == Inv /\ [Next]_vars => CopiesAreWhole'
<1> SUFFICES ASSUME Inv, [Next]_vars, NEW s \in Skills
             PROVE  Whole(s, dest[s])'
  BY DEF CopiesAreWhole
<1>1. TypeOK /\ Whole(s, dest[s]) /\ \A p \in Processes : Sound(p)
  BY DEF Inv, CopiesAreWhole
\* A tree that was whole before the step is whole after it.
<1>2. ASSUME NEW c, Whole(s, c), dest'[s] = c PROVE Whole(s, dest[s])'
  BY <1>2, WholeStays DEF Whole
<1>3. Whole(s, None)
  BY DEF Whole
<1>4. CASE dest'[s] = dest[s]
  BY <1>1, <1>2, <1>4
<1>5. ASSUME NEW p \in Processes, skill[p] \in Skills, NEW tree, SetCopy(p, tree), Whole(skill[p], tree)
      PROVE  Whole(s, dest[s])'
  <2>1. dest'[s] = IF s = skill[p] THEN tree ELSE dest[s]
    BY <1>1, <1>5 DEF SetCopy, TypeOK
  <2> QED
    BY <1>2, <1>4, <1>5, <2>1
<1>6. ASSUME NEW p \in Processes, Step(p) \/ Failure(p), dest' # dest
      PROVE  Whole(s, dest[s])'
  <2>1. /\ pc[p] \in Moving \cup Deleting
        /\ \/ SetCopy(p, None)
           \/ pc[p] = "install" /\ SetCopy(p, staged[p])
           \/ pc[p] = "restore" /\ SetCopy(p, backup[p])
           \/ \E f \in Files : pc[p] = "delete" /\ Copy(p) # None /\ SetCopy(p, [Copy(p) EXCEPT ![f] = Gone])
    BY <1>6 DEF Step, Failure, Start, NextSkill, Return, ReadFile, CopyVanished, Compared, Decided, Digested, Copied, Verified, MoveAway, Install, InstallRefused, Restore, Delete, DeleteDirectory, Error, TidyFails, Interrupt, Crash, Moving, Deleting
  <2>2. skill[p] \in Skills
    BY <1>1, <2>1 DEF TypeOK, Working, Deleting
  <2>3. CASE SetCopy(p, None)
    BY <1>5, <2>2, <2>3 DEF Whole
  <2>4. CASE pc[p] = "install" /\ SetCopy(p, staged[p])
    <3>1. Whole(skill[p], staged[p])
      BY <1>1, <2>4 DEF Sound, Moving, Whole
    <3> QED
      BY <1>5, <2>2, <2>4, <3>1
  <2>5. CASE pc[p] = "restore" /\ SetCopy(p, backup[p])
    <3>1. Whole(skill[p], backup[p])
      BY <1>1, <2>5 DEF Sound, Moving
    <3> QED
      BY <1>5, <2>2, <2>5, <3>1
  <2>6. ASSUME NEW f \in Files, Copy(p) # None, SetCopy(p, [Copy(p) EXCEPT ![f] = Gone])
        PROVE  Whole(s, dest[s])'
    <3>1. Copy(p) \in Tree
      BY <1>1, <2>2, <2>6 DEF TypeOK, Copy
    <3>2. [Copy(p) EXCEPT ![f] = Gone][f] = Gone
      BY <3>1 DEF Tree
    <3>3. Whole(skill[p], [Copy(p) EXCEPT ![f] = Gone])
      BY <3>2 DEF Whole
    <3> QED
      BY <1>5, <2>2, <2>6, <3>3
  <2> QED
    BY <2>1, <2>3, <2>4, <2>5, <2>6
<1>7. ASSUME NEW t \in Skills, EditCopy(t) PROVE Whole(s, dest[s])'
  <2>1. t # s => dest'[s] = dest[s]
    BY <1>1, <1>7 DEF EditCopy, TypeOK
  <2>2. dest'[t] \in theirs'[t]
    BY <1>1, <1>7 DEF EditCopy, TypeOK
  <2> QED
    BY <1>4, <2>1, <2>2 DEF Whole
<1> QED
  BY <1>4, <1>6, <1>7 DEF Next, vars, EditSource

-----------------------------------------------------------------------------
(* The theorems *)

LEMMA SyncInvariant == Spec => []Inv
<1>1. Init => Inv
  BY InvInit
<1>2. Inv /\ [Next]_vars => Inv'
  BY TypeStep, Growth, SoundStep, CopiesStep DEF Inv
<1> QED
  BY <1>1, <1>2, PTL DEF Spec

\* Every copy is one that people made or one state of the canonical skill as a whole, for
\* any number of runs and files and any edits during the file-by-file reads of
\* tree_digest() and copy_skill(); deletions under way or broken off excepted.
THEOREM CopiesWhole == Spec => []CopiesAreWhole
BY SyncInvariant, PTL DEF Inv

\* Types, and what each place of sync() has at hand: a stage to verify and to install, a
\* previous copy to restore.
THEOREM TypeCorrect == Spec => []TypeOK
BY SyncInvariant, PTL DEF Inv

-----------------------------------------------------------------------------
(* What --force and remove() are needed for *)

\* A run replaces a copy only with --force and deletes one only in remove(); what it has
\* moved away it holds as a run that replaces.
Manner(p) ==
    /\ pc[p] \in {"moveAway", "restore"} => Replacing(p)
    /\ pc[p] = "install" /\ backup[p] # None => Replacing(p)
    /\ pc[p] \in {"digest", "copy", "verify"} \cup Moving /\ Replacing(p) => mode[p] = "force"
    /\ pc[p] \in Deleting => mode[p] = "remove"
    /\ pc[p] # "idle" => mode[p] \in Modes

LEMMA MannerStep ==
    ASSUME Inv, [Next]_vars, \A p \in Processes : Manner(p)
    PROVE  \A p \in Processes : Manner(p)'
<1> SUFFICES ASSUME NEW q \in Processes PROVE Manner(q)'
  OBVIOUS
<1>1. TypeOK /\ Manner(q) /\ Sound(q)
  BY DEF Inv
<1>2. ASSUME NEW p \in Processes \ {q}, Step(p) \/ Failure(p) PROVE Manner(q)'
  BY <1>1, <1>2, StepFrame DEF Manner, Replacing, people, Modes
<1>3. ASSUME NEW s \in Skills, EditSource(s) \/ EditCopy(s) PROVE Manner(q)'
  BY <1>1, <1>3 DEF EditSource, EditCopy, Manner, Replacing, reading, stage, Modes
<1>4. CASE UNCHANGED vars
  BY <1>1, <1>4 DEF vars, Manner, Replacing, people, reading, stage, Modes
<1>5. ASSUME End(q) PROVE Manner(q)'
  BY <1>1, <1>5, EndFrame DEF Manner, Moving, Deleting
<1>6. ASSUME Fail(q) PROVE Manner(q)'
  BY <1>5, <1>6 DEF Fail
<1>7. ASSUME InstallFailed(q), pc[q] = "install", UNCHANGED people PROVE Manner(q)'
  <2>1. CASE Replacing(q)
    BY <1>1, <1>7, <2>1 DEF InstallFailed, Goto, TypeOK, Manner, Replacing, Moving, Deleting, people, reading, stage, Modes
  <2> QED
    BY <1>6, <1>7, <2>1 DEF InstallFailed
<1>8. ASSUME Step(q) PROVE Manner(q)'
  <2> USE <1>1 DEF Manner, Goto, TypeOK, people, reading, stage, Modes, HasRead, Moving, Deleting
  <2>1. CASE Start(q)
    BY <2>1 DEF Start, Replacing
  <2>2. CASE NextSkill(q)
    BY <2>2 DEF NextSkill, Replacing
  <2>3. CASE ReadFile(q)
    BY <2>3 DEF ReadFile, Replacing
  <2>4. CASE Compared(q)
    BY <2>4 DEF Compared, Replacing
  <2>5. CASE Decided(q)
    <3>1. CASE ~Fail(q)
      BY <2>5, <3>1 DEF Decided, Forced, Replacing
    <3> QED
      BY <1>6, <3>1
  <2>6. CASE Digested(q) \/ Copied(q)
    BY <2>6 DEF Digested, Copied, Replacing
  <2>7. CASE Verified(q)
    <3>1. CASE ~Fail(q)
      BY <2>7, <3>1 DEF Verified, Replacing, Sound
    <3> QED
      BY <1>6, <3>1
  <2>8. CASE MoveAway(q) \/ Install(q)
    BY <2>8 DEF MoveAway, Install, Replacing
  <2>9. CASE Delete(q)
    BY <2>9 DEF Delete, Replacing
  <2>12. CASE DeleteDirectory(q) /\ ~Fail(q)
    BY <2>12 DEF DeleteDirectory, Replacing
  <2>13. CASE Fail(q)
    BY <1>6, <2>13
  <2>10. CASE Return(q) \/ CopyVanished(q) \/ Restore(q)
    BY <1>5, <1>6, <2>10 DEF Return, CopyVanished, Restore
  <2>11. CASE InstallRefused(q)
    BY <1>7, <2>11 DEF InstallRefused
  <2> QED
    BY <1>8, <2>1, <2>2, <2>3, <2>4, <2>5, <2>6, <2>7, <2>8, <2>9, <2>10, <2>11, <2>12, <2>13 DEF Step
<1>9. ASSUME Failure(q) PROVE Manner(q)'
  BY <1>5, <1>6, <1>7, <1>9 DEF Failure, Error, TidyFails, Interrupt, Crash
<1> QED
  BY <1>2, <1>3, <1>4, <1>8, <1>9 DEF Next

-----------------------------------------------------------------------------
(* The last copy *)

\* A run that will put the previous copy back, or a new one in its place.
Held(p, s) ==
    /\ skill[p] = s /\ backup[p] # None
    /\ pc[p] = "install" \/ (pc[p] = "restore" /\ faults >= 1)

CopyKept(s) ==
    faults <= 1 /\ dest[s] = None /\ theirs[s] # {} /\ "remove" \notin Modes =>
        left[s] # {} \/ \E p \in Processes : Held(p, s)

\* What has failed has failed.
LEMMA FaultsGrow ==
    ASSUME TypeOK, NEW p \in Processes, Step(p) \/ Failure(p)
    PROVE  faults \in Nat /\ faults' \in {faults, faults + 1}
BY DEF TypeOK, Step, Failure, Start, NextSkill, Return, ReadFile, CopyVanished, Compared, Decided, Digested, Copied, Verified, MoveAway, Install, InstallRefused, Restore, Delete, DeleteDirectory, Error, TidyFails, Interrupt, Crash, Fault

\* A run ends without its copy only if it crashes, which leaves its stage directory.
LEMMA HeldStays ==
    ASSUME Inv, \A q \in Processes : Manner(q), faults' <= 1, NEW p \in Processes, NEW s \in Skills,
           Step(p) \/ Failure(p), Held(p, s), dest'[s] = None
    PROVE  left'[s] # {} \/ Held(p, s)'
<1>1. TypeOK /\ Manner(p) /\ Sound(p)
  BY DEF Inv
<1>2. pc[p] \in {"install", "restore"} /\ skill[p] = s /\ backup[p] # None /\ Replacing(p)
  BY <1>1 DEF Held, Manner
<1>3. faults \in Nat
  BY <1>1 DEF TypeOK
<1>4. CASE pc[p] = "restore"
  <2>1. \A k : ~Fault(k)
    <3>1. faults >= 1
      BY <1>4 DEF Held
    <3> QED
      BY <1>3, <3>1 DEF Fault
  <2>2. Restore(p)
    BY <1>4, <2>1 DEF Step, Failure, Start, NextSkill, Return, ReadFile, CopyVanished, Compared, Decided, HasRead, Digested, Copied, Verified, MoveAway, Install, InstallRefused, Delete, DeleteDirectory, Error, TidyFails, Interrupt, Crash, Reading, Deleting
  <2>3. dest'[s] = backup[p] \/ (dest[s] # None /\ dest'[s] = dest[s])
    BY <1>1, <1>2, <2>2 DEF Restore, SetCopy, Copy, TypeOK
  <2> QED
    BY <1>2, <2>3
<1>5. CASE pc[p] = "install"
  <2>1. CASE Install(p) \/ TidyFails(p)
    <3>1. dest'[s] = staged[p]
      BY <1>1, <1>2, <2>1 DEF Install, TidyFails, SetCopy, Copy, TypeOK
    <3> QED
      BY <1>1, <1>5, <3>1 DEF TypeOK
  <2>2. CASE Crash(p)
    <3>1. left'[s] = left[s] \cup {backup[p]}
      BY <1>1, <1>2, <2>2 DEF Crash, TypeOK
    <3> QED
      BY <3>1
  <2>3. CASE InstallRefused(p)
    BY <1>1, <1>2, <2>3 DEF InstallRefused, Copy
  <2>4. CASE Error(p) \/ Interrupt(p)
    <3>1. InstallFailed(p) /\ faults' = faults + 1
      BY <1>5, <2>4 DEF Error, Interrupt, Fault
    <3> QED
      BY <1>1, <1>2, <1>3, <3>1 DEF InstallFailed, Goto, TypeOK, Held, reading, stage
  <2> QED
    BY <1>5, <2>1, <2>2, <2>3, <2>4 DEF Step, Failure, Start, NextSkill, Return, ReadFile, CopyVanished, Compared, Decided, HasRead, Digested, Copied, Verified, MoveAway, Restore, Delete, DeleteDirectory, Reading, Deleting
<1> QED
  BY <1>2, <1>4, <1>5

\* Nothing but a move or a deletion takes a copy away that is not empty, and a run that moves
\* one away holds it.
LEMMA Taken ==
    ASSUME Inv, NEW p \in Processes, NEW s \in Skills,
           Step(p) \/ Failure(p), dest[s] # None, dest'[s] # dest[s]
    PROVE  \/ dest[s] = Everywhere(Gone) /\ dest'[s] # None
           \/ /\ skill[p] = s
              /\ \/ MoveAway(p) \/ Delete(p) \/ DeleteDirectory(p)
                 \/ Interrupt(p) /\ pc[p] = "moveAway"
<1>1. TypeOK /\ Sound(p)
  BY DEF Inv
<1>2. dest' # dest /\ ~(UNCHANGED dest)
  OBVIOUS
<1>3. \/ MoveAway(p) \/ Delete(p) \/ DeleteDirectory(p) \/ Install(p) \/ TidyFails(p) \/ Restore(p)
      \/ Interrupt(p) /\ pc[p] = "moveAway" /\ SetCopy(p, None)
  BY <1>2 DEF Step, Failure, Start, NextSkill, Return, ReadFile, CopyVanished, Compared, Decided, Digested, Copied, Verified, InstallRefused, Error, Interrupt, Crash
<1>4. \/ SetCopy(p, None)
      \/ pc[p] = "install" /\ SetCopy(p, staged[p])
      \/ pc[p] = "restore" /\ SetCopy(p, backup[p])
      \/ \E f \in Files : SetCopy(p, [Copy(p) EXCEPT ![f] = Gone])
  BY <1>2, <1>3 DEF MoveAway, Delete, DeleteDirectory, Install, TidyFails, Restore
<1>5. skill[p] = s
  BY <1>1, <1>4 DEF SetCopy, TypeOK
<1>6. CASE Install(p) \/ TidyFails(p) \/ Restore(p)
  <2>1. pc[p] \in {"install", "restore"} /\ Vacant(dest[s])
    BY <1>2, <1>5, <1>6 DEF Install, TidyFails, Restore, Copy
  <2>2. (dest'[s] = staged[p] /\ staged[p] # None) \/ (dest'[s] = backup[p] /\ backup[p] # None)
    <3>1. CASE Install(p) \/ TidyFails(p)
      BY <1>1, <1>5, <3>1 DEF Install, TidyFails, SetCopy, TypeOK
    <3>2. CASE Restore(p)
      BY <1>1, <1>2, <1>5, <3>2 DEF Restore, SetCopy, TypeOK
    <3> QED
      BY <1>6, <3>1, <3>2
  <2> QED
    BY <2>1, <2>2 DEF Vacant
<1> QED
  BY <1>3, <1>5, <1>6

LEMMA CopyKeptStep ==
    ASSUME Inv, [Next]_vars, \A p \in Processes : Manner(p),
           ~("force" \in Modes /\ "interrupt" \in use.failures),
           NEW s \in Skills, CopyKept(s)
    PROVE  CopyKept(s)'
<1> SUFFICES ASSUME faults' <= 1, dest'[s] = None, theirs'[s] # {}, "remove" \notin Modes'
             PROVE  left'[s] # {} \/ \E p \in Processes : Held(p, s)'
  BY DEF CopyKept
<1>1. TypeOK
  BY DEF Inv
<1>2. ASSUME NEW p \in Processes, Step(p) \/ Failure(p)
      PROVE  left'[s] # {} \/ \E q \in Processes : Held(q, s)'
  <2>1. UNCHANGED people /\ theirs[s] # {} /\ "remove" \notin Modes
    <3>1. UNCHANGED people
      BY <1>1, <1>2, StepFrame
    <3> QED
      BY <3>1 DEF people, Modes
  <2>2. CASE dest[s] = None
    <3>1. CASE left[s] # {}
      <4>1. left'[s] # {}
        BY <1>1, <1>2, <3>1 DEF Step, Failure, Start, NextSkill, Return, ReadFile, CopyVanished, Compared, Decided, Digested, Copied, Verified, MoveAway, Install, InstallRefused, Restore, Delete, DeleteDirectory, Error, TidyFails, Interrupt, Crash, InstallFailed, Fail, TypeOK
      <4> QED
        BY <4>1
    <3>2. CASE left[s] = {}
      <4>0. faults <= 1
        <5>1. faults \in Nat /\ faults' \in {faults, faults + 1}
          BY <1>1, <1>2, FaultsGrow
        <5> QED
          BY <5>1
      <4>1. PICK q \in Processes : Held(q, s)
        BY <2>1, <2>2, <3>2, <4>0 DEF CopyKept
      <4>2. CASE q = p
        BY <1>2, <4>1, <4>2, HeldStays
      <4>3. CASE q # p
        <5>1. faults \in Nat /\ faults' \in {faults, faults + 1}
          BY <1>1, <1>2, FaultsGrow
        <5>2. pc'[q] = pc[q] /\ skill'[q] = skill[q] /\ backup'[q] = backup[q]
          BY <1>1, <1>2, <4>3, StepFrame
        <5>3. faults >= 1 => faults' >= 1
          BY <5>1
        <5>4. Held(q, s)'
          BY <4>1, <5>2, <5>3 DEF Held
        <5> QED
          BY <5>4
      <4> QED
        BY <4>2, <4>3
    <3> QED
      BY <3>1, <3>2
  <2>3. CASE dest[s] # None
    <3>1. /\ skill[p] = s
          /\ \/ MoveAway(p) \/ Delete(p) \/ DeleteDirectory(p)
             \/ Interrupt(p) /\ pc[p] = "moveAway"
      BY <1>2, <2>3, Taken
    <3>2. ~Delete(p) /\ ~DeleteDirectory(p) /\ (pc[p] = "moveAway" => "force" \in Modes)
      BY <2>1 DEF Delete, DeleteDirectory, Deleting, Manner, Moving
    <3>3. MoveAway(p)
      BY <3>1, <3>2 DEF Interrupt, Fault
    <3>4. Held(p, s)'
      BY <1>1, <3>1, <3>3 DEF MoveAway, Goto, TypeOK, Held, Copy, reading
    <3> QED
      BY <3>4
  <2> QED
    BY <2>2, <2>3
<1>3. ASSUME NEW t \in Skills, EditCopy(t) PROVE left'[s] # {} \/ \E q \in Processes : Held(q, s)'
  <2>1. s # t
    <3>1. dest'[t] # None
      <4>1. NewVersion \in Nat
        BY <1>1 DEF TypeOK, NewVersion
      <4>2. CASE dest[t] = None
        <5>1. dest'[t] = Everywhere(NewVersion) /\ Everywhere(NewVersion) \in Tree
          BY <1>1, <1>3, <4>1, <4>2, NothingType DEF EditCopy, TypeOK
        <5> QED
          BY <5>1
      <4>3. CASE dest[t] # None
        <5>1. PICK f \in Files : dest' = [dest EXCEPT ![t][f] = NewVersion]
          BY <1>3, <4>3 DEF EditCopy
        <5>2. dest'[t] = [dest[t] EXCEPT ![f] = NewVersion] /\ dest[t] \in Tree
          BY <1>1, <4>3, <5>1 DEF TypeOK
        <5>3. dest'[t] \in Tree
          BY <4>1, <5>2 DEF Tree
        <5> QED
          BY <5>3
      <4> QED
        BY <4>2, <4>3
    <3> QED
      BY <3>1
  <2>2. dest'[s] = dest[s] /\ theirs'[s] = theirs[s]
    BY <1>1, <1>3, <2>1 DEF EditCopy, TypeOK
  <2>3. UNCHANGED <<use, pc, skill, backup, faults, left>>
    BY <1>3 DEF EditCopy, stage
  <2> QED
    BY <2>2, <2>3 DEF CopyKept, Held, Modes
<1>4. CASE UNCHANGED vars \/ \E t \in Skills : EditSource(t)
  BY <1>4 DEF vars, people, stage, EditSource, CopyKept, Held, Modes
<1> QED
  BY <1>2, <1>3, <1>4 DEF Next

\* "A failed forced sync cannot erase the last usable generated skill", for any runs, skills
\* and edits: until a second call fails or a second run crashes, no skill is left without a
\* copy that somebody has and will put back.  A second failure in the except clause that
\* restores, or Ctrl-C between the move and the try, would do that.
THEOREM LastCopyIsKept ==
    ASSUME \A u \in Uses : ~("force" \in u.modes /\ "interrupt" \in u.failures)
    PROVE  Spec => [](faults <= 1 => LastCopyKept)
<1> DEFINE Keeping == Inv /\ (\A p \in Processes : Manner(p)) /\ (\A s \in Skills : CopyKept(s))
<1>1. Init => Keeping
  <2>1. Init => \A p \in Processes : Manner(p)
    BY DEF Init, Manner, Moving, Deleting
  <2>2. Init => \A s \in Skills : CopyKept(s)
    BY DEF Init, CopyKept
  <2> QED
    BY <2>1, <2>2, InvInit
<1>2. Keeping /\ [Next]_vars => Keeping'
  <2> SUFFICES ASSUME Keeping, [Next]_vars PROVE Keeping'
    OBVIOUS
  <2>1. Inv'
    BY TypeStep, Growth, SoundStep, CopiesStep DEF Inv
  <2>2. ~("force" \in Modes /\ "interrupt" \in use.failures)
    BY DEF Inv, TypeOK, Modes
  <2>3. \A s \in Skills : CopyKept(s)'
    BY <2>2, CopyKeptStep
  <2> QED
    BY <2>1, <2>3, MannerStep
<1>3. Keeping => (faults <= 1 => LastCopyKept)
  BY DEF LastCopyKept, CopyKept, Held, Moving
<1> QED
  BY <1>1, <1>2, <1>3, PTL DEF Spec

-----------------------------------------------------------------------------
(* What people made *)

Theirs == Everywhere(2)

\* A file has two since the copy that people made; no canonical skill has it.
Untouched(s) ==
    "remove" \in Modes =>
        /\ theirs[s] \subseteq {Theirs}
        /\ \A t \in was[s], f \in Files : t[f] # 2
        /\ dest[s] = Theirs =>
              \A p \in Processes : skill[p] = s =>
                  /\ pc[p] = "compare" => \A f \in Files : got[p][f] \in {None, 2}
                  /\ pc[p] = "against" => seen[p] = Theirs /\ \A f \in Files : got[p][f] # 2
                  /\ pc[p] \notin Deleting

\* What a run of a behaviour without --force leaves in place of a copy is never Theirs.
LEMMA NeverAgain ==
    ASSUME Inv, NEW p \in Processes, Manner(p), NEW s \in Skills, Untouched(s), "remove" \in Modes,
           Step(p) \/ Failure(p), dest'[s] = Theirs
    PROVE  dest[s] = Theirs
<1> SUFFICES ASSUME dest[s] # Theirs PROVE FALSE
  OBVIOUS
<1>1. TypeOK /\ Sound(p)
  BY DEF Inv
<1>2. ~(UNCHANGED dest)
  OBVIOUS
<1>3. \/ SetCopy(p, None)
      \/ pc[p] = "install" /\ SetCopy(p, staged[p])
      \/ pc[p] = "restore" /\ SetCopy(p, backup[p])
      \/ \E f \in Files : Copy(p) # None /\ SetCopy(p, [Copy(p) EXCEPT ![f] = Gone])
  BY <1>2 DEF Step, Failure, Start, NextSkill, Return, ReadFile, CopyVanished, Compared, Decided, Digested, Copied, Verified, MoveAway, Install, InstallRefused, Restore, Delete, DeleteDirectory, Error, TidyFails, Interrupt, Crash
<1>4. skill[p] = s
  BY <1>1, <1>3 DEF SetCopy, TypeOK
<1>5. pc[p] # "restore"
  <2>1. "force" \notin Modes
    BY <1>1 DEF TypeOK, Modes
  <2> QED
    BY <2>1 DEF Manner, Moving
<1>6. Theirs \in Tree /\ \A f \in Files : Theirs[f] = 2
  BY NothingType DEF Theirs, Everywhere
<1>7. CASE SetCopy(p, None)
  BY <1>1, <1>4, <1>6, <1>7 DEF SetCopy, TypeOK
<1>8. CASE pc[p] = "install" /\ SetCopy(p, staged[p])
  <2>1. dest'[s] \in was[s]
    BY <1>1, <1>4, <1>8 DEF SetCopy, TypeOK, Sound, Moving
  <2> QED
    BY <1>6, <2>1 DEF Untouched
<1>9. ASSUME NEW f \in Files, Copy(p) # None, SetCopy(p, [Copy(p) EXCEPT ![f] = Gone]) PROVE FALSE
  <2>1. Copy(p) \in Tree
    BY <1>1, <1>4, <1>9 DEF TypeOK, Copy
  <2>2. dest'[s][f] = Gone
    BY <1>1, <1>4, <1>9, <2>1 DEF SetCopy, TypeOK, Tree
  <2> QED
    BY <1>6, <2>2 DEF Gone
<1> QED
  BY <1>3, <1>5, <1>7, <1>8, <1>9

\* What a run has read of a skill whose copy is still the one that people made.
Reads(p, s) ==
    skill[p] = s =>
        /\ pc[p] = "compare" => \A f \in Files : got[p][f] \in {None, 2}
        /\ pc[p] = "against" => seen[p] = Theirs /\ \A f \in Files : got[p][f] # 2
        /\ pc[p] \notin Deleting

LEMMA ReadsStep ==
    ASSUME Inv, NEW p \in Processes, NEW s \in Skills, "remove" \in Modes,
           Step(p) \/ Failure(p), Reads(p, s), dest[s] = Theirs, \A t \in was[s], f \in Files : t[f] # 2
    PROVE  Reads(p, s)'
<1>1. TypeOK /\ Monotone
  BY DEF Inv
<1>2. Theirs \in Tree /\ (\A f \in Files : Theirs[f] = 2) /\ (\A f \in Files : source[s][f] # 2)
  BY <1>1, NothingType DEF Theirs, Everywhere, Monotone
<1>3. ASSUME pc'[p] \notin {"compare", "against"} \cup Deleting PROVE Reads(p, s)'
  BY <1>3 DEF Reads
<1>4. CASE NextSkill(p)
  <2>1. got'[p] = Nothing /\ pc'[p] \notin {"against"} \cup Deleting
    BY <1>1, <1>4 DEF NextSkill, Goto, TypeOK, Deleting
  <2> QED
    BY <2>1 DEF Reads, Nothing, Everywhere
<1>5. CASE ReadFile(p)
  <2>1. UNCHANGED <<pc, skill, seen>>
    BY <1>5 DEF ReadFile
  <2>2. PICK f \in Files : got' = [got EXCEPT ![p][f] = IF pc[p] = "compare" THEN Copy(p)[f] ELSE Canonical(p)[f]]
    BY <1>5 DEF ReadFile
  <2>3. \A g \in Files : got'[p][g] = IF g = f THEN IF pc[p] = "compare" THEN Copy(p)[f] ELSE Canonical(p)[f]
                                       ELSE got[p][g]
    BY <1>1, <2>2 DEF TypeOK
  <2>4. skill[p] = s => Copy(p) = Theirs /\ Canonical(p)[f] # 2
    BY <1>2 DEF Copy, Canonical
  <2> QED
    BY <1>2, <2>1, <2>3, <2>4 DEF Reads
<1>6. CASE Compared(p)
  <2>1. /\ pc[p] = "compare" /\ (\A f \in Files : got[p][f] # None) /\ got[p] \in [Files -> Nat \cup {None}]
        /\ pc'[p] = "against" /\ seen'[p] = got[p] /\ got'[p] = Nothing /\ skill'[p] = skill[p]
    BY <1>1, <1>6 DEF Compared, HasRead, Complete, Goto, TypeOK
  <2>2. \A f \in Files : got'[p][f] # 2
    BY <2>1 DEF Nothing, Everywhere
  <2>3. CASE skill[p] = s
    <3>1. \A f \in Files : got[p][f] = Theirs[f]
      BY <1>2, <2>1, <2>3 DEF Reads
    <3>2. seen'[p] = Theirs
      BY <1>2, <2>1, <3>1 DEF Tree
    <3> QED
      BY <2>1, <2>2, <3>2 DEF Reads, Deleting
  <2> QED
    BY <2>1, <2>3 DEF Reads
<1>7. CASE Decided(p)
  <2>1. CASE Fail(p)
    BY <1>1, <1>3, <2>1, EndFrame DEF Fail, Deleting
  <2>2. CASE ~Fail(p)
    <3>1. /\ pc[p] = "against" /\ skill'[p] = skill[p] /\ pc'[p] \in {"delete", "next", "digest"}
          /\ pc'[p] = "delete" => Same(p) \/ Forced(p)
          /\ pc'[p] = "delete" => mode[p] = "remove"
      BY <1>1, <1>7, <2>2 DEF Decided, HasRead, Goto, TypeOK
    <3>2. skill[p] = s => ~Same(p)
      BY <1>2, <3>1 DEF Reads, Same
    <3> QED
      BY <3>1, <3>2 DEF Reads, Forced, Deleting
  <2> QED
    BY <2>1, <2>2
<1>8. CASE Delete(p)
  BY <1>1, <1>8 DEF Delete, Deleting, Goto, TypeOK, Reads
<1>14. CASE DeleteDirectory(p)
  <2>1. CASE Fail(p)
    BY <1>1, <1>3, <2>1, EndFrame DEF Fail, Deleting
  <2> QED
    BY <1>1, <1>3, <1>14, <2>1 DEF DeleteDirectory, Goto, TypeOK, Deleting
<1>9. CASE Start(p) \/ Digested(p) \/ Copied(p) \/ MoveAway(p) \/ Install(p)
  BY <1>1, <1>3, <1>9 DEF Start, Digested, Copied, MoveAway, Install, Goto, TypeOK, Deleting
<1>10. CASE Verified(p)
  <2>1. CASE Fail(p)
    BY <1>1, <1>3, <2>1, EndFrame DEF Fail, Deleting
  <2> QED
    BY <1>1, <1>3, <1>10, <2>1 DEF Verified, Goto, TypeOK, Deleting
<1>11. CASE Return(p) \/ CopyVanished(p) \/ Restore(p)
  BY <1>1, <1>3, <1>11, EndFrame DEF Return, CopyVanished, Restore, Fail, Deleting
<1>12. ASSUME InstallFailed(p), pc[p] = "install" PROVE Reads(p, s)'
  <2>1. CASE Fail(p)
    BY <1>1, <1>3, <2>1, EndFrame DEF Fail, Deleting
  <2> QED
    BY <1>1, <1>3, <1>12, <2>1 DEF InstallFailed, Goto, TypeOK, Deleting
<1>13. CASE InstallRefused(p) \/ Failure(p)
  <2>1. End(p) => Reads(p, s)'
    BY <1>1, <1>3, EndFrame DEF Deleting
  <2> QED
    BY <1>12, <1>13, <2>1 DEF InstallRefused, Failure, Error, TidyFails, Interrupt, Crash, Fail
<1> QED
  BY <1>4, <1>5, <1>6, <1>7, <1>8, <1>9, <1>10, <1>11, <1>13, <1>14 DEF Step

LEMMA UntouchedStep ==
    ASSUME Inv, [Next]_vars, \A p \in Processes : Manner(p), "remove" \in Modes => use.edits["dest"] = 0,
           NEW s \in Skills, Untouched(s)
    PROVE  Untouched(s)'
<1>1. TypeOK /\ Monotone
  BY DEF Inv
<1>2. ASSUME NEW p \in Processes, Step(p) \/ Failure(p) PROVE Untouched(s)'
  <2>1. UNCHANGED people
    BY <1>1, <1>2, StepFrame
  <2> SUFFICES ASSUME "remove" \in Modes, dest'[s] = Theirs, NEW q \in Processes
               PROVE  Reads(q, s)'
    BY <2>1 DEF Untouched, Reads, Modes, people
  <2>2. dest[s] = Theirs
    BY <1>2, NeverAgain
  <2>3. \A r \in Processes : Reads(r, s)
    BY <2>2 DEF Untouched, Reads
  <2>4. CASE q = p
    BY <1>2, <2>2, <2>3, <2>4, ReadsStep DEF Untouched
  <2>5. CASE q # p
    <3>1. pc'[q] = pc[q] /\ skill'[q] = skill[q] /\ seen'[q] = seen[q] /\ got'[q] = got[q]
      BY <1>1, <1>2, <2>5, StepFrame
    <3>2. Reads(q, s)
      BY <2>3
    <3> QED
      BY <3>1, <3>2 DEF Reads, Theirs, Everywhere
  <2> QED
    BY <2>4, <2>5
<1>3. ASSUME NEW t \in Skills, EditCopy(t) PROVE Untouched(s)'
  <2>1. "remove" \notin Modes
    BY <1>1, <1>3 DEF EditCopy, TypeOK
  <2> QED
    BY <1>3, <2>1 DEF EditCopy, Untouched, Modes
<1>4. ASSUME NEW t \in Skills, EditSource(t) PROVE Untouched(s)'
  <2>1. UNCHANGED <<use, dest, pc, skill, got, seen, theirs>>
    BY <1>4 DEF EditSource, reading
  <2>2. CASE s # t
    BY <1>1, <1>4, <2>1, <2>2 DEF EditSource, TypeOK, Untouched, Modes
  <2>3. CASE s = t
    <3>1. NewVersion \in Nat /\ NewVersion >= 3
      BY <1>1 DEF TypeOK, NewVersion
    <3>2. PICK f \in Files : source' = [source EXCEPT ![s][f] = NewVersion]
      BY <1>4, <2>3 DEF EditSource
    <3>3. \A g \in Files : source'[s][g] = IF g = f THEN NewVersion ELSE source[s][g]
      BY <1>1, <3>2 DEF TypeOK, Tree
    <3>4. was'[s] = was[s] \cup {source'[s]} /\ source[s] \in was[s]
      BY <1>1, <1>4, <2>3 DEF EditSource, TypeOK, Monotone
    <3>5. "remove" \in Modes => \A u \in was'[s], g \in Files : u[g] # 2
      BY <3>1, <3>3, <3>4 DEF Untouched
    <3> QED
      BY <2>1, <3>5 DEF Untouched, Modes
  <2> QED
    BY <2>2, <2>3
<1>5. CASE UNCHANGED vars
  BY <1>5 DEF vars, people, reading, Untouched, Modes
<1> QED
  BY <1>2, <1>3, <1>4, <1>5 DEF Next

\* What people make of a copy has at least one file.
LEMMA MadeOfFiles ==
    ASSUME Inv, [Next]_vars, NEW s \in Skills, Everywhere(Gone) \notin theirs[s]
    PROVE  Everywhere(Gone) \notin theirs'[s]
<1>1. TypeOK /\ NewVersion \in Nat /\ NewVersion # Gone
  BY DEF Inv, TypeOK, NewVersion, Gone
<1>2. ASSUME NEW p \in Processes, Step(p) \/ Failure(p) PROVE theirs' = theirs
  BY <1>1, <1>2, StepFrame DEF people
<1>3. ASSUME NEW t \in Skills, EditCopy(t) PROVE Everywhere(Gone) \notin theirs'[s]
  <2>1. theirs'[s] \subseteq theirs[s] \cup {dest'[t]}
    BY <1>1, <1>3 DEF EditCopy, TypeOK
  <2>2. \E f \in Files : dest'[t][f] = NewVersion
    <3>1. CASE dest[t] = None
      BY <1>1, <1>3, <3>1 DEF EditCopy, TypeOK, Everywhere
    <3>2. CASE dest[t] # None
      BY <1>1, <1>3, <3>2 DEF EditCopy, TypeOK, Tree
    <3> QED
      BY <3>1, <3>2
  <2> QED
    BY <1>1, <2>1, <2>2 DEF Everywhere
<1>4. CASE UNCHANGED vars \/ \E t \in Skills : EditSource(t)
  BY <1>4 DEF vars, people, EditSource
<1> QED
  BY <1>2, <1>3, <1>4 DEF Next

\* "Preserves divergent targets unless --force is explicit", for any runs, skills and edits:
\* only an edit or a forced sync changes a copy that people made, whatever the runs have
\* compared before.  remove() deletes by name what it has compared: beside it nobody may
\* edit a copy.
THEOREM DivergentIsKept ==
    ASSUME \A u \in Uses : "remove" \in u.modes => u.edits["dest"] = 0
    PROVE  Spec => DivergentKept
<1> DEFINE Keeping == Inv /\ (\A p \in Processes : Manner(p)) /\ (\A s \in Skills : Untouched(s) /\ Everywhere(Gone) \notin theirs[s])
           Divergent(s) ==
               dest[s] \in theirs[s] /\ dest'[s] # dest[s] =>
                   \/ edits' # edits
                   \/ \E p \in Processes : mode[p] = "force" /\ pc[p] = "moveAway" /\ skill[p] = s
<1>1. Init => Keeping
  <2>1. Init => \A p \in Processes : Manner(p)
    BY DEF Init, Manner, Moving, Deleting
  <2>2. Init => \A s \in Skills : Untouched(s)
    BY DEF Init, Untouched, Theirs, Everywhere, Deleting
  <2>3. Init => \A s \in Skills : Everywhere(Gone) \notin theirs[s]
    BY DEF Init, Everywhere, Gone
  <2> QED
    BY <2>1, <2>2, <2>3, InvInit
<1>2. Keeping /\ [Next]_vars => Keeping'
  <2> SUFFICES ASSUME Keeping, [Next]_vars PROVE Keeping'
    OBVIOUS
  <2>1. Inv'
    BY TypeStep, Growth, SoundStep, CopiesStep DEF Inv
  <2>2. "remove" \in Modes => use.edits["dest"] = 0
    BY DEF Inv, TypeOK, Modes
  <2>3. \A s \in Skills : Untouched(s)'
    BY <2>2, UntouchedStep
  <2>4. \A s \in Skills : Everywhere(Gone) \notin theirs'[s]
    BY MadeOfFiles
  <2> QED
    BY <2>1, <2>3, <2>4, MannerStep
<1>3. Keeping /\ [Next]_vars => [\A s \in Skills : Divergent(s)]_vars
  <2> SUFFICES ASSUME Keeping, Next, NEW s \in Skills, dest[s] \in theirs[s], dest'[s] # dest[s], edits' = edits
               PROVE  \E p \in Processes : mode[p] = "force" /\ pc[p] = "moveAway" /\ skill[p] = s
    OBVIOUS
  <2>1. TypeOK /\ dest[s] # None
    BY DEF Inv, TypeOK
  <2>2. ~(\E t \in Skills : EditSource(t) \/ EditCopy(t))
    BY <2>1 DEF EditSource, EditCopy, TypeOK
  <2>3. PICK p \in Processes : Step(p) \/ Failure(p)
    BY <2>2 DEF Next
  <2>4. /\ skill[p] = s
        /\ \/ MoveAway(p) \/ Delete(p) \/ DeleteDirectory(p)
           \/ Interrupt(p) /\ pc[p] = "moveAway"
    BY <2>1, <2>3, Taken
  <2>5. pc[p] \notin Deleting
    <3>1. pc[p] \in Deleting => "remove" \in Modes
      BY DEF Manner, Deleting
    <3> QED
      BY <2>4, <3>1 DEF Untouched
  <2> QED
    BY <2>4, <2>5 DEF MoveAway, Delete, DeleteDirectory, Deleting, Manner, Moving
<1>4. DivergentKept <=> [][\A s \in Skills : Divergent(s)]_vars
  BY DEF DivergentKept
<1> QED
  BY <1>1, <1>2, <1>3, <1>4, PTL DEF Spec
=============================================================================
