------------------------- MODULE BoundedProcessProofs -------------------------
(***************************************************************************)
(* Proofs about BoundedProcess for every family of processes, whichever of  *)
(* them escape, every limit, chunk and pipe size.                           *)
(*                                                                         *)
(* Accounts is the conservation law behind OkIsWhole: while nothing has     *)
(* overflowed, every byte written is in the pipe, in the read in progress   *)
(* or in the buffer; and a reader that ended without a complaint has seen   *)
(* the end of file, which is final because nobody is left to write.         *)
(***************************************************************************)
EXTENDS BoundedProcess, TLAPS

\* The places of the caller after the last kill of the group that it always makes.
AfterSweep == {"join", "close", "rekill", "rejoin", "verdict"}

THEOREM TypeCorrect == Spec => []TypeOK
<1>1. Init => TypeOK
  <2> SUFFICES ASSUME Init PROVE TypeOK
    OBVIOUS
  <2>1. life \in [Tree -> {"unborn", "group", "escaped", "doomed", "dead"}]
    BY DEF Init
  <2>2. writers \subseteq Tree
    BY DEF Init, Tree
  <2>3. /\ pipe \in 0..PipeSize /\ written \in 0..MaxBytes
        /\ got \in 0..Chunk /\ captured \in 0..Limit
    BY BoundedAssumption DEF Init
  <2>4. QED
    BY <2>1, <2>2, <2>3 DEF Init, TypeOK
<1>2. TypeOK /\ [Next]_vars => TypeOK'
  <2> SUFFICES ASSUME TypeOK, [Next]_vars PROVE TypeOK'
    OBVIOUS
  <2> USE BoundedAssumption DEF TypeOK
  <2>1. CASE UNCHANGED vars
    BY <2>1 DEF vars, family, readVars, mainVars
  <2>2. ASSUME NEW p \in Tree, Write(p) PROVE TypeOK'
    BY <2>2 DEF Write, family, readVars, mainVars
  <2>3. ASSUME NEW p \in Tree, NEW k \in Kin, Spawn(p, k) PROVE TypeOK'
    <3>1. k \in Tree /\ life' = [life EXCEPT ![k] = life[p]]
      BY <2>3 DEF Spawn, Tree
    <3>2. writers' \subseteq Tree
      BY <2>3, <3>1 DEF Spawn
    <3>3. QED
      BY <2>3, <3>1, <3>2 DEF Spawn, readVars, mainVars
  <2>4. ASSUME NEW p \in Tree, Escape(p) \/ Redirect(p) \/ Exit(p) \/ Die(p) PROVE TypeOK'
    <3>1. life' \in [Tree -> {"unborn", "group", "escaped", "doomed", "dead"}]
      BY <2>4 DEF Escape, Redirect, Exit, Die
    <3>2. writers' \subseteq Tree
      BY <2>4 DEF Escape, Redirect, Exit, Die
    <3>3. UNCHANGED <<pipe, written, readVars, mainVars, shot>>
      BY <2>4 DEF Escape, Redirect, Exit, Die
    <3>4. QED
      BY <3>1, <3>2, <3>3 DEF readVars, mainVars
  <2>5. CASE Collect \/ ReadReturns \/ ReadRaises
    <3>1. CASE Collect
      BY <2>5, <3>1 DEF Collect, family, mainVars
    <3>2. CASE ReadReturns
      BY <2>5, <3>2 DEF ReadReturns, family, mainVars
    <3>3. CASE ReadRaises
      BY <2>5, <3>3 DEF ReadRaises, family, mainVars
    <3>4. QED
      BY <2>5, <3>1, <3>2, <3>3
  <2>6. CASE Take
    <3>1. captured' \in 0..Limit
      BY <2>6 DEF Take, Over, Room
    <3>2. overflow' \in BOOLEAN
      BY <2>6 DEF Take
    <3>3. reader' \in {"read", "kill"} /\ got' = 0
          /\ UNCHANGED <<family, pipe, written, failed, mainVars, shot>>
      BY <2>6 DEF Take
    <3>4. QED
      BY <3>1, <3>2, <3>3 DEF family, mainVars
  <2>7. ASSUME Terminate
        PROVE  /\ life' \in [Tree -> {"unborn", "group", "escaped", "doomed", "dead"}]
               /\ writers' \subseteq Tree /\ shot' \in BOOLEAN
    <3>1. shot' \in BOOLEAN
      BY <2>7 DEF Terminate
    <3>2. QED
      BY <2>7, <3>1 DEF Terminate
  <2>8. CASE ReaderKills
    BY <2>7, <2>8 DEF ReaderKills, mainVars
  <2>9. CASE KillAtDeadline \/ Sweep \/ KillAgain
    <3>1. Terminate /\ UNCHANGED <<pipe, written, readVars, timedOut, stuck, closed, result>>
      BY <2>9 DEF KillAtDeadline, Sweep, KillAgain
    <3>2. main' \in {"rewait", "join", "rejoin"}
      BY <2>9 DEF KillAtDeadline, Sweep, KillAgain, Proceed
    <3>3. QED
      BY <2>7, <3>1, <3>2 DEF readVars
  <2>10. CASE WaitReturns \/ WaitTimesOut \/ Reaped \/ NotReaped \/ JoinAgain
    <3>1. CASE WaitReturns \/ Reaped \/ JoinAgain
      BY <3>1 DEF WaitReturns, Reaped, JoinAgain, Proceed, family, readVars
    <3>2. CASE WaitTimesOut
      BY <3>2 DEF WaitTimesOut, Proceed, family, readVars
    <3>3. CASE NotReaped
      BY <3>3 DEF NotReaped, Proceed, family, readVars
    <3>4. QED
      BY <2>10, <3>1, <3>2, <3>3
  <2>11. CASE Join
    <3>1. stuck' \in BOOLEAN
      BY <2>11 DEF Join
    <3>2. QED
      BY <2>11, <3>1 DEF Join, Proceed, family, readVars
  <2>12. CASE Close \/ Verdict
    BY <2>12 DEF Close, Verdict, Proceed, family, readVars
  <2>13. QED
    BY <2>1, <2>2, <2>3, <2>4, <2>5, <2>6, <2>8, <2>9, <2>10, <2>11, <2>12
    DEF Next, Child, Reader, Caller, Tree
<1>3. QED
  BY <1>1, <1>2, PTL DEF Spec

-----------------------------------------------------------------------------
(* The group *)

Returned == main = "done" /\ result # "unreaped"

\* Once the leader is reaped it stays dead; once the group is swept nobody runs in
\* it, because only a running member could fork another one.
Swept ==
    /\ main # "done" => result = "none"
    /\ main \in {"sweep"} \cup AfterSweep \/ Returned => Gone(Leader)
    /\ main \in AfterSweep \/ Returned => \A p \in Tree : life[p] # "group"

LEMMA SweptInvariant == Spec => []Swept
<1>1. Init => Swept
  BY DEF Init, Swept, AfterSweep, Returned
<1>2. TypeOK /\ Swept /\ [Next]_vars => Swept'
  <2> SUFFICES ASSUME TypeOK, Swept, [Next]_vars PROVE Swept'
    OBVIOUS
  <2> USE BoundedAssumption DEF TypeOK, Swept, AfterSweep, Returned, Gone, Runs
  <2>0. Leader \in Tree /\ Kin \subseteq Tree
    BY DEF Tree
  <2>1. CASE UNCHANGED vars
    BY <2>1 DEF vars, family, mainVars
  <2>2. CASE Collect \/ ReadReturns \/ ReadRaises \/ Take
    BY <2>2 DEF Collect, ReadReturns, ReadRaises, Take, family, mainVars
  <2>3. ASSUME NEW p \in Tree, Write(p) PROVE Swept'
    BY <2>3 DEF Write, family, mainVars
  <2>4. ASSUME NEW p \in Tree, NEW k \in Kin, Spawn(p, k) PROVE Swept'
    <3>1. k # Leader /\ k \in Tree /\ life[p] \in {"group", "escaped"} /\ UNCHANGED mainVars
          /\ life' = [life EXCEPT ![k] = life[p]]
      BY <2>0, <2>4 DEF Spawn
    <3>2. life'[Leader] = life[Leader]
      BY <2>0, <3>1
    <3>3. \A q \in Tree : life'[q] = life[q] \/ life'[q] = life[p]
      BY <3>1
    <3>4. QED
      BY <3>1, <3>2, <3>3 DEF mainVars
  <2>5. ASSUME NEW p \in Tree, Escape(p) \/ Redirect(p) \/ Exit(p) \/ Die(p) PROVE Swept'
    <3>1. /\ UNCHANGED mainVars
          /\ \A q \in Tree : \/ life'[q] = life[q]
                            \/ life'[q] = "dead"
                            \/ (life'[q] = "escaped" /\ q # Leader)
      <4>1. CASE Escape(p)
        <5>1. p # Leader /\ UNCHANGED mainVars /\ life' = [life EXCEPT ![p] = "escaped"]
          BY <4>1 DEF Escape
        <5>2. QED
          BY <5>1
      <4>2. CASE Redirect(p)
        BY <4>2 DEF Redirect
      <4>3. CASE Exit(p) \/ Die(p)
        <5>1. UNCHANGED mainVars /\ life' = [life EXCEPT ![p] = "dead"]
          BY <4>3 DEF Exit, Die
        <5>2. QED
          BY <5>1
      <4>4. QED
        BY <2>5, <4>1, <4>2, <4>3
    <3>2. QED
      BY <2>0, <3>1 DEF mainVars
  <2>6. Terminate => \A q \in Tree : life'[q] # "group" /\ (life[q] = "dead" => life'[q] = "dead")
    BY DEF Terminate
  <2>7. CASE ReaderKills
    BY <2>0, <2>6, <2>7 DEF ReaderKills, mainVars
  <2>8. CASE KillAtDeadline \/ Sweep \/ KillAgain
    <3>1. CASE KillAtDeadline
      BY <2>0, <2>6, <3>1 DEF KillAtDeadline, Proceed
    <3>2. CASE Sweep
      BY <2>0, <2>6, <3>2 DEF Sweep, Proceed
    <3>3. CASE KillAgain
      BY <2>0, <2>6, <3>3 DEF KillAgain, Proceed
    <3>4. QED
      BY <2>8, <3>1, <3>2, <3>3
  <2>9. CASE WaitReturns \/ WaitTimesOut \/ Reaped
    <3>1. CASE WaitReturns
      BY <3>1 DEF WaitReturns, Proceed, family
    <3>2. CASE WaitTimesOut
      BY <3>2 DEF WaitTimesOut, Proceed, family
    <3>3. CASE Reaped
      BY <3>3 DEF Reaped, Proceed, family
    <3>4. QED
      BY <2>9, <3>1, <3>2, <3>3
  <2>10. CASE NotReaped \/ Verdict
    BY <2>10 DEF NotReaped, Verdict, Proceed, family
  <2>11. CASE Join \/ Close \/ JoinAgain
    BY <2>11 DEF Join, Close, JoinAgain, Proceed, family
  <2>12. QED
    BY <2>1, <2>2, <2>3, <2>4, <2>5, <2>7, <2>8, <2>9, <2>10, <2>11
    DEF Next, Child, Reader, Caller
<1>3. QED
  BY <1>1, <1>2, TypeCorrect, PTL DEF Spec

\* When run_bounded is over, nobody runs in the child's process group, whatever the
\* child forked and whichever descendants escaped.
THEOREM NoGroupSurvives == Spec => []GroupIsGone
<1>1. Swept => GroupIsGone
  BY DEF Swept, GroupIsGone, Returned
<1>2. QED
  BY <1>1, SweptInvariant, PTL

-----------------------------------------------------------------------------
(* The output *)

Accounts ==
    /\ ~overflow => written = pipe + got + captured
    /\ reader = "dead" /\ ~overflow /\ ~failed => EndOfFile /\ got = 0
    /\ reader = "kill" => overflow \/ failed
    /\ main \in {"kill", "rewait"} => timedOut
    /\ shot => timedOut \/ overflow \/ failed
    /\ result = "ok" => reader = "dead" /\ ~overflow /\ ~failed /\ ~timedOut

LEMMA AccountsInvariant == Spec => []Accounts
<1>1. Init => Accounts
  BY BoundedAssumption DEF Init, Accounts
<1>2. TypeOK /\ Swept /\ Accounts /\ [Next]_vars => Accounts'
  <2> SUFFICES ASSUME TypeOK, Swept, Accounts, [Next]_vars PROVE Accounts'
    OBVIOUS
  <2> USE BoundedAssumption DEF TypeOK, Accounts, EndOfFile
  <2>1. CASE UNCHANGED vars
    BY <2>1 DEF vars, family, readVars, mainVars
  <2>2. CASE Collect
    BY <2>2 DEF Collect, mainVars, family
  <2>3. CASE ReadReturns
    BY <2>3 DEF ReadReturns, mainVars, family
  <2>4. CASE ReadRaises
    BY <2>4 DEF ReadRaises, mainVars, family
  <2>5. CASE Take
    <3>1. got' = 0 /\ UNCHANGED <<family, pipe, written, failed, mainVars, shot>>
      BY <2>5 DEF Take
    <3>2. CASE Over
      <4>1. overflow' /\ reader' = "kill" /\ result # "ok"
        BY <2>5, <3>2 DEF Take
      <4>2. QED
        BY <3>1, <4>1 DEF family, mainVars
    <3>3. CASE ~Over
      <4>1. overflow' = overflow /\ reader' = "read" /\ captured' = captured + got
        BY <2>5, <3>3 DEF Take
      <4>2. reader = "take"
        BY <2>5 DEF Take
      <4>3. QED
        BY <3>1, <4>1, <4>2 DEF family, mainVars
    <3>4. QED
      BY <3>2, <3>3
  <2>6. CASE ReaderKills
    BY <2>6 DEF ReaderKills, Terminate, mainVars
  <2>7. ASSUME NEW p \in Tree, Write(p) PROVE Accounts'
    BY <2>7 DEF Write, family, readVars, mainVars
  <2>8. ASSUME NEW p \in Tree, NEW k \in Kin, Spawn(p, k) PROVE Accounts'
    BY <2>8 DEF Spawn, readVars, mainVars
  <2>9. ASSUME NEW p \in Tree, Escape(p) \/ Redirect(p) \/ Exit(p) \/ Die(p)
        PROVE  Accounts'
    <3>1. UNCHANGED <<pipe, written, readVars, mainVars, shot>>
      BY <2>9 DEF Escape, Redirect, Exit, Die
    <3>2. writers' \subseteq writers
      BY <2>9 DEF Escape, Redirect, Exit, Die
    <3>3. QED
      BY <3>1, <3>2 DEF readVars, mainVars
  <2>10. CASE KillAtDeadline
    BY <2>10 DEF KillAtDeadline, Proceed, Terminate, readVars
  \* The sweep finds a reaped leader.
  <2>11. CASE Sweep \/ KillAgain
    <3>1. life[Leader] = "dead"
      BY <2>11 DEF Swept, AfterSweep, Sweep, KillAgain, Proceed, Gone
    <3>2. shot' = shot /\ UNCHANGED <<writers, pipe, written, readVars, timedOut, result>>
      <4>1. shot' = (shot \/ FALSE)
        BY <2>11, <3>1 DEF Sweep, KillAgain, Terminate
      <4>2. UNCHANGED <<writers, pipe, written, readVars, timedOut, result>>
        BY <2>11 DEF Sweep, KillAgain, Terminate
      <4>3. QED
        BY <4>1, <4>2
    <3>3. main' \notin {"kill", "rewait"}
      BY <2>11 DEF Sweep, KillAgain, Proceed
    <3>4. QED
      BY <3>2, <3>3 DEF readVars
  <2>12. CASE WaitReturns \/ WaitTimesOut \/ Reaped
    <3>1. CASE WaitReturns
      BY <3>1 DEF WaitReturns, Proceed, family, readVars
    <3>2. CASE WaitTimesOut
      <4>1. timedOut' /\ result' = "none"
        BY <3>2 DEF WaitTimesOut, Proceed, Swept
      <4>2. UNCHANGED <<family, pipe, written, readVars, shot>>
        BY <3>2 DEF WaitTimesOut
      <4>3. QED
        BY <4>1, <4>2 DEF family, readVars
    <3>3. CASE Reaped
      BY <3>3 DEF Reaped, Proceed, family, readVars
    <3>4. QED
      BY <2>12, <3>1, <3>2, <3>3
  <2>13. CASE NotReaped \/ Verdict
    BY <2>13 DEF NotReaped, Verdict, Proceed, family, readVars
  <2>14. CASE Join \/ Close \/ JoinAgain
    BY <2>14 DEF Join, Close, JoinAgain, Proceed, family, readVars
  <2>15. QED
    BY <2>1, <2>2, <2>3, <2>4, <2>5, <2>6, <2>7, <2>8, <2>9, <2>10, <2>11, <2>12,
       <2>13, <2>14 DEF Next, Child, Reader, Caller, Tree
<1>3. QED
  BY <1>1, <1>2, TypeCorrect, SweptInvariant, PTL DEF Spec

\* A plain result is the child's whole output, and nothing cut the child short.
THEOREM ResultIsWhole == Spec => []OkIsWhole
<1>1. TypeOK /\ Accounts => OkIsWhole
  BY BoundedAssumption DEF TypeOK, Accounts, OkIsWhole, EndOfFile
<1>2. QED
  BY <1>1, TypeCorrect, AccountsInvariant, PTL
=============================================================================
