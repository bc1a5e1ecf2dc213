------------------------- MODULE SelfReviewHookProofs -------------------------
(***************************************************************************)
(* Proofs about StateLock and SelfReviewHook for every set of processes,    *)
(* sessions and contents, every cap and every fault bound.                  *)
(*                                                                         *)
(* The lock: HoldersOwnTheFile is inductive together with the types.  The   *)
(* exclusion proof for runs without faults and slow holders needs more:     *)
(* that no file ever grows stale (GrowStale is the only way to the break    *)
(* path) because every existing file has a living holder.                  *)
(*                                                                         *)
(* The hook: between its load and its save a process holds the lock and its *)
(* copy is what state.json still says.  It follows from HoldersOwnTheFile   *)
(* and makes the save an atomic update, so that the record of a session and *)
(* its history advance together, peers are only evicted at the limit, and   *)
(* every step is one of NudgeLedger's.                                     *)
(***************************************************************************)
EXTENDS SelfReviewHook, FiniteSetTheorems, WellFoundedInduction, TLAPS

-----------------------------------------------------------------------------
(* The lock *)

\* No step of the lock leaves the type invariant.
LEMMA LockTypeStep == LockTypeOK /\ [LockNext]_lockVars => LockTypeOK'
<1> SUFFICES ASSUME LockTypeOK, [LockNext]_lockVars PROVE LockTypeOK'
  OBVIOUS
<1> USE LockAssumption DEF LockTypeOK, Place, Waiting, Goto, Fault, NoFile, SameFile
<1>1. CASE UNCHANGED lockVars
  BY <1>1 DEF lockVars
<1>2. CASE GrowStale
  BY <1>2 DEF GrowStale
<1>3. ASSUME NEW p \in Proc, Enter(p) \/ Create(p) \/ Release(p) \/ Deadline(p)
      PROVE LockTypeOK'
  BY <1>3 DEF Enter, Create, Release, Deadline
<1>4. ASSUME NEW p \in Proc, Acquire(p) PROVE LockTypeOK'
  <2>1. CASE Break(p)
    <3>1. seized' \in BOOLEAN
      BY <2>1 DEF Break
    <3>2. QED
      BY <2>1, <3>1 DEF Break
  <2>2. CASE Stat(p)
    BY <2>2 DEF Stat
  <2>3. CASE OpenRefused(p) \/ Sleep(p) \/ Timeout(p)
    BY <2>3 DEF OpenRefused, Sleep, Timeout
  <2>4. QED
    BY <1>4, <2>1, <2>2, <2>3 DEF Acquire
<1>5. ASSUME NEW p \in Proc, Misfortune(p) PROVE LockTypeOK'
  <2>1. faults' \in 0..MaxFaults
    BY <1>5 DEF Misfortune, PidWriteFails, BreakFails, ReleaseFails, Crash
  <2>2. pc' \in [Proc -> Place] /\ late' = late /\ seized' = seized
    BY <1>5 DEF Misfortune, PidWriteFails, BreakFails, ReleaseFails, Crash
  <2>3. lockOwner' \in Proc \cup {Nobody} /\ lockStale' \in BOOLEAN
    BY <1>5 DEF Misfortune, PidWriteFails, BreakFails, ReleaseFails, Crash
  <2>4. QED
    BY <2>1, <2>2, <2>3
<1>6. QED
  BY <1>1, <1>2, <1>3, <1>4, <1>5 DEF LockNext

\* The type invariant of the lock: state_lock() only ever has these values.
THEOREM LockTypeCorrect == LockSpec => []LockTypeOK
<1>1. LockInit => LockTypeOK
  <2> SUFFICES ASSUME LockInit PROVE LockTypeOK
    OBVIOUS
  <2>1. pc \in [Proc -> Place] /\ late \in [Proc -> BOOLEAN]
    BY DEF LockInit, Place
  <2>2. faults \in 0..MaxFaults
    BY LockAssumption DEF LockInit
  <2>3. QED
    BY <2>1, <2>2 DEF LockInit, LockTypeOK
<1>2. QED
  BY <1>1, LockTypeStep, PTL DEF LockSpec

-----------------------------------------------------------------------------
\* No step of the lock takes a holder's file away without setting seized.
LEMMA HoldersOwnStep ==
    LockTypeOK /\ HoldersOwnTheFile /\ [LockNext]_lockVars => HoldersOwnTheFile'
<1> SUFFICES ASSUME LockTypeOK, HoldersOwnTheFile, [LockNext]_lockVars,
                    ~seized',
                    NEW q \in Proc, pc'[q] = "held"
             PROVE  lockOwner' = q
  BY DEF HoldersOwnTheFile
<1> USE LockAssumption DEF LockTypeOK, HoldersOwnTheFile, Place, Waiting, Goto,
                           Fault, NoFile, SameFile
<1>1. CASE UNCHANGED lockVars
  BY <1>1 DEF lockVars
<1>2. CASE GrowStale
  BY <1>2 DEF GrowStale
<1>3. ASSUME NEW p \in Proc, Enter(p) \/ Deadline(p) PROVE lockOwner' = q
  BY <1>3 DEF Enter, Deadline
\* The file is only created where there is none, hence no other holder.
<1>4. ASSUME NEW p \in Proc, Create(p) \/ PidWriteFails(p) PROVE lockOwner' = q
  BY <1>4 DEF Create, PidWriteFails
\* The releasing process is the only holder.
<1>5. ASSUME NEW p \in Proc, Release(p) PROVE lockOwner' = q
  BY <1>5 DEF Release
\* A break that unlinks the file of the holder q would set seized.
<1>6. ASSUME NEW p \in Proc, Break(p) PROVE lockOwner' = q
  BY <1>6 DEF Break
<1>7. ASSUME NEW p \in Proc,
             \/ OpenRefused(p) \/ Stat(p) \/ Sleep(p) \/ Timeout(p)
             \/ BreakFails(p) \/ ReleaseFails(p) \/ Crash(p)
      PROVE  lockOwner' = q
  BY <1>7 DEF OpenRefused, Stat, Sleep, Timeout, BreakFails, ReleaseFails, Crash
<1>8. QED
  BY <1>1, <1>2, <1>3, <1>4, <1>5, <1>6, <1>7 DEF LockNext, Acquire, Misfortune

\* Whatever crashes, stalls or fails, a holder's file is there until a breaker
\* has unlinked a live holder's file.
THEOREM HoldersOwn == LockSpec => []HoldersOwnTheFile
<1>1. LockInit => HoldersOwnTheFile
  BY DEF LockInit, HoldersOwnTheFile
<1>2. QED
  BY <1>1, HoldersOwnStep, LockTypeCorrect, PTL DEF LockSpec

-----------------------------------------------------------------------------
\* The inductive invariant of executions where nothing fails and nobody is slow.
Undisturbed ==
    /\ ~seized /\ ~lockStale
    /\ lockOwner # Nobody => pc[lockOwner] = "held"
    /\ \A p \in Proc : pc[p] # "break"

\* Without faults and without holders slower than STALE_LOCK_SECONDS, the break
\* path is unreachable.
Calm == faults = 0 /\ Slow = {} => Undisturbed

LEMMA CalmStep ==
    LockTypeOK /\ HoldersOwnTheFile /\ Calm /\ [LockNext]_lockVars => Calm'
<1> SUFFICES ASSUME LockTypeOK, HoldersOwnTheFile, Calm, [LockNext]_lockVars,
                    faults' = 0, Slow = {}
             PROVE  Undisturbed'
  BY DEF Calm
<1>1. ASSUME NEW p \in Proc, Misfortune(p) PROVE FALSE
  BY <1>1 DEF Misfortune, PidWriteFails, BreakFails, ReleaseFails, Crash, Fault, LockTypeOK
<1>2. faults = 0
  BY <1>1 DEF LockNext, lockVars, GrowStale, Enter, Create, Acquire, OpenRefused, Stat,
              Break, Sleep, Timeout, Release, Deadline, LockTypeOK
<1>3. Undisturbed
  BY <1>2 DEF Calm
<1> USE <1>3, LockAssumption DEF LockTypeOK, HoldersOwnTheFile, Undisturbed, Place,
                                 Waiting, Goto, NoFile, SameFile
<1>4. CASE UNCHANGED lockVars
  BY <1>4 DEF lockVars
<1>5. CASE GrowStale
  BY <1>5 DEF GrowStale
<1>6. ASSUME NEW p \in Proc, Enter(p) \/ Create(p) \/ Release(p) \/ Deadline(p)
      PROVE Undisturbed'
  BY <1>6 DEF Enter, Create, Release, Deadline
<1>7. ASSUME NEW p \in Proc, Acquire(p) PROVE Undisturbed'
  BY <1>7 DEF Acquire, OpenRefused, Stat, Break, Sleep, Timeout
<1>8. QED
  BY <1>1, <1>4, <1>5, <1>6, <1>7 DEF LockNext

\* state_lock() serializes its bodies as long as nothing fails inside it and no
\* holder outlives STALE_LOCK_SECONDS.
THEOREM Exclusion == LockSpec => []FaultFreeExclusion
<1>1. LockInit => Calm
  BY DEF LockInit, Calm, Undisturbed
<1>2. HoldersOwnTheFile /\ Calm => FaultFreeExclusion
  BY DEF HoldersOwnTheFile, Calm, Undisturbed, MutualExclusion, FaultFreeExclusion
<1>3. QED
  BY <1>1, <1>2, CalmStep, LockTypeCorrect, HoldersOwn, PTL DEF LockSpec

-----------------------------------------------------------------------------
(* The lock inside the hook *)

\* A step of the hook is a step of the lock, or leaves the lock alone apart from
\* the fault count.
LockStep ==
    \/ [LockNext]_lockVars
    \/ Fault /\ UNCHANGED <<lockOwner, lockStale, pc, late, seized>>

LEMMA StepsOfTheLock == [Next]_vars => LockStep
<1> SUFFICES ASSUME [Next]_vars PROVE LockStep
  OBVIOUS
<1> USE DEF LockStep
<1>1. CASE UNCHANGED vars
  BY <1>1 DEF vars, lockVars
<1>2. CASE Edit
  BY <1>2 DEF Edit
<1>3. CASE TimePasses
  BY <1>3 DEF TimePasses, LockNext
<1>4. ASSUME NEW p \in Proc, IgnoreStop(p) \/ StopEvent(p) PROVE LockStep
  BY <1>4 DEF IgnoreStop, StopEvent, LockNext
<1>5. ASSUME NEW p \in Proc, Work(p) PROVE LockStep
  <2>1. CASE WaitForLock(p)
    BY <2>1 DEF WaitForLock, LockNext, Acquire, Misfortune
  <2>2. CASE HaveLock(p) \/ NoLock(p) \/ Unlock(p)
    BY <2>2 DEF HaveLock, NoLock, Unlock, LockNext, Acquire, Misfortune
  <2>3. CASE LoadState(p) \/ SaveState(p) \/ Emit(p)
    BY <2>3 DEF LoadState, SaveState, Emit
  <2>4. QED
    BY <1>5, <2>1, <2>2, <2>3 DEF Work
<1>6. ASSUME NEW p \in Proc, StateFails(p) \/ UnlockFails(p) \/ Killed(p) PROVE LockStep
  BY <1>6 DEF StateFails, UnlockFails, Killed, LockNext, Misfortune
<1>7. QED
  BY <1>1, <1>2, <1>3, <1>4, <1>5, <1>6 DEF Next

\* What is shown of the lock above holds inside the hook.
LEMMA LockInHook ==
    LockTypeOK /\ HoldersOwnTheFile /\ [Next]_vars => LockTypeOK' /\ HoldersOwnTheFile'
<1> SUFFICES ASSUME LockTypeOK, HoldersOwnTheFile, [Next]_vars
             PROVE  LockTypeOK' /\ HoldersOwnTheFile'
  OBVIOUS
<1>1. CASE [LockNext]_lockVars
  BY <1>1, LockTypeStep, HoldersOwnStep
<1>2. CASE Fault /\ UNCHANGED <<lockOwner, lockStale, pc, late, seized>>
  <2>1. faults' \in 0..MaxFaults
    BY <1>2, LockAssumption DEF LockTypeOK, Fault
  <2>2. LockTypeOK'
    BY <1>2, <2>1 DEF LockTypeOK
  <2>3. QED
    BY <1>2, <2>2 DEF HoldersOwnTheFile
<1>3. QED
  BY <1>1, <1>2, StepsOfTheLock DEF LockStep

-----------------------------------------------------------------------------
(* The decision *)

\* Updating a record gives a record: the count stays below the cap.
LEMMA UpdatedIsRecord ==
    ASSUME NEW st \in Stores, NEW s \in Sessions, NEW d \in Digests
    PROVE  Updated(Current(st, s), d) \in Record
<1>1. Current(st, s) \in Record
  BY HookAssumption DEF Stores, Current, Fresh, Record
<1>2. QED
  BY <1>1, HookAssumption DEF Updated, ShouldNudge, Record

\* The next store is a store, and keeps peers only as they were.
LEMMA NextStoreIsStore ==
    ASSUME NEW st \in Stores, NEW s \in Sessions, NEW d \in Digests
    PROVE  /\ NextStore(st, s, d) \in Stores
           /\ NextStore(st, s, d)[s] = Updated(Current(st, s), d)
           /\ \A t \in Sessions \ {s} : NextStore(st, s, d)[t] \in {st[t], NoRecord}
<1>1. \A t \in Sessions : st[t] \in Record \cup {NoRecord}
  BY DEF Stores
<1>2. QED
  BY <1>1, UpdatedIsRecord DEF NextStore, Stores

-----------------------------------------------------------------------------
(* The inductive invariant *)

Busy == {"lock", "load", "save", "unlock", "emit"}

\* A process with an event knows its session and digest, and holds the lock
\* exactly while it is in the body.
JobOK ==
    \A p \in Proc :
        /\ stage[p] \in Busy => session[p] \in Sessions /\ digest[p] \in Digests
        /\ pc[p] = "held" <=> stage[p] \in {"load", "save", "unlock"}
        /\ pc[p] = "away" <=> stage[p] \in {"idle", "emit"}

TypeInv == HookTypeOK /\ JobOK

\* One record tells one history.
Tells(r, h) ==
    /\ r.count = Len(h)
    /\ r.digest = IF h = <<>> THEN NoDigest ELSE h[Len(h)]

Polite(h) ==
    /\ Len(h) <= MaxNudges
    /\ \A i \in 1..Len(h) - 1 : h[i] # h[i + 1]

History ==
    ~seized =>
        /\ \A p \in Proc : At(p, "save") => copy[p] = store
        /\ \A s \in Known(store) : Tells(store[s], given[s])
        /\ \A s \in Sessions : Polite(given[s])

LEMMA HookTypeInit == Init => TypeInv
<1> SUFFICES ASSUME Init PROVE TypeInv
  OBVIOUS
<1> USE DEF Init
<1>1. LockTypeOK
  <2>1. pc \in [Proc -> Place] /\ late \in [Proc -> BOOLEAN]
    BY DEF LockInit, Place
  <2>2. faults \in 0..MaxFaults
    BY LockAssumption DEF LockInit
  <2>3. QED
    BY <2>1, <2>2 DEF LockInit, LockTypeOK
<1>2. HookTypeOK
  <2>1. Nothing \in Stores
    BY DEF Nothing, Stores
  <2>2. /\ stage \in [Proc -> {"idle", "lock", "load", "save", "unlock", "emit"}]
        /\ session \in [Proc -> Sessions \cup {NoSession}]
        /\ digest \in [Proc -> Digests \cup {NoDigest}]
        /\ verdict \in [Proc -> Outcome]
    BY DEF Outcome
  <2>3. copy \in [Proc -> Stores]
    BY <2>1
  <2>4. given \in [Sessions -> Seq(Digests)]
    OBVIOUS
  <2>5. events \in 0..MaxEvents /\ owed \in Int
    BY HookAssumption
  <2>6. QED
    BY <1>1, <2>1, <2>2, <2>3, <2>4, <2>5 DEF HookTypeOK
<1>3. JobOK
  BY DEF LockInit, JobOK, Busy
<1>4. QED
  BY <1>2, <1>3 DEF TypeInv

\* Ending a process leaves well-typed locals.
LEMMA EndTypes ==
    ASSUME NEW p \in Proc, TypeInv, End(p)
    PROVE  /\ stage' \in [Proc -> {"idle", "lock", "load", "save", "unlock", "emit"}]
           /\ session' \in [Proc -> Sessions \cup {NoSession}]
           /\ digest' \in [Proc -> Digests \cup {NoDigest}]
           /\ copy' \in [Proc -> Stores]
           /\ verdict' \in [Proc -> Outcome]
<1>1. Nothing \in Stores
  BY DEF Nothing, Stores
<1>2. QED
  BY <1>1 DEF TypeInv, HookTypeOK, End, Become, Decide, Outcome

\* Every step keeps the types of the hook's own variables and the tie between a
\* process's stage and its place in the lock.
LEMMA HookTypeStep == TypeInv /\ LockTypeOK' /\ [Next]_vars => TypeInv'
<1> SUFFICES ASSUME TypeInv, LockTypeOK', [Next]_vars PROVE TypeInv'
  OBVIOUS
<1> USE HookAssumption, LockAssumption
    DEF TypeInv, HookTypeOK, JobOK, Busy, Goto, At, Become, Decide, Outcome
<1>1. CASE UNCHANGED vars
  BY <1>1 DEF vars, hookVars, job, lockVars
<1>2. CASE Edit
  BY <1>2 DEF Edit, job, lockVars
<1>3. CASE TimePasses
  <2>1. pc' = pc
    BY <1>3 DEF TimePasses, Deadline, GrowStale
  <2>2. UNCHANGED hookVars
    BY <1>3 DEF TimePasses
  <2>3. QED
    BY <2>1, <2>2 DEF hookVars, job
<1>4. ASSUME NEW p \in Proc, IgnoreStop(p) PROVE TypeInv'
  BY <1>4 DEF IgnoreStop, job, lockVars
<1>5. ASSUME NEW p \in Proc, StopEvent(p) PROVE TypeInv'
  <2>1. PICK s \in Sessions : session' = [session EXCEPT ![p] = s]
    BY <1>5 DEF StopEvent
  <2>2. events' \in 0..MaxEvents
    BY <1>5 DEF StopEvent
  <2>3. HookTypeOK'
    BY <1>5, <2>1, <2>2 DEF StopEvent
  <2>4. JobOK'
    <3>1. stage' = [stage EXCEPT ![p] = "lock"] /\ pc' = [pc EXCEPT ![p] = "open"]
      BY <1>5 DEF StopEvent, Enter
    <3>2. digest' = [digest EXCEPT ![p] = tree]
      BY <1>5 DEF StopEvent
    <3>3. ASSUME NEW q \in Proc, q # p
          PROVE  stage'[q] = stage[q] /\ pc'[q] = pc[q]
                 /\ session'[q] = session[q] /\ digest'[q] = digest[q]
      BY <2>1, <3>1, <3>2, <3>3 DEF LockTypeOK
    <3>4. stage'[p] = "lock" /\ pc'[p] = "open" /\ session'[p] = s /\ digest'[p] = tree
      BY <2>1, <3>1, <3>2 DEF LockTypeOK
    <3>5. QED
      BY <3>3, <3>4
  <2>5. QED
    BY <2>3, <2>4
<1>6. ASSUME NEW p \in Proc, WaitForLock(p) PROVE TypeInv'
  <2>1. UNCHANGED hookVars
    BY <1>6 DEF WaitForLock
  <2>2. pc[p] \in Waiting /\ \E w \in Waiting : Goto(p, w)
    BY <1>6 DEF WaitForLock, OpenRefused, Stat, Break, BreakFails, Sleep, Waiting
  <2>3. QED
    BY <2>1, <2>2 DEF hookVars, job, Waiting, LockTypeOK
<1>7. ASSUME NEW p \in Proc, HaveLock(p) PROVE TypeInv'
  BY <1>7 DEF HaveLock, Create, LockTypeOK
<1>8. ASSUME NEW p \in Proc, NoLock(p) PROVE TypeInv'
  <2>1. End(p) /\ Goto(p, "away") /\ UNCHANGED <<tree, store, events, given, owed>>
    BY <1>8 DEF NoLock, Timeout, PidWriteFails
  <2>2. QED
    BY <2>1, EndTypes DEF End, LockTypeOK
<1>9. ASSUME NEW p \in Proc, LoadState(p) PROVE TypeInv'
  BY <1>9 DEF LoadState, lockVars
<1>10. ASSUME NEW p \in Proc, SaveState(p) PROVE TypeInv'
  <2>1. session[p] \in Sessions /\ digest[p] \in Digests /\ copy[p] \in Stores
    BY <1>10 DEF SaveState
  <2>2. store' \in Stores
    BY <1>10, <2>1, NextStoreIsStore DEF SaveState
  <2>3. given' \in [Sessions -> Seq(Digests)]
    BY <1>10, <2>1 DEF SaveState, NextGiven
  <2>4. verdict' \in [Proc -> Outcome] /\ owed' \in Int
    BY <1>10 DEF SaveState
  <2>5. stage' = [stage EXCEPT ![p] = "unlock"]
        /\ UNCHANGED <<lockVars, tree, session, digest, copy, events>>
    BY <1>10 DEF SaveState
  <2>6. QED
    BY <1>10, <2>2, <2>3, <2>4, <2>5 DEF lockVars, SaveState
<1>11. ASSUME NEW p \in Proc, Unlock(p) PROVE TypeInv'
  BY <1>11 DEF Unlock, Release, LockTypeOK
<1>12. ASSUME NEW p \in Proc, Emit(p) PROVE TypeInv'
  <2>1. owed' \in Int
    BY <1>12 DEF Emit
  <2>2. QED
    BY <1>12, <2>1, EndTypes DEF Emit, End, lockVars
<1>13. ASSUME NEW p \in Proc, StateFails(p) PROVE TypeInv'
  BY <1>13 DEF StateFails
<1>14. ASSUME NEW p \in Proc, UnlockFails(p) PROVE TypeInv'
  BY <1>14, EndTypes DEF UnlockFails, ReleaseFails, End, LockTypeOK
<1>15. ASSUME NEW p \in Proc, Killed(p) PROVE TypeInv'
  <2>1. End(p) /\ UNCHANGED <<tree, store, events, given, owed>>
    BY <1>15 DEF Killed
  <2>2. Goto(p, "away") \/ (At(p, "emit") /\ pc' = pc)
    BY <1>15 DEF Killed, Crash
  <2>3. JobOK'
    BY <2>1, <2>2 DEF End, LockTypeOK
  <2>4. HookTypeOK'
    BY <2>1, EndTypes
  <2>5. QED
    BY <2>3, <2>4
<1>16. QED
  BY <1>1, <1>2, <1>3, <1>4, <1>5, <1>6, <1>7, <1>8, <1>9, <1>10, <1>11, <1>12,
     <1>13, <1>14, <1>15 DEF Next, Work

\* The type invariant, with the tie between stage and lock.
THEOREM HookTypeCorrect == Spec => [](HookTypeOK /\ JobOK /\ HoldersOwnTheFile)
<1>1. Init => HoldersOwnTheFile
  BY DEF Init, LockInit, HoldersOwnTheFile
<1>2. TypeInv /\ HoldersOwnTheFile /\ [Next]_vars => TypeInv' /\ HoldersOwnTheFile'
  BY LockInHook, HookTypeStep DEF TypeInv, HookTypeOK
<1>3. QED
  BY <1>1, <1>2, HookTypeInit, PTL DEF Spec, TypeInv

-----------------------------------------------------------------------------
(* The history *)

\* Appending another content to a short enough history keeps it polite.
LEMMA PoliteAppend ==
    ASSUME NEW h \in Seq(Digests), NEW d \in Digests,
           Polite(h), Len(h) < MaxNudges, h = <<>> \/ h[Len(h)] # d
    PROVE  Polite(Append(h, d)) /\ Append(h, d) # <<>>
           /\ Len(Append(h, d)) = Len(h) + 1
           /\ Append(h, d)[Len(Append(h, d))] = d
<1> DEFINE g == Append(h, d)
<1>1. Len(g) = Len(h) + 1 /\ g # <<>> /\ g[Len(g)] = d
  <2>1. Len(g) = Len(h) + 1 /\ g[Len(h) + 1] = d
    OBVIOUS
  <2>2. Len(g) # 0
    BY <2>1
  <2>3. QED
    BY <2>1, <2>2
<1>2. \A i \in 1..Len(h) : g[i] = h[i]
  OBVIOUS
<1>3. ASSUME NEW i \in 1..Len(g) - 1 PROVE g[i] # g[i + 1]
  <2>1. CASE i = Len(h)
    BY <1>1, <1>2, <2>1
  <2>2. CASE i # Len(h)
    BY <1>1, <1>2, <2>2 DEF Polite
  <2>3. QED
    BY <2>1, <2>2
<1>4. Len(g) <= MaxNudges
  BY <1>1, HookAssumption
<1>5. QED
  BY <1>1, <1>3, <1>4 DEF Polite

\* A save on a copy that is the store keeps record and history together.
LEMMA SaveKeepsHistory ==
    ASSUME NEW s \in Sessions, NEW d \in Digests,
           store \in Stores, given \in [Sessions -> Seq(Digests)],
           \A t \in Known(store) : Tells(store[t], given[t]),
           \A t \in Sessions : Polite(given[t])
    PROVE  /\ \A t \in Known(NextStore(store, s, d)) :
                 Tells(NextStore(store, s, d)[t], NextGiven(store, s, d)[t])
           /\ \A t \in Sessions : Polite(NextGiven(store, s, d)[t])
<1> DEFINE past == IF store[s] = NoRecord THEN <<>> ELSE given[s]
           r == Current(store, s)
           next == NextGiven(store, s, d)[s]
<1>1. past \in Seq(Digests) /\ Polite(past)
  BY HookAssumption DEF Polite
<1>2. r \in Record /\ Tells(r, past)
  <2>1. CASE store[s] = NoRecord
    BY <2>1, HookAssumption DEF Current, Fresh, Record, Tells
  <2>2. CASE store[s] # NoRecord
    BY <2>2 DEF Current, Known, Stores
  <2>3. QED
    BY <2>1, <2>2
<1>3. next = IF ShouldNudge(r, d) THEN Append(past, d) ELSE past
  BY DEF NextGiven
<1> HIDE DEF past, next
<1>4. Tells(Updated(r, d), next) /\ Polite(next)
  <2>1. CASE ShouldNudge(r, d)
    <3>1. Len(past) < MaxNudges /\ (past = <<>> \/ past[Len(past)] # d)
      BY <1>2, <2>1 DEF ShouldNudge, Tells
    <3>2. Updated(r, d) = [count |-> r.count + 1, digest |-> d]
      BY <2>1 DEF Updated
    <3>3. next = Append(past, d)
      BY <1>3, <2>1
    <3>4. Polite(next) /\ next # <<>> /\ Len(next) = Len(past) + 1 /\ next[Len(next)] = d
      BY <1>1, <3>1, <3>3, PoliteAppend
    <3>5. r.count = Len(past)
      BY <1>2 DEF Tells
    <3>6. Tells(Updated(r, d), next)
      BY <3>2, <3>4, <3>5 DEF Tells
    <3>7. QED
      BY <3>4, <3>6
  <2>2. CASE ~ShouldNudge(r, d)
    BY <1>1, <1>2, <1>3, <2>2 DEF Updated
  <2>3. QED
    BY <2>1, <2>2
<1>5. ASSUME NEW t \in Sessions \ {s}
      PROVE  NextGiven(store, s, d)[t] = given[t]
  BY DEF NextGiven
<1>6. ASSUME NEW t \in Sessions, t \in Known(NextStore(store, s, d))
      PROVE  Tells(NextStore(store, s, d)[t], NextGiven(store, s, d)[t])
  <2>1. CASE t = s
    <3>1. NextStore(store, s, d)[s] = Updated(r, d)
      BY DEF NextStore
    <3>2. NextGiven(store, s, d)[s] = next
      BY DEF next
    <3>3. QED
      BY <1>4, <2>1, <3>1, <3>2
  <2>2. CASE t # s
    <3>1. NextStore(store, s, d)[t] \in {store[t], NoRecord}
      BY <2>2, NextStoreIsStore
    <3>2. NextStore(store, s, d)[t] = store[t] /\ t \in Known(store)
      BY <1>6, <3>1 DEF Known
    <3>3. NextGiven(store, s, d)[t] = given[t]
      BY <1>5, <2>2
    <3>4. QED
      BY <3>2, <3>3
  <2>3. QED
    BY <2>1, <2>2
<1>7. QED
  BY <1>4, <1>5, <1>6 DEF Known, next

\* The inductive step: the only action that matters is the save, and it runs on a
\* copy that nobody has made stale.
LEMMA HistoryStep ==
    TypeInv /\ HoldersOwnTheFile /\ History /\ [Next]_vars => History'
<1> SUFFICES ASSUME TypeInv, HoldersOwnTheFile, History, [Next]_vars, ~seized'
             PROVE  /\ \A q \in Proc : At(q, "save")' => copy'[q] = store'
                    /\ \A s \in Known(store') : Tells(store'[s], given'[s])
                    /\ \A s \in Sessions : Polite(given'[s])
  BY DEF History, Known, At
<1> DEFINE Goal == /\ \A q \in Proc : At(q, "save")' => copy'[q] = store'
                   /\ \A s \in Known(store') : Tells(store'[s], given'[s])
                   /\ \A s \in Sessions : Polite(given'[s])
<1>1. ~seized
  BY StepsOfTheLock DEF LockStep, LockNext, lockVars, Enter, Create, Release,
     Deadline, Acquire, OpenRefused, Stat, Break, Sleep, Timeout, Misfortune,
     PidWriteFails, BreakFails, ReleaseFails, Crash, GrowStale
<1>2. /\ \A q \in Proc : At(q, "save") => copy[q] = store
      /\ \A s \in Known(store) : Tells(store[s], given[s])
      /\ \A s \in Sessions : Polite(given[s])
  BY <1>1 DEF History
<1>3. ASSUME UNCHANGED <<store, given>>,
             \A q \in Proc : At(q, "save")' => At(q, "save") /\ copy'[q] = copy[q]
      PROVE  Goal
  BY <1>2, <1>3
<1>4. ASSUME NEW p \in Proc, SaveState(p) PROVE Goal
  <2>1. session[p] \in Sessions /\ digest[p] \in Digests /\ copy[p] = store
    BY <1>2, <1>4 DEF SaveState, TypeInv, JobOK, Busy, At
  <2>2. store' = NextStore(store, session[p], digest[p])
        /\ given' = NextGiven(store, session[p], digest[p])
    BY <1>4, <2>1 DEF SaveState
  \* No other process is between its load and its save.
  <2>3. ASSUME NEW q \in Proc PROVE ~At(q, "save")'
    <3>1. CASE q = p
      BY <1>4, <3>1 DEF SaveState, Become, At, TypeInv, HookTypeOK
    <3>2. CASE q # p
      <4>1. pc[p] = "held" /\ ~(pc[q] = "held")
        BY <1>1, <1>4, <3>2 DEF SaveState, At, TypeInv, JobOK, HoldersOwnTheFile
      <4>2. stage'[q] = stage[q] /\ stage[q] # "save"
        BY <1>4, <3>2, <4>1 DEF SaveState, Become, TypeInv, HookTypeOK, JobOK
      <4>3. QED
        BY <4>2 DEF At
    <3>3. QED
      BY <3>1, <3>2
  <2>4. QED
    BY <1>2, <2>1, <2>2, <2>3, SaveKeepsHistory DEF TypeInv, HookTypeOK
<1>5. ASSUME NEW p \in Proc, LoadState(p) PROVE Goal
  BY <1>2, <1>5 DEF LoadState, Become, At, TypeInv, HookTypeOK
<1> USE DEF At, Become, TypeInv, HookTypeOK
<1>6. ASSUME NEW p \in Proc, End(p), UNCHANGED <<store, given>> PROVE Goal
  BY <1>3, <1>6 DEF End
<1>7. ASSUME NEW p \in Proc, Work(p) PROVE Goal
  <2>1. CASE WaitForLock(p)
    BY <1>3, <2>1 DEF WaitForLock, hookVars, job
  <2>2. CASE HaveLock(p) \/ Unlock(p)
    BY <1>3, <2>2 DEF HaveLock, Unlock
  <2>3. CASE NoLock(p) \/ Emit(p)
    BY <1>6, <2>3 DEF NoLock, Emit
  <2>4. QED
    BY <1>4, <1>5, <1>7, <2>1, <2>2, <2>3 DEF Work
<1>8. ASSUME NEW p \in Proc,
             IgnoreStop(p) \/ StopEvent(p) \/ StateFails(p) \/ UnlockFails(p) \/ Killed(p)
      PROVE  Goal
  <2>1. CASE IgnoreStop(p)
    BY <1>3, <2>1 DEF IgnoreStop, job
  <2>2. CASE StopEvent(p)
    BY <1>3, <2>2 DEF StopEvent
  <2>3. CASE StateFails(p)
    BY <1>3, <2>3 DEF StateFails
  <2>4. CASE UnlockFails(p) \/ Killed(p)
    BY <1>6, <2>4 DEF UnlockFails, Killed
  <2>5. QED
    BY <1>8, <2>1, <2>2, <2>3, <2>4
<1>9. CASE Edit \/ TimePasses \/ UNCHANGED vars
  BY <1>3, <1>9 DEF Edit, TimePasses, hookVars, job, vars
<1>10. QED
  BY <1>7, <1>8, <1>9 DEF Next

THEOREM HistoryInvariant == Spec => []History
<1>1. Init => History
  BY HookAssumption DEF Init, History, At, Known, Nothing, Polite
<1>2. QED
  BY <1>1, HistoryStep, HookTypeCorrect, PTL DEF Spec, TypeInv

\* Until a live holder's lock is broken, state.json counts exactly the nudges that
\* were decided for each retained session and names the last one.
THEOREM StoreIsTruthful == Spec => []StoreTellsHistory
<1>1. History => StoreTellsHistory
  BY DEF History, StoreTellsHistory, Tells
<1>2. QED
  BY <1>1, HistoryInvariant, PTL

\* The cap of MaxNudges and the rule against asking twice in a row hold for every
\* number of concurrent hosts, as long as no live holder's lock is broken.
THEOREM NudgesAreCapped == Spec => []CappedAndAlternating
<1>1. History => CappedAndAlternating
  BY DEF History, CappedAndAlternating, Polite
<1>2. QED
  BY <1>1, HistoryInvariant, PTL

-----------------------------------------------------------------------------
(* The lock file of a failed or killed invocation *)

\* Without faults and seizures, only the holder's own file is there.
LEMMA NoFileLeftStep ==
    LockTypeOK /\ HoldersOwnTheFile /\ NoFileLeftBehind /\ [LockNext]_lockVars => NoFileLeftBehind'
<1> SUFFICES ASSUME LockTypeOK, HoldersOwnTheFile, NoFileLeftBehind, [LockNext]_lockVars,
                    faults' = 0, ~seized', lockOwner' # Nobody
             PROVE  pc'[lockOwner'] = "held"
  BY DEF NoFileLeftBehind
<1> USE LockAssumption DEF LockTypeOK, HoldersOwnTheFile, NoFileLeftBehind, Place, Waiting, Goto,
                           NoFile, SameFile
<1>1. ASSUME NEW p \in Proc, Misfortune(p) PROVE FALSE
  BY <1>1 DEF Misfortune, PidWriteFails, BreakFails, ReleaseFails, Crash, Fault
<1>2. CASE UNCHANGED lockVars
  BY <1>2 DEF lockVars
<1>3. CASE GrowStale
  BY <1>3 DEF GrowStale
<1>4. ASSUME NEW p \in Proc, Enter(p) \/ Create(p) \/ Release(p) \/ Deadline(p)
      PROVE  pc'[lockOwner'] = "held"
  BY <1>4 DEF Enter, Create, Release, Deadline
<1>5. ASSUME NEW p \in Proc, Acquire(p) PROVE pc'[lockOwner'] = "held"
  BY <1>5 DEF Acquire, OpenRefused, Stat, Break, Sleep, Timeout
<1> QED
  BY <1>1, <1>2, <1>3, <1>4, <1>5 DEF LockNext

\* As long as no fault has happened, and no live holder's file was broken, the lock file there
\* is belongs to a process in the body: the stale-file path only ever serves failures.
THEOREM NoFileIsLeft == LockSpec => []NoFileLeftBehind
<1>1. LockInit => NoFileLeftBehind
  BY DEF LockInit, NoFileLeftBehind
<1> QED
  BY <1>1, NoFileLeftStep, LockTypeCorrect, HoldersOwn, PTL DEF LockSpec

-----------------------------------------------------------------------------
(* Nudges that were decided and are not printed yet *)

Nudged == {p \in Proc : verdict[p] = "nudge"}

\* A nudge is decided in the lock and pending until the process ends.
Pending ==
    /\ IsFiniteSet(Nudged)
    /\ \A p \in Nudged : stage[p] \in {"unlock", "emit"}
    /\ Cardinality(Nudged) <= owed /\ owed <= Cardinality(Nudged) + faults

\* One process less, or one more.
LEMMA OneMore ==
    ASSUME NEW S, NEW x, IsFiniteSet(S)
    PROVE  /\ IsFiniteSet(S \cup {x}) /\ IsFiniteSet(S \ {x}) /\ Cardinality(S) \in Nat
           /\ x \notin S => Cardinality(S \cup {x}) = Cardinality(S) + 1
           /\ x \in S => Cardinality(S \ {x}) = Cardinality(S) - 1
           /\ x \notin S => S \ {x} = S
  BY FS_AddElement, FS_RemoveElement, FS_CardinalityType

\* What a step does to the nudges of one process.
LEMMA EndPends ==
    ASSUME TypeInv, Pending, NEW p \in Proc, End(p), faults' \in Nat, faults <= faults',
           owed' = owed, p \in Nudged => faults' > faults
    PROVE  Pending'
<1> USE DEF TypeInv, HookTypeOK, LockTypeOK, End, Become, Decide
<1>1. Nudged' = Nudged \ {p}
  BY DEF Nudged
<1>2. \A q \in Nudged' : stage'[q] \in {"unlock", "emit"}
  BY <1>1 DEF Pending
<1>3. faults \in Nat /\ owed \in Int
  OBVIOUS
<1>4. /\ IsFiniteSet(Nudged) /\ Cardinality(Nudged) \in Nat
      /\ Cardinality(Nudged) <= owed /\ owed <= Cardinality(Nudged) + faults
  BY FS_CardinalityType DEF Pending
<1>5. /\ IsFiniteSet(Nudged')
      /\ Cardinality(Nudged') = IF p \in Nudged THEN Cardinality(Nudged) - 1 ELSE Cardinality(Nudged)
  BY <1>1, <1>4, OneMore
<1>6. Cardinality(Nudged') <= owed' /\ owed' <= Cardinality(Nudged') + faults'
  BY <1>3, <1>4, <1>5
<1> QED
  BY <1>2, <1>5, <1>6 DEF Pending

\* Every step keeps the account of the nudges.
LEMMA PendingStep == TypeInv /\ Pending /\ [Next]_vars => Pending'
<1> SUFFICES ASSUME TypeInv, Pending, [Next]_vars PROVE Pending'
  OBVIOUS
<1>1. faults \in Nat /\ owed \in Int /\ stage \in [Proc -> {"idle", "lock", "load", "save", "unlock", "emit"}]
      /\ verdict \in [Proc -> Outcome]
  BY LockAssumption DEF TypeInv, HookTypeOK, LockTypeOK
<1>2. /\ Cardinality(Nudged) \in Nat /\ IsFiniteSet(Nudged) /\ Nudged \subseteq Proc
      /\ Cardinality(Nudged) <= owed /\ owed <= Cardinality(Nudged) + faults
      /\ \A p \in Nudged : stage[p] \in {"unlock", "emit"}
  BY FS_CardinalityType DEF Pending, Nudged
<1>3. ASSUME verdict' = verdict, owed' = owed, faults' \in {faults, faults + 1},
             \A q \in Nudged : stage'[q] \in {"unlock", "emit"}
      PROVE  Pending'
  <2>1. Nudged' = Nudged
    BY <1>3 DEF Nudged
  <2>2. owed' <= Cardinality(Nudged) + faults'
    BY <1>1, <1>2, <1>3
  <2> QED
    BY <1>2, <1>3, <2>1, <2>2 DEF Pending
<1>4. ASSUME NEW p \in Proc, IgnoreStop(p) \/ StopEvent(p) PROVE Pending'
  <2>1. stage[p] = "idle" /\ verdict' = verdict /\ owed' = owed /\ faults' = faults
    BY <1>4 DEF IgnoreStop, StopEvent, Enter, At, lockVars, job
  <2>2. stage' \in {stage, [stage EXCEPT ![p] = "lock"]}
    BY <1>4 DEF IgnoreStop, StopEvent, Become, job
  <2>3. \A q \in Nudged : q # p /\ stage'[q] = stage[q]
    BY <1>1, <1>2, <2>1, <2>2
  <2> QED
    BY <1>2, <1>3, <2>1, <2>3
<1>5. ASSUME NEW p \in Proc, WaitForLock(p) \/ HaveLock(p) PROVE Pending'
  <2>1. faults' \in {faults, faults + 1} /\ verdict' = verdict /\ owed' = owed
    BY <1>5 DEF WaitForLock, HaveLock, Create, OpenRefused, Stat, Break, BreakFails, Sleep, Fault, hookVars, job
  <2>2. stage' = stage \/ (stage[p] = "lock" /\ stage' = [stage EXCEPT ![p] = "load"])
    BY <1>5 DEF WaitForLock, HaveLock, hookVars, job, Become, Create, TypeInv, HookTypeOK, JobOK
  <2>3. \A q \in Nudged : stage'[q] = stage[q]
    BY <1>1, <1>2, <2>2
  <2> QED
    BY <1>2, <1>3, <2>1, <2>3
<1>6. ASSUME NEW p \in Proc, NoLock(p) PROVE Pending'
  <2>1. stage[p] = "lock"
    BY <1>6 DEF NoLock, Timeout, PidWriteFails, TypeInv, HookTypeOK, JobOK
  <2>2. p \notin Nudged
    BY <2>1 DEF Pending
  <2>3. End(p) /\ owed' = owed /\ faults' \in {faults, faults + 1}
    BY <1>6 DEF NoLock, Timeout, PidWriteFails, Fault
  <2> QED
    BY <1>1, <2>2, <2>3, EndPends
<1>7. ASSUME NEW p \in Proc, LoadState(p) PROVE Pending'
  BY <1>1, <1>3, <1>7 DEF LoadState, At, Become, Pending, lockVars
<1>8. ASSUME NEW p \in Proc, SaveState(p) PROVE Pending'
  <2>1. stage[p] = "save" /\ p \notin Nudged /\ faults' = faults
    BY <1>8 DEF SaveState, At, Pending, lockVars
  <2>2. stage' = [stage EXCEPT ![p] = "unlock"]
    BY <1>8 DEF SaveState, Become
  <2>3. \/ Decide(p, "nudge") /\ owed' = owed + 1
        \/ Decide(p, "quiet") /\ owed' = owed
    BY <1>8 DEF SaveState
  <2>4. CASE Decide(p, "nudge") /\ owed' = owed + 1
    <3>1. Nudged' = Nudged \cup {p}
      BY <1>1, <2>4 DEF Nudged, Decide
    <3>2. \A q \in Nudged' : stage'[q] \in {"unlock", "emit"}
      BY <1>1, <1>2, <2>2, <3>1
    <3>3. IsFiniteSet(Nudged') /\ Cardinality(Nudged') = Cardinality(Nudged) + 1
      BY <1>2, <2>1, <3>1, OneMore
    <3>4. Cardinality(Nudged') <= owed' /\ owed' <= Cardinality(Nudged') + faults'
      BY <1>1, <1>2, <2>1, <2>4, <3>3
    <3> QED
      BY <3>2, <3>3, <3>4 DEF Pending
  <2>5. CASE Decide(p, "quiet") /\ owed' = owed
    <3>1. Nudged' = Nudged
      BY <1>1, <2>1, <2>5 DEF Nudged, Decide
    <3>2. \A q \in Nudged' : stage'[q] \in {"unlock", "emit"}
      BY <1>1, <2>2, <3>1 DEF Pending
    <3> QED
      BY <1>1, <2>1, <2>5, <3>1, <3>2 DEF Pending
  <2> QED
    BY <2>3, <2>4, <2>5
<1>9. ASSUME NEW p \in Proc, StateFails(p) PROVE Pending'
  <2>1. stage[p] \in {"load", "save"} /\ p \notin Nudged /\ faults' = faults + 1 /\ owed' = owed
    BY <1>9 DEF StateFails, At, Pending, Fault
  <2>2. Nudged' = Nudged /\ stage' = [stage EXCEPT ![p] = "unlock"]
    BY <1>1, <1>9, <2>1 DEF StateFails, Nudged, Decide, Become
  <2> QED
    BY <1>1, <1>2, <2>1, <2>2 DEF Pending
<1>10. ASSUME NEW p \in Proc, Unlock(p) PROVE Pending'
  BY <1>1, <1>3, <1>10 DEF Unlock, Release, Become, Pending
<1>11. ASSUME NEW p \in Proc, Emit(p) PROVE Pending'
  <2>1. CASE verdict[p] = "nudge"
    <3>1. Nudged' = Nudged \ {p} /\ p \in Nudged /\ owed' = owed - 1 /\ faults' = faults
      BY <1>1, <1>11, <2>1 DEF Emit, End, Decide, Nudged, lockVars
    <3>2. \A q \in Nudged' : stage'[q] \in {"unlock", "emit"}
      BY <1>1, <1>11, <3>1 DEF Emit, End, Become, Pending
    <3>3. IsFiniteSet(Nudged') /\ Cardinality(Nudged') = Cardinality(Nudged) - 1
      BY <1>2, <3>1, OneMore
    <3>4. Cardinality(Nudged') <= owed' /\ owed' <= Cardinality(Nudged') + faults'
      BY <1>1, <1>2, <3>1, <3>3
    <3> QED
      BY <3>2, <3>3, <3>4 DEF Pending
  <2>2. CASE verdict[p] # "nudge"
    BY <1>1, <1>11, <2>2, EndPends DEF Emit, lockVars, Nudged
  <2> QED
    BY <2>1, <2>2
<1>12. ASSUME NEW p \in Proc, UnlockFails(p) \/ Killed(p) PROVE Pending'
  <2>1. End(p) /\ owed' = owed /\ faults' = faults + 1
    BY <1>12 DEF UnlockFails, ReleaseFails, Killed, Crash, Fault
  <2> QED
    BY <1>1, <2>1, EndPends
<1>13. CASE Edit \/ TimePasses \/ UNCHANGED vars
  BY <1>1, <1>3, <1>13 DEF Edit, TimePasses, Deadline, GrowStale, hookVars, lockVars, vars, job, Pending
<1> QED
  BY <1>4, <1>5, <1>6, <1>7, <1>8, <1>9, <1>10, <1>11, <1>12, <1>13 DEF Next, Work

\* A nudge that a session's budget has paid for is printed, unless a fault comes between: the
\* lost ones never outnumber the crashes and failed calls.
THEOREM SpentNudges == Spec => []SpentNudgesAreShown
<1>1. Init => Pending
  <2>1. Init => Nudged = {} /\ owed = 0 /\ faults = 0
    BY DEF Init, LockInit, Nudged
  <2> QED
    BY <2>1, FS_EmptySet DEF Pending
<1>2. Pending => SpentNudgesAreShown
  BY DEF Pending, SpentNudgesAreShown, Nudged
<1> QED
  BY <1>1, <1>2, PendingStep, HookTypeCorrect, PTL DEF Spec, TypeInv

-----------------------------------------------------------------------------
(* Eviction *)

Peers(st, s) == Known(st) \ {s}

\* The peers with few others beyond them are few: all but the first of them are beyond it.
LEMMA FewBeyond ==
    ASSUME NEW P \in SUBSET Sessions, NEW n \in Nat, n # 0
    PROVE  LET last == {t \in P : Cardinality({u \in P : u > t}) < n}
           IN  IsFiniteSet(last) /\ Cardinality(last) <= n
<1> DEFINE last == {t \in P : Cardinality({u \in P : u > t}) < n}
<1>1. IsFiniteSet(P) /\ P \subseteq Nat
  BY HookAssumption, FS_Subset
<1>2. IsFiniteSet(last) /\ Cardinality(last) \in Nat
  <2>1. last \in SUBSET P
    OBVIOUS
  <2> HIDE DEF last
  <2>2. IsFiniteSet(last)
    BY <1>1, <2>1, FS_Subset
  <2> QED
    BY <2>2, FS_CardinalityType
<1>3. CASE last = {}
  <2>1. IsFiniteSet(last) /\ Cardinality(last) = 0
    BY <1>3, FS_EmptySet
  <2> HIDE DEF last
  <2>2. Cardinality(last) <= n
    BY <2>1
  <2> QED
    BY <2>1, <2>2 DEF last
<1>4. CASE last # {}
  <2>1. PICK m \in last : \A t \in last : <<t, m>> \notin OpToRel(<, Nat)
    BY <1>1, <1>4, WFMin, NatLessThanWellFounded
  <2>2. \A t \in last : m \in Nat /\ t \in Nat /\ ~(t < m)
    BY <1>1, <2>1 DEF OpToRel
  <2> DEFINE beyond == {u \in P : u > m}
  <2>3. last \ {m} \subseteq beyond
    <3>1. ASSUME NEW t \in last, t # m PROVE t > m
      BY <2>2, <3>1
    <3> QED
      BY <3>1
  <2>4. IsFiniteSet(beyond) /\ Cardinality(beyond) \in Nat /\ Cardinality(beyond) < n
    BY <1>1, <2>1, FS_Subset, FS_CardinalityType
  <2> HIDE DEF last, beyond
  <2>5. Cardinality(last \ {m}) <= Cardinality(beyond)
    BY <2>3, <2>4, FS_Subset
  <2>6. Cardinality(last \ {m}) = Cardinality(last) - 1
    BY <1>2, <2>1, FS_RemoveElement
  <2> QED
    BY <1>2, <2>4, <2>5, <2>6 DEF last
<1> QED
  BY <1>2, <1>3, <1>4

\* state.json never knows more than Retained sessions after a save, whatever was loaded.
LEMMA StoreIsBounded ==
    ASSUME NEW st \in Stores, NEW s \in Sessions, NEW d \in Digests
    PROVE  /\ Known(NextStore(st, s, d)) = KeptPeers(st, s) \cup {s}
           /\ IsFiniteSet(Known(NextStore(st, s, d)))
           /\ Cardinality(Known(NextStore(st, s, d))) <= Retained
<1> DEFINE peers == Known(st) \ {s}
           kept == KeptPeers(st, s)
<1>1. IsFiniteSet(peers) /\ peers \subseteq Sessions /\ kept \subseteq peers
  BY HookAssumption, FS_Subset DEF Known, KeptPeers
<1>2. Known(NextStore(st, s, d)) = kept \cup {s}
  <2>1. NoRecord \notin Record
    BY HookAssumption DEF Record
  <2>2. Updated(Current(st, s), d) # NoRecord
    BY <2>1, UpdatedIsRecord
  <2>3. \A t \in kept : st[t] # NoRecord /\ t # s
    BY DEF KeptPeers, Known
  <2> QED
    BY <1>1, <2>2, <2>3 DEF Known, NextStore
<1>3. IsFiniteSet(kept) /\ Cardinality(kept) \in Nat
  BY <1>1, FS_Subset, FS_CardinalityType
<1>4. s \notin kept
  BY <1>1
<1>5. IsFiniteSet(kept \cup {s}) /\ Cardinality(kept \cup {s}) = Cardinality(kept) + 1
  BY <1>3, <1>4, OneMore
<1>6. CASE Cardinality(peers \cup {s}) <= Retained
  <2>1. kept = peers
    BY <1>6 DEF KeptPeers
  <2> QED
    BY <1>2, <1>5, <1>6, <2>1
<1>7. CASE ~(Cardinality(peers \cup {s}) <= Retained)
  <2>1. kept = {t \in peers : Cardinality({u \in peers : u > t}) < Retained - 1}
    BY <1>7 DEF KeptPeers
  <2>2. Retained - 1 \in Nat /\ Retained - 1 # 0 /\ Retained \in Nat
    BY HookAssumption
  <2>3. Cardinality(kept) <= Retained - 1
    BY <1>1, <2>1, <2>2, FewBeyond
  <2>4. Cardinality(kept) + 1 <= Retained
    BY <1>3, <2>2, <2>3
  <2> QED
    BY <1>2, <1>5, <2>4
<1> QED
  BY <1>6, <1>7

\* Only the save replaces state.json.
LEMMA SavesOnly ==
    ASSUME [Next]_vars
    PROVE  UNCHANGED <<store, given>> \/ \E p \in Proc : SaveState(p)
<1> SUFFICES ASSUME \A p \in Proc : ~SaveState(p) PROVE UNCHANGED <<store, given>>
  OBVIOUS
<1>1. ASSUME NEW p \in Proc, Work(p) PROVE UNCHANGED <<store, given>>
  BY <1>1 DEF Work, WaitForLock, hookVars, HaveLock, NoLock, LoadState, Unlock, Emit
<1>2. ASSUME NEW p \in Proc, IgnoreStop(p) \/ StopEvent(p) PROVE UNCHANGED <<store, given>>
  BY <1>2 DEF IgnoreStop, StopEvent
<1>3. ASSUME NEW p \in Proc, StateFails(p) \/ UnlockFails(p) \/ Killed(p)
      PROVE  UNCHANGED <<store, given>>
  BY <1>3 DEF StateFails, UnlockFails, Killed
<1>4. CASE Edit \/ TimePasses \/ UNCHANGED vars
  BY <1>4 DEF Edit, TimePasses, hookVars, vars
<1> QED
  BY <1>1, <1>2, <1>3, <1>4 DEF Next

\* state.json is bounded at all times.
Bounded == IsFiniteSet(Known(store)) /\ Cardinality(Known(store)) <= Retained

LEMMA BoundedStep == TypeInv /\ Bounded /\ [Next]_vars => Bounded'
<1> SUFFICES ASSUME TypeInv, Bounded, [Next]_vars PROVE Bounded'
  OBVIOUS
<1>1. CASE UNCHANGED <<store, given>>
  BY <1>1 DEF Bounded, Known
<1>2. ASSUME NEW p \in Proc, SaveState(p) PROVE Bounded'
  <2>1. copy[p] \in Stores /\ session[p] \in Sessions /\ digest[p] \in Digests
    BY <1>2 DEF SaveState, At, TypeInv, HookTypeOK, JobOK, Busy
  <2>2. store' = NextStore(copy[p], session[p], digest[p])
    BY <1>2 DEF SaveState
  <2>3. Known(store') = Known(NextStore(copy[p], session[p], digest[p]))
    BY <2>2
  <2> QED
    BY <2>1, <2>3, StoreIsBounded DEF Bounded, Known
<1> QED
  BY <1>1, <1>2, SavesOnly

\* state.json never holds more than Retained sessions, even where the lock was lost.
THEOREM StoreStaysBounded == Spec => []Bounded
<1>1. Init => Bounded
  <2>1. Init => Known(store) = {}
    BY DEF Init, Nothing, Known
  <2> QED
    BY <2>1, HookAssumption, FS_EmptySet DEF Bounded
<1> QED
  BY <1>1, BoundedStep, HookTypeCorrect, PTL DEF Spec, TypeInv

\* What a save in an undisturbed lock does, with the store it finds.
LEMMA AtomicSave ==
    ASSUME TypeInv, History, ~seized, NEW p \in Proc, SaveState(p)
    PROVE  /\ At(p, "save") /\ session[p] \in Sessions /\ digest[p] \in Digests /\ store \in Stores
           /\ store' = NextStore(store, session[p], digest[p])
           /\ given' = NextGiven(store, session[p], digest[p])
<1>1. At(p, "save") /\ copy[p] = store
  BY DEF SaveState, History
<1> QED
  BY <1>1 DEF SaveState, At, TypeInv, HookTypeOK, JobOK, Busy

\* Whom a save evicts comes before all it keeps.
LEMMA EvictedComeFirst ==
    ASSUME NEW st \in Stores, NEW s \in Sessions, NEW t \in Peers(st, s), t \notin KeptPeers(st, s)
    PROVE  /\ Cardinality(Known(st) \cup {s}) > Retained
           /\ \A u \in KeptPeers(st, s) : u > t
<1> DEFINE peers == Known(st) \ {s}
           beyond(x) == {u \in peers : u > x}
<1>1. IsFiniteSet(peers) /\ peers \subseteq Nat /\ t \in peers
  BY HookAssumption, FS_Subset DEF Known, Peers
<1>2. peers \cup {s} = Known(st) \cup {s} /\ IsFiniteSet(peers \cup {s})
  BY <1>1, OneMore
<1>3. Cardinality(peers \cup {s}) \in Nat /\ Retained \in Nat
  BY <1>2, FS_CardinalityType, HookAssumption
<1>4. ~(Cardinality(peers \cup {s}) <= Retained)
  BY <1>1 DEF KeptPeers
<1>5. KeptPeers(st, s) = {x \in peers : Cardinality(beyond(x)) < Retained - 1}
  BY <1>4 DEF KeptPeers
<1>6. \A x \in peers : IsFiniteSet(beyond(x)) /\ Cardinality(beyond(x)) \in Nat
  BY <1>1, FS_Subset, FS_CardinalityType
<1>7. ~(Cardinality(beyond(t)) < Retained - 1)
  BY <1>1, <1>5
<1>8. ASSUME NEW u \in KeptPeers(st, s), ~(u > t) PROVE FALSE
  <2>1. u \in peers /\ Cardinality(beyond(u)) < Retained - 1
    BY <1>5
  <2>2. beyond(t) \subseteq beyond(u)
    BY <1>1, <1>8, <2>1
  <2>3. Cardinality(beyond(t)) <= Cardinality(beyond(u))
    BY <1>6, <2>1, <2>2, FS_Subset
  <2> HIDE DEF beyond
  <2> QED
    BY <1>1, <1>3, <1>6, <1>7, <2>1, <2>3
<1>9. Cardinality(Known(st) \cup {s}) > Retained
  BY <1>2, <1>3, <1>4
<1> QED
  BY <1>8, <1>9

LEMMA PeersKeptStep ==
    ASSUME TypeInv, History, [Next]_vars, ~seized, store' # store
    PROVE  \E p \in Proc :
             /\ At(p, "save")
             /\ \A t \in Known(store) \ {session[p]} :
                   \/ store'[t] = store[t]
                   \/ /\ store'[t] = NoRecord
                      /\ Cardinality(Known(store) \cup {session[p]}) > Retained
                      /\ \A u \in Known(store') \ {session[p]} : u > t
<1>1. PICK p \in Proc : SaveState(p)
  BY SavesOnly
<1> DEFINE s == session[p]
<1>2. /\ At(p, "save") /\ s \in Sessions /\ digest[p] \in Digests /\ store \in Stores
      /\ store' = NextStore(store, s, digest[p])
  BY <1>1, AtomicSave
<1>3. Known(store') = KeptPeers(store, s) \cup {s}
  BY <1>2, StoreIsBounded
<1>4. ASSUME NEW t \in Known(store) \ {s}
      PROVE  \/ store'[t] = store[t]
             \/ /\ store'[t] = NoRecord
                /\ Cardinality(Known(store) \cup {s}) > Retained
                /\ \A u \in Known(store') \ {s} : u > t
  <2>1. t \in Sessions /\ t # s
    BY DEF Known
  <2>2. CASE t \in KeptPeers(store, s)
    BY <1>2, <2>1, <2>2 DEF NextStore
  <2>3. CASE t \notin KeptPeers(store, s)
    <3>1. store'[t] = NoRecord
      BY <1>2, <2>1, <2>3 DEF NextStore
    <3>2. /\ Cardinality(Known(store) \cup {s}) > Retained
          /\ \A u \in KeptPeers(store, s) : u > t
      BY <1>2, <2>3, EvictedComeFirst DEF Peers
    <3> QED
      BY <1>3, <3>1, <3>2
  <2> QED
    BY <2>2, <2>3
<1> QED
  BY <1>2, <1>4

\* A save changes the record of its own session only, and evicts the first sessions in the
\* order of the keys, at the limit only, for any number of hosts and sessions.
THEOREM PeersAreKept == Spec => PeersKept
<1>1. TypeInv /\ History /\ [Next]_vars =>
        [ ~seized /\ store' # store =>
          \E p \in Proc :
             /\ At(p, "save")
             /\ \A t \in Known(store) \ {session[p]} :
                   \/ store'[t] = store[t]
                   \/ /\ store'[t] = NoRecord
                      /\ Cardinality(Known(store) \cup {session[p]}) > Retained
                      /\ \A u \in Known(store') \ {session[p]} : u > t ]_vars
  BY PeersKeptStep
<1> QED
  BY <1>1, HistoryInvariant, HookTypeCorrect, PTL DEF Spec, TypeInv, PeersKept

-----------------------------------------------------------------------------
(* The hook implements the ledger *)

\* A save is one question of the ledger, or changes nothing of it.
LEMMA SaveAsks ==
    ASSUME TypeInv, History, Bounded, ~seized, NEW p \in Proc, SaveState(p)
    PROVE  Ledger!Next \/ UNCHANGED [s \in Known(store) |-> given[s]]
<1> DEFINE s == session[p]
           d == digest[p]
           asked == [t \in Known(store) |-> given[t]]
           past == IF s \in Known(store) THEN given[s] ELSE <<>>
           r == Current(store, s)
           gone == (Known(store) \ {s}) \ KeptPeers(store, s)
<1>1. /\ s \in Sessions /\ d \in Digests /\ store \in Stores
      /\ store' = NextStore(store, s, d) /\ given' = NextGiven(store, s, d)
  BY AtomicSave
<1>2. Known(store') = KeptPeers(store, s) \cup {s} /\ KeptPeers(store, s) \subseteq Known(store) \ {s}
  BY <1>1, StoreIsBounded DEF KeptPeers
<1>3. \A t \in Sessions \ {s} : given'[t] = given[t]
  BY <1>1 DEF NextGiven
<1>4. Known(store) \subseteq Sessions /\ Known(store') \subseteq Sessions
  BY DEF Known
<1>5. r.count = Len(past) /\ r.digest = IF past = <<>> THEN NoDigest ELSE past[Len(past)]
  <2>1. CASE s \in Known(store)
    BY <2>1 DEF History, Tells, Current, Known
  <2>2. CASE s \notin Known(store)
    BY <1>1, <2>2 DEF Known, Current, Fresh
  <2> QED
    BY <2>1, <2>2
<1>6. CASE ShouldNudge(r, d)
  <2>1. Len(past) < MaxNudges /\ (past # <<>> => past[Len(past)] # d)
    BY <1>5, <1>6 DEF ShouldNudge
  <2>2. given'[s] = Append(past, d)
    BY <1>1, <1>6 DEF NextGiven, Known
  <2>3. gone # {} => Cardinality(Known(store) \cup {s}) > Retained
    BY <1>1, EvictedComeFirst DEF Peers
  <2>4. Known(store') = (Known(store) \cup {s}) \ gone
    BY <1>2
  <2>5. [t \in Known(store') |-> given'[t]] =
           [t \in (Known(store) \cup {s}) \ gone |-> IF t = s THEN Append(past, d) ELSE asked[t]]
    BY <1>1, <1>3, <1>4, <2>2, <2>4
  <2>6. gone \in SUBSET Sessions /\ gone \subseteq Known(store) \ {s} /\ DOMAIN asked = Known(store)
    BY <1>4
  <2>7. Ledger!Asked(s) = past
    BY DEF Ledger!Asked, Ledger!Known
  <2>8. Ledger!Cardinality(Known(store) \cup {s}) = Cardinality(Known(store) \cup {s})
    BY DEF Ledger!Cardinality, Cardinality
  <2>9. [t \in Known(store) |-> given[t]]' =
           [t \in (DOMAIN asked \cup {s}) \ gone |->
               IF t = s THEN Append(Ledger!Asked(s), d) ELSE asked[t]]
    BY <2>5, <2>6, <2>7
  <2>10. PICK u \in Sessions, e \in Digests, g \in SUBSET Sessions : u = s /\ e = d /\ g = gone
    <3> HIDE DEF s, d, gone
    <3> QED
      BY <1>1, <2>6
  <2>11. Ledger!Ask(u, e, g)
    <3> HIDE DEF past, gone
    <3> QED
      BY <2>1, <2>3, <2>6, <2>7, <2>8, <2>9, <2>10 DEF Ledger!Ask
  <2> QED
    BY <2>11 DEF Ledger!Next
<1>7. CASE ~ShouldNudge(r, d)
  <2>1. s \in Known(store)
    <3>1. ASSUME store[s] = NoRecord PROVE FALSE
      BY <1>1, <1>7, <3>1, HookAssumption DEF Current, Fresh, ShouldNudge
    <3> QED
      BY <1>1, <3>1 DEF Known
  <2>2. given' = given
    BY <1>1, <1>7, <2>1 DEF NextGiven, Known, TypeInv, HookTypeOK
  <2>3. KeptPeers(store, s) = Known(store) \ {s}
    <3>1. (Known(store) \ {s}) \cup {s} = Known(store)
      BY <2>1
    <3> QED
      BY <3>1 DEF KeptPeers, Bounded
  <2>4. Known(store') = Known(store)
    BY <1>2, <2>1, <2>3
  <2> QED
    BY <2>2, <2>4
<1> QED
  BY <1>6, <1>7

\* Every interleaving of stop events, whatever crashes or fails, is a history of the ledger
\* as long as no live holder's lock is broken: each step is one question to one session, or
\* nothing.
THEOREM HookImplementsLedger == Spec => ImplementsLedger
<1>1. Init => Ledger!Init
  <2> SUFFICES ASSUME Init PROVE [s \in Known(store) |-> given[s]] = <<>>
    BY DEF Ledger!Init
  <2>1. Known(store) = {}
    BY DEF Init, Nothing, Known
  <2> QED
    BY <2>1
<1>2. TypeInv /\ History /\ Bounded /\ [Next]_vars =>
        [ \/ seized'
          \/ Ledger!Next
          \/ UNCHANGED [s \in Known(store) |-> given[s]] ]_<<store, given>>
  <2> SUFFICES ASSUME TypeInv, History, Bounded, [Next]_vars, ~seized', ~UNCHANGED <<store, given>>
               PROVE  Ledger!Next \/ UNCHANGED [s \in Known(store) |-> given[s]]
    OBVIOUS
  <2>1. PICK p \in Proc : SaveState(p)
    BY SavesOnly
  <2>2. ~seized
    BY <2>1 DEF SaveState, lockVars
  <2> QED
    BY <2>1, <2>2, SaveAsks
<1> QED
  BY <1>1, <1>2, HistoryInvariant, HookTypeCorrect, StoreStaysBounded, PTL
     DEF Spec, TypeInv, ImplementsLedger

=============================================================================
