------------------------- MODULE OutcomeLedgerProofs -------------------------
(***************************************************************************)
(* Proofs about the outcome ledger, for any number of authors, gates,      *)
(* records and failures.  The argument: whoever is inside the lock owns the *)
(* lock file, so what it checked of the ledger still holds when it writes. *)
(***************************************************************************)
EXTENDS OutcomeLedger, FiniteSetTheorems, WellFoundedInduction, TLAPS

\* Whoever is between OpenLock and Finish made the lock file.
HoldsLock == \A w \in Writers : pc[w] \in Inside => lock = w

\* The verdict of Check, kept until the line is complete.
Fitting(w) ==
    /\ Len(ledger) < MaxEvents
    /\ event[w] = Contract => ledger = <<>>
    /\ event[w] # Contract => ledger # <<>> /\ head[w] = ledger
    /\ event[w].kind = "candidate" => Attempts(ledger) < MaxAttempts

StillFits ==
    \A w \in Writers :
        /\ pc[w] \in {"open", "write", "rest"} => Fitting(w)
        /\ pc[w] \in {"open", "write"} => ~torn

\* Records are only in a file that is there.
FileExists ==
    /\ ledger # <<>> => exists
    /\ \A w \in Writers : pc[w] \in {"write", "rest"} => exists

\* What is acknowledged is durable, and a prefix.
Durable ==
    /\ Len(acked) <= synced /\ synced <= Len(ledger)
    /\ \A i \in 1..Len(acked) : acked[i] = ledger[i]
    /\ \A w \in Writers : pc[w] = "ack" => synced = Len(ledger)

Inv ==
    /\ TypeOK
    /\ HoldsLock
    /\ FileExists
    /\ StillFits
    /\ InSequence
    /\ AttemptsCapped
    /\ Durable

-----------------------------------------------------------------------------
(* Counting attempts *)

AttemptAt(lines) == {i \in 1..Len(lines) : lines[i].kind = "candidate"}

\* A ledger has finitely many candidates.
LEMMA AttemptsFinite ==
    ASSUME NEW s \in Seq(Line)
    PROVE  IsFiniteSet(AttemptAt(s)) /\ Attempts(s) = Cardinality(AttemptAt(s)) /\ Attempts(s) \in Nat
<1>1. IsFiniteSet(1..Len(s))
  BY FS_Interval, Len(s) \in Int
<1>2. AttemptAt(s) \in SUBSET (1..Len(s))
  BY DEF AttemptAt
<1>3. IsFiniteSet(AttemptAt(s))
  BY <1>1, <1>2, FS_Subset
<1> QED
  BY <1>3, FS_CardinalityType DEF Attempts, AttemptAt

LEMMA AttemptsEmpty == Attempts(<<>>) = 0
<1>1. {i \in 1..Len(<<>>) : <<>>[i].kind = "candidate"} = {}
  OBVIOUS
<1> QED
  BY <1>1, FS_EmptySet DEF Attempts

\* A new record adds an attempt exactly when it is a candidate.
LEMMA AttemptsAppend ==
    ASSUME NEW s \in Seq(Line), NEW x \in Line
    PROVE  Attempts(Append(s, x)) = Attempts(s) + (IF x.kind = "candidate" THEN 1 ELSE 0)
<1> DEFINE t == Append(s, x)
<1>1. t \in Seq(Line) /\ Len(t) = Len(s) + 1 /\ t[Len(s) + 1] = x /\ \A i \in 1..Len(s) : t[i] = s[i]
  OBVIOUS
<1>2. Len(s) \in Nat
  OBVIOUS
<1>3. Len(s) + 1 \notin AttemptAt(s)
  BY <1>2 DEF AttemptAt
<1>4. Attempts(s) = Cardinality(AttemptAt(s)) /\ Attempts(t) = Cardinality(AttemptAt(t))
  BY <1>1, AttemptsFinite
<1>5. IsFiniteSet(AttemptAt(s)) /\ Cardinality(AttemptAt(s)) \in Nat
  BY <1>4, AttemptsFinite
<1> HIDE DEF t
<1>6. CASE x.kind = "candidate"
  <2>1. AttemptAt(t) = AttemptAt(s) \cup {Len(s) + 1}
    BY <1>1, <1>2, <1>6 DEF AttemptAt
  <2>2. Cardinality(AttemptAt(t)) = Cardinality(AttemptAt(s)) + 1
    BY <2>1, <1>3, <1>5, FS_AddElement
  <2> QED
    BY <2>2, <1>4, <1>6 DEF t
<1>7. CASE x.kind # "candidate"
  <2>1. AttemptAt(t) = AttemptAt(s)
    BY <1>1, <1>2, <1>7 DEF AttemptAt
  <2> QED
    BY <2>1, <1>4, <1>5, <1>7 DEF t
<1> QED
  BY <1>6, <1>7

\* A shorter ledger has no more attempts.
LEMMA AttemptsPrefix ==
    ASSUME NEW s \in Seq(Line), NEW n \in 0..Len(s)
    PROVE  Attempts(SubSeq(s, 1, n)) <= Attempts(s)
<1> DEFINE t == SubSeq(s, 1, n)
<1>1. t \in Seq(Line) /\ Len(t) = n /\ \A i \in 1..n : t[i] = s[i]
  OBVIOUS
<1> HIDE DEF t
<1>2. AttemptAt(t) \in SUBSET AttemptAt(s)
  BY <1>1 DEF AttemptAt
<1>3. Cardinality(AttemptAt(t)) <= Cardinality(AttemptAt(s))
  BY <1>2, AttemptsFinite, FS_Subset
<1> QED
  BY <1>1, <1>3, AttemptsFinite DEF t

-----------------------------------------------------------------------------
(* The invariant *)

LEMMA InvInit == Init => Inv
<1> SUFFICES ASSUME Init PROVE Inv
  OBVIOUS
<1> USE LedgerAssumption
<1>2. TypeOK
  <2>1. <<>> \in Seq(Line) /\ Len(<<>>) = 0
    OBVIOUS
  <2>2. ledger \in Seq(Line) /\ acked \in Seq(Line) /\ Len(ledger) <= MaxEvents /\ synced \in Nat
    BY <2>1 DEF Init
  <2>3. head \in [Writers -> Seq(Line)]
    BY <2>1 DEF Init
  <2>4. exists \in BOOLEAN /\ entry \in BOOLEAN /\ torn \in BOOLEAN /\ hurt \in BOOLEAN
    BY Zenon DEF Init
  <2>5. faults \in 0..MaxFaults
    BY DEF Init
  <2>6. /\ lock \in Writers \cup {Free}
        /\ pc \in [Writers -> {"idle", "lock"} \cup Inside]
        /\ event \in [Writers -> Events \cup {Contract}]
        /\ reply \in [Writers -> {"none", "ok", "no_gate"}]
    BY DEF Init
  <2> QED
    BY <2>2, <2>3, <2>4, <2>5, <2>6 DEF TypeOK
<1>3. AttemptsCapped
  BY AttemptsEmpty DEF Init, AttemptsCapped
<1>4. HoldsLock /\ StillFits /\ InSequence /\ Durable /\ FileExists
  BY DEF Init, HoldsLock, FileExists, StillFits, InSequence, Durable, Inside
<1> QED
  BY <1>2, <1>3, <1>4 DEF Inv

\* How a step changes the ledger: not at all, by the line its author has checked, by the
\* loss of records that were not durable while nobody is inside, or by that of the file.
LEMMA LedgerMoves ==
    ASSUME Inv, [Next]_vars
    PROVE  \/ UNCHANGED ledger
           \/ \E w \in Writers :
                 /\ pc[w] \in {"write", "rest"} /\ pc' = [pc EXCEPT ![w] = pc'[w]]
                 /\ pc'[w] \in {"sync", "refuse"}
                 /\ Complete(w)
                 /\ UNCHANGED <<exists, synced, lock, event, head, acked>>
           \/ \E n \in synced..Len(ledger) :
                 /\ ledger' = SubSeq(ledger, 1, n)
                 /\ pc' = [w \in Writers |-> "idle"]
                 /\ UNCHANGED <<exists, synced, event, head, acked>>
           \/ /\ ledger' = <<>> /\ acked' = <<>> /\ synced' = 0
              /\ pc' = [w \in Writers |-> "idle"]
<1> USE DEF vars, file, locals
<1>1. CASE UNCHANGED vars
  BY <1>1
<1>2. ASSUME NEW w \in Writers, Step(w)
      PROVE  \/ UNCHANGED ledger
             \/ /\ pc[w] \in {"write", "rest"} /\ pc' = [pc EXCEPT ![w] = pc'[w]]
                /\ pc'[w] \in {"sync", "refuse"}
                /\ Complete(w)
                /\ UNCHANGED <<exists, synced, lock, event, head, acked>>
  <2>1. CASE WriteAll(w)
    BY <2>1 DEF WriteAll, Goto, Inv, TypeOK
  <2>2. CASE ~WriteAll(w)
    BY <1>2, <2>2 DEF Step, Render, Call, OpenLock, LockRefused, Check, TooLarge, OpenFile, WriteSome, Sync, Finish
  <2> QED
    BY <2>1, <2>2
<1>3. ASSUME NEW w \in Writers, Failure(w)
      PROVE  \/ UNCHANGED ledger
             \/ /\ pc[w] \in {"write", "rest"} /\ pc' = [pc EXCEPT ![w] = pc'[w]]
                /\ pc'[w] \in {"sync", "refuse"}
                /\ Complete(w)
                /\ UNCHANGED <<exists, synced, lock, event, head, acked>>
  <2>1. CASE WriteFails(w)
    BY <2>1 DEF WriteFails, Goto, Inv, TypeOK
  <2>2. CASE ~WriteFails(w)
    BY <1>3, <2>2 DEF Failure, SyncFails, Crash
  <2> QED
    BY <2>1, <2>2
<1>4. CASE PowerLoss
  <2>1. PICK n \in synced..Len(ledger) : ledger' = SubSeq(ledger, 1, n)
    BY <1>4 DEF PowerLoss
  <2>2. pc' = [w \in Writers |-> "idle"] /\ UNCHANGED <<exists, synced, event, head, acked>>
    BY <1>4 DEF PowerLoss, PowerGone
  <2> QED
    BY <2>1, <2>2
<1>5. CASE PowerLossOfFile
  BY <1>5 DEF PowerLossOfFile, PowerGone
<1>6. CASE EntryWritten \/ ClearLock \/ Recover
  BY <1>6 DEF EntryWritten, ClearLock, Recover
<1> QED
  BY <1>1, <1>2, <1>3, <1>4, <1>5, <1>6 DEF Next

\* The line an author inside writes continues the ledger it checked.
LEMMA LineFits ==
    ASSUME Inv, NEW w \in Writers, pc[w] \in {"open", "write", "rest"}
    PROVE  /\ NewLine(w) \in Line
           /\ Len(ledger) < MaxEvents
           /\ NewLine(w).basis = Len(ledger)
           /\ NewLine(w).kind = "contract" <=> ledger = <<>>
           /\ NewLine(w).kind = "candidate" => Attempts(ledger) < MaxAttempts
<1>1. Fitting(w)
  BY DEF Inv, StillFits
<1>2. event[w] \in Events \cup {Contract} /\ head[w] \in Seq(Line) /\ ledger \in Seq(Line)
  BY DEF Inv, TypeOK
<1>3. CASE event[w] = Contract
  <2>1. ledger = <<>> /\ Len(ledger) = 0 /\ Len(ledger) < MaxEvents
    BY <1>1, <1>2, <1>3 DEF Fitting
  <2>2. NewLine(w) = [kind |-> "contract", gates |-> {}, basis |-> 0]
    BY <1>3 DEF NewLine, Contract
  <2> QED
    BY <2>1, <2>2 DEF Line
<1>4. CASE event[w] # Contract
  <2>1. event[w] \in Event
    BY <1>2, <1>4, LedgerAssumption
  <2>2. event[w].kind \in Kinds /\ event[w].gates \in SUBSET Gates
    BY <2>1 DEF Event
  <2>3. ledger # <<>> /\ head[w] = ledger /\ Len(ledger) < MaxEvents
    BY <1>1, <1>4 DEF Fitting
  <2>4. NewLine(w) = [kind |-> event[w].kind, gates |-> event[w].gates, basis |-> Len(ledger)]
    BY <1>4, <2>3 DEF NewLine
  <2>5. Len(ledger) \in Nat
    BY <1>2
  <2>6. event[w].kind # "contract"
    BY <2>2 DEF Kinds
  <2>7. NewLine(w) \in Line
    BY <2>2, <2>4, <2>5 DEF Line
  <2> QED
    BY <1>1, <2>3, <2>4, <2>6, <2>7 DEF Fitting
<1> QED
  BY <1>3, <1>4

LocalsOK ==
    /\ acked \in Seq(Line) /\ synced \in Nat
    /\ lock \in Writers \cup {Free}
    /\ pc \in [Writers -> {"idle", "lock"} \cup Inside]
    /\ event \in [Writers -> Events \cup {Contract}]
    /\ head \in [Writers -> Seq(Line)]
    /\ reply \in [Writers -> {"none", "ok", "no_gate"}]
    /\ faults \in 0..MaxFaults

\* Types are kept.
LEMMA TypeStep == Inv /\ [Next]_vars => TypeOK'
<1> SUFFICES ASSUME Inv, [Next]_vars PROVE TypeOK'
  OBVIOUS
<1> USE DEF vars, file, locals
<1>1. TypeOK
  BY DEF Inv
<1>2. ledger' \in Seq(Line) /\ Len(ledger') <= MaxEvents
  <2>1. CASE UNCHANGED ledger
    BY <2>1, <1>1 DEF TypeOK
  <2>2. ASSUME NEW w \in Writers, pc[w] \in {"write", "rest"}, Complete(w)
        PROVE  ledger' \in Seq(Line) /\ Len(ledger') <= MaxEvents
    <3>1. NewLine(w) \in Line /\ Len(ledger) < MaxEvents
      BY <2>2, LineFits
    <3>2. ledger' = Append(ledger, NewLine(w)) /\ ledger \in Seq(Line)
      BY <2>2, <1>1 DEF Complete, TypeOK
    <3> HIDE DEF vars, file, locals
    <3> QED
      BY <3>1, <3>2, LedgerAssumption
  <2>3. ASSUME NEW n \in synced..Len(ledger), ledger' = SubSeq(ledger, 1, n)
        PROVE  ledger' \in Seq(Line) /\ Len(ledger') <= MaxEvents
    BY <2>3, <1>1, LedgerAssumption DEF TypeOK
  <2>4. ASSUME ledger' = <<>> PROVE ledger' \in Seq(Line) /\ Len(ledger') <= MaxEvents
    BY <2>4, LedgerAssumption
  <2> QED
    BY <2>1, <2>2, <2>3, <2>4, LedgerMoves
<1>3. exists' \in BOOLEAN /\ entry' \in BOOLEAN /\ torn' \in BOOLEAN /\ hurt' \in BOOLEAN
  <2> DEFINE Flags == exists \in BOOLEAN /\ entry \in BOOLEAN /\ torn \in BOOLEAN /\ hurt \in BOOLEAN
  <2>1. Flags
    BY <1>1 DEF TypeOK
  <2>2. CASE UNCHANGED vars
    BY <2>1, <2>2
  <2>3. ASSUME NEW w \in Writers, Step(w) PROVE Flags'
    BY Zenon, <2>1, <2>3 DEF Step, Render, Call, OpenLock, LockRefused, Check, TooLarge, OpenFile, WriteSome, WriteAll, Complete, Sync, Finish
  <2>4. ASSUME NEW w \in Writers, Failure(w) PROVE Flags'
    BY Zenon, <2>1, <2>4 DEF Failure, WriteFails, Complete, SyncFails, Crash
  <2>5. CASE PowerLoss
    <3>1. torn' \in BOOLEAN
      <4>1. PICK n \in synced..Len(ledger) :
                torn' \in (IF n < Len(ledger) \/ torn THEN BOOLEAN ELSE {FALSE})
        BY <2>5 DEF PowerLoss
      <4>2. (IF n < Len(ledger) \/ torn THEN BOOLEAN ELSE {FALSE}) \subseteq BOOLEAN
        BY Zenon
      <4> QED
        BY Zenon, <4>1, <4>2
    <3> QED
      BY Zenon, <2>1, <2>5, <3>1 DEF PowerLoss
  <2>6. CASE EntryWritten \/ PowerLossOfFile
    BY Zenon, <2>1, <2>6 DEF EntryWritten, PowerLossOfFile
  <2>7. CASE ClearLock
    BY <2>1, <2>7 DEF ClearLock
  <2>8. CASE Recover
    BY Zenon, <2>1, <2>8 DEF Recover
  <2> QED
    BY <2>2, <2>3, <2>4, <2>5, <2>6, <2>7, <2>8 DEF Next
<1>4. LocalsOK'
  <2> USE <1>1, LedgerAssumption DEF TypeOK, LocalsOK, Goto, Answer, Fault, Inside
  <2>1. CASE UNCHANGED vars
    BY <2>1
  <2>2. ASSUME NEW w \in Writers, Step(w) PROVE LocalsOK'
    <3>1. CASE Render(w)
      BY <3>1 DEF Render
    <3>2. CASE Call(w)
      BY <3>2 DEF Call
    <3>3. CASE OpenLock(w) \/ LockRefused(w)
      BY <3>3 DEF OpenLock, LockRefused
    <3>4. CASE Check(w) \/ TooLarge(w)
      BY <3>4 DEF Check, TooLarge
    <3>5. CASE OpenFile(w) \/ WriteSome(w) \/ WriteAll(w)
      BY <3>5 DEF OpenFile, WriteSome, WriteAll
    <3>6. CASE Sync(w)
      BY <3>6 DEF Sync
    <3>7. CASE Finish(w)
      BY <3>7 DEF Finish
    <3> QED
      BY <2>2, <3>1, <3>2, <3>3, <3>4, <3>5, <3>6, <3>7 DEF Step
  <2>3. ASSUME NEW w \in Writers, Failure(w) PROVE LocalsOK'
    <3>1. faults' \in 0..MaxFaults
      BY <2>3 DEF Failure, WriteFails, SyncFails, Crash
    <3>2. CASE WriteFails(w)
      BY <3>1, <3>2 DEF WriteFails
    <3>3. CASE SyncFails(w)
      BY <3>1, <3>3 DEF SyncFails
    <3>4. CASE Crash(w)
      BY <3>1, <3>4 DEF Crash
    <3> QED
      BY <2>3, <3>2, <3>3, <3>4 DEF Failure
  <2>4. CASE PowerLoss \/ PowerLossOfFile
    <3>1. /\ synced' \in Nat /\ acked' \in Seq(Line) /\ faults' \in 0..MaxFaults
          /\ lock' \in Writers \cup {Free} /\ UNCHANGED <<event, head, reply>>
      <4>1. <<>> \in Seq(Line)
        OBVIOUS
      <4>2. acked' = acked \/ acked' = <<>>
        BY <2>4 DEF PowerLoss, PowerLossOfFile
      <4>3. synced' = synced \/ synced' = 0
        BY <2>4 DEF PowerLoss, PowerLossOfFile
      <4>4. PowerGone /\ UNCHANGED <<event, head, reply>>
        BY <2>4 DEF PowerLoss, PowerLossOfFile
      <4>5. acked' \in Seq(Line)
        BY <4>1, <4>2
      <4>6. synced' \in Nat
        BY <4>3
      <4>7. faults' \in 0..MaxFaults /\ lock' \in Writers \cup {Free}
        BY <4>4 DEF PowerGone
      <4> QED
        BY <4>4, <4>5, <4>6, <4>7
    <3> QED
      BY <2>4, <3>1 DEF PowerLoss, PowerLossOfFile, PowerGone
  <2>5. CASE EntryWritten \/ ClearLock \/ Recover
    BY <2>5 DEF EntryWritten, ClearLock, Recover
  <2> QED
    BY <2>1, <2>2, <2>3, <2>4, <2>5 DEF Next
<1> QED
  BY <1>2, <1>3, <1>4 DEF TypeOK, LocalsOK

\* The lock file changes hands only through Free, and is cleared only of the dead.
LEMMA HeldStep == Inv /\ [Next]_vars => HoldsLock'
<1> SUFFICES ASSUME Inv, [Next]_vars, NEW w \in Writers, pc'[w] \in Inside PROVE lock' = w
  BY DEF HoldsLock
<1> USE LedgerAssumption DEF vars, file, locals
<1>1. pc \in [Writers -> {"idle", "lock"} \cup Inside] /\ HoldsLock
  BY DEF Inv, TypeOK
<1>2. CASE UNCHANGED vars
  BY <1>1, <1>2 DEF HoldsLock
<1>3. ASSUME NEW v \in Writers, Step(v) PROVE lock' = w
  <2>1. CASE OpenLock(v)
    BY <1>1, <2>1 DEF OpenLock, Goto, HoldsLock, Inside
  <2>2. CASE Finish(v)
    BY <1>1, <2>2 DEF Finish, Goto, HoldsLock, Inside
  <2>3. CASE Render(v) \/ Call(v) \/ LockRefused(v)
    BY <1>1, <2>3 DEF Render, Call, LockRefused, Goto, HoldsLock, Inside
  <2>4. CASE Check(v) \/ TooLarge(v) \/ OpenFile(v) \/ WriteSome(v) \/ WriteAll(v) \/ Sync(v)
    BY <1>1, <2>4 DEF Check, TooLarge, OpenFile, WriteSome, WriteAll, Sync, Goto, HoldsLock, Inside
  <2> QED
    BY <1>3, <2>1, <2>2, <2>3, <2>4 DEF Step
<1>4. ASSUME NEW v \in Writers, Failure(v) PROVE lock' = w
  BY <1>1, <1>4 DEF Failure, WriteFails, SyncFails, Crash, Goto, HoldsLock, Inside
<1>5. CASE PowerLoss \/ PowerLossOfFile
  BY <1>5 DEF PowerLoss, PowerLossOfFile, PowerGone, Inside
<1>6. CASE EntryWritten \/ ClearLock \/ Recover
  BY <1>1, <1>6 DEF EntryWritten, ClearLock, Recover, HoldsLock, Inside
<1> QED
  BY <1>2, <1>3, <1>4, <1>5, <1>6 DEF Next

\* Between Check and the end of the line nobody but the author touches what it checked.
LEMMA FitsStep == Inv /\ [Next]_vars => StillFits'
<1> SUFFICES ASSUME Inv, [Next]_vars, NEW w \in Writers, pc'[w] \in {"open", "write", "rest"}
             PROVE  Fitting(w)' /\ (pc'[w] \in {"open", "write"} => ~torn')
  BY DEF StillFits
<1> USE LedgerAssumption DEF vars, file, locals
<1> DEFINE Goal == Fitting(w)' /\ (pc'[w] \in {"open", "write"} => ~torn')
<1>1. /\ pc \in [Writers -> {"idle", "lock"} \cup Inside]
      /\ event \in [Writers -> Events \cup {Contract}] /\ head \in [Writers -> Seq(Line)]
      /\ HoldsLock /\ StillFits /\ (ledger # <<>> => exists)
  BY DEF Inv, TypeOK, FileExists
\* Steps that leave the author's event and head and the file alone.
<1>2. ASSUME pc[w] \in {"open", "write", "rest"}, UNCHANGED <<ledger, event[w], head[w]>>,
             pc'[w] \in {"open", "write"} => pc[w] \in {"open", "write"} /\ torn' = torn
      PROVE  Goal
  BY <1>1, <1>2 DEF StillFits, Fitting
<1>3. CASE UNCHANGED vars
  BY <1>2, <1>3
<1>4. ASSUME NEW v \in Writers, Step(v) PROVE Goal
  <2>1. CASE Render(v)
    <3>1. v # w
      BY <1>1, <2>1 DEF Render
    <3> QED
      BY <1>1, <1>2, <2>1, <3>1 DEF Render, Answer
  <2>2. CASE Call(v)
    <3>1. v # w
      BY <1>1, <2>2 DEF Call, Goto
    <3> QED
      BY <1>1, <1>2, <2>2, <3>1 DEF Call, Goto
  <2>3. CASE OpenLock(v) \/ LockRefused(v) \/ TooLarge(v)
    <3>1. v # w
      BY <1>1, <2>3 DEF OpenLock, LockRefused, TooLarge, Goto
    <3> QED
      BY <1>1, <1>2, <2>3, <3>1 DEF OpenLock, LockRefused, TooLarge, Goto
  <2>4. CASE Check(v)
    <3>1. CASE v # w
      BY <1>1, <1>2, <2>4, <3>1 DEF Check, Goto
    <3>2. CASE v = w
      <4>1. Admissible(w) /\ UNCHANGED <<ledger, torn, event, head>>
        BY <1>1, <2>4, <3>2 DEF Check, Goto
      <4>2. event[w] = Contract => ledger = <<>>
        BY <1>1, <4>1 DEF Admissible
      <4>3. event[w].kind = "candidate" => event[w] # Contract
        BY DEF Contract
      <4> QED
        BY <4>1, <4>2, <4>3 DEF Admissible, Fitting
    <3> QED
      BY <3>1, <3>2
  <2>5. CASE OpenFile(v)
    <3>1. UNCHANGED <<ledger, torn, event, head>> /\ pc[v] = "open" /\ pc' = [pc EXCEPT ![v] = "write"]
      BY <2>5 DEF OpenFile, Goto
    <3>2. pc[w] \in {"open", "write", "rest"} /\ (pc'[w] \in {"open", "write"} => pc[w] \in {"open", "write"})
      BY <1>1, <3>1
    <3> QED
      BY <1>2, <3>1, <3>2
  <2>6. CASE WriteSome(v)
    <3>1. pc[v] = "write" /\ pc' = [pc EXCEPT ![v] = "rest"] /\ UNCHANGED <<ledger, event, head>>
      BY <2>6 DEF WriteSome, Goto
    <3>2. CASE v = w
      BY <1>1, <1>2, <3>1, <3>2
    <3>3. CASE v # w
      <4>1. pc[w] \in {"open", "write", "rest"}
        BY <1>1, <3>1, <3>3
      <4> QED
        BY <1>1, <3>1, <3>3, <4>1 DEF HoldsLock, Inside
    <3> QED
      BY <3>2, <3>3
  <2>7. CASE WriteAll(v)
    <3>1. pc[v] \in {"write", "rest"} /\ pc' = [pc EXCEPT ![v] = "sync"]
      BY <2>7 DEF WriteAll, Goto
    <3>2. v # w /\ pc[w] \in {"open", "write", "rest"}
      BY <1>1, <3>1
    <3> QED
      BY <1>1, <3>1, <3>2 DEF HoldsLock, Inside
  <2>8. CASE Sync(v) \/ Finish(v)
    <3>1. v # w
      BY <1>1, <2>8 DEF Sync, Finish, Goto
    <3>2. UNCHANGED <<ledger, torn, event, head[w]>>
      BY <1>1, <2>8, <3>1 DEF Sync, Finish
    <3> QED
      BY <1>1, <1>2, <2>8, <3>1, <3>2 DEF Sync, Finish, Goto
  <2> QED
    BY <1>4, <2>1, <2>2, <2>3, <2>4, <2>5, <2>6, <2>7, <2>8 DEF Step
<1>5. ASSUME NEW v \in Writers, Failure(v) PROVE Goal
  <2>1. CASE WriteFails(v)
    <3>1. pc[v] \in {"write", "rest"} /\ pc' = [pc EXCEPT ![v] = "refuse"]
      BY <2>1 DEF WriteFails, Goto
    <3>2. v # w /\ pc[w] \in {"open", "write", "rest"}
      BY <1>1, <3>1
    <3> QED
      BY <1>1, <3>1, <3>2 DEF HoldsLock, Inside
  <2>2. CASE SyncFails(v) \/ Crash(v)
    <3>1. v # w
      BY <1>1, <2>2 DEF SyncFails, Crash, Goto
    <3> QED
      BY <1>1, <1>2, <2>2, <3>1 DEF SyncFails, Crash, Goto
  <2> QED
    BY <1>5, <2>1, <2>2 DEF Failure
<1>6. CASE PowerLoss \/ PowerLossOfFile
  BY <1>6 DEF PowerLoss, PowerLossOfFile, PowerGone
<1>7. CASE EntryWritten \/ ClearLock
  BY <1>2, <1>7 DEF EntryWritten, ClearLock
<1>8. CASE Recover
  BY <1>8 DEF Recover
<1> QED
  BY <1>3, <1>4, <1>5, <1>6, <1>7, <1>8 DEF Next

\* OpenFile precedes every record, and a file is lost with its records.
LEMMA ExistsStep == Inv /\ [Next]_vars => FileExists'
<1> SUFFICES ASSUME Inv, [Next]_vars PROVE FileExists'
  OBVIOUS
<1> USE DEF vars, file, locals
<1>1. FileExists /\ pc \in [Writers -> {"idle", "lock"} \cup Inside]
  BY DEF Inv, TypeOK
<1>2. CASE UNCHANGED vars
  BY <1>1, <1>2 DEF FileExists
<1>3. ASSUME NEW v \in Writers, Step(v) PROVE FileExists'
  <2>1. CASE OpenFile(v)
    BY Zenon, <2>1 DEF OpenFile, FileExists
  <2>2. CASE WriteAll(v)
    BY <1>1, <2>2 DEF WriteAll, Goto, FileExists
  <2>3. CASE WriteSome(v)
    BY <1>1, <2>3 DEF WriteSome, Goto, FileExists
  <2>4. CASE Render(v) \/ Call(v) \/ OpenLock(v) \/ LockRefused(v) \/ Check(v) \/ TooLarge(v) \/ Sync(v) \/ Finish(v)
    BY <1>1, <2>4 DEF Render, Call, OpenLock, LockRefused, Check, TooLarge, Sync, Finish, Goto, FileExists
  <2> QED
    BY <1>3, <2>1, <2>2, <2>3, <2>4 DEF Step
<1>4. ASSUME NEW v \in Writers, Failure(v) PROVE FileExists'
  BY <1>1, <1>4 DEF Failure, WriteFails, SyncFails, Crash, Goto, FileExists
<1>5. CASE PowerLoss
  <2>1. PICK n \in synced..Len(ledger) : ledger' = SubSeq(ledger, 1, n)
    BY <1>5 DEF PowerLoss
  <2>2. ledger \in Seq(Line) /\ synced \in Nat
    BY DEF Inv, TypeOK
  <2>3. ledger' # <<>> => ledger # <<>>
    BY <2>1, <2>2
  <2> QED
    BY <1>1, <1>5, <2>3 DEF PowerLoss, PowerGone, FileExists
<1>6. CASE PowerLossOfFile
  BY <1>6 DEF PowerLossOfFile, PowerGone, FileExists
<1>7. CASE EntryWritten \/ ClearLock \/ Recover
  BY <1>1, <1>7 DEF EntryWritten, ClearLock, Recover, FileExists
<1> QED
  BY <1>2, <1>3, <1>4, <1>5, <1>6, <1>7 DEF Next

\* All steps of the ledger keep the records in sequence and the attempts capped.
LEMMA RecordsStep == Inv /\ [Next]_vars => InSequence' /\ AttemptsCapped'
<1> SUFFICES ASSUME Inv, [Next]_vars PROVE InSequence' /\ AttemptsCapped'
  OBVIOUS
<1> USE LedgerAssumption
<1>1. InSequence /\ AttemptsCapped /\ ledger \in Seq(Line) /\ synced \in Nat
  BY DEF Inv, TypeOK
<1>2. CASE UNCHANGED ledger
  BY <1>1, <1>2 DEF InSequence, AttemptsCapped, Attempts
<1>3. ASSUME NEW w \in Writers, pc[w] \in {"write", "rest"}, Complete(w)
      PROVE  InSequence' /\ AttemptsCapped'
  <2> DEFINE x == NewLine(w)
  <2>1. /\ x \in Line /\ x.basis = Len(ledger)
        /\ x.kind = "contract" <=> ledger = <<>>
        /\ x.kind = "candidate" => Attempts(ledger) < MaxAttempts
    BY <1>3, LineFits
  <2>2. ledger' = Append(ledger, x)
    BY <1>3 DEF Complete
  <2> HIDE DEF x
  <2>3. InSequence'
    <3>1. /\ Len(ledger') = Len(ledger) + 1 /\ ledger'[Len(ledger) + 1] = x
          /\ \A i \in 1..Len(ledger) : ledger'[i] = ledger[i]
      BY <1>1, <2>1, <2>2
    <3>2. Len(ledger) \in Nat /\ (ledger = <<>> <=> Len(ledger) = 0)
      BY <1>1
    <3>3. ASSUME NEW i \in 1..Len(ledger')
          PROVE  ledger'[i].basis = i - 1 /\ (ledger'[i].kind = "contract" <=> i = 1)
      <4>1. CASE i \in 1..Len(ledger)
        BY <1>1, <3>1, <4>1 DEF InSequence
      <4>2. CASE i = Len(ledger) + 1
        BY <2>1, <3>1, <3>2, <4>2
      <4> QED
        BY <3>1, <3>2, <4>1, <4>2
    <3> QED
      BY <3>3 DEF InSequence
  <2>4. AttemptsCapped'
    <3>1. Attempts(ledger') = Attempts(ledger) + (IF x.kind = "candidate" THEN 1 ELSE 0)
      BY <1>1, <2>1, <2>2, AttemptsAppend
    <3>2. Attempts(ledger) \in Nat
      BY <1>1, AttemptsFinite
    <3>3. Attempts(ledger)' = Attempts(ledger')
      BY DEF Attempts
    <3> QED
      BY <1>1, <2>1, <3>1, <3>2, <3>3 DEF AttemptsCapped
  <2> QED
    BY <2>3, <2>4
<1>4. ASSUME NEW n \in synced..Len(ledger), ledger' = SubSeq(ledger, 1, n)
      PROVE  InSequence' /\ AttemptsCapped'
  <2>1. n \in 0..Len(ledger) /\ ledger' \in Seq(Line) /\ Len(ledger') = n /\ \A i \in 1..n : ledger'[i] = ledger[i]
    BY <1>1, <1>4
  <2>2. InSequence'
    BY <1>1, <2>1 DEF InSequence
  <2>3. Attempts(ledger') <= Attempts(ledger)
    BY <1>1, <1>4, <2>1, AttemptsPrefix
  <2>4. Attempts(ledger) \in Nat /\ Attempts(ledger') \in Nat
    BY <1>1, <1>4, <2>1, AttemptsFinite
  <2>5. Attempts(ledger)' = Attempts(ledger')
    BY DEF Attempts
  <2> QED
    BY <1>1, <2>2, <2>3, <2>4, <2>5 DEF AttemptsCapped
<1>5. ASSUME ledger' = <<>> PROVE InSequence' /\ AttemptsCapped'
  <2>1. Attempts(ledger)' = 0
    BY <1>5, AttemptsEmpty DEF Attempts
  <2> QED
    BY <1>5, <2>1 DEF InSequence, AttemptsCapped
<1> QED
  BY <1>2, <1>3, <1>4, <1>5, LedgerMoves

\* The acknowledged prefix is behind the last fsync, and power loss ends there.
LEMMA DurableStep == Inv /\ [Next]_vars => Durable'
<1> SUFFICES ASSUME Inv, [Next]_vars PROVE Durable'
  OBVIOUS
<1> USE DEF vars, file, locals
<1>1. /\ Durable /\ HoldsLock
      /\ pc \in [Writers -> {"idle", "lock"} \cup Inside]
      /\ ledger \in Seq(Line) /\ acked \in Seq(Line) /\ synced \in Nat
  BY DEF Inv, TypeOK
<1>2. CASE UNCHANGED vars
  BY <1>1, <1>2 DEF Durable
<1>3. ASSUME NEW v \in Writers, Step(v) PROVE Durable'
  <2>1. CASE WriteAll(v)
    <3>1. pc[v] \in {"write", "rest"} /\ pc' = [pc EXCEPT ![v] = "sync"]
          /\ UNCHANGED <<synced, acked>>
      BY <2>1 DEF WriteAll, Goto
    <3>2. \A w \in Writers : pc'[w] # "ack"
      BY <1>1, <3>1 DEF HoldsLock, Inside
    <3>3. ledger' = Append(ledger, NewLine(v)) /\ NewLine(v) \in Line
      BY <2>1, <3>1, LineFits DEF WriteAll, Complete
    <3>4. Len(ledger') = Len(ledger) + 1 /\ \A i \in 1..Len(ledger) : ledger'[i] = ledger[i]
      BY <1>1, <3>3
    <3>5. 1..Len(acked) \subseteq 1..Len(ledger) /\ Len(ledger) \in Nat
      BY <1>1 DEF Durable
    <3> QED
      BY <1>1, <3>1, <3>2, <3>4, <3>5 DEF Durable
  <2>2. CASE Sync(v)
    <3>1. synced' = Len(ledger) /\ UNCHANGED <<ledger, acked>>
      BY <2>2 DEF Sync
    <3> QED
      BY <1>1, <3>1 DEF Durable
  <2>3. CASE Finish(v)
    <3>1. \A w \in Writers : pc'[w] # "ack"
      BY <1>1, <2>3 DEF Finish, Goto, HoldsLock, Inside
    <3>2. UNCHANGED <<ledger, synced>>
      BY <2>3 DEF Finish
    <3>3. CASE pc[v] = "ack"
      <4>1. acked' = ledger /\ synced = Len(ledger)
        BY <1>1, <2>3, <3>3 DEF Finish, Durable
      <4> QED
        BY <1>1, <3>1, <3>2, <4>1 DEF Durable
    <3>4. CASE pc[v] # "ack"
      <4>1. acked' = acked
        BY <2>3, <3>4 DEF Finish
      <4> QED
        BY <1>1, <3>1, <3>2, <4>1 DEF Durable
    <3> QED
      BY <3>3, <3>4
  <2>4. CASE Render(v) \/ Call(v) \/ OpenLock(v) \/ LockRefused(v) \/ Check(v) \/ TooLarge(v) \/ OpenFile(v) \/ WriteSome(v)
    <3>1. UNCHANGED <<ledger, synced, acked>>
      BY <2>4 DEF Render, Call, OpenLock, LockRefused, Check, TooLarge, OpenFile, WriteSome
    <3>2. \A w \in Writers : pc'[w] = "ack" => pc[w] = "ack"
      BY <1>1, <2>4 DEF Render, Call, OpenLock, LockRefused, Check, TooLarge, OpenFile, WriteSome, Goto
    <3> QED
      BY <1>1, <3>1, <3>2 DEF Durable
  <2> QED
    BY <1>3, <2>1, <2>2, <2>3, <2>4 DEF Step
<1>4. ASSUME NEW v \in Writers, Failure(v) PROVE Durable'
  <2>1. CASE WriteFails(v)
    <3>1. pc[v] \in {"write", "rest"} /\ pc' = [pc EXCEPT ![v] = "refuse"]
          /\ UNCHANGED <<synced, acked>>
      BY <2>1 DEF WriteFails, Goto
    <3>2. \A w \in Writers : pc'[w] # "ack"
      BY <1>1, <3>1 DEF HoldsLock, Inside
    <3>3. CASE UNCHANGED ledger
      BY <1>1, <3>1, <3>2, <3>3 DEF Durable
    <3>4. CASE Complete(v)
      <4>1. ledger' = Append(ledger, NewLine(v)) /\ NewLine(v) \in Line
        BY <3>1, <3>4, LineFits DEF Complete
      <4>2. Len(ledger') = Len(ledger) + 1 /\ \A i \in 1..Len(ledger) : ledger'[i] = ledger[i]
        BY <1>1, <4>1
      <4>3. 1..Len(acked) \subseteq 1..Len(ledger) /\ Len(ledger) \in Nat
        BY <1>1 DEF Durable
      <4> QED
        BY <1>1, <3>1, <3>2, <4>2, <4>3 DEF Durable
    <3> QED
      BY <2>1, <3>3, <3>4 DEF WriteFails
  <2>2. CASE SyncFails(v) \/ Crash(v)
    <3>1. UNCHANGED <<ledger, synced, acked>>
      BY <2>2 DEF SyncFails, Crash
    <3>2. \A w \in Writers : pc'[w] = "ack" => pc[w] = "ack"
      BY <1>1, <2>2 DEF SyncFails, Crash, Goto
    <3> QED
      BY <1>1, <3>1, <3>2 DEF Durable
  <2> QED
    BY <1>4, <2>1, <2>2 DEF Failure
<1>5. CASE PowerLoss
  <2>1. PICK n \in synced..Len(ledger) : ledger' = SubSeq(ledger, 1, n)
    BY <1>5 DEF PowerLoss
  <2>2. Len(ledger') = n /\ \A i \in 1..n : ledger'[i] = ledger[i]
    BY <1>1, <2>1
  <2>3. UNCHANGED <<synced, acked>> /\ \A w \in Writers : pc'[w] # "ack"
    BY <1>5 DEF PowerLoss, PowerGone
  <2>4. 1..Len(acked) \subseteq 1..n /\ synced <= n
    BY <1>1, <2>1 DEF Durable
  <2> QED
    BY <1>1, <2>2, <2>3, <2>4 DEF Durable
<1>6. CASE PowerLossOfFile
  BY <1>6 DEF PowerLossOfFile, PowerGone, Durable
<1>7. CASE EntryWritten \/ ClearLock \/ Recover
  BY <1>1, <1>7 DEF EntryWritten, ClearLock, Recover, Durable
<1> QED
  BY <1>2, <1>3, <1>4, <1>5, <1>6, <1>7 DEF Next

\* The invariant, for every set of authors, every cap and every number of failures.
THEOREM LedgerInvariant == Spec => []Inv
<1>1. Inv /\ [Next]_vars => Inv'
  BY TypeStep, HeldStep, ExistsStep, FitsStep, RecordsStep, DurableStep DEF Inv
<1> QED
  BY InvInit, <1>1, PTL DEF Spec

-----------------------------------------------------------------------------
(* What the runs check *)

\* Types, and the bound on the number of records: append() never writes to a full ledger.
THEOREM TypeCorrect == Spec => []TypeOK
<1>1. Inv => TypeOK
  BY DEF Inv
<1> QED
  BY LedgerInvariant, <1>1, PTL

\* Every record of append() rests on exactly the records before it.
THEOREM RecordsInSequence == Spec => []InSequence
<1>1. Inv => InSequence
  BY DEF Inv
<1> QED
  BY LedgerInvariant, <1>1, PTL

\* The attempt budget of the contract is a cap for all authors together.
THEOREM AttemptBudget == Spec => []AttemptsCapped
<1>1. Inv => AttemptsCapped
  BY DEF Inv
<1> QED
  BY LedgerInvariant, <1>1, PTL

\* What append() has acknowledged stays through crashes and power losses, as long as they
\* leave the file in its directory.
THEOREM AcknowledgedStays == Spec => []AckedSurvives
<1>1. Inv => AckedSurvives
  <2> SUFFICES ASSUME Inv PROVE AckedSurvives
    OBVIOUS
  <2>1. Durable /\ ledger \in Seq(Line) /\ acked \in Seq(Line) /\ synced \in Nat
    BY DEF Inv, TypeOK
  <2>2. Len(acked) <= Len(ledger)
    BY <2>1 DEF Durable
  <2>3. acked = SubSeq(acked, 1, Len(acked))
    BY <2>1
  <2>4. SubSeq(ledger, 1, Len(acked)) = acked
    BY <2>1, <2>2 DEF Durable
  <2> QED
    BY <2>2, <2>3, <2>4 DEF AckedSurvives, IsPrefix
<1> QED
  BY LedgerInvariant, <1>1, PTL

\* append() leaves an incomplete tail alone: only its own rest can follow it.
THEOREM TornTailIsFrozen == Spec => TornIsFrozen
<1>1. Inv /\ [Next]_vars => [torn /\ Len(ledger') > Len(ledger) => \E w \in Writers : pc[w] = "rest"]_vars
  <2> SUFFICES ASSUME Inv, [Next]_vars, torn, Len(ledger') > Len(ledger)
               PROVE  \E w \in Writers : pc[w] = "rest"
    OBVIOUS
  <2>1. ledger \in Seq(Line) /\ synced \in Nat
    BY DEF Inv, TypeOK
  <2>2. ASSUME NEW n \in synced..Len(ledger), ledger' = SubSeq(ledger, 1, n) PROVE FALSE
    BY <2>1, <2>2
  <2>3. ASSUME ledger' = <<>> PROVE FALSE
    BY <2>1, <2>3
  <2>4. ASSUME NEW w \in Writers, pc[w] \in {"write", "rest"} PROVE pc[w] = "rest"
    BY <2>4 DEF Inv, StillFits
  <2>5. ledger' # ledger
    BY <2>1
  <2> QED
    BY <2>2, <2>3, <2>4, <2>5, LedgerMoves
<1> QED
  BY LedgerInvariant, <1>1, PTL DEF Spec, TornIsFrozen

-----------------------------------------------------------------------------
(* A ledger that nobody is at *)

\* As long as the file is not hurt, an incomplete tail and an empty file are passing states
\* of an append() that goes on.
Passing ==
    ~hurt =>
        /\ torn => \E w \in Writers : pc[w] = "rest"
        /\ exists /\ ledger = <<>> => \E w \in Writers : pc[w] \in {"write", "rest"}

LEMMA PassingStep ==
    ASSUME Inv, [Next]_vars, Passing
    PROVE  Passing'
<1> USE DEF file, locals
<1>1. TypeOK /\ pc \in [Writers -> {"idle", "lock"} \cup Inside]
  BY DEF Inv, TypeOK
<1>2. CASE UNCHANGED vars
  BY <1>2 DEF vars, Passing
\* A complete line leaves neither.
<1>3. ASSUME NEW w \in Writers, pc[w] \in {"write", "rest"}, Complete(w)
      PROVE  ledger' # <<>> /\ torn' = FALSE
  <2>1. ledger \in Seq(Line) /\ NewLine(w) \in Line
    BY <1>1, <1>3, LineFits DEF TypeOK
  <2>2. ledger' = Append(ledger, NewLine(w)) /\ torn' = FALSE
    BY <1>3 DEF Complete
  <2>3. Len(ledger') = Len(ledger) + 1 /\ Len(ledger) \in Nat
    BY <2>1, <2>2
  <2> QED
    BY <2>2, <2>3
<1>4. CASE EntryWritten \/ ClearLock \/ Recover \/ PowerLoss \/ PowerLossOfFile
  <2>1. CASE EntryWritten \/ ClearLock
    BY <2>1 DEF EntryWritten, ClearLock, Passing
  <2>2. CASE Recover
    BY <2>2 DEF Recover, Passing
  <2>3. CASE PowerLoss \/ PowerLossOfFile
    BY <2>3 DEF PowerLoss, PowerLossOfFile, Passing
  <2> QED
    BY <1>4, <2>1, <2>2, <2>3
<1>5. ASSUME NEW w \in Writers, Failure(w) PROVE Passing'
  <2>1. CASE WriteFails(w)
    <3>1. pc[w] \in {"write", "rest"} /\ (Complete(w) \/ hurt' = TRUE)
      BY <2>1 DEF WriteFails
    <3> QED
      BY <1>3, <3>1 DEF Passing
  <2>2. CASE SyncFails(w)
    <3>1. pc[w] = "sync" /\ \A v \in Writers \ {w} : pc'[v] = pc[v]
      BY <1>1, <2>2 DEF SyncFails, Goto
    <3>2. UNCHANGED <<exists, ledger, torn, hurt>>
      BY <2>2 DEF SyncFails
    <3> QED
      BY <3>1, <3>2 DEF Passing
  <2>3. CASE Crash(w)
    <3>1. \A v \in Writers \ {w} : pc'[v] = pc[v]
      BY <1>1, <2>3 DEF Crash, Goto
    <3>2. UNCHANGED <<exists, ledger, torn>> /\ hurt' = (hurt \/ pc[w] \in {"write", "rest"})
      BY <2>3 DEF Crash
    <3> QED
      BY <3>1, <3>2 DEF Passing
  <2> QED
    BY <1>5, <2>1, <2>2, <2>3 DEF Failure
<1>6. ASSUME NEW w \in Writers, Step(w) PROVE Passing'
  <2>1. CASE OpenFile(w)
    <3>1. pc'[w] = "write" /\ \A v \in Writers \ {w} : pc'[v] = pc[v]
      BY <1>1, <2>1 DEF OpenFile, Goto
    <3>2. pc[w] # "rest" /\ UNCHANGED <<torn, ledger, hurt>>
      BY <2>1 DEF OpenFile
    <3> QED
      BY <3>1, <3>2 DEF Passing
  <2>2. CASE WriteSome(w)
    <3>1. pc'[w] = "rest"
      BY <1>1, <2>2 DEF WriteSome, Goto
    <3> QED
      BY <3>1 DEF Passing
  <2>3. CASE WriteAll(w)
    <3>1. ledger' # <<>> /\ torn' = FALSE
      BY <1>3, <2>3 DEF WriteAll
    <3> QED
      BY <3>1 DEF Passing
  <2>4. CASE Step(w) /\ ~OpenFile(w) /\ ~WriteSome(w) /\ ~WriteAll(w)
    <3>1. UNCHANGED <<exists, ledger, torn, hurt>> /\ pc[w] \notin {"write", "rest"}
      BY <2>4 DEF Step, Render, Call, OpenLock, LockRefused, Check, TooLarge, Sync, Finish
    <3>2. \A v \in Writers \ {w} : pc'[v] = pc[v]
      BY <1>1, <2>4 DEF Step, Render, Call, OpenLock, LockRefused, Check, TooLarge, Sync, Finish, Goto
    <3> QED
      BY <3>1, <3>2 DEF Passing
  <2> QED
    BY <1>6, <2>1, <2>2, <2>3, <2>4
<1> QED
  BY <1>2, <1>4, <1>5, <1>6 DEF Next

\* Unless an author was stopped in the middle of its line or power was lost, a ledger without
\* a lock is complete, and a file that is there has its contract: the next append() is not
\* refused for what the last ones left, killed or refused, nor for a tail that was set aside.
THEOREM CleanBehindTheLock == Spec => []CleanWhenFree
<1>1. Init => Passing
  BY DEF Init, Passing
<1>2. Inv /\ Passing => CleanWhenFree
  <2> SUFFICES ASSUME Inv, Passing, ~hurt, lock = Free
               PROVE  ~torn /\ (exists <=> ledger # <<>>)
    BY DEF CleanWhenFree
  <2>1. \A w \in Writers : pc[w] \notin Inside
    BY LedgerAssumption DEF Inv, HoldsLock
  <2> QED
    BY <2>1 DEF Passing, Inside, Inv, FileExists, TypeOK
<1> QED
  BY <1>1, <1>2, LedgerInvariant, PassingStep, PTL DEF Spec

-----------------------------------------------------------------------------
(* The failures that review() shows *)

\* The largest of some positions is one of them.
LEMMA LargestOf ==
    ASSUME NEW n \in Nat, NEW S \in SUBSET (1..n), S # {}
    PROVE  Max(S) \in S /\ \A i \in S : Max(S) >= i
<1> DEFINE Distances == {n - i : i \in S}
<1>1. Distances # {} /\ Distances \subseteq Nat
  <2>1. \A i \in S : n - i \in Nat
    OBVIOUS
  <2> QED
    BY <2>1
<1> HIDE DEF Distances
<1>2. PICK d \in Distances : \A e \in Distances : <<e, d>> \notin OpToRel(<, Nat)
  BY <1>1, WFMin, NatLessThanWellFounded
<1>3. \A e \in Distances : ~(e < d) /\ e \in Nat /\ d \in Nat
  BY <1>1, <1>2 DEF OpToRel
<1>4. PICK i \in S : d = n - i
  BY <1>2 DEF Distances
<1>5. \A j \in S : n - j \in Distances
  BY DEF Distances
<1>6. \A j \in S : i >= j
  BY <1>3, <1>4, <1>5
<1> QED
  BY <1>6 DEF Max

\* The gates that a record at one of the positions S has opened and no later one of S closed.
LeftOpen(lines, S) ==
    {g \in Gates :
        \E i \in S :
            /\ g \in lines[i].gates /\ lines[i].kind # "passed"
            /\ \A j \in S : j > i => ~(g \in lines[j].gates /\ lines[j].kind = "passed")}

\* The last record opens or closes its gates, and leaves the others.
LEMMA LeftOpenStep ==
    ASSUME NEW lines \in Seq(Line), NEW S \in SUBSET (1..Len(lines)), S # {}
    PROVE  LeftOpen(lines, S) = StepFailures(LeftOpen(lines, S \ {Max(S)}), lines[Max(S)])
<1> DEFINE m == Max(S)
           R == S \ {m}
<1>1. m \in S /\ \A i \in S : m >= i
  <2>1. Len(lines) \in Nat
    OBVIOUS
  <2> QED
    BY <2>1, LargestOf
<1>2. m \in 1..Len(lines) /\ lines[m] \in Line /\ (\A i \in S : i \in Nat)
  <2> HIDE DEF m
  <2>1. m \in 1..Len(lines) /\ (\A i \in S : i \in Nat)
    BY <1>1
  <2> QED
    BY <2>1
<1>3. lines[m].gates \subseteq Gates
  BY <1>2 DEF Line
<1>4. \A i \in R : m > i /\ i \in S
  BY <1>1, <1>2
<1>5. \A j \in S : j = m \/ j \in R
  OBVIOUS
<1> HIDE DEF m, R
<1> SUFFICES ASSUME NEW g \in Gates
             PROVE  g \in LeftOpen(lines, S) <=> g \in StepFailures(LeftOpen(lines, R), lines[m])
  BY <1>3 DEF LeftOpen, StepFailures, m, R
<1>6. CASE lines[m].kind = "passed"
  <2>1. g \in LeftOpen(lines, S) => g \in LeftOpen(lines, R) /\ g \notin lines[m].gates
    BY <1>1, <1>2, <1>4, <1>5, <1>6 DEF LeftOpen
  <2>2. g \in LeftOpen(lines, R) /\ g \notin lines[m].gates => g \in LeftOpen(lines, S)
    BY <1>1, <1>2, <1>4, <1>5, <1>6 DEF LeftOpen
  <2> QED
    BY <1>6, <2>1, <2>2 DEF StepFailures
<1>7. CASE lines[m].kind # "passed"
  <2>1. g \in lines[m].gates => g \in LeftOpen(lines, S)
    BY <1>1, <1>2, <1>4, <1>5, <1>7 DEF LeftOpen
  <2>2. g \in LeftOpen(lines, R) => g \in LeftOpen(lines, S)
    BY <1>1, <1>2, <1>4, <1>5, <1>7 DEF LeftOpen
  <2>3. g \in LeftOpen(lines, S) /\ g \notin lines[m].gates => g \in LeftOpen(lines, R)
    BY <1>1, <1>2, <1>4, <1>5, <1>7 DEF LeftOpen
  <2> QED
    BY <1>7, <2>1, <2>2, <2>3 DEF StepFailures
<1> QED
  BY <1>6, <1>7

\* What the fold of review() computes.
LEMMA FoldIsLeftOpen ==
    ASSUME NEW lines \in Seq(Line)
    PROVE  OpenFailures(lines) = LeftOpen(lines, 1..Len(lines))
<1> DEFINE D == 1..Len(lines)
           Folds(iter) ==
               iter = [S \in SUBSET D |->
                          IF S = {} THEN {} ELSE StepFailures(iter[S \ {Max(S)}], lines[Max(S)])]
           closed == [S \in SUBSET D |-> LeftOpen(lines, S)]
           fold == CHOOSE iter : Folds(iter)
<1>1. DOMAIN lines = D
  OBVIOUS
<1>2. OpenFailures(lines) = fold[D]
  BY <1>1 DEF OpenFailures, FoldLeft, MapThenFoldSet
<1>3. Folds(closed)
  <2>1. \A S \in SUBSET D : S \ {Max(S)} \in SUBSET D
    OBVIOUS
  <2>2. LeftOpen(lines, {}) = {}
    BY DEF LeftOpen
  <2>3. \A S \in SUBSET D : S # {} => closed[S] = StepFailures(closed[S \ {Max(S)}], lines[Max(S)])
    BY <2>1, LeftOpenStep
  <2> QED
    BY <2>2, <2>3
<1>4. Folds(fold)
  <2> HIDE DEF closed, Folds
  <2> QED
    BY <1>3
<1>5. \A S \in SUBSET D : fold[S] = IF S = {} THEN {} ELSE StepFailures(fold[S \ {Max(S)}], lines[Max(S)])
  <2> HIDE DEF fold
  <2> QED
    BY <1>4
<1>6. \A S \in SUBSET D : closed[S] = IF S = {} THEN {} ELSE StepFailures(closed[S \ {Max(S)}], lines[Max(S)])
  <2> HIDE DEF closed
  <2> QED
    BY <1>3
<1> DEFINE Wrong == {Max(S) : S \in {T \in SUBSET D : T # {} /\ fold[T] # closed[T]}}
<1> HIDE DEF fold, closed, Folds
<1>7. Wrong = {}
  <2> SUFFICES ASSUME Wrong # {} PROVE FALSE
    OBVIOUS
  <2>0. Len(lines) \in Nat
    OBVIOUS
  <2>1. Wrong \subseteq Nat
    <3> SUFFICES ASSUME NEW S \in SUBSET D, S # {} PROVE Max(S) \in Nat
      BY DEF Wrong
    <3>1. Max(S) \in S
      BY <2>0, LargestOf
    <3>2. Max(S) \in D
      BY <3>1
    <3> QED
      BY <2>0, <3>2
  <2> HIDE DEF Wrong
  <2>2. PICK m \in Wrong : \A e \in Wrong : <<e, m>> \notin OpToRel(<, Nat)
    BY <2>1, WFMin, NatLessThanWellFounded
  <2>3. \A e \in Wrong : ~(e < m) /\ e \in Nat /\ m \in Nat
    BY <2>1, <2>2 DEF OpToRel
  <2>4. PICK S \in SUBSET D : S # {} /\ fold[S] # closed[S] /\ m = Max(S)
    BY <2>2 DEF Wrong
  <2> DEFINE R == S \ {m}
  <2>5. R \in SUBSET D /\ fold[R] # closed[R]
    <3>1. fold[S] = StepFailures(fold[R], lines[m])
      BY <1>5, <2>4
    <3>2. closed[S] = StepFailures(closed[R], lines[m])
      BY <1>6, <2>4
    <3>3. fold[R] # closed[R]
      BY <2>4, <3>1, <3>2
    <3> QED
      BY <3>3
  <2>6. R # {}
    BY <1>5, <1>6, <2>5
  <2>7. Max(R) \in R /\ Max(S) >= Max(R) /\ Max(R) \in Nat
    <3>1. Max(R) \in R /\ Max(S) \in S /\ \A i \in S : Max(S) >= i
      BY <2>0, <2>4, <2>5, <2>6, LargestOf
    <3>2. Max(R) \in S /\ Max(R) \in D
      BY <2>5, <3>1
    <3> QED
      BY <2>0, <3>1, <3>2
  <2>8. Max(R) < m
    BY <2>3, <2>4, <2>7
  <2>9. Max(R) \in Wrong
    BY <2>5, <2>6 DEF Wrong
  <2> QED
    BY <2>3, <2>8, <2>9
<1>8. fold[D] = closed[D]
  <2>1. CASE D = {}
    BY <1>5, <1>6, <2>1
  <2>2. CASE D # {}
    BY <1>7, <2>2
  <2> QED
    BY <2>1, <2>2
<1> QED
  BY <1>2, <1>8 DEF closed

\* The failures that review() folds from the events are exactly those that no later passing
\* event of their gate closed, in a ledger of any length; a candidate or a host switch
\* between them clears nothing.
THEOREM FailuresAreKeptOpen == Spec => []FailuresStayOpen
<1>1. Inv => FailuresStayOpen
  <2> SUFFICES ASSUME Inv, NEW g \in Gates
               PROVE  g \in OpenFailures(ledger) <=>
                        \E i \in 1..Len(ledger) :
                            /\ g \in ledger[i].gates /\ ledger[i].kind # "passed"
                            /\ \A j \in i + 1..Len(ledger) :
                                  ~(g \in ledger[j].gates /\ ledger[j].kind = "passed")
    BY DEF FailuresStayOpen
  <2>1. ledger \in Seq(Line) /\ Len(ledger) \in Nat
    BY DEF Inv, TypeOK
  <2>2. \A i \in 1..Len(ledger), j \in 1..Len(ledger) : j > i <=> j \in i + 1..Len(ledger)
    BY <2>1
  <2>3. \A i \in 1..Len(ledger) : i + 1..Len(ledger) \subseteq 1..Len(ledger)
    BY <2>1
  <2>4. g \in OpenFailures(ledger) <=> g \in LeftOpen(ledger, 1..Len(ledger))
    BY <2>1, FoldIsLeftOpen
  <2> QED
    BY <2>2, <2>3, <2>4 DEF LeftOpen
<1> QED
  BY LedgerInvariant, <1>1, PTL
=============================================================================
