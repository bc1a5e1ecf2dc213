--------------------------- MODULE SelfReviewHook ---------------------------
(***************************************************************************)
(* The stop event of scripts/self_review_hook.py, run by concurrent hosts   *)
(* on one checkout: stop_output() digests the tree, takes the state lock    *)
(* (module StateLock), loads state.json, decides, replaces state.json,      *)
(* unlocks and only then prints the questions.                             *)
(*                                                                         *)
(* Session keys are numbers because eviction sorts them.  Contents of the   *)
(* tree are the digests themselves (SHA-256 taken as injective).           *)
(***************************************************************************)
EXTENDS StateLock, Integers, Sequences

CONSTANTS
    Sessions,   \* session keys, ordered as sorted() orders them
    Digests,    \* contents the tree can have
    NoDigest,   \* the empty digest of a fresh record, and of no event
    NoSession,  \* the session of a process without an event
    NoRecord,   \* a session state.json does not know
    MaxNudges,  \* MAX_NUDGES_PER_SESSION
    Retained,   \* sessions kept in state.json (64)
    MaxEvents   \* bound: stop events in a behaviour

ASSUME HookAssumption ==
    /\ Sessions \subseteq Nat /\ IsFiniteSet(Sessions)
    /\ NoDigest \notin Digests
    /\ NoSession \notin Sessions
    /\ MaxNudges \in Nat \ {0}
    /\ Retained \in Nat \ {0, 1}
    /\ MaxEvents \in Nat
    /\ NoRecord \notin [count : 0..MaxNudges, digest : Digests \cup {NoDigest}]

VARIABLES
    tree,       \* the present content of the checkout
    store,      \* state.json
    stage,      \* what each process does next
    session,    \* session key of its event
    digest,     \* digest it took of the tree, before it had the lock
    copy,       \* the sessions it loaded
    verdict,    \* what it will print
    events,     \* stop events so far
    given,      \* history: contents each session was asked about since its record
                \* was made, as decided and saved
    owed        \* history: nudges decided and saved but not printed

job == <<stage, session, digest, copy, verdict>>
hookVars == <<tree, store, job, events, given, owed>>
vars == <<lockVars, hookVars>>

Record == [count : 0..MaxNudges, digest : Digests \cup {NoDigest}]
Stores == [Sessions -> Record \cup {NoRecord}]
Fresh == [count |-> 0, digest |-> NoDigest]
Outcome == {"none", "quiet", "nudge", "error"}

Known(st) == {s \in Sessions : st[s] # NoRecord}

HookTypeOK ==
    /\ LockTypeOK
    /\ tree \in Digests
    /\ store \in Stores
    /\ stage \in [Proc -> {"idle", "lock", "load", "save", "unlock", "emit"}]
    /\ session \in [Proc -> Sessions \cup {NoSession}]
    /\ digest \in [Proc -> Digests \cup {NoDigest}]
    /\ copy \in [Proc -> Stores]
    /\ verdict \in [Proc -> Outcome]
    /\ events \in 0..MaxEvents
    /\ given \in [Sessions -> Seq(Digests)]
    /\ owed \in Int

Nothing == [s \in Sessions |-> NoRecord]

Init ==
    /\ LockInit
    /\ tree \in Digests
    /\ store = Nothing
    /\ stage = [p \in Proc |-> "idle"]
    /\ session = [p \in Proc |-> NoSession]
    /\ digest = [p \in Proc |-> NoDigest]
    /\ copy = [p \in Proc |-> Nothing]
    /\ verdict = [p \in Proc |-> "none"]
    /\ events = 0
    /\ given = [s \in Sessions |-> <<>>]
    /\ owed = 0

At(p, here) == stage[p] = here
Become(p, there) == stage' = [stage EXCEPT ![p] = there]
Decide(p, what) == verdict' = [verdict EXCEPT ![p] = what]

\* The process ends, its local variables with it.
End(p) ==
    /\ Become(p, "idle") /\ Decide(p, "none")
    /\ session' = [session EXCEPT ![p] = NoSession]
    /\ digest' = [digest EXCEPT ![p] = NoDigest]
    /\ copy' = [copy EXCEPT ![p] = Nothing]

-----------------------------------------------------------------------------
(* Before the lock *)

\* Payloads that end the handler at once: stop_hook_active, an unfinished or
\* looping Cursor turn, Claude background work; or that fail validation.
IgnoreStop(p) ==
    /\ At(p, "idle") /\ events < MaxEvents
    /\ events' = events + 1
    /\ UNCHANGED <<lockVars, tree, store, job, given, owed>>

\* tree_digest() and session_key(), then state_lock() sets its deadline.
StopEvent(p) ==
    /\ At(p, "idle") /\ events < MaxEvents
    /\ Enter(p)
    /\ \E s \in Sessions : session' = [session EXCEPT ![p] = s]
    /\ digest' = [digest EXCEPT ![p] = tree]
    /\ events' = events + 1
    /\ Become(p, "lock")
    /\ UNCHANGED <<tree, store, copy, verdict, given, owed>>

WaitForLock(p) ==
    /\ OpenRefused(p) \/ Stat(p) \/ Break(p) \/ BreakFails(p) \/ Sleep(p)
    /\ UNCHANGED hookVars

HaveLock(p) ==
    /\ Create(p)
    /\ Become(p, "load")
    /\ UNCHANGED <<tree, store, session, digest, copy, verdict, events, given, owed>>

\* The TimeoutError of the wait budget, or the OSError of the pid write, reaches
\* main(): a diagnostic and exit status 1.
NoLock(p) ==
    /\ Timeout(p) \/ PidWriteFails(p)
    /\ End(p)
    /\ UNCHANGED <<tree, store, events, given, owed>>

-----------------------------------------------------------------------------
(* With the lock *)

\* Mutant of LoadState: an unreadable state.json counts as an empty one.
LoadNothing(p) ==
    /\ At(p, "load")
    /\ Become(p, "save")
    /\ UNCHANGED <<lockVars, tree, store, session, digest, copy, verdict, events, given, owed>>

\* load_state(): all of state.json, validated.
LoadState(p) ==
    /\ At(p, "load")
    /\ copy' = [copy EXCEPT ![p] = store]
    /\ Become(p, "save")
    /\ UNCHANGED <<lockVars, tree, store, session, digest, verdict, events, given, owed>>

Current(st, s) == IF st[s] = NoRecord THEN Fresh ELSE st[s]

\* Mutant of ShouldNudge: without the comparison of digests.
NudgeAlways(r, d) == r.count < MaxNudges

ShouldNudge(r, d) == d # r.digest /\ r.count < MaxNudges

\* Mutant of Updated: the digest is recorded and the count forgotten.
UpdatedWithoutCount(r, d) ==
    IF ShouldNudge(r, d) THEN [r EXCEPT !.digest = d] ELSE r

Updated(r, d) ==
    IF ShouldNudge(r, d) THEN [count |-> r.count + 1, digest |-> d] ELSE r

\* Mutant of KeptPeers: the first ones in the order of the keys.
KeptFirst(st, s) ==
    LET peers == Known(st) \ {s}
    IN  IF Cardinality(peers \cup {s}) <= Retained THEN peers
        ELSE {t \in peers : Cardinality({u \in peers : u < t}) < Retained - 1}

\* The peers of s to keep: the Retained - 1 last ones in the order of the keys,
\* when s and all of them would be more than Retained.
KeptPeers(st, s) ==
    LET peers == Known(st) \ {s}
    IN  IF Cardinality(peers \cup {s}) <= Retained THEN peers
        ELSE {t \in peers : Cardinality({u \in peers : u > t}) < Retained - 1}

NextStore(st, s, d) ==
    [t \in Sessions |->
        IF t = s THEN Updated(Current(st, s), d)
        ELSE IF t \in KeptPeers(st, s) THEN st[t] ELSE NoRecord]

\* A session's history starts again with its record.
NextGiven(st, s, d) ==
    [t \in Sessions |->
        IF t = s
        THEN LET past == IF st[s] = NoRecord THEN <<>> ELSE given[s]
             IN  IF ShouldNudge(Current(st, s), d) THEN Append(past, d) ELSE past
        ELSE given[t]]

\* atomic_write() replaces state.json by the updated copy.
SaveState(p) ==
    LET s == session[p]
        d == digest[p]
    IN  /\ At(p, "save")
        /\ store' = NextStore(copy[p], s, d)
        /\ given' = NextGiven(copy[p], s, d)
        /\ IF ShouldNudge(Current(copy[p], s), d)
              THEN Decide(p, "nudge") /\ owed' = owed + 1
              ELSE Decide(p, "quiet") /\ owed' = owed
        /\ Become(p, "unlock")
        /\ UNCHANGED <<lockVars, tree, session, digest, copy, events>>

\* Reading or writing state.json raises: the finally blocks drop the temporary
\* file and the lock, state.json stays as it was, and the event is an error.
StateFails(p) ==
    /\ At(p, "load") \/ At(p, "save")
    /\ Fault
    /\ Decide(p, "error") /\ Become(p, "unlock")
    /\ UNCHANGED <<lockOwner, lockStale, pc, late, seized>>
    /\ UNCHANGED <<tree, store, session, digest, copy, events, given, owed>>

Unlock(p) ==
    /\ At(p, "unlock")
    /\ Release(p)
    /\ Become(p, "emit")
    /\ UNCHANGED <<tree, store, session, digest, copy, verdict, events, given, owed>>

\* An OSError of the unlink replaces the output, whatever was decided.
UnlockFails(p) ==
    /\ At(p, "unlock")
    /\ ReleaseFails(p)
    /\ End(p)
    /\ UNCHANGED <<tree, store, events, given, owed>>

-----------------------------------------------------------------------------
(* After the lock, and the environment *)

\* Mutant of Emit: {} is printed whatever was decided.
EmitQuiet(p) ==
    /\ At(p, "emit")
    /\ End(p)
    /\ UNCHANGED <<lockVars, tree, store, events, given, owed>>

\* main() prints the questions, or {}, or the diagnostic.
Emit(p) ==
    /\ At(p, "emit")
    /\ owed' = IF verdict[p] = "nudge" THEN owed - 1 ELSE owed
    /\ End(p)
    /\ UNCHANGED <<lockVars, tree, store, events, given>>

\* The host kills the hook, or it dies, in the lock or before it prints.
Killed(p) ==
    /\ \/ Crash(p)
       \/ At(p, "emit") /\ Fault /\ UNCHANGED <<lockOwner, lockStale, pc, late, seized>>
    /\ End(p)
    /\ UNCHANGED <<tree, store, events, given, owed>>

\* Somebody edits the checkout.
Edit ==
    /\ tree' \in Digests \ {tree}
    /\ UNCHANGED <<lockVars, store, job, events, given, owed>>

TimePasses ==
    /\ (\E p \in Proc : Deadline(p)) \/ GrowStale
    /\ UNCHANGED hookVars

-----------------------------------------------------------------------------
Work(p) ==
    \/ WaitForLock(p) \/ HaveLock(p) \/ NoLock(p)
    \/ LoadState(p) \/ SaveState(p) \/ Unlock(p) \/ Emit(p)

Next ==
    \/ \E p \in Proc :
          \/ IgnoreStop(p) \/ StopEvent(p) \/ Work(p)
          \/ StateFails(p) \/ UnlockFails(p) \/ Killed(p)
    \/ Edit
    \/ TimePasses

Spec == Init /\ [][Next]_vars

-----------------------------------------------------------------------------
(* Properties *)

\* state.json tells exactly what was decided: for every retained session, how many
\* contents it was asked about and which one was the last.  With it the cap of
\* five and the comparison with the last digest are about real history.
StoreTellsHistory ==
    ~seized =>
        \A s \in Known(store) :
            /\ store[s].count = Len(given[s])
            /\ store[s].digest = IF given[s] = <<>> THEN NoDigest
                                 ELSE given[s][Len(given[s])]

\* Two stop events, concurrent or not, never ask a session twice in a row about
\* the same content, and never more than MaxNudges times.
CappedAndAlternating ==
    ~seized =>
        \A s \in Sessions :
            /\ Len(given[s]) <= MaxNudges
            /\ \A i \in 1..Len(given[s]) - 1 : given[s][i] # given[s][i + 1]

\* "once per bounded repository-content digest" (docs/preflight-and-continuity.md).
OncePerDigest ==
    \A s \in Sessions : \A i, j \in 1..Len(given[s]) :
        given[s][i] = given[s][j] => i = j

\* An event changes the record of its own session only; a peer's record survives
\* unchanged or is evicted, and eviction happens only at the limit.
PeersKept ==
    [][ ~seized /\ store' # store =>
          \E p \in Proc :
             /\ At(p, "save")
             /\ \A t \in Known(store) \ {session[p]} :
                   \/ store'[t] = store[t]
                   \/ /\ store'[t] = NoRecord
                      /\ Cardinality(Known(store) \cup {session[p]}) > Retained
                      /\ \A u \in Known(store') \ {session[p]} : u > t ]_vars

\* A nudge taken from the session's budget is printed, unless a crash or a failed
\* unlock comes between: the lost ones never outnumber the faults.
SpentNudgesAreShown ==
    LET pending == Cardinality({p \in Proc : verdict[p] = "nudge"})
    IN  pending <= owed /\ owed <= pending + faults

-----------------------------------------------------------------------------
(* The stop hook implements NudgeLedger, where no live holder's lock is broken. *)

Ledger == INSTANCE NudgeLedger WITH asked <- [s \in Known(store) |-> given[s]]

\* Every step of every interleaving is one atomic Ask of the ledger or leaves the
\* ledger alone.
ImplementsLedger ==
    /\ Ledger!Init
    /\ [][ \/ seized'
           \/ Ledger!Next
           \/ UNCHANGED [s \in Known(store) |-> given[s]] ]_<<store, given>>
=============================================================================
