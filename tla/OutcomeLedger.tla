---------------------------- MODULE OutcomeLedger ----------------------------
(***************************************************************************)
(* The outcome ledger of scripts/outcome_review.py: append(), history() and *)
(* review(), used by several agents and hosts on one file.                  *)
(*                                                                         *)
(* append() takes a lock file with O_CREAT | O_EXCL that is never broken,   *)
(* reads and checks the whole ledger, and writes one line: open, flush,     *)
(* fsync.  The lines are a hash chain; SHA-256 is taken as injective, so    *)
(* the head an author names stands for everything the author has seen, and  *)
(* `head` holds just that (recorded_at is left out, so that two ledgers of   *)
(* the same events have one head here).  Rendering takes no lock.           *)
(*                                                                         *)
(* fsync is of the file; nobody syncs its directory.  So the lines of a new *)
(* file may be durable while its name is not, and a power loss can take the *)
(* whole file.  What is said of acknowledged records is said of the file    *)
(* that is there.                                                           *)
(***************************************************************************)
EXTENDS Naturals, Sequences, FiniteSets, SequencesExt

CONSTANTS
    Writers,      \* agents and hosts
    Free,         \* owner of a lock file that does not exist
    Gates,        \* gate names
    Events,       \* the events they may append
    MaxAttempts,  \* max_attempts of the contract
    MaxEvents,    \* records in a ledger (500)
    MaxFaults     \* bound: crashes, power losses and failed calls

Kinds == {"candidate", "failed", "passed", "other"}
Event == [kind : Kinds, gates : SUBSET Gates]
Contract == [kind |-> "contract", gates |-> {}]

ASSUME LedgerAssumption ==
    /\ Free \notin Writers
    /\ Events \subseteq Event
    /\ MaxAttempts \in Nat /\ MaxEvents \in Nat /\ MaxFaults \in Nat

VARIABLES
    exists,   \* the ledger file exists
    entry,    \* its name in the directory is durable
    ledger,   \* its complete lines; basis is how many records the author had seen
    torn,     \* bytes of an incomplete line follow them
    synced,   \* how many of the lines fsync has made durable
    lock,     \* who made the lock file
    pc,       \* where each writer is in append()
    event,    \* what it wants to append
    head,     \* the records it has seen, named by the head it expects
    reply,    \* the answer to its last call
    acked,    \* history: the records of this file up to the last acknowledged one
    hurt,     \* history: an author was stopped in the middle of its line, or power was lost
    faults    \* crashes, power losses and failed calls so far

file == <<exists, entry, ledger, torn, synced>>
locals == <<pc, event, head, reply>>
vars == <<file, lock, locals, acked, hurt, faults>>

Line == [kind : Kinds \cup {"contract"}, gates : SUBSET Gates, basis : Nat]
Inside == {"check", "open", "write", "rest", "sync", "ack", "refuse"}

TypeOK ==
    /\ exists \in BOOLEAN /\ entry \in BOOLEAN /\ torn \in BOOLEAN /\ hurt \in BOOLEAN
    /\ ledger \in Seq(Line) /\ Len(ledger) <= MaxEvents
    /\ acked \in Seq(Line)
    /\ synced \in Nat
    /\ lock \in Writers \cup {Free}
    /\ pc \in [Writers -> {"idle", "lock"} \cup Inside]
    /\ event \in [Writers -> Events \cup {Contract}]
    /\ head \in [Writers -> Seq(Line)]
    /\ reply \in [Writers -> {"none", "ok", "no_gate"}]
    /\ faults \in 0..MaxFaults

Init ==
    /\ exists = FALSE /\ entry = FALSE /\ ledger = <<>> /\ torn = FALSE /\ synced = 0
    /\ lock = Free
    /\ pc = [w \in Writers |-> "idle"]
    /\ event = [w \in Writers |-> Contract]
    /\ head = [w \in Writers |-> <<>>]
    /\ reply = [w \in Writers |-> "none"]
    /\ acked = <<>> /\ hurt = FALSE /\ faults = 0

Goto(w, place) == pc' = [pc EXCEPT ![w] = place]
Answer(w, what) == reply' = [reply EXCEPT ![w] = what]
Fault == faults < MaxFaults /\ faults' = faults + 1

-----------------------------------------------------------------------------
(* Reading *)

\* The failures review() still shows: a fold over the events.
StepFailures(open, line) ==
    IF line.kind = "passed" THEN open \ line.gates ELSE open \cup line.gates

\* Mutant of OpenFailures: a candidate or any other event starts the list again.
LastFailures(lines) ==
    FoldLeft(LAMBDA open, line :
                IF line.kind \in {"candidate", "other"} THEN line.gates
                ELSE StepFailures(open, line),
             {}, lines)

OpenFailures(lines) == FoldLeft(StepFailures, {}, lines)

\* history() refuses an incomplete tail, review() an empty ledger; there is no lock.
Render(w) ==
    /\ pc[w] = "idle"
    /\ IF torn \/ ledger = <<>>
          THEN Answer(w, "no_gate") /\ UNCHANGED head
          ELSE Answer(w, "ok") /\ head' = [head EXCEPT ![w] = ledger]
    /\ UNCHANGED <<file, lock, pc, event, acked, hurt, faults>>

-----------------------------------------------------------------------------
(* append() *)

Call(w) ==
    /\ pc[w] = "idle"
    /\ \E e \in Events \cup {Contract} : event' = [event EXCEPT ![w] = e]
    /\ Goto(w, "lock") /\ Answer(w, "none")
    /\ UNCHANGED <<file, lock, head, acked, hurt, faults>>

\* Mutant of OpenLock: without O_EXCL.
OpenLockAnyway(w) ==
    /\ pc[w] = "lock"
    /\ lock' = w
    /\ Goto(w, "check")
    /\ UNCHANGED <<file, event, head, reply, acked, hurt, faults>>

OpenLock(w) ==
    /\ pc[w] = "lock" /\ lock = Free
    /\ lock' = w
    /\ Goto(w, "check")
    /\ UNCHANGED <<file, event, head, reply, acked, hurt, faults>>

\* FileExistsError: a concurrent writer is refused, not queued.
LockRefused(w) ==
    /\ pc[w] = "lock" /\ lock # Free
    /\ Goto(w, "idle") /\ Answer(w, "no_gate")
    /\ UNCHANGED <<file, lock, event, head, acked, hurt, faults>>

Attempts(lines) == Cardinality({i \in 1..Len(lines) : lines[i].kind = "candidate"})

\* Mutants of Admissible: one check left out or off by one in each.
AdmissibleTorn(w) ==
    /\ Len(ledger) < MaxEvents
    /\ IF event[w] = Contract THEN ~exists
       ELSE /\ ledger # <<>> /\ head[w] = ledger
            /\ event[w].kind = "candidate" => Attempts(ledger) < MaxAttempts
AdmissibleStale(w) ==
    /\ ~torn /\ Len(ledger) < MaxEvents
    /\ IF event[w] = Contract THEN ~exists
       ELSE /\ ledger # <<>>
            /\ event[w].kind = "candidate" => Attempts(ledger) < MaxAttempts
AdmissibleOneMore(w) ==
    /\ ~torn /\ Len(ledger) < MaxEvents
    /\ IF event[w] = Contract THEN ~exists
       ELSE /\ ledger # <<>> /\ head[w] = ledger
            /\ event[w].kind = "candidate" => Attempts(ledger) <= MaxAttempts

\* history() accepts the file, the ledger is not full, and either there is no file
\* and this is the contract, or the author expects the present head and has an
\* attempt left.
Admissible(w) ==
    /\ ~torn /\ Len(ledger) < MaxEvents
    /\ IF event[w] = Contract THEN ~exists
       ELSE /\ ledger # <<>> /\ head[w] = ledger
            /\ event[w].kind = "candidate" => Attempts(ledger) < MaxAttempts

Check(w) ==
    /\ pc[w] = "check"
    /\ Goto(w, IF Admissible(w) THEN "open" ELSE "refuse")
    /\ UNCHANGED <<file, lock, event, head, reply, acked, hurt, faults>>

\* The record is too long, or the file would be: refused before it is opened.
TooLarge(w) ==
    /\ pc[w] = "check"
    /\ Goto(w, "refuse")
    /\ UNCHANGED <<file, lock, event, head, reply, acked, hurt, faults>>

\* open("ab") makes the file when there is none.
OpenFile(w) ==
    /\ pc[w] = "open"
    /\ exists' = TRUE
    /\ Goto(w, "write")
    /\ UNCHANGED <<entry, ledger, torn, synced, lock, event, head, reply, acked, hurt, faults>>

NewLine(w) ==
    [kind |-> event[w].kind, gates |-> event[w].gates,
     basis |-> IF event[w] = Contract THEN 0 ELSE Len(head[w])]

Complete(w) == ledger' = Append(ledger, NewLine(w)) /\ torn' = FALSE

\* flush() has handed the system a part of the line ...
WriteSome(w) ==
    /\ pc[w] = "write"
    /\ torn' = TRUE
    /\ Goto(w, "rest")
    /\ UNCHANGED <<exists, entry, ledger, synced, lock, event, head, reply, acked, hurt, faults>>

\* ... or all of it.
WriteAll(w) ==
    /\ pc[w] \in {"write", "rest"}
    /\ Complete(w)
    /\ Goto(w, "sync")
    /\ UNCHANGED <<exists, entry, synced, lock, event, head, reply, acked, hurt, faults>>

\* write() fails.  Closing the stream flushes once more, which may still complete
\* the line; the call is refused in either case.
WriteFails(w) ==
    /\ pc[w] \in {"write", "rest"}
    /\ Fault
    /\ \/ Complete(w) /\ UNCHANGED hurt
       \/ UNCHANGED <<ledger, torn>> /\ hurt' = TRUE
    /\ Goto(w, "refuse")
    /\ UNCHANGED <<exists, entry, synced, lock, event, head, reply, acked>>

\* Mutant of Sync: flush without fsync.
SyncSkipped(w) ==
    /\ pc[w] = "sync"
    /\ Goto(w, "ack")
    /\ UNCHANGED <<file, lock, event, head, reply, acked, hurt, faults>>

Sync(w) ==
    /\ pc[w] = "sync"
    /\ synced' = Len(ledger)
    /\ Goto(w, "ack")
    /\ UNCHANGED <<exists, entry, ledger, torn, lock, event, head, reply, acked, hurt, faults>>

\* fsync fails: the line is in the file, the caller is told NO_GATE.
SyncFails(w) ==
    /\ pc[w] = "sync"
    /\ Fault
    /\ Goto(w, "refuse")
    /\ UNCHANGED <<file, lock, event, head, reply, acked, hurt>>

\* The finally block, and the answer; the printed record is the author's new head.
Finish(w) ==
    /\ pc[w] \in {"ack", "refuse"}
    /\ lock' = Free
    /\ Goto(w, "idle")
    /\ IF pc[w] = "ack"
          THEN Answer(w, "ok") /\ head' = [head EXCEPT ![w] = ledger] /\ acked' = ledger
          ELSE Answer(w, "no_gate") /\ UNCHANGED <<head, acked>>
    /\ UNCHANGED <<file, event, hurt, faults>>

-----------------------------------------------------------------------------
(* The environment *)

\* The process is killed; its lock file and what it has written stay.
Crash(w) ==
    /\ pc[w] # "idle"
    /\ Fault
    /\ Goto(w, "idle")
    /\ hurt' = (hurt \/ pc[w] \in {"write", "rest"})
    /\ UNCHANGED <<file, lock, event, head, reply, acked>>

\* The system has written the directory, as it may at any time.
EntryWritten ==
    /\ exists /\ ~entry
    /\ entry' = TRUE
    /\ UNCHANGED <<exists, ledger, torn, synced, lock, locals, acked, hurt, faults>>

PowerGone == Fault /\ pc' = [w \in Writers |-> "idle"] /\ lock' \in {lock, Free}

\* Every process dies; of the lines that no fsync covered any number may be lost, and the
\* next one may survive in part.  The file that is found again is in its directory.
PowerLoss ==
    /\ PowerGone
    /\ \E n \in synced..Len(ledger) :
          /\ ledger' = SubSeq(ledger, 1, n)
          /\ torn' \in (IF n < Len(ledger) \/ torn THEN BOOLEAN ELSE {FALSE})
    /\ entry' = exists /\ hurt' = TRUE
    /\ UNCHANGED <<exists, synced, event, head, reply, acked>>

\* Or the file is not found again, with what was acknowledged in it.
PowerLossOfFile ==
    /\ PowerGone
    /\ exists /\ ~entry
    /\ exists' = FALSE /\ ledger' = <<>> /\ torn' = FALSE /\ synced' = 0
    /\ acked' = <<>> /\ hurt' = FALSE
    /\ UNCHANGED <<entry, event, head, reply>>

\* Somebody removes a lock file whose process is gone.
ClearLock ==
    /\ lock # Free /\ pc[lock] = "idle"
    /\ lock' = Free
    /\ UNCHANGED <<file, locals, acked, hurt, faults>>

\* The explicit reviewed recovery: the incomplete tail is set aside.
Recover ==
    /\ torn /\ \A w \in Writers : pc[w] = "idle"
    /\ torn' = FALSE
    /\ hurt' = (hurt /\ ledger = <<>>)
    /\ UNCHANGED <<exists, entry, ledger, synced, lock, locals, acked, faults>>

-----------------------------------------------------------------------------
Step(w) ==
    \/ Render(w) \/ Call(w) \/ OpenLock(w) \/ LockRefused(w) \/ Check(w) \/ TooLarge(w)
    \/ OpenFile(w) \/ WriteSome(w) \/ WriteAll(w) \/ Sync(w) \/ Finish(w)
Failure(w) == WriteFails(w) \/ SyncFails(w) \/ Crash(w)

Next ==
    \/ \E w \in Writers : Step(w) \/ Failure(w)
    \/ EntryWritten \/ PowerLoss \/ PowerLossOfFile \/ ClearLock \/ Recover

Spec == Init /\ [][Next]_vars

-----------------------------------------------------------------------------
(* Properties *)

\* The first record is the contract, the only one, and every later record was
\* written by an author who had seen exactly the records before it.
InSequence ==
    \A i \in 1..Len(ledger) :
        /\ ledger[i].basis = i - 1
        /\ ledger[i].kind = "contract" <=> i = 1

\* "Candidate creation is capped across handoffs", however many hosts race.
AttemptsCapped == Attempts(ledger) <= MaxAttempts

\* An acknowledged record, and all before it, survive crashes and power losses as long as the
\* file they are in does: its directory is never synced, and only PowerLossOfFile takes it.
AckedSurvives == IsPrefix(acked, ledger)

\* "A host-switch event cannot clear failures": a gate is open exactly when some
\* event named it and no later passing event did.
FailuresStayOpen ==
    \A g \in Gates :
        g \in OpenFailures(ledger) <=>
            \E i \in 1..Len(ledger) :
                /\ g \in ledger[i].gates /\ ledger[i].kind # "passed"
                /\ \A j \in i + 1..Len(ledger) :
                      ~(g \in ledger[j].gates /\ ledger[j].kind = "passed")

\* Unless an author was stopped in the middle of its line or power was lost, a ledger without
\* a lock is one that the next append accepts: complete, and not an empty file.  Authors killed
\* elsewhere, failed fsyncs and locks that people removed for the dead do no harm; and a tail
\* that was set aside leaves none.
CleanWhenFree ==
    ~hurt /\ lock = Free => ~torn /\ (exists <=> ledger # <<>>)

\* Nothing is appended behind an incomplete tail, except its own rest.
TornIsFrozen ==
    [][ torn /\ Len(ledger') > Len(ledger) => \E w \in Writers : pc[w] = "rest" ]_vars
=============================================================================
