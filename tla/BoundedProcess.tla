---------------------------- MODULE BoundedProcess ----------------------------
(***************************************************************************)
(* run_bounded() of scripts/bounded_process.py on POSIX: the calling thread *)
(* (main), the daemon thread that drains the pipe (reader), and the child   *)
(* with its descendants, which share the pipe and, unless they leave it,    *)
(* the child's process group.                                               *)
(*                                                                         *)
(* A byte is a unit; Chunk stands for the 4096 of read(4096), which, on the *)
(* buffered pipe, returns only when it has them all or at end of file.      *)
(* A reader inside read() holds the lock of the buffered stream, and        *)
(* stdout.close() takes the same lock.  SIGKILL dooms a process at once and *)
(* the kernel ends it, and closes its files, some time later.               *)
(***************************************************************************)
EXTENDS Naturals, FiniteSets

CONSTANTS
    Leader,      \* the child: leader of a new session and process group
    Kin,         \* descendants it may fork
    CanEscape,   \* descendants that may leave the group (setsid)
    MayFailRead, \* whether reading the pipe may raise OSError
    Limit,       \* output_limit
    Chunk,       \* size of one read
    PipeSize,    \* capacity of the pipe
    MaxBytes     \* bound: bytes the whole tree writes

ASSUME BoundedAssumption ==
    /\ Leader \notin Kin /\ IsFiniteSet(Kin) /\ CanEscape \subseteq Kin
    /\ MayFailRead \in BOOLEAN
    /\ Limit \in Nat \ {0} /\ Chunk \in Nat \ {0}
    /\ PipeSize \in Nat \ {0} /\ MaxBytes \in Nat

Tree == {Leader} \cup Kin

VARIABLES
    life,       \* state of each process of the tree
    writers,    \* processes with the write end of the pipe open
    pipe,       \* bytes in the pipe
    written,    \* bytes ever written
    reader,     \* where the reader is
    got,        \* bytes of the read() in progress
    captured,   \* bytes in the captured buffer
    overflow,   \* the overflow event
    failed,     \* the reader_failed event
    main,       \* where the caller is
    timedOut,   \* timed_out
    stuck,      \* reader_stuck
    closed,     \* the caller has closed process.stdout
    result,     \* what run_bounded returned or raised
    shot        \* history: the leader was alive when its group was killed

family == <<life, writers>>
readVars == <<reader, got, captured, overflow, failed>>
mainVars == <<main, timedOut, stuck, closed, result>>
vars == <<family, pipe, written, readVars, mainVars, shot>>

TypeOK ==
    /\ life \in [Tree -> {"unborn", "group", "escaped", "doomed", "dead"}]
    /\ writers \subseteq Tree
    /\ pipe \in 0..PipeSize /\ written \in 0..MaxBytes
    /\ reader \in {"read", "take", "kill", "dead"}
    /\ got \in 0..Chunk /\ captured \in 0..Limit
    /\ overflow \in BOOLEAN /\ failed \in BOOLEAN
    /\ main \in {"wait", "kill", "rewait", "sweep", "join", "close", "rekill",
                 "rejoin", "verdict", "done"}
    /\ timedOut \in BOOLEAN /\ stuck \in BOOLEAN /\ closed \in BOOLEAN
    /\ result \in {"none", "ok", "timeout", "overflow", "oserror", "unreaped"}
    /\ shot \in BOOLEAN

\* Popen has started the leader in a session of its own, and the reader runs.
Init ==
    /\ life = [p \in Tree |-> IF p = Leader THEN "group" ELSE "unborn"]
    /\ writers = {Leader}
    /\ pipe = 0 /\ written = 0
    /\ reader = "read" /\ got = 0 /\ captured = 0
    /\ overflow = FALSE /\ failed = FALSE
    /\ main = "wait" /\ timedOut = FALSE /\ stuck = FALSE /\ closed = FALSE
    /\ result = "none" /\ shot = FALSE

Runs(p) == life[p] \in {"group", "escaped"}
Gone(p) == life[p] = "dead"

\* _terminate_process_tree(): SIGKILL to the group; nothing when it is empty.
Terminate ==
    /\ life' = [p \in Tree |-> IF life[p] = "group" THEN "doomed" ELSE life[p]]
    /\ shot' = (shot \/ life[Leader] = "group")
    /\ UNCHANGED writers

-----------------------------------------------------------------------------
(* The child and its descendants *)

Write(p) ==
    /\ Runs(p) /\ p \in writers /\ ~closed
    /\ pipe < PipeSize /\ written < MaxBytes
    /\ pipe' = pipe + 1 /\ written' = written + 1
    /\ UNCHANGED <<family, readVars, mainVars, shot>>

\* A fork inherits the group, or the session its parent escaped to, and the pipe.
Spawn(p, k) ==
    /\ Runs(p) /\ life[k] = "unborn"
    /\ life' = [life EXCEPT ![k] = life[p]]
    /\ writers' = IF p \in writers THEN writers \cup {k} ELSE writers
    /\ UNCHANGED <<pipe, written, readVars, mainVars, shot>>

Escape(k) ==
    /\ k \in CanEscape /\ life[k] = "group"
    /\ life' = [life EXCEPT ![k] = "escaped"]
    /\ UNCHANGED <<writers, pipe, written, readVars, mainVars, shot>>

\* A process redirects its output elsewhere.
Redirect(p) ==
    /\ Runs(p) /\ p \in writers
    /\ writers' = writers \ {p}
    /\ UNCHANGED <<life, pipe, written, readVars, mainVars, shot>>

Exit(p) ==
    /\ Runs(p)
    /\ life' = [life EXCEPT ![p] = "dead"]
    /\ writers' = writers \ {p}
    /\ UNCHANGED <<pipe, written, readVars, mainVars, shot>>

\* The kernel ends a killed process.
Die(p) ==
    /\ life[p] = "doomed"
    /\ life' = [life EXCEPT ![p] = "dead"]
    /\ writers' = writers \ {p}
    /\ UNCHANGED <<pipe, written, readVars, mainVars, shot>>

-----------------------------------------------------------------------------
(* The reader thread: drain() *)

EndOfFile == pipe = 0 /\ writers = {}

\* read(4096) collects what the pipe has and goes on waiting.
Collect ==
    /\ reader = "read" /\ ~closed /\ pipe > 0 /\ got < Chunk
    /\ got' = got + 1 /\ pipe' = pipe - 1
    /\ UNCHANGED <<family, written, reader, captured, overflow, failed, mainVars, shot>>

\* read() returns a full chunk, or what there was before end of file.
ReadReturns ==
    /\ reader = "read" /\ ~closed
    /\ got = Chunk \/ EndOfFile
    /\ reader' = IF got = 0 THEN "dead" ELSE "take"
    /\ UNCHANGED <<family, pipe, written, got, captured, overflow, failed, mainVars, shot>>

\* OSError from the pipe, or ValueError from a stream the caller has closed.
ReadRaises ==
    /\ reader = "read" /\ (closed \/ MayFailRead)
    /\ failed' = TRUE
    /\ reader' = "kill"
    /\ UNCHANGED <<family, pipe, written, got, captured, overflow, mainVars, shot>>

Room == Limit - captured

Over == got > Room

Take ==
    /\ reader = "take"
    /\ captured' = IF Over THEN Limit ELSE captured + got
    /\ got' = 0
    /\ overflow' = (overflow \/ Over)
    /\ reader' = IF Over THEN "kill" ELSE "read"
    /\ UNCHANGED <<family, pipe, written, failed, mainVars, shot>>

ReaderKills ==
    /\ reader = "kill"
    /\ Terminate
    /\ reader' = "dead"
    /\ UNCHANGED <<pipe, written, got, captured, overflow, failed, mainVars>>

-----------------------------------------------------------------------------
(* The calling thread *)

Proceed(from, to) == main = from /\ main' = to

\* process.wait(timeout) reaps the leader ...
WaitReturns ==
    /\ Proceed("wait", "sweep") /\ Gone(Leader)
    /\ UNCHANGED <<family, pipe, written, readVars, timedOut, stuck, closed, result, shot>>

\* Mutant of WaitTimesOut: the output is read to its end before the deadline counts.
TimesOutAfterOutput ==
    /\ Proceed("wait", "kill") /\ ~Gone(Leader) /\ reader = "dead"
    /\ timedOut' = TRUE
    /\ UNCHANGED <<family, pipe, written, readVars, stuck, closed, result, shot>>

\* ... or the deadline passes.
WaitTimesOut ==
    /\ Proceed("wait", "kill") /\ ~Gone(Leader)
    /\ timedOut' = TRUE
    /\ UNCHANGED <<family, pipe, written, readVars, stuck, closed, result, shot>>

KillAtDeadline ==
    /\ Proceed("kill", "rewait")
    /\ Terminate
    /\ UNCHANGED <<pipe, written, readVars, timedOut, stuck, closed, result>>

Reaped ==
    /\ Proceed("rewait", "sweep") /\ Gone(Leader)
    /\ UNCHANGED <<family, pipe, written, readVars, timedOut, stuck, closed, result, shot>>

\* wait(timeout=5) raises again: the exception leaves run_bounded at once, with
\* the reader running and the stream open.
NotReaped ==
    /\ Proceed("rewait", "done") /\ ~Gone(Leader)
    /\ result' = "unreaped"
    /\ UNCHANGED <<family, pipe, written, readVars, timedOut, stuck, closed, shot>>

\* Mutant of Sweep: only the leader is waited for, its group is left alone.
SweepNothing ==
    /\ Proceed("sweep", "join")
    /\ UNCHANGED <<family, shot>>
    /\ UNCHANGED <<pipe, written, readVars, timedOut, stuck, closed, result>>

\* The group is killed once more, after its leader is reaped.
Sweep ==
    /\ Proceed("sweep", "join")
    /\ Terminate
    /\ UNCHANGED <<pipe, written, readVars, timedOut, stuck, closed, result>>

\* reader.join(timeout=5) returns or expires, and reader_stuck records which.
Join ==
    /\ Proceed("join", "close")
    /\ stuck' = (reader # "dead")
    /\ UNCHANGED <<family, pipe, written, readVars, timedOut, closed, result, shot>>

\* stdout.close() waits for a read() in progress.
Close ==
    /\ Proceed("close", IF stuck THEN "rekill" ELSE "verdict")
    /\ reader # "read"
    /\ closed' = TRUE
    /\ UNCHANGED <<family, pipe, written, readVars, timedOut, stuck, result, shot>>

KillAgain ==
    /\ Proceed("rekill", "rejoin")
    /\ Terminate
    /\ UNCHANGED <<pipe, written, readVars, timedOut, stuck, closed, result>>

\* reader.join(timeout=1), returned or expired.
JoinAgain ==
    /\ Proceed("rejoin", "verdict")
    /\ UNCHANGED <<family, pipe, written, readVars, timedOut, stuck, closed, result, shot>>

\* Mutant of Verdict: a reader that is still alive or failed counts as done.
VerdictWithoutReader ==
    /\ Proceed("verdict", "done")
    /\ result' = IF timedOut THEN "timeout" ELSE IF overflow THEN "overflow" ELSE "ok"
    /\ UNCHANGED <<family, pipe, written, readVars, timedOut, stuck, closed, shot>>

Verdict ==
    /\ Proceed("verdict", "done")
    /\ result' = IF timedOut THEN "timeout"
                 ELSE IF overflow THEN "overflow"
                 ELSE IF failed \/ reader # "dead" THEN "oserror"
                 ELSE "ok"
    /\ UNCHANGED <<family, pipe, written, readVars, timedOut, stuck, closed, shot>>

-----------------------------------------------------------------------------
Child ==
    \E p \in Tree :
        \/ Write(p) \/ Escape(p) \/ Redirect(p) \/ Exit(p)
        \/ \E k \in Kin : Spawn(p, k)
Reader == Collect \/ ReadReturns \/ Take \/ ReaderKills
Caller ==
    \/ WaitReturns \/ KillAtDeadline \/ Reaped \/ NotReaped \/ Sweep \/ Join
    \/ Close \/ KillAgain \/ JoinAgain \/ Verdict

Next ==
    \/ Child \/ (\E p \in Tree : Die(p))
    \/ Reader \/ ReadRaises
    \/ Caller \/ WaitTimesOut

Spec == Init /\ [][Next]_vars

\* The threads run and the kernel ends what is killed.  Nothing is assumed of
\* the child: it may run, or write, for ever.
Threads ==
    /\ WF_vars(Reader) /\ WF_vars(ReadRaises /\ closed) /\ WF_vars(Caller)
    /\ \A p \in Tree : WF_vars(Die(p))

\* The deadline passes.
FairSpec == Spec /\ Threads /\ WF_vars(WaitTimesOut)

-----------------------------------------------------------------------------
(* Properties *)

\* When the call is over, no process of the child's group runs on.
GroupIsGone ==
    main = "done" /\ result # "unreaped" => \A p \in Tree : life[p] # "group"

\* A result without an exception is the whole output of a child that ended by
\* itself: no byte was dropped and no bound cut it short.
OkIsWhole ==
    result = "ok" =>
        /\ captured = written /\ EndOfFile
        /\ ~shot /\ ~overflow /\ ~failed

\* The call returns, whatever the child does.
CallReturns == <>(main = "done")

\* As long as every descendant stays in the process group, the deadline is enough
\* for the call to return.
ReturnsUnlessEscaped == <>(main = "done" \/ \E p \in Tree : life[p] = "escaped")
=============================================================================
