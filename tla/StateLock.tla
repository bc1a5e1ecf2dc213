------------------------------ MODULE StateLock ------------------------------
(***************************************************************************)
(* state_lock() of scripts/self_review_hook.py: the lock file that          *)
(* serializes the stop events of concurrent hosts.                         *)
(*                                                                         *)
(* A process is one hook invocation at a time.  It opens state.lock with    *)
(* O_CREAT | O_EXCL; when the file exists it looks at the file's age, and   *)
(* either unlinks a file older than STALE_LOCK_SECONDS or sleeps until      *)
(* LOCK_WAIT_SECONDS are over.  open, stat and unlink are separate system   *)
(* calls, so each is an action, and other processes run between them.      *)
(* The file carries no identity that anyone compares: both the breaker and *)
(* the releasing holder unlink whatever file has the name.                 *)
(***************************************************************************)
EXTENDS Naturals, FiniteSets

CONSTANTS
    Proc,       \* the hook processes
    Nobody,     \* owner of a lock file that does not exist
    Slow,       \* processes that may hold the lock beyond STALE_LOCK_SECONDS
    MaxFaults   \* bound: crashes and failed system calls in a behaviour

ASSUME LockAssumption ==
    /\ Nobody \notin Proc
    /\ Slow \subseteq Proc
    /\ MaxFaults \in Nat

VARIABLES
    lockOwner,  \* the process that created the file now named state.lock
    lockStale,  \* that file's mtime is older than STALE_LOCK_SECONDS
    pc,         \* where each process is in state_lock()
    late,       \* the process's LOCK_WAIT_SECONDS deadline has passed
    faults,     \* crashes and failed calls so far
    seized      \* history: a breaker has unlinked the file of a live holder

lockVars == <<lockOwner, lockStale, pc, late, faults, seized>>

\* Places in the loop of state_lock(), then its body, then outside of it.
Waiting == {"open", "stat", "break", "deadline"}
Place == Waiting \cup {"held", "away"}

LockTypeOK ==
    /\ lockOwner \in Proc \cup {Nobody}
    /\ lockStale \in BOOLEAN
    /\ pc \in [Proc -> Place]
    /\ late \in [Proc -> BOOLEAN]
    /\ faults \in 0..MaxFaults
    /\ seized \in BOOLEAN

LockInit ==
    /\ lockOwner = Nobody
    /\ lockStale = FALSE
    /\ pc = [p \in Proc |-> "away"]
    /\ late = [p \in Proc |-> FALSE]
    /\ faults = 0
    /\ seized = FALSE

Goto(p, place) == pc' = [pc EXCEPT ![p] = place]
Fault == faults < MaxFaults /\ faults' = faults + 1
NoFile == lockOwner' = Nobody /\ lockStale' = FALSE
SameFile == UNCHANGED <<lockOwner, lockStale>>

-----------------------------------------------------------------------------
(* The acquisition loop *)

\* The deadline is set once, before the loop.
Enter(p) ==
    /\ pc[p] = "away"
    /\ Goto(p, "open")
    /\ late' = [late EXCEPT ![p] = FALSE]
    /\ UNCHANGED <<faults, seized>> /\ SameFile

\* Mutant of Create: open without O_EXCL.
CreateAnyway(p) ==
    /\ pc[p] = "open"
    /\ lockOwner' = p /\ lockStale' = FALSE
    /\ Goto(p, "held")
    /\ UNCHANGED <<late, faults, seized>>

\* os.open(O_CREAT | O_EXCL) made the file and the pid was written to it.
Create(p) ==
    /\ pc[p] = "open" /\ lockOwner = Nobody
    /\ lockOwner' = p /\ lockStale' = FALSE
    /\ Goto(p, "held")
    /\ UNCHANGED <<late, faults, seized>>

\* The file was made and os.write failed (ENOSPC, EIO): the exception leaves
\* the loop before the try/finally, so nobody unlinks the file.
PidWriteFails(p) ==
    /\ pc[p] = "open" /\ lockOwner = Nobody
    /\ Fault
    /\ lockOwner' = p /\ lockStale' = FALSE
    /\ Goto(p, "away")
    /\ UNCHANGED <<late, seized>>

\* EEXIST.
OpenRefused(p) ==
    /\ pc[p] = "open" /\ lockOwner # Nobody
    /\ Goto(p, "stat")
    /\ UNCHANGED <<late, faults, seized>> /\ SameFile

\* The age test; a file that is gone by now counts as fresh.
Stat(p) ==
    /\ pc[p] = "stat"
    /\ Goto(p, IF lockOwner # Nobody /\ lockStale THEN "break" ELSE "deadline")
    /\ UNCHANGED <<late, faults, seized>> /\ SameFile

\* unlink() by name of a file found stale earlier, then `continue`: neither the
\* file's age nor the deadline is looked at again.
Break(p) ==
    /\ pc[p] = "break"
    /\ seized' = (seized \/ (lockOwner # Nobody /\ pc[lockOwner] = "held"))
    /\ NoFile
    /\ Goto(p, "open")
    /\ UNCHANGED <<late, faults>>

\* The unlink failed and the OSError was swallowed.
BreakFails(p) ==
    /\ pc[p] = "break"
    /\ Fault
    /\ Goto(p, "open")
    /\ UNCHANGED <<late, seized>> /\ SameFile

\* Mutant of Timeout: the deadline is tested but the loop goes on.
TimeoutRetries(p) ==
    /\ pc[p] = "deadline" /\ late[p]
    /\ Goto(p, "open")
    /\ UNCHANGED <<late, faults, seized>> /\ SameFile

\* Mutant of Timeout: the finally block also covers the loop.
TimeoutUnlinks(p) ==
    /\ pc[p] = "deadline" /\ late[p]
    /\ NoFile
    /\ Goto(p, "away")
    /\ UNCHANGED <<late, faults, seized>>

Timeout(p) ==
    /\ pc[p] = "deadline" /\ late[p]
    /\ Goto(p, "away")
    /\ UNCHANGED <<late, faults, seized>> /\ SameFile

Sleep(p) ==
    /\ pc[p] = "deadline" /\ ~late[p]
    /\ Goto(p, "open")
    /\ UNCHANGED <<late, faults, seized>> /\ SameFile

-----------------------------------------------------------------------------
(* Leaving the body of the with statement *)

\* Mutant of Release: the descriptor is closed and the file stays.
ReleaseClosesOnly(p) ==
    /\ pc[p] = "held"
    /\ Goto(p, "away")
    /\ UNCHANGED <<late, faults, seized>> /\ SameFile

\* finally: close, then unlink whatever file has the name.
Release(p) ==
    /\ pc[p] = "held"
    /\ NoFile
    /\ Goto(p, "away")
    /\ UNCHANGED <<late, faults, seized>>

\* The unlink raised something other than FileNotFoundError.
ReleaseFails(p) ==
    /\ pc[p] = "held" /\ lockOwner # Nobody
    /\ Fault
    /\ Goto(p, "away")
    /\ UNCHANGED <<late, seized>> /\ SameFile

-----------------------------------------------------------------------------
(* The environment *)

\* The process is killed; the files it made stay.
Crash(p) ==
    /\ pc[p] # "away"
    /\ Fault
    /\ Goto(p, "away")
    /\ UNCHANGED <<late, seized>> /\ SameFile

\* LOCK_WAIT_SECONDS pass for p.
Deadline(p) ==
    /\ pc[p] \in Waiting /\ ~late[p]
    /\ late' = [late EXCEPT ![p] = TRUE]
    /\ UNCHANGED <<pc, faults, seized>> /\ SameFile

\* STALE_LOCK_SECONDS pass since the file was written.
GrowStale ==
    /\ lockOwner # Nobody /\ ~lockStale
    /\ pc[lockOwner] = "held" => lockOwner \in Slow
    /\ lockStale' = TRUE
    /\ UNCHANGED <<lockOwner, pc, late, faults, seized>>

-----------------------------------------------------------------------------
\* One pass of the loop that fails, or a fault in it.
Acquire(p) ==
    \/ OpenRefused(p) \/ Stat(p) \/ Break(p) \/ Sleep(p) \/ Timeout(p)
Misfortune(p) ==
    PidWriteFails(p) \/ BreakFails(p) \/ ReleaseFails(p) \/ Crash(p)

LockNext ==
    \/ \E p \in Proc :
          \/ Enter(p) \/ Create(p) \/ Acquire(p) \/ Release(p)
          \/ Misfortune(p) \/ Deadline(p)
    \/ GrowStale

LockSpec == LockInit /\ [][LockNext]_lockVars

\* A runnable process runs, and clocks advance.  No host has to start one, and
\* nothing has to fail.
LockFairness ==
    \A p \in Proc :
        /\ WF_lockVars(Create(p) \/ Acquire(p))
        /\ WF_lockVars(Release(p))
        /\ WF_lockVars(Deadline(p))

FairLockSpec == LockSpec /\ LockFairness

-----------------------------------------------------------------------------
(* Properties *)

\* "Serialize checkpoint updates across concurrent host events": at most one
\* process is in the body of state_lock().
MutualExclusion ==
    \A p, q \in Proc : pc[p] = "held" /\ pc[q] = "held" => p = q

\* As long as nothing has failed and no holder is slower than STALE_LOCK_SECONDS,
\* the bodies exclude each other: the break path is never taken.
FaultFreeExclusion == faults = 0 /\ Slow = {} => MutualExclusion

\* Whatever crashes or stalls, exclusion is only ever lost through a breaker that
\* unlinked a live holder's file: until then each holder's own file is there.
HoldersOwnTheFile ==
    ~seized => \A p \in Proc : pc[p] = "held" => lockOwner = p

\* Without faults the file exists exactly while its creator holds the lock, so
\* no invocation leaves work behind for the stale-file path.
NoFileLeftBehind ==
    faults = 0 /\ ~seized /\ lockOwner # Nobody => pc[lockOwner] = "held"

\* No wait in the loop is endless: each ends in the body, in the TimeoutError of
\* the wait budget, or in a crash.  It is meant for Slow = {}: a waiter that finds one stale
\* file of a slow holder after the other goes round without the deadline test.
WaitsEnd == \A p \in Proc : pc[p] \in Waiting ~> pc[p] \notin Waiting
=============================================================================
