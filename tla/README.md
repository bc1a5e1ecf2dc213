# Verification of coding-agent-setup

TLA+ models of the stateful Python programs of this repository (`src/scripts/`), the TLC
runs that check them on small instances, and TLAPS proofs for every value of their
constants. Run everything inside this directory: `tlc -config X.cfg M` for a run listed in
`PROJECT.json`, `tlapm M.tla` for a proof module.

## 1. The system

The kit installs rules, skills and hooks into other projects and runs small tools there.
There is no server: every program is a short process started by a coding agent (a "host"),
a person or CI. Several of them run at once on one checkout, they share files, and each
can be killed at any moment. What can go wrong lies in the file system between them.

| Component | State it keeps | Operations | Shared with | Model |
|---|---|---|---|---|
| state lock (`self_review_hook.py:436-470`) | `state.lock`, its owner and age | acquire, break a stale file, time out, release | all hosts on the checkout | `StateLock` |
| stop event (`self_review_hook.py:384-435, 519-601`) | `state.json`: per session a count and a digest | load, decide, evict, save, print | all hosts; the lock | `SelfReviewHook`, `NudgeLedger` |
| checkpoints (`self_review_hook.py:473-516`) | `CHECKPOINT.md` | replace at pre-compact, read at start | all hosts, without the lock | `Checkpoint`, `HookEvents` |
| bounded process (`bounded_process.py`) | process tree, pipe, buffer, flags | run, drain, kill, reap, join, close | reader thread, caller, child, descendants | `BoundedProcess` |
| outcome ledger (`outcome_review.py`) | append-only JSONL file, lock file | initialize, append, render | authors on several hosts | `OutcomeLedger` |
| skill sync (`sync_skills.py`) | canonical skills, generated copies, stage directories | sync, forced sync, remove | several runs, people who edit both sides | `SkillSync` |
| project setup (`setup_project.py`) | the target's files, the receipt | plan, apply, resume | several runs, people who edit target, kit and branch | `SetupApply` |
| agent-state validator (`validate_agent_state.py`) | none; judges the receipt and the handoff snapshots that agents write | validate | agents on several hosts | `AgentRoute` |
| schema versions (`agent_preflight.py:195-433`) | none; reads a schema, its committed form and that of the parents | check, one Git process per form | people who commit, switch and edit | `ShapeVersion`, `GitRepo` |
| preflight (`agent_preflight.py`) | read budget, status, artifacts as they were | seven checks, self-tests, visual command | the commands it runs, people who edit, restore and review | `Preflight` |
| private history check (`check_private_history.py`) | lists of refs, commits, paths, objects | list, read object by object | people who commit and move refs | `HistoryScan`, `GitRepo` |
| branch stack check (`check_branch_stack.py`) | none | one merge-base per pair | people who commit and move refs | `BranchStack`, `GitRepo` |
| learning bootstrap, skill receipts, preflight mutation proof, deployment profile, path safety, doctor, repository validation | none, or one result that is written once | pure checks | - | not modelled (section 5) |

How they interact: the stop event calls the state lock and nothing else; checkpoints share
the checkout but no file with it; the preflight, the history check and the mutation proof
run their commands through `run_bounded()`; `setup` creates the canonical skills and their
mirrors that `sync` later compares; `doctor` reads what `setup` made; the schema check, the
history check and the stack check judge one Git repository and write nothing. The models compose where
state is shared: `SelfReviewHook` EXTENDS `StateLock` and each of its lock steps is an action
of that module; `HookEvents` puts stop events and checkpoints behind one `main()`;
`ShapeVersion`, `HistoryScan` and `BranchStack` EXTEND one `GitRepo`, and `Gates` composes
them with `Preflight`. The other components share no state with each other while they run.

### Hard behaviours, and what makes each component correct

* **State lock.** A lock file names nobody that a waiter can check, so it is broken by age.
  Correct: bodies exclude each other as long as nothing has failed; whatever fails, a
  holder's file is only ever lost to a breaker; no file is left behind without a failure;
  nobody waits for ever.
* **Stop event.** The digest is taken before the lock, the nudge is counted before it is
  printed, records are evicted at a limit. Correct: `state.json` tells the real history of
  questions; caps hold across hosts; peers' records survive; every interleaving is a
  sequence of atomic steps of an abstract ledger.
* **Checkpoints.** `CHECKPOINT.md` is replaced and read by hosts that do not exclude each
  other, and a writer may fail or be killed at each step. Correct: a session that starts gets what
  was kept, whole; no kept checkpoint is lost to an event that was over before it began.
* **Bounded process.** Three actors share the process tree, the pipe and the stream's lock.
  Correct: the process group is gone when the call ends; a result without an exception is
  the whole output; the call returns at the deadline.
* **Outcome ledger.** Several authors, partial lines, failing `fsync`, power loss. Correct:
  every record rests on exactly the records before it; the attempt cap holds across
  authors; acknowledged records are lost only with the whole file; nothing is written behind
  a broken line; a lock that was removed for a dead author leaves a usable ledger; the rendered list of open failures is the one the history justifies.
* **Skill sync.** Trees are read and copied file by file while people edit; a replacement
  needs two renames with nothing between them. Correct: only whole states are installed;
  the last copy is never lost; divergent copies are not touched without `--force`.
* **Setup.** Plans go stale; receipts must survive crashes; two runs see each other's
  half-written files. Correct: nobody's bytes are replaced; the receipt covers everything
  created, and only what was selected; what it and the final status say is true; runs do not
  all defeat each other.
* **Agent-state validator.** A receipt grows by many hands: routes with repair loops, worker
  receipts, host switches, a verdict. Correct: nothing is delivered whose last work was not
  reviewed; what is accepted was acceptable at every earlier point and is no dead end;
  handoffs are what was handed over.
* **Preflight.** Seven checks read one tree one after the other, share one read budget, and
  start commands that write. Correct: a PASS is about one tree, has read everything, and its
  artifacts are its own.
* **Schema versions.** The check compares one generation and its three reads are three moments.
  Correct: along accepted commits a version names one shape, over many generations and merges.
* **History check and branch stack.** A repository is looked at with many Git processes while
  branches move, are rebased and reset. Correct: after a PASS nothing private can be reached
  that could be reached all along; pairs that were never seen together add up to a stack.

The hazards, each at its line and with the properties that watch it, are in `PROJECT.json`.

## 2. Modules

Every module states in its header what it abstracts. `PROJECT.json` maps each definition to
its lines. Definitions that begin with "Mutant of" are plausible bugs of the definition
that follows them; the next-state relations do not use them.

### StateLock - `state_lock()`

One action per system call: `Create` (`os.open(O_CREAT|O_EXCL)` and the pid write),
`PidWriteFails`, `OpenRefused`, `Stat` (the file's age; a file that has gone is retried),
`Break` (unlink by name), `BreakFails`, `Sleep`, `Timeout`, `Release`, `ReleaseFails`,
`Crash`. `lockOwner` is the creator of the file, which the code does not keep: it is there
to say whose file an unlink removes. `seized` is history: a breaker removed the file of a
live holder. Time is abstract: `Deadline` and `GrowStale` may happen when the code's
constants (2 s of waiting, 10 s of age) allow. `Slow` are processes that may stay in the
body longer than 10 s; a holder that is not slow finishes before its file is stale. In the
run `hook_safe` every process may be slow.

### NudgeLedger and SelfReviewHook - the stop event

`NudgeLedger` is the promise, without files or processes: a session is asked at most
`MaxNudges` times, never twice in a row about the same content, and forgotten only at the
retention limit. `SelfReviewHook` is the handler: digest and session key before the lock
(`StopEvent`), the lock's steps, `LoadState`, `SaveState` (decision, eviction in key order,
atomic replace), `Unlock`, `Emit`; `StateFails`, `UnlockFails`, `Killed`. `given` (every
question decided, per session) and `owed` (questions counted and not yet printed) are history. The refinement
mapping is `asked <- given` restricted to the retained sessions (`Ledger`).

### Checkpoint and HookEvents - `write_checkpoint()`, `start_output()`

One action per system call of a pre-compact event (`CreateTemp`, `WriteTemp`, `ReplaceCheckpoint`,
`Reported`) and of a session start (`LookForFile`, `OpenFile`, `ReadFileBack`, which compares
the open file with the one of that name, as `read_regular_file_bounded()` does, and refuses
what `CHECKPOINT_PATTERN` does not match); `CheckpointFails` and `CheckpointKilled` may happen at each of them. A
checkpoint stands for the event that wrote it. `over`, `kept`, `earlier`, `expected` and
`disturbed` are history. `HookEvents` has stop events or checkpoints in a behaviour, since
the two kinds share no file.

### BoundedProcess - `run_bounded()` and `drain()`

The caller's program counter `main` runs through wait, kill, second wait, sweep, join,
close, second kill, second join and verdict; the reader's through read, take, kill. `Collect`
is the buffered `read(4096)` that returns only with a full chunk or at end of file, and
holds the stream's lock meanwhile: `Close` waits for it. The child tree is adversarial: it
spawns, writes, redirects its output, leaves the group (`CanEscape`), exits or runs for
ever. The Windows job object is not modelled.

### OutcomeLedger - `history()`, `append()`, `review()`

The file is `ledger` (complete lines) and `torn` (whether an incomplete one follows);
`synced` counts the lines that an `fsync` covered; a power loss may drop the others
(`PowerLoss`). The code syncs the file and never its directory, so until the system has
written that (`EntryWritten`) a power loss may take the whole file (`PowerLossOfFile`).
`acked` and `hurt` (an author was stopped in the middle of its line, or power was lost) are
history of the file that is there. Hashes are abstracted to what they bind: a record carries `basis`, the number of records
its author had seen. `Recover` and `ClearLock` are what a person does by hand.

### SkillSync - `sync()` and `remove()`

`ReadFile` is one file of `tree_digest()` or `copy_skill()`; `got` collects them, and
`Compared`, `Digested`, `Copied`, `Verified` are the ends of the four reading passes of one
skill. `MoveAway`, `Install`, `InstallRefused`, `Restore` are the renames; a rename succeeds where
there is no directory and, on POSIX, over an empty one (`Vacant`). `Delete` is
`rmtree`, file by file, and `DeleteDirectory` its end, which fails when a file has come back. Every edit, a deletion included, gives a file a version it never had (an edit
back to old bytes is therefore not distinguished from them by accident: there is no ABA). A way of
using the script (`Uses`: commands, kinds of failure, number of edits) is chosen at the start.
`sync --force` and `remove` are not run against each other: `rmtree` holds an open directory
that the forced run may have moved, which a model of names cannot show (assumption
`SyncAssumption`).

### SetupApply - `make_plan()` and `apply_plan()`

A run plans (`ScanRow` per destination), applies any non-empty selection, checks the plan
against the present state (`Check`), opens its receipt, and takes each file through
classify, parent directories, intent line, exclusive create, write, fsync and read-back,
with a durable receipt line before and after; then it verifies all rows once more. The receipt is the
set of its durable lines. There is one skill; its canonical file comes before its mirror, as
in the code; what `classify()` cannot read is one content, `Blocked`, whose rows have a key more
than others, so that `Check` refuses a plan whose row has become blocked or stopped being so
(`SameKeys`); within `make_plan()` the extra-file scan of
the canonical skill is one step. People may edit a destination, add a file to the skill,
change the kit and move HEAD at any moment. `fsync` is believed: power loss is not
modelled here. An edit replaces the file (a new inode), as editors do.

### AgentRoute - `validate_state()`

`Accepts` is the verdict: `RouteOK` (caps, tables of transitions, worker before gate and
judge), `ReceiptsOK`, `EventsOK` (each switch leads to another host and has a snapshot of its own,
whose content is the recorded one), `DeliveryOK` (`Stages`, `Passes`). The validator has no state, so the state is the
receipt and its snapshots, and the actions are the agents that write them: `Move`, `Report`,
`EditSnapshot`, `Decide`, and a switch of hosts in three steps: `ChooseNumber` (a path that is
free), `CopyHandoff` (over whatever is there by then), `SwitchHost` (the event, with the
digest of the bytes copied or of those found there now). Hosts do so at the same time. `handed` is
history: what the host of each event copied. Agents stick to the tables except for `MaxSlips`
wrong nodes, paths in use or switches to oneself, and may pass every cap by one.

### GitRepo, ShapeVersion, HistoryScan, BranchStack

`GitRepo` is external: what `git show`, `cat-file`, `rev-list`, `merge-base`, `log` and `for-each-ref` rely on. Commits are
numbered and immutable and carry their ancestors, the schema file and their private parts (a
message, a blob, a path, a copy of a known blob under a further path); refs, the checked-out
branch, the working schema, and cut ancestry (shallow or grafted) move at any moment:
`Commit` (amended commits and merges included), `EditSchema`, `Switch`, `MoveRef`, `CutHistory`.

`ShapeVersion` is `_check_shape_version()` for one pair: `ReadSchema`, `ReadCommitted` and the
verdict, with the schemas of the parents that `HEAD` names then (`HeadParents`), are three moments. `accepted` is history: the commits that a check has passed as they are, or that
record exactly what it passed. `HistoryScan` is `validate_reachable_history()`, one action per Git listing
(`ListRefs`, `ListCommits`, `ListPaths`, `ListObjects`), then object by object; `ScanStops` is any cap, the
deadline or a Git failure. `throughout` is history: the refs and commits that have been
there since it began. `BranchStack` is `main()` of the stack check, one `Observe` per pair;
`began` is history: what a branch held at the start, if it has only moved forward.

### Preflight and Gates

`Preflight` is `run_preflight()`: `at` is the check at work, `todo` the files or commands it has
left, `reads` the shared budget. Each read, each command and its writes, and the comparison of the receipt and of
the artifacts are actions; people edit, restore reviewed content, and review in between.
Failures go on to the next check, as in the code; the status is the worst. `looked` (check,
file, version) and `made` are history. `Gates` runs one of the four gates per behaviour: none
writes what another reads.

## 3. Runs

| Run | Instance | Shows |
|---|---|---|
| `lock` | 3 processes, 2 faults | `FaultFreeExclusion`, `NoFileLeftBehind`, and `WaitsEnd` under fairness |
| `lock_race` (violation) | 3 processes, 1 fault | exclusion is lost after one abandoned file |
| `hook_safe` | stop events: 2 hosts, both perhaps slow, 3 sessions, 2 contents, 2 nudges, 2 retained, 3 events, 2 faults; checkpoints: 3 hosts, 2 pre-compact events, each of which may fail or be killed | files are lost to breakers only (`HoldersOwnTheFile`), history, caps, peers, printed nudges, refinement of `NudgeLedger`; what is kept is found whole and stays recent |
| `hook_repeat` (violation) | 1 session, contents A, B, A | the same content is asked about twice |
| `ledger` | 2 authors, 3 records, 1 candidate attempt, 2 faults | sequence, cap, durability, clean behind the lock, frozen tail, open failures |
| `sync` | 2 runs on a skill of two files, either updating, forced or not (1 edit on each side; a failed call or a crash), or updating and removing (2 edits of the skill; Ctrl-C too) | the last copy is kept, only whole states are installed, divergent copies stay |
| `sync_interrupt` (violation) | 1 Ctrl-C | the last copy is lost |
| `process` | leader, 2 descendants, one may leave the group, limit 3, chunk 2, up to 4 bytes | group gone, whole result, return |
| `process_hang` (violation) | 1 descendant that leaves | the call does not return |
| `setup` | 2 runs, skill file and mirror, 1 directory, 1 fault, 1 edit; foreign and blocked destinations | receipt, truth of its lines, mirrors, racing writers, progress |
| `routes` | both modes, up to 9 transitions with a cap of 8, 1 slip; or 2 hosts, 2 snapshots, 2 contents, up to 3 events with a cap of 2, 1 slip, 1 edit | review before delivery, acceptable prefixes, no dead ends; snapshots hold what was handed over |
| `gates` | 3 commits, 2 branches (3 for the stack) with merges, moved refs, shallow clones and grafts, 3 schemas (2 shapes, 2 versions); 2 files, 1 artifact, 1 self-test command, 9 reads, 3 writes, 5 configurations | schema versions, clean histories, linear stacks; one tree, complete passes, fresh artifacts |

Why these bounds are enough to be interesting: three processes are the fewest with which a
lock can be broken twice (the dead owner, the first and the second breaker); three sessions
with two retained make eviction choose; limit 3 with chunk 2 puts the limit inside the
second chunk, and 4 bytes pass it; two edits of a two-file skill are the fewest that can
make a mixture; one author who stops in the middle of a line and a power loss are two
faults; each setup run has all of its steps before, between and after the other's;
eight transitions are the shortest GRAPH route that works again after a judge; two hosts, contents
and events are the fewest of which one overwrites another's snapshot in an accepted receipt, and one
edit can undo that; routes and switches meet in no rule, so a receipt of the run has one of them (`OneOfBoth`); two pre-compact
events are the fewest of which an older can replace a newer, and a third host reads between
them; three commits are a merge, or a line of three generations, and three branches the
shortest stack with two pairs; nine reads are enough for one schema pair,
which needs eight, and one too few for two (`2 * pairs + 2 + 1 + 2 + 1`); three writes are an edit, its restoration and an
artifact. Faults
(`MaxFaults`) and edits (`MaxEdits`, `edits` of `Uses`), events (`MaxEvents`), bytes (`MaxBytes`),
commits (`MaxCommits`), writes (`MaxWrites`) and checkpoints (`MaxCheckpoints`)
are counted in the guards; nothing else is cut off. Deadlock is checked except in
`process` and `setup`, where the system really ends. Symmetry is used only in runs
without liveness properties.

**Fairness.** `FairLockSpec`: a started process is scheduled and the clock passes its
deadline; no one has to start a host, and no fault has to happen. `BoundedProcess!FairSpec`:
both threads are scheduled, the kernel ends what SIGKILL has hit, and the deadline of
`process.wait()` passes; nothing is assumed of the child. `ReturnsUnlessEscaped` is the
strongest form that holds; `CallReturns` without the exception is what `process_hang` refutes.
The other specifications state no fairness and no liveness: their programs are loops over
finite lists, whose only waits are for a Git process or a command and are bounded by `run_bounded()`.

### Findings (the violation runs)

* `lock_race`, a bug: two waiters that both judged an abandoned lock stale; the second
  unlinks, by name, the file the first has just created. Both are in the body.
* `hook_repeat`: the documents promise one set of questions per content digest; only the
  last digest is remembered.
* `sync_interrupt`, a bug: an interrupt raised by the `os.replace()` that moves the previous
  copy into the stage directory leaves before the `try` that would restore it, and the
  clean-up deletes it.
* `process_hang`, a bug: a descendant in a session of its own keeps the pipe open;
  `stdout.close()` waits for the reader, past every deadline.

## 4. Proofs

All theorems hold for any number of processes, sessions, skills, files, contents, branches,
commits and any bounds, from the assumptions named in the modules (distinct null values,
positive limits, at least one run of setup). Every invariant and every safety property of
steps that a passing run checks is a theorem, and so are the type invariants, which the runs need not repeat.
Two theorems state where the code keeps its promise, since elsewhere it does not (`LastCopyIsKept`, `DivergentIsKept`).

* **SelfReviewHookProofs, the lock.** `LockTypeCorrect`; `HoldersOwn`: `HoldersOwnTheFile`, slow holders included, is inductive with
  the types, since a file is only created where there is none and a break of a live
  holder's file sets `seized`. `Exclusion`: while `faults = 0` and nobody is slow, every
  existing file has a living holder, so no file grows stale and no process reaches the
  break (`Calm`); exclusion follows because two holders would own one file. `NoFileIsLeft`.
* **SelfReviewHookProofs, the hook.** Every step of the hook is a step of the lock or
  leaves it alone (`StepsOfTheLock`), so the theorems of the lock hold there.
  `HookTypeCorrect` ties the hook's stage to the lock's program
  counter. `StoreIsTruthful` and `NudgesAreCapped` rest on `History`: the copy of every
  process about to save equals the store, because it holds the lock whose file nobody has
  seized; a save on such a copy keeps record and history together (`SaveKeepsHistory`).
  `SpentNudges`: the nudges owed are those of the processes between save and print, plus at most one per
  fault (`Pending`, a count of a finite set). `StoreStaysBounded`: in a finite set of keys at
  most `n` have fewer than `n` others beyond them (`FewBeyond`), which holds of whatever copy is saved, with or without
  the lock. `PeersAreKept`: the save is atomic on a true copy, so that it changes its own session, and
  evicts from the front (`EvictedComeFirst`). `HookImplementsLedger` is the refinement, step by
  step: a save is `NudgeLedger`'s question or forgetting (`SaveAsks`), every other step is a stutter.
* **BoundedProcessProofs.** `TypeCorrect`, `NoGroupSurvives` and `ResultIsWhole`. The invariant
  follows the caller: once the leader is dead or killed nobody new enters the group, after
  the sweep all members are doomed, and a reader that ended without overflow and failure
  has seen end of file with every byte it collected.
* **OutcomeLedgerProofs.** `TypeCorrect`, `RecordsInSequence`, `AttemptBudget`,
  `AcknowledgedStays`, `TornTailIsFrozen`. The invariant says what the lock's owner knows: the
  file it has checked is the file it writes to, so that its record's basis and attempt count
  are the present ones; what has been acknowledged is covered by an `fsync`, and
  power losses cut behind it, or take the file and with it what is said of its records. `CleanBehindTheLock`: unless an author was stopped in the middle of
  its line or power was lost (`hurt`), only the owner of the lock leaves a line open, and only between two
  of its writes (`Passing`); a lock removed for an author that died elsewhere leaves a ledger that the next append accepts.
  `FailuresAreKeptOpen`: what the fold over the lines computes is put in closed form for every set of positions
  (`LeftOpen`) and shown to satisfy the fold's equation at the last position (`LeftOpenStep`, `FoldIsLeftOpen`).
* **SkillSyncProofs.** `CopiesWhole` (`SyncInvariant`): the argument is the double collect. Versions
  of a file only grow, so a file that has the same version in the digest pass and in the
  verifying pass had it all the time in between; therefore all files had their
  versions at one moment, and the tree that is installed is a state the skill was in
  as a whole. `TypeCorrect` follows from the same invariant.
  `LastCopyIsKept`: only a move or a deletion takes a copy away (`Taken`), and who moves one away holds it until
  it is back, replaced, or in the stage directory of a crash (`Held`, `HeldStays`). It
  is stated while at most one call has failed and where Ctrl-C does not hit a forced sync: a
  second failure, in the `except` clause that restores, and the interrupt of `sync_interrupt` do lose the copy.
  `DivergentIsKept`: a run without `--force` replaces only what it has found to be canonical, and what people
  made (`Theirs`) never becomes that while nobody edits (`Untouched`, `NeverAgain`). Beside a `remove`, nobody may edit a copy: see section 5.
* **SetupApplyProofs.** First what one step does to each piece of state, whoever takes it (`EarlyStep`, `MadeStep`, `TargetStep`,
  `WriteStep`, `TakenStep`, `RowStep`, `FileStep`); the invariant `SetupInv` then only uses those. It gives
  `ReceiptsCoverCreations` (the intent is durable before the creation: `Announced`), `CreatedLinesAreTrue`,
  `MirrorsFollowSkills` (`Mirrored`: canonical rows are read again before each mirror),
  `PartialFilesAreReported` (`HalfWritten`), `UnconfiguredIsWhole` (`Seen`, row by row), and with
  `TargetStep` `RacingWritersArePreserved`. `OneRunSucceeds`: while nothing fails and nobody edits
  (`CalmInv`), whoever fails has met a destination of somebody else beyond all of its own (`Outdone`); the maker of the
  last destination of all is outdone by nobody, so it has not failed (`LastOne`).
* **AgentRouteProofs.** `RouteTypes` (the types), `DeliveredWorkIsReviewed`, `HandoffsAreKept`,
  `PrefixesAreAccepted`, `NoRouteIsStuck`. `HandoffsAreKept` needs to know what hosts in the middle of a
  switch may do to each other: a copy stands until another host copies over it or an event
  names its path (`CopiesStand`), and an event whose digest is not what its host copied shares its path with another
  event or with a host whose event is still to come (`EventsTell`); the validator refuses the first
  and the property excuses the second. A route that
  ends at human came there from a gate, or in a GRAPH from a judge behind a gate behind a
  worker (`LastStep`, `GateBeforeJudge`), and no work lies behind those. The fold over
  the stages of `DeliveryOK` exists for every route (`FoldExists`, by well-founded induction on its graph), counts stages
  in order (`Progress`), and reaches the last one on every route that the tables lead back to human (`BackIsThrough`):
  the ordered stages add nothing to the transitions but the return. `Rest` leads back from every node
  (`RestLeadsBack`), one transition at a time (`OneMoreNode`).
* **CheckpointProofs.** `CheckpointTypeCorrect`, `KeptStaysRecent`, `SessionsResume`. Only an event that is
  not over replaces `CHECKPOINT.md`, so what it replaces there cannot be newer than an event
  that began after its end; only whole temporary files are moved there, so a reader is
  refused only what has been replaced under it. `StopEventsAmongAll`: a behaviour of the events that `main()`
  dispatches is one of `SelfReviewHook`, whose theorems therefore hold of the specification the runs check.
* **GatesProofs.** First the repository: nothing committed changes, the ancestors that a commit carries
  are those of its parents and itself (`Ancestry`), and every step of any gate is a step of the
  repository or leaves it alone (`RepoNext`).
  `CleanIsReallyClean`: whatever is private and was there all along is found, listed and still
  unread, or on a list still to come (`Searched`).
  `StackIsReallyLinear`: each pair observed holds from then on for branches that only move forward, and
  each further pair extends what holds of the branches so far to one branch more (`UpTo`).
  `VersionsReallyNameShapes`: each accepted commit has a schema that is the one of every parent or newer
  (`WellVersioned`); of the wrong pairs, the one with the earliest later commit would be wrong at a parent already (`LeastOne`).
  `PassesAreOfOneTree`: no version comes back but the reviewed one, so receipt <= version seen <=
  version now, and the receipt's final comparison closes the chain (`Versions`).
  `PassesAreComplete` accounts for the budget: reads so far are at least what the finished checks
  needed (`Complete`). `VisualsAreFresh`: an artifact that differs from its state before
  the command was written by it or by somebody else (`Artificial`).

Only model-checked: liveness (`WaitsEnd`, `ReturnsUnlessEscaped`), which needs fairness, hence
ENABLED, which the provers do not handle.

## 5. Limits, and what is not modelled

Names, formats, digests as bytes, platform branches for Windows, permission and link
checks are data of these programs and are left out; a digest is the content it stands for.
A failure that repeats for ever is outside the models, because faults are counted: the loop of
`state_lock()` that goes round without the deadline check when the unlink of a stale file
keeps failing is such a case and is listed as a hazard without a property. The same branch is why
`WaitsEnd` is checked without slow holders: a waiter that finds one stale file of a slow holder after the other
goes round without the deadline check too. Process numbers
are not reused. `DivergentKept` of `remove()` is checked with unedited copies: an
edit between its comparison and its `rmtree` is deleted with the copy, which the model shows
when a copy may be edited too. `LastCopyKept` is checked and proved with one failure: two failures in a row in one run,
of the installation and of the restore, do lose the copy. A half-written file whose receipt line
fails as well (two faults in one run of setup) is reached by `PartialFilesAreReported` only, since the run has one.
A forced sync takes whatever copy it finds when it moves, also one that has changed since it was compared: the model
shows it, and `DivergentKept` allows it. Of two pre-compact events that overlap either
checkpoint may stay. The directory of a new ledger is never synced, so what is said of
acknowledged records is said of the file as long as it is there. The history check and the stack check look for a
shallow or grafted repository at their start; the models cut ancestry before or after a check, and
nothing is claimed where it is cut in between. What `_check_shape_version()` reads for itself is not part of `OneTree`. HEAD may
move after setup's last comparison: the model has this behaviour and no property forbids
it. `_check_shape_version()` takes every nonzero exit of `git show` for "not committed yet"; the
model lets it exit so only where HEAD has no such file, because with a failing Git no property
of versions holds.

Abstracted in the gates: the bytes of the read budget (files are counted), the hashing of
markers, which files the patterns select, what handlers and rules look like (a finding is a matter of
chance, so every property holds whatever they find), and Graphite's status, which is not part of the verdict.

Not modelled, and why:

* `validate_repo.py`: content rules about the public files of the kit and fetching of URLs;
  text processing in one pass, without a state that outlives a rule.
* `deployment_profile.py`, `setup_doctor.py`, `validate_skill_receipt.py`: a verdict on JSON documents or on
  files as they are at one reading; no writes, nothing concurrent.
* `bootstrap_learning.py`: validation, and a scaffold that is made by one rename of a whole
  directory after an existence check; its comparison of two runs is arithmetic on one document.
* `prove_preflight_mutations.py`: runs the mutation tests once and reads their result.
* `path_safety.py`: what its bounded read does is part of `Checkpoint`; elsewhere a read is a
  step of its reader. Links are not modelled.
* Windows: the job object of `bounded_process.py` and the handle layer of `setup_project.py`.

## 6. Plan

1. Lemmas towards liveness that need no fairness: what a waiter of `state_lock()` and the caller of
   `run_bounded()` can still do in each of their states.
2. The comparison of two runs in `bootstrap_learning.py` as an operator, against a reference
   definition.
