# A TLA+ model of akm

akm keeps an agent's assets (skills, workflows, knowledge, tasks) and runs the
durable processes around them. Much of the repository is parsing, file I/O,
rendering and calls to language models. What is hard in it is small: several
processes share one `state.db`, a few lock files, the asset files and a crontab,
any of them may die at any time, and the program promises that workflow runs,
proposals and scheduled tasks survive that. These modules model that part. Paths below are relative to the repository root.

## 1. The system and its parts

| Component | State it keeps | Operations | What is hard | What makes it correct |
|---|---|---|---|---|
| **PID-stamped lock files** `src/core/file-lock.ts`, `run-lock.ts` | the file at the lock path, private `.tmp-` and `.stale-` names | acquire, probe, reclaim, release | every call is a separate system call; owners die; two reclaimers meet | one holder; a dead owner's lock is recovered; a release removes only its own file |
| **Asset-mutation lease** `src/indexer/index-writer-lock.ts` | the same file, and a set of held paths per async context | acquire with waiting, nested calls | re-entrancy through a shared set | the lease is held while anyone below it writes |
| **Workflow run spine** `src/workflows/runtime/runs.ts` | `workflow_runs`, `workflow_run_steps` | start, read, complete a step, resume, abandon | resume and abandon take no run lock; a judge runs between a check and its transaction | steps complete in order and for good; the state follows from the step rows |
| **Workflow drive loop** `src/workflows/exec/run-workflow.ts` | a driver's cursor, retries left, abort signal | attempt, lock, drive, retry | the first read precedes the lock; hand-over between invocations | it ends; it drives only what is current |
| **Unit journal and dispatch** `src/workflows/exec/native-executor.ts`, `src/storage/repositories/workflow-runs-repository.ts` | `workflow_run_units` (one row per attempt), the in-memory budget | classify reuse, reserve, reclaim, finish | crash between dispatch and finish, a result after abandon, concurrent dispatch | no finished work is redone; the budget holds over the life of the run |
| **Completion gate** `src/workflows/exec/step-work.ts`, `validate-summary.ts` | gate rows of the journal | preflight, judge, commit, exhaust | outage versus verdict; the verdict is journaled after the step it completed | only a verdict uses up a loop; a step completes on earned work |
| **Child workflows** `src/workflows/exec/child-workflow.ts` | parent link and invocation key of a run | publish, drive inside a unit | a crash between publication and the parent's journal; a result that cannot be journaled; a child has commands of its own; stuck at several levels | one child per invocation; no parent advances on an unfinished child; a stuck tree recovers |
| **Proposal lifecycle** `src/commands/proposal/` | proposal rows, backups, intents, the improve ledger, asset files, archives | create, judge, defer, accept, reject, expire, revert, reopen, retire, purge | a file write and a database decision are two steps; the sweep takes no lease; an accept is resumed much later | nothing newer is overwritten or lost; a decision is not overruled; the ledger agrees with the queue |
| **Improve pipeline** `src/commands/improve/` | ledger, its run lock | stages of one cycle | long model calls under a lock | its lock (modelled); ledger idempotence |
| **Indexer** `src/indexer/` | index.db | scan, rebuild | rebuild lock; otherwise data processing | its lock (modelled) |
| **Scheduler sync** `src/commands/tasks/tasks.ts`, `src/tasks/`, `src/setup/steps/tasks.ts` | crontab rows, the list `scheduler.enabled`, task files | sync, enable, disable, add, prune, the task step of setup | plan and application are separate; installations share a crontab and its ids; the first command after an upgrade; setup takes no lock | no command touches the rows of others or drops rows that are wanted; the crontab converges |
| **Task runner** `src/tasks/run/` | task attempts, logs | reserve an attempt, run, finish | a process dies or is late between reservation and end | one attempt per firing (not modelled) |
| **Process termination** `scripts/node-runtime/akm`, `src/core/subprocess.ts`, `parent-watchdog.ts` | the launcher's and akm's listeners, the live children and their ladders | forward a signal, guard children, escalate, raise again, watch the parent | every captured child leads a group of its own, so nothing that ends akm reaches it; listeners fire once | akm ends when told, and not before its children; the launcher ends as akm did |
| **state.db transactions** `src/storage/`, `src/core/state-db.ts` | the database | immediate transactions, migrations | isolation is SQLite's | assumed |
| **Bundles, write boundary; workflow parser, freezer; harness and model integrations; command line, output, setup, desktop** | files, documents, nothing shared | | I/O and translation | not modelled |

How they interact. `akm workflow run` reads the run (spine), takes its run lock
(lock files), opens the frozen plan, and for each step asks the journal what may
be reused, dispatches the rest, reduces the outcomes and completes the step,
with a judge in between when the step has completion criteria. All of that goes
through `state.db` in short transactions. `akm workflow resume` and `abandon`
change the same rows with no lock. A unit whose target is a workflow drives a
whole run of its own inside the parent's unit. The improve pipeline and the
agents fill the proposal queue; people and the drain decide on it under the lease. The
scheduler starts tasks, which may run workflows or the pipeline. The lease, the improve lock, the index
rebuild lock and the scheduler lock are the same lock file with another name.

## 2. Modules

| Module | What it is |
|---|---|
| `RunLock` | abstract specification: the lock that callers assume |
| `FileLock` | the lock file, one action per file-system call; implements `RunLock` |
| `FileLock_proofs` | theorems about `FileLock` |
| `MCFileLock` | instance of `FileLock` |
| `RunSpine` | abstract specification: the cursor that an observer of a run sees |
| `WorkflowRun` | spine, journal, gates, budget, drivers, resume and abandon; uses `RunLock` for the lock; implements `RunSpine` |
| `WorkflowRun_lemmas`, `WorkflowRun_proofs` | the invariant of `WorkflowRun` and the lemmas it rests on; the theorems |
| `MCWorkflowRun` | instance of `WorkflowRun` |
| `ChildWorkflow`, `MCChildWorkflow` | a tree of runs, each a `RunSpine` to its parent |
| `ChildWorkflow_proofs` | theorems about `ChildWorkflow` |
| `ProposalDecision` | abstract specification: the life of a proposal |
| `Proposal`, `MCProposal` | the queue, its ledger, the files and archives; implements `ProposalDecision` |
| `Proposal_proofs`, `Retirement_proofs` | theorems about `Proposal`; that an accepted retirement has retired its asset |
| `SchedulerSync`, `MCSchedulerSync` | several installations that keep rows in one crontab |
| `SchedulerSync_proofs` | theorems about `SchedulerSync` |
| `Termination`, `MCTermination` | the launcher, akm and its captured children, and the signals between them |
| `Termination_proofs` | theorems about `Termination` |

The two levels compose through `RunLock`: `FileLock` is shown to implement it,
and `WorkflowRun` takes its actions (`Lock!Acquire`, `Lock!Relinquish`,
`Lock!Compromise`) for the lock of a run. `RunLock` has a variable
`compromised`, because the lock file does not give unconditional exclusion (see
the findings): it is what `FileLock` maps a displaced file to. Every property of
`WorkflowRun` says whether it needs the lock. `ChildWorkflow`, `Proposal` and
`SchedulerSync` take the lock for what `RunLock` says of it: one holder, freed by
the holder's death.

### FileLock and the code

| Action | Code |
|---|---|
| `Attempt`, `Relink`, `LinkSucceeds`, `LinkFails` | `tryAcquireLockSync`: write a private file, `linkSync` it into place |
| `Snapshot` | the ownership record read back from the path |
| `ProbeAbsent`, `ProbeHeld`, `ProbeStale` | `probeLock`: file and liveness of its owner |
| `Recheck`, `Rename`, `RenameMisses`, `PutBack`, `Purge` | `reclaimStaleLock`: second read, rename aside, compare, put back or unlink |
| `Release`, `Unlink` | `releaseLock`: compare, then unlink by name |
| `Crash` | a process dies between any two calls |

A file is a pair of its owner and a number, which is what the random `lockId`
makes of it: no two files are equal. A process in `Waiters` loops like the
lease, the others give up like `tryAcquireRunLock`. Processes in `Gone` are dead
from the start, so that the behaviour may begin with a stale file.

### WorkflowRun and the code

State: `runStatus`, `current` and `stepStatus` are the rows of the spine;
`unitRow`, `attempts` and `rows` are the unit attempts of the journal, by step,
gate loop and unit; `gateRow` is the gate evaluations; `holders` and
`compromised` are the lock; everything else is the memory of a process. A step
is one transaction, one lock operation, or one answer of the world.

| Action | Code |
|---|---|
| `Read`, `TakeLock`, `OpenPlan` | `runWorkflowAttempt`: read, lock, plan and budget seed |
| `BeginStep`, `NextStep`, `Exit` | `driveRun` and the retry decision of `runWorkflowSteps` |
| `BeginLoop`, `Dispatch`, `Finish`, `JournalFails`, `EndLoop` | `executeStepPlan`, `reserveUnitAttempt`, `finishUnitAttempt`, `reduceStepOutcomes` |
| `Gate`, `Judge`, `Commit`, `Settle`, `Failing`, `Blocking` | `finalizeExecutedStep`, `completeWorkflowStep`, `evaluateAndCommit` |
| `ResumeRead`, `ResumeCommit` | `resumeWorkflowRun`: its reads, then its transaction |
| `Abandon` | `abandonWorkflowRun`: one immediate transaction |
| `Interrupt`, `Crash`, `BreakLock` | the abort signal, death, a displaced lock file |

What is abstracted, and how:

- **Results and verdicts** are choices: a unit succeeds or fails, a judge
  completes, rejects or breaks. A tied vote and an artifact that misses its
  schema are a choice at the end of a loop; evidence, prompts and the order in
  which units start are left out.
- **Steps that cannot start** (a missing environment, an unresolved directory)
  are the flag `barred`: such a step fails without dispatching.
- **`budget.max_tokens`** is left out; `budget.max_units` is modelled in full.
- **`--max-steps`** is a choice of `NextStep` to stop.
- **A plan written by a newer akm** is an error that leaves the run alone; a
  plan that cannot be decoded abandons the run, as the code does.
- **Child workflows** appear only as a unit whose failure blocks its step;
  `ChildWorkflow` has the rest.
- **Reserving the gate row** is joined with the preflight that precedes it: both
  are transactions of the same driver, with no wait in between, and a refused
  reservation ends in the error exit that the preflight also has.
- **Events** are left out.

### ChildWorkflow and the code

A node is a run that the plan of the root allows: the root itself or one
invocation key. `run` is its spine (status and completed steps), `unit` the latest
attempt of the parent's unit, `lock` its run lock. `orphans` are the children whose latest
attempt was left running; the code has no such set, `AttemptsFinished` compares it with the rows. A process has a place in
every node it drives, as the drive of a child is a call inside the drive of its
parent.

| Action | Code |
|---|---|
| `Start`, `Read`, `TakeLock`, `BeginStep`, `EndStep`, `Complete`, `NextStep` | `runWorkflowSteps` on one run, as in `WorkflowRun` |
| `Reserve`, `Finish`, `JournalFails` | the parent's journal around the dispatch, `dispatchJournaledAttempt`: a reservation that fails dispatches nothing; a result whose write fails (`journal_write_failed`) leaves the row running and fails the step |
| `Publish` | `publishChildWorkflowRun`: select by invocation key, else insert; a failure |
| `Return` | `driveChildRun` after the drive: what the child's row says, or what was thrown |
| `ResumeRead`, `ResumeCommit`, `Abandon`, `Interrupt`, `Crash` | the other commands, on any node |

Gate loops, unit retries and budgets are those of `WorkflowRun`; here the own
work of a step passes, or (a fault) fails, blocks or is rejected. Steps have
`on_error: fail`: with `continue` a parent does advance over a failed child, by design.
Resumes come one at a time, since overlapping ones are finding 3. Abandoning a
parent leaves its children alone.

### Proposal and the code

State: `row` is the proposal, `ledger` the improve ledger by source and ref,
`file` the assets, `archive` the directory a retire proposal has for a file
(nothing, a tombstone, the bytes, or a tombstone whose bytes were purged), `op`
what the holder of the lease is doing.

| Action | Code |
|---|---|
| `Mint`, `Judge`, `MintRetire`, `Defer`, `Sweep`, `Purge` | `createProposal`, the pair pass, `recordGateDecision`, `expireStaleProposals` and the orphan purge, `purgeGracedArchive`: none takes the lease |
| `AcceptWrite`, `WriteAsset`, `RecordAccept` | `promoteProposalWithLease` |
| `AcceptRetire`, `RecordIntent`, `WriteEdge`, `WriteTombstone`, `SkipArchived`, `MoveToArchive`, `MoveFails`, `UndoMove`, `UndoTombstone`, `RecordRetire` | `retireProposalWithLease` and `archiveCleanupCandidate` |
| `Revert`, `RestoreAsset`, `RecordRevert` | `revertProposalWithLease` |
| `Unretire`, `RestoreFile`, `RewriteAsset`, `ClearArchive` | `unretireProposalWithLease` |
| `Reject`, `Reopen`, `DrainFindsStale`, `DrainReject`, `Edit` | single transactions and edits under the lease |
| `Crash` | the holder of the lease dies |

A content has a body, a frontmatter and the edge to a successor, because the code
compares it in two ways: `contentHash` of everything, and the pair judge's hash
of the body alone. What an accept publishes is stamped with the time, so no two
accepts publish the same bytes. Left out: assets that are not markdown,
bookkeeping frontmatter, validation, git commits, events, gate verdicts
other than a deferral, retirements by hand and of promotion sources. The list of
the sweep is not modelled as an old list: the transaction looks at the
status again, so an old list allows what a new one allows.

### SchedulerSync and the code

State: `rows` is the akm part of the crontab, by native id, which is the task id;
a row carries the installation whose bundle directory it names, the bundle and a
version. `file` is the task files, `enabled` and `bundle` each installation's config,
`lock` the scheduler lock.

| Action | Code |
|---|---|
| `Sync`, `SyncBundle`, `Prune`, `Activate` | `akmTasksSync`, `akmTasksPrune`, `setTaskActivation` and `akmTasksAdd`, up to the lock |
| `List`, `Choose`, `WriteTask`, `SetRef` | `listInstalledRows`, `ensureSchedulerChoice`, the rendered task file, `setSchedulerRefEnabled` |
| `Plan` (with `Desired`, `KeepRefs`, `InScope`, `Skipped`, `Writes`, `Removals`, `Orphans`) | `buildSchedulerSyncPlan`, `planSchedulerSync`, `installedRowScope`, `classifyPruneCandidate` |
| `Apply`, `ApplyFails`, `End` | one call of the cron backend for each operation |
| `SetupBegin`, `SetupChoose`, `SetupPrepare`, `SetupEnlist`, `SetupLeaves` | `stepScheduledTasks` of `akm setup`, with no lock: it lists the rows if there is no list yet and writes one, or only warns; the review of a person; then task files, then the list. The sync it ends with is `Sync` |
| `EditFile`, `Toggle`, `RemoveBundle`, `Vanish`, `Crash` | what happens around the commands |

Left out: the launcher and `--rebind`, rows of older formats, rows of workflows,
disabled rows and `add --disabled`, ids that differ in case only. Removals come in any
order (the code sorts them). `List` is also the listing of the choice (and `add`'s own), as all are under
the lock; `Choose` then writes the config whatever setup has written meanwhile, as the code does. A
command reads its config before it lists the rows, the model when it plans: a setup that writes
the list in between is, in the model, one that writes it after the plan. Setup
prepares and enters any subset of the tasks akm ships (`Templates`); it is one step for each
side effect: all task files are one, and their rollback is `SetupLeaves` before it. A stash is not
deleted under a running command or setup of its own.

### Termination and the code

State: `once` and `inbox` are the launcher's listeners and the signals that wait for it;
`pending`, `own`, `guard` and `raise` the same of akm: listeners of the command
itself (`handles`: task runs and `workflow run`), of the guard in `subprocess.ts`, and
the signals that guard will raise again. `leader`, `member`, `ladder` and
`killed` describe the group of each child. `leader` goes from `running` over `exited`
(the process is gone), `seen` (`proc.exited` has resolved) to `back` (the call has returned).

| Action | Code |
|---|---|
| `StartAkm`, `Forward`, `EndLauncher` | the launcher script |
| `StartWatchdog`, `Watchdog` | `startParentDeathWatchdog` as wired in `cli.ts` |
| `Listen`, `Unlisten` | the handlers of `run-native-task.ts` and `workflow-cli.ts` |
| `Spawn`, `Notice`, `Return` | `runManagedSubprocess`, up to the spawn, at the exit, and after the drain |
| `Timeout`, `Terminate`, `Kill` | `scheduleKillLadder` |
| `Handle`, `Raise` | the guard's listener, those of the command, and the default disposition |
| `SendLauncher`, `CrashLauncher`, `LeaderExits`, `MemberExits` | the environment |

A process may exit at any time, so of what it is sent only SIGKILL leaves a trace. Two
ladders on one child are one: the first is ahead at every signal. A signal
with no listener ends akm before it takes a further step (`Fatal`). Of two
equal signals that wait one is kept, as by the system.

## 3. What the runs check

| Run | Question |
|---|---|
| `filelock` | three contenders and a dead owner's file, one of them waiting, two locks each, one crash: exclusion, no orphaned file, one reclaim per stale file, refinement of `RunLock`, recovery of a dead lock |
| `handover` | two invocations, one of them interruptible, a resume and an abandon, one crash or failed write: the journal, the gate and the budget over every hand-over; refinement of `RunSpine` |
| `retries` | one invocation with unit retries, a run retry and two units in flight: it ends, whatever happens; concurrent dispatch keeps the budget |
| `broken_lock` | two invocations at once, because the lock file was displaced: the spine still holds |
| `children` | a root, its child and its grandchild, two processes, two faults (crashes, failed journal writes, failures, interrupts, abandons): no parent advances too early, no attempt is left running that did not lose its process or its journal write, the tree recovers; every node refines `RunSpine` |
| `proposals` | an update and a retirement of the same memory, which has a twin, and a successor; two edits or stamps, two crashes: files, archives, ledger and decisions at every interleaving; refinement of `ProposalDecision` |
| `scheduler` | two installations, one of which has not chosen yet and has two bundles, with rows and files of both; three edits and one fault, and setup on that one: whose rows change, which are lost, and that the crontab converges |
| `termination` | two children, and SIGINT, SIGTERM or the loss of the launcher, two of these at most: what outlives akm, that akm and its ladders end, and that the launcher ends as akm did |
| `filelock_displaced`, `stale_read`, `late_resume`, `abandoned` | four sentences of the repository that the code does not keep (section 6) |

The type invariant of each module is a theorem of section 4 and takes no run's time.
The properties, and why they are worth a run:

- `ExclusiveUnlessDisplaced`, `NoOrphanUnlessDisplaced`, `ReclaimedOnce`,
  `ImplementsRunLock`: what is left of mutual exclusion when every call may
  interleave with every other. The only way out is a rename that takes a file
  its reclaimer did not verify. What happens after one, such as the put-back of a file that its
  owner has released meanwhile, only `ReclaimedOnce` and `DeadLockRecovered` are about.
- `DeadLockRecovered`: contenders invalidate one another's probes; some contender
  nevertheless gets rid of a dead owner's file.
- `WithinBudget`: each invocation counts in memory from a number it read once;
  the total over crashes, resumes, retries and loops is bounded.
- `OneDispatcher`, `RunningIsDispatched`: an attempt that the journal shows as
  running is the attempt of a live driver, or of a dead one. This is what makes it right
  to take it over under the same number.
- `CompletedUnitsAreFinal`: no process touches the row of a completed unit again,
  not even through a second invocation with an older memory of the run.
- `RejectedLoopIsOver`, `ExhaustedOnlyByVerdict`: gate loops are counted from
  verdicts in the journal, over interruptions, and an outage uses none.
- `CompletedByWork`: a completed step has a loop in which its units are
  completed and its judge passed, in the journal, not in a driver's memory.
- `SpineInOrder`, `StepsStayCompleted`, `ImplementsSpine`: the spine under
  resumes and abandons at any point; the first two even without the lock.
- `InvocationEnds`: unit retries, gate loops and run retries nest; each is
  bounded by something the others cannot reset.
- `AdvancesOnCompletedChildren`: what a parent makes of a child rests on a status that
  others may change before, during and after the drive.
- `AttemptsFinished`: a row is running exactly while a process works on it under the lock, or
  after its process died or its result could not be journaled; in no other way, whatever a
  drive throws, and such a row is taken up by the next attempt.
- `ImplementsSpines`, `RecoveryConverges`: however often it is published, resumed and
  driven, an invocation is one cursor; a tree that is stuck at
  several levels is recovered by what the documentation tells a person to do.
- `NothingNewerOverwritten`, `AcceptedIsOnDisk`, `RevertRestoresBase`,
  `SuccessorStands`: the freshness checks of accept and revert, at every later
  point where the file is really changed, over crashes and retries.
- `ArchivedNotLost`, `IntentHoldsOriginal`, `RevertCanResume`: the three phases of a
  retirement and the two of its revert; whatever they were interrupted at, what
  a later attempt rests on is there.
- `AcceptRetires`: an accepted retirement has retired its asset, over edits between
  attempts and resumes of each; its two carve-outs are ways the code really records one that
  has not (section 6).
- `LedgerFollowsStatus`, `ImplementsDecisions`: sweeps and deferrals run between any
  two steps of an accept, and every one of them rewrites the ledger.
- `PlanIsCurrent`, `ForeignRowsKept`, `WantedRowsKept`, `FirstChoiceKeepsRows`:
  a plan is applied to a crontab others write too, by ids that everybody
  shares, and the list of enabled refs may be started by a setup that nothing orders with the
  commands; each carve-out in them is a way the code really reaches another's row, or
  really loses one (section 6).
- `Converges`: whatever failed or was refused before, repeated syncs bring the
  crontab to what the configs say.
- `ChildrenFirst`: one signal, wherever it lands between the start of
  akm and its end, however many processes of a group it could reach, and whatever is
  spawned while the guard waits. It is about the first
  signal: a second one of a kind ends the launcher, and the next that
  reaches akm finds its guard spent.
- `SignalledEnds`, `LadderEnds`: children may ignore everything but SIGKILL.
- `LauncherReflects`: the launcher raises the signal that ended akm while it may
  still listen for it.

### Bounds

`MaxLocks` and `MaxCrashes` bound the lock files a process links and the
processes that die; `MaxFaults` bounds crashes plus failed journal writes. In
the first two modules these three are the only bounds the code does not have. Two locks per process give a
file that is stale for a reclaimer and newer than what it probed. Three contenders
are the fewest with which the displaced file is lost: the one whose file is taken,
the one who takes it, the one who links in between. The runs have two steps: the
first has two units, no gate and tolerates failures, the second has one unit, a
gate and up to two loops. One fault suffices for every hand-over
from a dead driver to a live one; the second driver's own crash adds no state
that a first driver's does not reach. Budgets are set so that they are reached
(two units, two loops, and a resume need more than `MaxUnits`). Deadlock checking
is off because every process of these instances comes to an end: commands finish,
and a bounded number of lock files is linked.

`children`: three levels are the fewest with a run that is both child and parent;
the root has a second step, so that it can advance too early. `MaxFaults` bounds
everything that keeps a run from completing at once, failed reservations and journal writes among
it; two faults stop the tree at two levels. `proposals`: `MaxClock` bounds edits and stamps, two of
which make a file differ both from what was judged and from what was published;
`MaxCrashes` bounds crashes and failed renames, and a second one hits the retry
of an operation the first one interrupted. A second proposal for the same file is the
least with which an interrupted accept is resumed after another's. `scheduler`: `MaxEdits`
bounds changes of files, configs and stashes, and the commands and setups that change the list;
three edits disable a bundle, break a file and enable a task. `MaxFaults` bounds crashes,
failing backend calls and failing listings of setup. `SetupOn` has the installation that starts without a
list, where setup and a command may both start it; one of the two tasks is one that akm ships (`Templates`). `termination`: `MaxSignals` bounds signals and the loss of the launcher;
two reach every listener twice. The second child is the one that is started while the
guard waits for the first. Deadlock checking is off in the last three: proposals may all
be decided, both stashes deleted, and akm and its launcher gone.

### Fairness

`FileLock` assumes weak fairness of each process's `Step`: all calls are
synchronous, and the schedulers and waiters that use the lock come back for it.
Crashes are not fair. `WorkflowRun` assumes weak fairness of each driver's own
steps: dispatches, judges and transactions end because all of them have
timeouts, and a driver runs its code to the end unless it dies. Nothing is
assumed of the signal, of a crash, of the other commands, or of the order in
which processes run.

`ChildWorkflow` assumes the same of its processes, and a person who follows
"Recovering a blocked child" in `run-workflows.md`: strong fairness of resuming each run
that is stuck and of running the root while it is active. `RecoveryConverges` has the
premise that no two processes work at one run at a time; without it an
invocation that read a step before it had the lock fails the run again
(finding 2). `SchedulerSync` assumes weak fairness of a command's own steps, and strong
fairness of `Sync`: `akm task sync` is run again until it gets the lock. Nothing is assumed
of setup: it may stop at any point and for ever.
`Termination` assumes that timers fire, listeners run, a process that was sent SIGKILL
exits, a call returns once its child is gone (the drain has a deadline), and a command
whose abort signal fired ends when its calls have returned. No child need exit by
itself, and no command need start or end anything.
`Proposal` has safety properties only: nothing makes anybody decide.

## 4. What is proved

Proofs hold for all values of the constants that satisfy the `ASSUME`s of the
module: any set of processes, any plan, any number of crashes.

`FileLock_proofs`. The inductive invariant `IInv` has five parts: `TypeOK`;
`Known` (every file in use was linked by its owner, so the next one is new);
`ProbedAreDead` (what a reclaimer verified has a dead owner, for good);
`OnePlace` (a file is at the path, in one quarantine, or gone); `Agreement`
(while nothing is displaced, the path holds the file of the process that is linked).
It is needed because exclusion is not inductive: it says nothing about the path
while a process has linked its file but not yet read it back. `Inductive` gives
`IInv` for every reachable state, and from it follow `TypeCorrect`, `Exclusive`,
`NoOrphan`, `Reclaimed`, and `Refinement`: every step of the lock file is a step
of `RunLock` or a stutter.

Two more say when the promise of `file-lock.ts` itself, `MutualExclusion`, holds.
`ExclusiveIfOneReclaims`: it does if no two processes are ever between the second read
and the rename of a reclaim at once (`OneReclaims`), because then a rename takes the file
that was verified, and nothing is displaced (`Undisturbed`). `ExclusiveIfNobodyDies`: it
does without dead owners, as there is then nothing to reclaim. The run
`filelock_displaced` shows that the hypothesis is needed.

`WorkflowRun_lemmas` and `WorkflowRun_proofs`. The properties of the journal are
not inductive: they speak of rows, and why a row is right is in the memory of
the driver that wrote it. The invariant `IInv` adds that memory:

| Part | What it says | What needs it |
|---|---|---|
| `LockInv` | who is in the drive loop holds the lock; while it is exclusive, one does | everything below |
| `PlaceInv` | past the top of the loop there is a step, in a loop it has; who reopens has a retry left | types, gates |
| `SpineInv` | the cursor splits the step rows: completed before it, pending after it | `SpineInOrder` |
| `BudgetInv` | a driver that dispatches has counted every row of the journal | `WithinBudget` |
| `WorkInv` | what a driver remembers of a unit agrees with the unit's row and attempt | `CompletedUnitsAreFinal`, `RunningIsDispatched` |
| `LoopInv` | a driver works past all rejected loops; an exhaustion is journaled | `RejectedLoopIsOver`, `ExhaustedOnlyByVerdict` |
| `EarnedInv` | past its units a driver has what the completion will rest on | `CompletedByWork` |

The argument divides all steps in two kinds (`TwoKinds`): a step of the drive
loop by a driver that holds the lock and keeps it (`Driven`), or a step that
leaves the journal alone, completes no step, and takes its process out of the
drive loop if it moves it at all (`Quiet`). While the lock is exclusive the
driver of the first kind is alone (`SoloOrQuiet`), so each part needs a proof
only for its steps. `SpineInv` is proved without the lock, because
`completeWorkflowStep` asks again in its transaction; that is why
`SpineInOrder` and `StepsStayCompleted` also hold when the lock is broken.

From `IInv` follow, for every plan, number of processes and bound, the theorems
`TypeCorrect`, `DispatchedOnce`, `BudgetHolds`, `UnitsAreFinal`,
`NoneLeftRunning`, `RejectionsLast`, `ExhaustionJudged`, `CompletionEarned`,
`SpineOrdered` and `StepsFinal`, one for each safety property that the passing
runs check. `CursorImplemented` proves the refinement of `RunSpine` under one
hypothesis, `[]OneReopens`: no two resumes overlap between their reads and their
transactions. Without it the refinement is false (finding 3). In the run `handover`
only one command resumes, which implies it.

For each of the findings 2 to 4 a theorem says under which condition the documented
sentence is true, and so where the only way out of it is:

| Theorem | Hypotheses | Why each is needed |
|---|---|---|
| `CompletedIsTerminalIfOneReopens` | `OneReopens` | run `late_resume` |
| `DispatchesCurrentIfReadsAlone` | `OneReopens`; `ReadsAlone`: an invocation reads the run only while nobody drives it, as it would after taking the lock | without the first TLC refutes it: a late resume reopens what the run has left behind; for the second, run `stale_read` |
| `RetryReopensIfAlone` | one driver, no abandon, `OneReopens` | run `abandoned` for the second; TLC finds a resume that commits inside the retry's own for the third |

The invariants behind them are `ReopenInv` (a run that is being reopened is stopped),
`CurrentInv` (one driver drives, at a step that is pending until it completes it, and
a resume reopens the step the cursor is at) and `RetryInv` (a run that a lone
invocation found failed has a failed step until it is reopened). None needs the lock
to be exclusive, so these three theorems hold with a displaced lock file as well.

`InvocationEnds` is liveness; of its argument only fairness is not proved, nor that what follows has no
infinite descent, which is plain when the units are finitely many. What an
invocation has left is an order of six things: retries of the run, in an attempt the
phases of `runWorkflowAttempt`, in the drive loop steps, in a step gate loops, in a loop stages, in
its first stage the attempts of each unit. `NothingIsEndless` says that each is a natural number;
`StepsComeNearer` that every step of the invocation, also one that fails, makes the first of them
that changes less, and that no step of another process touches them; `NoneIsStuck` that there is a next
step. The measure is over what the invocation remembers, so the three need no lock. The one
thing they need of the journal is that the step a driver goes on from is completed (`EndInv`):
it is why a resume by others cannot send it back. They rest on a pool width of at least 1
(`LimitAssumption`), as `scheduleUnits` makes it (`src/workflows/exec/scheduler.ts:51`).

`ChildWorkflow_proofs`. A parent advances on what a process remembers of a child
(`out`, `verdict`), while others may resume or abandon that child. The invariant
`IInv` has the properties themselves and

- `Durable`: a run row agrees with its completed steps, and a completed attempt of a
  unit has a completed child (a completed run stays completed);
- `Placed`, for each process: it is at the node it was started on or at one it drives,
  it holds the locks of exactly the nodes it drives, and a child it has to do something
  with belongs to the step its parent executes;
- `Held`: an attempt that a process works on is not one that was left behind, which is why
  finishing it needs no more of `orphans`;
- `Earned`: what it remembers as a success is a completed run, and it passes a
  step only when all children of the step are.

`AcyclicAssumption` (a frozen plan nests finitely) gives that the nodes of a process hang
under the one it was started on, so that a command that ends leaves none behind.
`TypeCorrect`, `ParentsWait`, `AttemptsHaveOwners` and `SpinesImplemented` hold for
any tree, processes and faults.

`SchedulerSync_proofs`. A plan rests on a listing that is several steps old when its
last row is written. `IInv` says that who is under way holds the lock and that what it
has listed is the crontab until it plans (`Holding`), which command can be at which
place (`Placed`), that the rest of a plan is about rows as they are (`PlanIsCurrent`), and
which rows a plan may touch (`Reach`). Since setup may change a list in the middle of a command, two parts
say what of it still holds: rows that are written are of an installation that has its list
(`Written`), and as long as nobody has started the list, what setup has listed has every row of its
host that is still there (`Fresh`). From it follow `TypeCorrect`, `PlansCurrent`,
`OthersRowsKept`, `WantedKept` and `FirstChoiceKept`, for any number of
installations and tasks.

`SyncReflects` is what `Converges` rests on and is safety: from any moment when the lock is
free, if from then on nothing but the commands changes anything in the middle of a command, no
backend call fails, nobody dies and setup writes no list (`Calm`), then every unscoped sync that comes to its
end leaves of each task what the config of its host wants, whatever happened before that
moment and whatever is edited between commands. Its invariant `OnCourse` says of each task that
the row a plan will have left settles it. With an edit in the middle of a command the
statement is false, as the plan is of the config before it. `Bundles` has to be
finite, because `Reflects` counts the bundles that want one task. What remains of
`Converges` is fairness: that such a sync gets the lock and ends.

`Proposal_proofs`. What accept and revert do to a file rests on what they read before
they began, or on what an attempt that died left behind. `IInv` consists of `TypeOK`, `LedgerFollowsStatus` and

| Part | What it says | What needs it |
|---|---|---|
| `OpInv` | at each step of an accept or revert: what the file, the row and the archive still are (`Publishes`, `Unpublishes`, `Retirement`, `Restoration`) | all properties of files and archives |
| `RowOK` | what a row holds of the original, and that an archive is there only with an intent or a decision | `RevertCanResume`, resumed accepts |
| `Dated` | no content bears a stamp that is yet to come | an accept that starts finds its base, never its own stamp |

`RowStep`, `FileStep` and `ArchiveStep` say once what any step makes of a row, a file and an
archive directory; the rest cites them. Every property of the run is a theorem:
`TypeCorrect`, `LedgerAgrees`, `RevertsResume`, `NothingNewer`, `AcceptedOnDisk`,
`SuccessorKept`, `NothingLost` and `DecisionsImplemented` hold whatever the proposals have in
common. So does `RevertBringsBack`, which is `RevertRestoresBase` but for the edge of a retired asset.
`OriginalHeld` and `RevertRestores` have the hypothesis `Distinct`: no two
retire proposals have the same target. It is needed: two pairs with one target can both be
judged before either is minted (section 6), and the second then takes the edge that
an interrupted accept of the first has written for part of its own original. The instance
of the run has one retire proposal.

`Retirement_proofs` has `AcceptedIsRetired`. A resumed accept does not look again at the
place of an asset that an earlier attempt has moved, so what was moved must not come back
until the accept is recorded, by none of the rows that hold a copy of it. Its
invariant `RInv`, on top of `IInv`:

| Part | What it says |
|---|---|
| `Within` | a retirement moves its target and that target's twin only |
| `Records` | a content that any file, row or archive holds was made: no later edit, stamp or proposal makes it again |
| `Gone` | once a retirement that is not decided has moved its asset, there is a set of contents, what was there and what it replaced, of which none is there or can be written there again, unless the asset's text is that of a proposal that creates the file |
| `Passed` | an accept that is past its asset has seen it go |

Its hypothesis `Apart` is that no retirement moves the asset of another, as its target or as
its twin; it is needed (section 6, the second of two retirements with one target).

`Termination_proofs`. What a signal does depends on who listens when it arrives, and that
on the children that live. After one signal `ChildrenFirst` and `LauncherReflects` need to know
that nothing else is on its way, so `IInv` places the signal. Besides `TypeOK` and the two:

| Part | What it says | What needs it |
|---|---|---|
| `Fresh` | of an akm that is not started there is nothing | signals that come before the spawn |
| `Through` | while the launcher is up, akm has only signals whose listener the launcher has spent | the launcher meets the default disposition when it raises akm's signal on itself |
| `Listening` | a running akm has its own listeners or the guard while a child of it lives, or holds a signal back that waits for all of them | a signal that nobody listens for finds no child |
| `NoSignal`, `OneSignal`, `OnePlace` | the first signal is in one place: the launcher, akm's queue, the guard, or an abort | a second copy of it would end akm past its children |

The two theorems are `ChildrenGoFirst` and `LauncherAsAkm`, for any number of children and
signals; `TypeCorrect` needs no part but `TypeOK`.

Two more are what `SignalledEnds` and `LadderEnds` rest on besides fairness, for any number of
signals. `AwaitedAreDoomed`: each child that the guard or an aborted command waits for has a ladder
under way or was sent SIGKILL, also when other children were started since; so nothing waits for a
child that nobody ends. `LaddersAdvance`: a ladder goes through its signals in order, whatever
second ladder, timeout or exit meets it, and ends with SIGKILL or without its leader.

Only model-checked: the liveness properties `DeadLockRecovered`,
`InvocationEnds`, `RecoveryConverges`, `Converges`, `SignalledEnds` and `LadderEnds` (liveness under fairness, and
`ENABLED`, are out of the prover's reach), and the counterexamples of section 6. Of
`InvocationEnds`, `Converges`, `SignalledEnds` and `LadderEnds` the safety core is proved. The properties that those counterexamples refute are proved
under the conditions that exclude them.

## 5. What is not modelled

Each component of section 1 that has no module is in `PROJECT.json` with the
reason. Of those modelled in part: publishing a run, listing and manual completion of
the spine, the nesting of the lease and of the scheduler lock, `max_tokens`,
retirements by hand, the abstractions named in section 2, and everything about
the content of results. An edit in `Proposal` always makes a new content, so earlier bytes come
back to a path only by a revert or an undo. `Termination` leaves out Windows, interactive children, the capture
of output, and the handlers of `index` and `improve` (which takes a hangup too). Process identifiers are not reused, locks are
readable, and SQLite's immediate transactions are atomic and isolated. Only
`cron` is modelled of the scheduler backends, and one crontab and one lock for all installations.

## 6. Findings

`PROJECT.json` quotes the sentences.

1. `filelock_displaced` (`src/core/file-lock.ts:183`): a reclaimer verifies a stale file and
   is overtaken before its rename, which then takes the file of a live holder;
   a third process links its own before the put-back. Two processes hold the lock.
2. `stale_read` (`src/workflows/exec/run-workflow.ts:207`): an invocation drives what it
   read before it had the lock, so it may dispatch the units of a step that is completed.
   The completing transaction refuses it; the work is done and paid for.
3. `late_resume` (`src/workflows/runtime/runs.ts:487`): the transaction of a resume
   does not look at the run again and may reopen a completed one.
4. `abandoned` (`src/workflows/exec/run-workflow.ts:195`): `--max-retries` takes
   an abandoned run for a failed one and reopens it.

Disagreements without a run of their own, met while modelling; the carve-outs of the
properties name those that concern them.

Proposals (`src/commands/proposal/`):

- An accept that was interrupted between tombstone and rename, when resumed, takes
  the tombstone for the move (`repository.ts:2087`) and records a retirement whose asset is still in
  its place. Without its second disjunct `AcceptRetires` fails.
- What an interrupted retirement has moved may be published again before it is resumed: the accept
  of a proposal that creates the file dies between its file write and its record, a retirement moves
  the file and dies, the accept is repeated and creates the file anew, and the resumed retirement
  skips what it "archived" (`repository.ts:2064`). It is recorded as accepted with the file in
  place: the third disjunct of `AcceptRetires`.
- Of two retirements with one target, the first, interrupted after its tombstone, is recorded
  without a move as above; the second moves the file and dies; the revert of the first writes the
  file back, and the second is resumed and recorded with the file in place.
- The retention sweep takes no lease. It may expire a proposal between an accept's file
  write and its decision: the content is published and the proposal rejected. The same
  way a retired asset is archived under a rejected proposal, although
  `repository.ts:2053` says a failure undoes the call's own moves, and neither reopen nor revert
  applies to it.
- A revert that dies between its file write and its record is refused on retry,
  as the file is no longer what was published: the proposal stays accepted.
- The branch of `readFreshProposalTarget` for a target that "already holds this
  proposal's content" is never taken for a create, nor for markdown, which is stamped anew.
- A drain takes up a reopened proposal on the word of a verdict given before it was rejected.
- After the archive of a retirement with a twin was purged the whole revert is
  refused, though `repository.ts:2265` says the asset can be restored from the row.
- The pairs held by pending retirements are read before the judge runs; a reopen in
  between gives one asset two pending retirements.

Scheduler (`src/commands/tasks/tasks.ts`, `src/tasks/`, `src/setup/steps/tasks.ts`):

- A setup that cannot list the crontab only warns (`setup/steps/tasks.ts:285`), and then starts the list from
  nothing but the templates a person selected (lines 235-246): every other installed task is out of it, and the sync
  that follows removes their rows. The comment at line 277 says "A config that predates `scheduler.enabled`
  means \"keep what is installed\"". Without its exemption of `SetupEnlist`, `FirstChoiceKeepsRows` fails.
- Setup takes no scheduler lock, and both it and a command write the list that they derived from their
  listing whatever the config has got meanwhile (`setup/steps/tasks.ts:283`, `commands/tasks/tasks.ts:419`). If both start
  the list at once, the second write undoes what the first one's owner has enabled or disabled since.
  `FirstChoiceKeepsRows` is about the write that starts the list; the second finds one.
- An unscoped sync removes rows by the name of a disabled bundle; the primary bundle of
  another installation may have that name. `akmTasksSync` says such rows are
  "never touched". Two installations can undo each other's rows for ever, which
  is why `Converges` has a premise.
- A row of one bundle stays while another bundle's task claims its id, although its
  own task is no longer enabled; neither is then scheduled right.
- The first choice counts rows of another installation's bundle with the same name, so
  the list may hold tasks that this host never scheduled.
- A bundle that is removed from the config leaves its rows behind: no scope covers
  them, and `prune` keeps rows whose stash exists.
- The lock lies in a state directory, the crontab belongs to the user: installations
  with different state directories do not exclude one another.

Process termination:

- The launcher forwards SIGHUP (`scripts/node-runtime/akm:45`), and neither the guard
  (`subprocess.ts:236`) nor task and workflow runs listen for it: akm ends and
  its child, "that a termination signal to THIS process must take down with it", runs on.
  With SIGHUP in `Sent`, `ChildrenFirst` fails.
- The watchdog compares with the parent it sees when it starts (`cli.ts:1247`). A launcher lost
  while akm's runtime loads is not that parent, and nothing stops akm; `SignalledEnds`
  is about a launcher that was seen.
- After a timeout a call returns at most 2 s after its leader's exit (`subprocess.ts:546`), SIGKILL
  comes 5 s after SIGTERM, and its timer does not keep akm alive: a member of the group
  that ignores the other signals stays, where `run-native-task.ts:198` says "no orphans".
- A signal that ends akm and did not come through the launcher finds the launcher's own
  listener still there when it is raised again (`scripts/node-runtime/akm:142`): the launcher exits 0. The
  model sends signals through the launcher only, so `LauncherReflects` is not about this one.
- A second signal of one kind ends the launcher; the watchdog's SIGTERM then meets a spent
  guard, and akm ends in the middle of a ladder.

Child workflows: a comment in `child-workflow.ts` has the parent "never" advance on
an unresolved child; with `on_error: continue` it does.

## 7. Plan

Done: all modules of section 2; every safety property that a passing run checks is a
theorem, and those that the other four runs refute are theorems under the condition that is
missing in the code. Next, in this order:

1. An instance of `Proposal` with two retire proposals that share an asset, small enough
   to be checked: a chain (one retires what the other keeps) and one target (where `Distinct` fails).
2. `TaskAttempt`: reservation and end of task attempts
   (`src/tasks/run/attempt-lifecycle.ts:38`); attempts that could not reserve a row share a
   start time, and with it a log file.
3. The safety cores of `RecoveryConverges` (what a resume of a stuck tree brings nearer) and of
   `DeadLockRecovered` (what a lost race of two reclaimers leaves behind).
4. `Lease`: re-entrancy by a set of held paths per async context
   (`src/indexer/index-writer-lock.ts:173`) and by a counter (`src/tasks/scheduler-lock.ts:25`).
5. Events: the steps whose event is appended after their commit.
