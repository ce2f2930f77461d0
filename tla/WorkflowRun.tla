---------------------------- MODULE WorkflowRun ----------------------------
(***************************************************************************)
(* One durable workflow run of akm: its spine and its unit journal in      *)
(* state.db, the invocations of `akm workflow run' that drive it under its *)
(* run lock, and the `resume' and `abandon' commands that change it        *)
(* without that lock.                                                      *)
(*                                                                         *)
(* A step here is one state.db transaction, one lock operation, or one     *)
(* answer of the world (a unit's result, a judge's verdict).  Local        *)
(* computation goes with the transaction that follows or precedes it.      *)
(* Step 0 is the NULL of current_step_id.                                  *)
(***************************************************************************)
EXTENDS Naturals, FiniteSets

CONSTANTS
  N,             \* steps of the frozen plan
  Units,         \* names of work units
  UnitsOf,       \* the work list of each step
  Gated,         \* steps that declare completion criteria
  Tolerant,      \* steps whose template says on_error: continue
  LoopCap,       \* the largest gate.max_loops of the plan
  MaxLoops,      \* effectiveGateMaxLoops of each step
  MaxAttempts,   \* 1 + retry.max
  MaxUnits,      \* the plan's budget.max_units
  Width,         \* units dispatched at once
  Drivers,       \* invocations of `akm workflow run'
  MaxRetries,    \* their --max-retries
  Interruptible, \* those whose abort signal may fire
  Resumers,      \* invocations of `akm workflow resume'
  Abandoners,    \* invocations of `akm workflow abandon'
  MaxFaults,     \* bound: crashes and journal write failures
  LockMayBreak   \* whether a lock file may be displaced

Steps == 1..N
Loops == 1..LoopCap

ASSUME PlanAssumption ==
  /\ N \in Nat /\ LoopCap \in Nat \ {0} /\ UnitsOf \in [Steps -> SUBSET Units]
  /\ Gated \subseteq Steps /\ Tolerant \subseteq Steps
  /\ MaxLoops \in [Steps -> Loops]
ASSUME LimitAssumption ==
  /\ MaxAttempts \in Nat /\ MaxUnits \in Nat /\ Width \in Nat \ {0}
  /\ MaxRetries \in Nat /\ MaxFaults \in Nat /\ LockMayBreak \in BOOLEAN
ASSUME ActorAssumption ==
  /\ Interruptible \subseteq Drivers
  /\ Drivers \cap (Resumers \cup Abandoners) = {} /\ Resumers \cap Abandoners = {}

VARIABLES
  runStatus, current, stepStatus,  \* workflow_runs, workflow_run_steps
  unitRow,   \* latest attempt of each unit of each step and gate loop
  gateRow,   \* the gate evaluation of each step and loop
  attempts,  \* how many attempts each of those units has
  rows,      \* attempt rows of phase "unit": the journal's dispatch count
  holders,   \* who holds the run lock
  compromised, \* the lock file was displaced: see RunLock and FileLock
  pc,        \* where each process is
  at,        \* the step each driver works on
  loop,      \* and its gate loop
  unit,      \* what became of each unit in this loop
  tries,     \* how often it was dispatched
  ticket,    \* and under which attempt number
  used,      \* the driver's budget counter
  flags,     \* what the driver remembers of its attempt
  retries,   \* retries left
  saved,     \* the current step a resume has read
  faults     \* crashes and journal failures so far

spine == <<runStatus, current, stepStatus>>
dispatchLog == <<unitRow, attempts, rows>>
journal == <<dispatchLog, gateRow>>
lock == <<holders, compromised>>
round == <<loop, unit, tries, ticket>>
local == <<at, round, used, flags>>
rest == <<retries, saved, faults>>
vars == <<spine, journal, lock, pc, local, rest>>

Cells == Steps \X Loops \X Units
Gates == Steps \X Loops
Actors == Drivers \cup Resumers \cup Abandoners

(* The first of some steps, in the order of their rows.                    *)
First(S) == CHOOSE s \in S : \A t \in S : s <= t

Lock == INSTANCE RunLock WITH Procs <- Drivers

Driving == {"plan", "step", "exec", "failing", "gate", "judging", "commit",
            "settle", "blocking", "next", "exit"}
Labels == Driving \cup {"start", "locking", "resuming", "reopening", "ended"}
Flags == {"tripped", "lost", "barred", "worked", "rejected", "aborted", "error", "signal"}

TypeOK ==
  /\ runStatus \in {"active", "blocked", "failed", "completed"}
  /\ current \in 0..N
  /\ stepStatus \in [Steps -> {"pending", "completed", "blocked", "failed"}]
  /\ unitRow \in [Cells -> {"none", "running", "completed", "failed"}]
  /\ gateRow \in [Gates -> {"none", "running", "passed", "rejected", "errored"}]
  /\ attempts \in [Cells -> Nat]
  /\ rows \in Nat
  /\ holders \subseteq Drivers /\ compromised \in BOOLEAN
  /\ pc \in [Actors -> Labels]
  /\ at \in [Drivers -> 0..N]
  /\ loop \in [Drivers -> Loops]
  /\ unit \in [Drivers -> [Units -> {"todo", "again", "sent", "ok", "bad"}]]
  /\ tries \in [Drivers -> [Units -> Nat]]
  /\ ticket \in [Drivers -> [Units -> Nat]]
  /\ used \in [Drivers -> Nat]
  /\ flags \in [Drivers -> SUBSET Flags]
  /\ retries \in [Drivers -> Nat]
  /\ saved \in [Actors -> 0..N]
  /\ faults \in Nat

-----------------------------------------------------------------------------
(* Helpers *)

Goto(p, label) == pc' = [pc EXCEPT ![p] = label]
Note(d, fs) == flags' = [flags EXCEPT ![d] = @ \cup fs]

(* Leave the drive loop for the final read, remembering why.               *)
Leave(d, fs) == Goto(d, "exit") /\ Note(d, fs)

Idle == [u \in Units |-> "ok"]
Never == [u \in Units |-> 0]

Init ==
  /\ runStatus = "active"
  /\ stepStatus = [s \in Steps |-> "pending"]
  /\ current = IF N = 0 THEN 0 ELSE 1
  /\ unitRow = [c \in Cells |-> "none"]
  /\ gateRow = [g \in Gates |-> "none"]
  /\ attempts = [c \in Cells |-> 0]
  /\ rows = 0
  /\ Lock!Init
  /\ pc = [p \in Actors |-> IF p \in Resumers THEN "resuming" ELSE "start"]
  /\ at = [d \in Drivers |-> 0]
  /\ loop = [d \in Drivers |-> 1]
  /\ unit = [d \in Drivers |-> Idle]
  /\ tries = [d \in Drivers |-> Never]
  /\ ticket = [d \in Drivers |-> Never]
  /\ used = [d \in Drivers |-> 0]
  /\ flags = [d \in Drivers |-> {}]
  /\ retries = [d \in Drivers |-> MaxRetries]
  /\ saved = [p \in Actors |-> 0]
  /\ faults = 0

Pending(st) == {s \in Steps : st[s] = "pending"}
Stuck_none(st) == {}   \* faulty: a failed step does not stop the run
Stuck(st) == {s \in Steps : st[s] \in {"blocked", "failed"}}

(* resolveCurrentStep *)
CurrentStep ==
  IF current = 0 /\ Pending(stepStatus) # {} THEN First(Pending(stepStatus)) ELSE current

(* Faulty: the state of the run, or of the step, is not looked at.         *)
MayComplete_anyRun(d) ==
  /\ at[d] = current
  /\ at[d] # 0 /\ stepStatus[at[d]] = "pending"
MayComplete_anyStep(d) == runStatus = "active" /\ at[d] # 0

(* What completeWorkflowStep requires, in its preflight and again in its   *)
(* transaction.                                                            *)
MayComplete(d) ==
  /\ runStatus = "active"
  /\ at[d] = current
  /\ at[d] # 0 /\ stepStatus[at[d]] = "pending"

(* The transaction itself: the step row, then deriveRunState over all.     *)
CompleteStep(s, status) ==
  LET st == [stepStatus EXCEPT ![s] = status]
  IN  /\ stepStatus' = st
      /\ \/ /\ Stuck(st) # {}
            /\ runStatus' = st[First(Stuck(st))]
            /\ current' = First(Stuck(st))
         \/ /\ Stuck(st) = {} /\ Pending(st) # {}
            /\ runStatus' = "active"
            /\ current' = First(Pending(st))
         \/ /\ Stuck(st) = {} /\ Pending(st) = {}
            /\ runStatus' = "completed"
            /\ current' = 0

(* markRunAbandoned: only an active or blocked run, and the steps stay.    *)
Abandonable == runStatus \in {"active", "blocked"}
MarkAbandoned == runStatus' = "failed" /\ UNCHANGED <<current, stepStatus>>

(* Faulty: a resumed step starts over, or an outage counts as a verdict.   *)
StartLoop_over(s) == 1
StartLoop_outage(s) ==
  LET judged == {l \in Loops : s \in Gated /\ gateRow[<<s, l>>] \in {"rejected", "errored"}}
  IN  IF judged = {} THEN 1
      ELSE 1 + (CHOOSE l \in judged : \A k \in judged : k <= l)

(* activeGateLoop: one past the highest rejected loop.                     *)
StartLoop(s) ==
  LET rejected == {l \in Loops : s \in Gated /\ gateRow[<<s, l>>] = "rejected"}
  IN  IF rejected = {} THEN 1
      ELSE 1 + (CHOOSE l \in rejected : \A k \in rejected : k <= l)

(* classifyUnitReuse: only a completed row is a result.                    *)
Reused_never(s, l, u) == FALSE                                        \* faulty
Reused_failed(s, l, u) == unitRow[<<s, l, u>>] \in {"completed", "failed"}  \* faulty
Reused(s, l, u) == unitRow[<<s, l, u>>] = "completed"

(* The start of executeStepPlan: a unit with a completed row is reused,    *)
(* the others are to be dispatched.  When an environment or a directory    *)
(* they need cannot be resolved, the step is barred and fails.             *)
BeginLoop(d, l, fs) ==
  /\ loop' = [loop EXCEPT ![d] = l]
  /\ unit' = [unit EXCEPT ![d] = [u \in Units |->
       IF u \in UnitsOf[at[d]] /\ ~Reused(at[d], l, u) THEN "todo" ELSE "ok"]]
  /\ tries' = [tries EXCEPT ![d] = Never]
  /\ ticket' = [ticket EXCEPT ![d] = Never]
  /\ \E bar \in {{}} \cup {b \in {{"barred"}} : \E u \in Units : unit'[d][u] = "todo"} :
       flags' = [flags EXCEPT ![d] = ((@ \cup fs) \ {"tripped", "lost"}) \cup bar]
  /\ Goto(d, "exec")

(* The end of an invocation or of an attempt.                              *)
Forget(d, label) ==
  /\ at' = [at EXCEPT ![d] = 0]
  /\ loop' = [loop EXCEPT ![d] = 1]
  /\ unit' = [unit EXCEPT ![d] = Idle]
  /\ tries' = [tries EXCEPT ![d] = Never]
  /\ ticket' = [ticket EXCEPT ![d] = Never]
  /\ used' = [used EXCEPT ![d] = 0]
  /\ flags' = [flags EXCEPT ![d] = @ \cap {"signal"}]
  /\ Goto(d, label)

-----------------------------------------------------------------------------
(* runWorkflowAttempt *)

(* getNextWorkflowStep and the refusal of a run that is not active.  What  *)
(* it read is kept as the first step to drive.                             *)
Read(d) ==
  /\ pc[d] = "start"
  /\ \/ /\ runStatus = "active"
        /\ at' = [at EXCEPT ![d] = CurrentStep]
        /\ Goto(d, "locking")
     \/ /\ runStatus # "active"
        /\ Goto(d, "ended")
        /\ UNCHANGED at
  /\ UNCHANGED <<spine, journal, lock, round, used, flags, rest>>

(* Faulty: no lock is taken.                                               *)
TakeLock_skipped(d) ==
  /\ pc[d] = "locking"
  /\ Goto(d, "plan")
  /\ UNCHANGED <<spine, journal, lock, local, rest>>

(* acquireWorkflowRunLock, after that read.                                *)
TakeLock(d) ==
  /\ pc[d] = "locking"
  /\ \/ Lock!Acquire(d) /\ Goto(d, "plan")
     \/ holders # {} /\ Goto(d, "ended") /\ UNCHANGED lock
  /\ UNCHANGED <<spine, journal, local, rest>>

(* seedRunAccountingFromJournal                                            *)
JournalSeed_none == 0   \* faulty: each invocation has a budget of its own
JournalSeed == rows

(* The frozen plan, and the budget counter seeded from the journal.  A     *)
(* plan of a newer akm is left alone; one that cannot be decoded abandons  *)
(* the run.                                                                *)
OpenPlan(d) ==
  /\ pc[d] = "plan"
  /\ \/ /\ used' = [used EXCEPT ![d] = JournalSeed]
        /\ Goto(d, "step")
        /\ UNCHANGED <<spine, flags>>
     \/ /\ Leave(d, {"error"})
        /\ UNCHANGED <<spine, used>>
     \/ /\ Abandonable
        /\ MarkAbandoned
        /\ Leave(d, {})
        /\ UNCHANGED used
  /\ UNCHANGED <<journal, lock, at, round, rest>>

(* The top of driveRun's loop.                                             *)
BeginStep(d) ==
  /\ pc[d] = "step"
  /\ \/ /\ at[d] = 0
        /\ Leave(d, {})
        /\ UNCHANGED round
     \/ /\ at[d] # 0 /\ "signal" \in flags[d]
        /\ Leave(d, {"aborted"})
        /\ UNCHANGED round
     \/ /\ at[d] # 0 /\ "signal" \notin flags[d]
        /\ \/ /\ StartLoop(at[d]) > MaxLoops[at[d]]
              /\ Leave(d, {"rejected"})
              /\ UNCHANGED round
           \/ /\ StartLoop(at[d]) <= MaxLoops[at[d]]
              /\ BeginLoop(d, StartLoop(at[d]), {})
           \/ /\ StartLoop(at[d]) <= MaxLoops[at[d]]
              /\ at[d] \in Gated            \* its judge cannot be resolved
              /\ Goto(d, "blocking")
              /\ UNCHANGED <<round, flags>>
  /\ UNCHANGED <<spine, journal, lock, at, used, rest>>

-----------------------------------------------------------------------------
(* One gate loop of a step: executeStepPlan *)

Work(d) == UnitsOf[at[d]]
Cell(d, u) == <<at[d], loop[d], u>>
Become(d, u, what) == unit' = [unit EXCEPT ![d][u] = what]

(* No further dispatch: the budget tripped, the caller aborted, or the     *)
(* step never had what its units need.                                     *)
Halted(d) == flags[d] \cap {"tripped", "signal", "barred"} # {}

(* A worker is free for a new unit, or retries the one it has.             *)
Claimable(d, u) ==
  \/ unit[d][u] = "again"
  \/ /\ unit[d][u] = "todo"
     /\ Cardinality({v \in Work(d) : unit[d][v] \in {"again", "sent"}}) < Width

(* After a failed attempt: another one if the policy has one left and the  *)
(* reason is one it retries.                                               *)
AfterFailure(d, u, n) ==
  {"bad"} \cup {a \in {"again"} : n < MaxAttempts /\ ~Halted(d)}

OverBudget_late(d) == used[d] > MaxUnits   \* faulty: one dispatch too many
OverBudget(d) == used[d] >= MaxUnits

Running(d, u) == unitRow[Cell(d, u)] = "running"
NewAttempt(d, u) ==
  /\ unitRow' = [unitRow EXCEPT ![Cell(d, u)] = "running"]
  /\ attempts' = [attempts EXCEPT ![Cell(d, u)] = @ + 1]
  /\ rows' = rows + 1

(* tryConsume, then reserveUnitAttempt: a latest attempt still running is  *)
(* reclaimed, otherwise a new row is journaled; a run that is not active   *)
(* gets neither, and the unit fails without having been dispatched.        *)
Dispatch(d, u) ==
  /\ pc[d] = "exec"
  /\ u \in Work(d)
  /\ ~Halted(d)
  /\ Claimable(d, u)
  /\ \/ /\ OverBudget(d)
        /\ Note(d, {"tripped"})
        /\ Become(d, u, "bad")
        /\ UNCHANGED <<journal, used, tries, ticket>>
     \/ /\ ~OverBudget(d)
        /\ used' = [used EXCEPT ![d] = @ + 1]
        /\ tries' = [tries EXCEPT ![d][u] = @ + 1]
        /\ \/ /\ runStatus = "active"
              /\ \/ Running(d, u) /\ UNCHANGED dispatchLog
                 \/ ~Running(d, u) /\ NewAttempt(d, u)
              /\ ticket' = [ticket EXCEPT ![d][u] = attempts'[Cell(d, u)]]
              /\ Become(d, u, "sent")
           \/ /\ runStatus # "active"
              /\ \E what \in AfterFailure(d, u, tries[d][u] + 1) : Become(d, u, what)
              /\ UNCHANGED <<dispatchLog, ticket>>
        /\ UNCHANGED <<gateRow, flags>>
  /\ UNCHANGED <<spine, lock, pc, at, loop, rest>>

(* Faulty: the result of a run that went inactive is dropped.              *)
Record_activeOnly(d, u, status) ==
  IF Running(d, u) /\ attempts[Cell(d, u)] = ticket[d][u] /\ runStatus = "active"
  THEN unitRow' = [unitRow EXCEPT ![Cell(d, u)] = status]
  ELSE UNCHANGED unitRow

(* finishUnitAttempt, whatever became of the run meanwhile: the attempt    *)
(* this driver reserved gets its terminal status, unless it has one.       *)
Record(d, u, status) ==
  IF Running(d, u) /\ attempts[Cell(d, u)] = ticket[d][u]
  THEN unitRow' = [unitRow EXCEPT ![Cell(d, u)] = status]
  ELSE UNCHANGED unitRow

Finish(d, u) ==
  /\ pc[d] = "exec"
  /\ unit[d][u] = "sent"
  /\ \/ /\ Record(d, u, "completed")
        /\ Become(d, u, "ok")
     \/ /\ Record(d, u, "failed")
        /\ \E what \in AfterFailure(d, u, tries[d][u]) : Become(d, u, what)
  /\ UNCHANGED <<spine, attempts, gateRow, rows, lock, pc, at, loop, tries, ticket, used, flags, rest>>

(* ... whose write may fail: the row stays running and the step is lost.   *)
JournalFails(d, u) ==
  /\ pc[d] = "exec"
  /\ unit[d][u] = "sent"
  /\ faults < MaxFaults
  /\ faults' = faults + 1
  /\ Become(d, u, "bad")
  /\ Note(d, {"lost"})
  /\ UNCHANGED <<spine, journal, lock, pc, at, loop, tries, ticket, used, retries, saved>>

(* reduceStepOutcomes: the step's verdict, which finalizeExecutedStep acts *)
(* on.  Tolerated or not, a failed unit whose child workflow is blocked    *)
(* blocks a step that has no result; so may a tied vote or an artifact     *)
(* that misses its schema fail any step, but the latter is first retried   *)
(* like a rejection, without a gate row.                                   *)
EndLoop(d) ==
  /\ pc[d] = "exec"
  /\ \A u \in Work(d) : unit[d][u] # "sent"
  /\ Halted(d) \/ \A u \in Work(d) : unit[d][u] \in {"ok", "bad"}
  /\ LET hard == flags[d] \cap {"tripped", "lost", "barred"} # {}
         bad == \E u \in Work(d) : unit[d][u] # "ok"
         fails == hard \/ (bad /\ at[d] \notin Tolerant)
     IN  \/ /\ "signal" \in flags[d]
            /\ Leave(d, {"aborted"})
            /\ UNCHANGED round
         \/ /\ "signal" \notin flags[d]
            /\ Goto(d, "failing") \/ (bad /\ ~hard /\ Goto(d, "blocking"))
            /\ Note(d, {"worked"})
            /\ UNCHANGED round
         \/ /\ "signal" \notin flags[d] /\ ~fails
            /\ loop[d] < MaxLoops[at[d]]
            /\ BeginLoop(d, loop[d] + 1, {"worked"})
         \/ /\ "signal" \notin flags[d] /\ ~fails
            /\ Goto(d, IF at[d] \in Gated THEN "gate" ELSE "commit")
            /\ Note(d, {"worked"})
            /\ UNCHANGED round
  /\ UNCHANGED <<spine, journal, lock, at, used, rest>>

-----------------------------------------------------------------------------
(* finalizeExecutedStep *)

(* A failed step is completed as failed; so is, as blocked, one whose      *)
(* judge is missing or broken.  A step that may no longer be completed is  *)
(* an error of the invocation.                                             *)
Stop(d, label, status) ==
  /\ pc[d] = label
  /\ \/ /\ MayComplete(d)
        /\ CompleteStep(at[d], status)
        /\ Leave(d, {"worked"})
     \/ /\ ~MayComplete(d)
        /\ Leave(d, {"error"})
        /\ UNCHANGED spine
  /\ UNCHANGED <<journal, lock, at, round, used, rest>>
Failing(d) == Stop(d, "failing", "failed")
Blocking(d) == Stop(d, "blocking", "blocked")

SetGate(d, verdict) == gateRow' = [gateRow EXCEPT ![<<at[d], loop[d]>>] = verdict]

(* The preflight, and the gate row reserved before the judge is called.    *)
Gate(d) ==
  /\ pc[d] = "gate"
  /\ \/ /\ "signal" \in flags[d]
        /\ Leave(d, {"aborted"})
        /\ UNCHANGED gateRow
     \/ /\ "signal" \notin flags[d] /\ ~MayComplete(d)
        /\ Leave(d, {"error"})
        /\ UNCHANGED gateRow
     \/ /\ Goto(d, "blocking")           \* the plan resolves no judge
        /\ UNCHANGED <<gateRow, flags>>
     \/ /\ "signal" \notin flags[d] /\ MayComplete(d)
        /\ SetGate(d, "running")
        /\ Goto(d, "judging")
        /\ UNCHANGED flags
  /\ UNCHANGED <<spine, dispatchLog, lock, at, round, used, rest>>

(* The judge answers, outside any transaction.                             *)
Judge(d) ==
  /\ pc[d] = "judging"
  /\ \/ /\ "signal" \in flags[d]
        /\ SetGate(d, "errored")
        /\ Leave(d, {"aborted"})
        /\ UNCHANGED round
     \/ /\ "signal" \notin flags[d]      \* complete
        /\ Goto(d, "commit")
        /\ UNCHANGED <<gateRow, flags, round>>
     \/ /\ "signal" \notin flags[d]      \* rejected
        /\ SetGate(d, "rejected")
        /\ \/ /\ loop[d] < MaxLoops[at[d]]
              /\ BeginLoop(d, loop[d] + 1, {})
           \/ /\ loop[d] = MaxLoops[at[d]]
              /\ Leave(d, {"rejected"})
              /\ UNCHANGED round
     \/ /\ "signal" \notin flags[d]      \* thrown, or a malformed verdict
        /\ SetGate(d, "errored")
        /\ Goto(d, "blocking")
        /\ UNCHANGED <<flags, round>>
  /\ UNCHANGED <<spine, dispatchLog, lock, at, used, rest>>

(* The completing transaction.  When it is refused, a gate row that was    *)
(* reserved is finished as errored.                                        *)
Commit(d) ==
  /\ pc[d] = "commit"
  /\ \/ /\ "signal" \notin flags[d] /\ MayComplete(d)
        /\ CompleteStep(at[d], "completed")
        /\ Goto(d, IF at[d] \in Gated THEN "settle" ELSE "next")
        /\ UNCHANGED <<gateRow, flags>>
     \/ /\ "signal" \in flags[d] \/ ~MayComplete(d)
        /\ IF at[d] \in Gated THEN SetGate(d, "errored") ELSE UNCHANGED gateRow
        /\ Leave(d, {IF "signal" \in flags[d] THEN "aborted" ELSE "error"})
        /\ UNCHANGED spine
  /\ UNCHANGED <<dispatchLog, lock, at, round, used, rest>>

(* The verdict is journaled after the step it completed.                   *)
Settle(d) ==
  /\ pc[d] = "settle"
  /\ SetGate(d, "passed")
  /\ Goto(d, "next")
  /\ UNCHANGED <<spine, dispatchLog, lock, local, rest>>

-----------------------------------------------------------------------------
(* The rest of the drive loop, the retry loop, and the other commands *)

(* Re-read the run; go on while it is active and --max-steps allows.       *)
NextStep(d) ==
  /\ pc[d] = "next"
  /\ \/ /\ runStatus = "active"
        /\ at' = [at EXCEPT ![d] = CurrentStep]
        /\ Goto(d, "step")
        /\ UNCHANGED flags
     \/ /\ Leave(d, {})
        /\ UNCHANGED at
  /\ UNCHANGED <<spine, journal, lock, round, used, rest>>

(* A run that failed is retried, unless this attempt was aborted,          *)
(* rejected, or executed nothing.                                          *)
MayRetry_always(d) ==   \* faulty: the number of retries is not looked at
  /\ runStatus = "failed"
  /\ "worked" \in flags[d]
  /\ flags[d] \cap {"aborted", "rejected", "error"} = {}
MayRetry(d) ==
  /\ runStatus = "failed"
  /\ "worked" \in flags[d]
  /\ flags[d] \cap {"aborted", "rejected", "error"} = {}
  /\ retries[d] > 0

(* The final read and the release of the lock; --max-steps may forbid the  *)
(* retry.                                                                  *)
Exit(d) ==
  /\ pc[d] = "exit"
  /\ \/ MayRetry(d) /\ Forget(d, "resuming")
     \/ Forget(d, "ended")
  /\ Lock!Relinquish(d)
  /\ UNCHANGED <<spine, journal, rest>>

(* Faulty: a retry is not counted.                                         *)
Resumed_free(p) ==
  \/ p \in Resumers /\ Goto(p, "ended") /\ UNCHANGED retries
  \/ p \in Drivers /\ Goto(p, "start") /\ UNCHANGED retries

(* A resume is done: the command ends, the retry loop starts over.         *)
Resumed(p) ==
  \/ p \in Resumers /\ Goto(p, "ended") /\ UNCHANGED retries
  \/ p \in Drivers /\ Goto(p, "start") /\ retries' = [retries EXCEPT ![p] = @ - 1]

(* resumeWorkflowRun: the reads that decide ...                            *)
ResumeRead(p) ==
  /\ pc[p] = "resuming"
  /\ \/ /\ runStatus = "completed"
        /\ Goto(p, "ended")
        /\ UNCHANGED <<retries, saved>>
     \/ /\ runStatus = "active"
        /\ Resumed(p)
        /\ UNCHANGED saved
     \/ /\ runStatus \in {"blocked", "failed"}
        /\ saved' = [saved EXCEPT ![p] = current]
        /\ Goto(p, "reopening")
        /\ UNCHANGED retries
  /\ UNCHANGED <<spine, journal, lock, local, faults>>

(* ... and the transaction, which asks nothing of the run any more.        *)
ResumeCommit(p) ==
  /\ pc[p] = "reopening"
  /\ stepStatus' = [s \in Steps |->
       IF s = saved[p] /\ stepStatus[s] \in {"blocked", "failed"} THEN "pending" ELSE stepStatus[s]]
  /\ runStatus' = "active"
  /\ saved' = [saved EXCEPT ![p] = 0]
  /\ Resumed(p)
  /\ UNCHANGED <<current, journal, lock, local, faults>>

(* abandonWorkflowRun: one immediate transaction.                          *)
Abandon(p) ==
  /\ pc[p] = "start"
  /\ IF Abandonable THEN MarkAbandoned ELSE UNCHANGED spine
  /\ Goto(p, "ended")
  /\ UNCHANGED <<journal, lock, local, rest>>

(* The caller's abort signal, or --timeout.                                *)
Interrupt(d) ==
  /\ pc[d] \in Driving
  /\ "signal" \notin flags[d]
  /\ Note(d, {"signal"})
  /\ UNCHANGED <<spine, journal, lock, pc, at, round, used, rest>>

(* The process dies; its lock file has a dead owner and is free to take.   *)
Crash(d) ==
  /\ pc[d] # "ended"
  /\ faults < MaxFaults
  /\ faults' = faults + 1
  /\ Forget(d, "ended")
  /\ IF d \in holders THEN Lock!Relinquish(d) ELSE UNCHANGED lock
  /\ UNCHANGED <<spine, journal, retries, saved>>

StepOf(d) ==
  \/ Read(d) \/ TakeLock(d) \/ OpenPlan(d) \/ BeginStep(d)
  \/ \E u \in Units : Dispatch(d, u) \/ Finish(d, u)
  \/ EndLoop(d) \/ Failing(d) \/ Blocking(d)
  \/ Gate(d) \/ Judge(d) \/ Commit(d) \/ Settle(d)
  \/ NextStep(d) \/ Exit(d)
Resume(p) == ResumeRead(p) \/ ResumeCommit(p)
Disturbance(d) == Crash(d) \/ \E u \in Units : JournalFails(d, u)

(* See FileLock.                                                           *)
BreakLock ==
  /\ LockMayBreak /\ ~compromised
  /\ Lock!Compromise
  /\ UNCHANGED <<spine, journal, pc, local, rest>>

Next ==
  \/ BreakLock
  \/ \E d \in Drivers : StepOf(d) \/ Disturbance(d)
  \/ \E d \in Interruptible : Interrupt(d)
  \/ \E p \in Drivers \cup Resumers : Resume(p)
  \/ \E p \in Abandoners : Abandon(p)

Spec == Init /\ [][Next]_vars

(* Units, judges and transactions end (they have timeouts), and an         *)
(* invocation runs its own code to the end unless it dies.                 *)
Fairness == \A d \in Drivers : WF_vars(StepOf(d) \/ Resume(d))
FairSpec == Spec /\ Fairness

-----------------------------------------------------------------------------
(* Properties.  Those about the unit journal hold while the run lock is    *)
(* exclusive; those about the spine hold even when it is not.              *)

Sent(d, u) == pc[d] = "exec" /\ u \in Work(d) /\ unit[d][u] = "sent"

(* budget.max_units bounds what a run dispatches over all its invocations, *)
(* crashes, resumes, retries and gate loops, though each invocation counts *)
(* in memory (DispatchBudget) from a count it read once.                   *)
WithinBudget == ~compromised => rows <= MaxUnits

(* "a completed unit is reused, never re-dispatched": no later step of any *)
(* process touches the row of a completed unit.                            *)
CompletedUnitsAreFinal ==
  [][\A c \in Cells : ~compromised' /\ unitRow[c] = "completed" =>
       unitRow'[c] = "completed" /\ attempts'[c] = attempts[c]]_vars

(* "a running attempt found here is never another live driver's".          *)
OneDispatcher ==
  ~compromised => \A d, e \in Drivers : \A u \in Units :
    Sent(d, u) /\ Sent(e, u) /\ Cell(d, u) = Cell(e, u) => d = e

(* Only a crash or a journal failure leaves an attempt running that nobody *)
(* will finish, which is the only case where work is dispatched twice      *)
(* under one attempt.                                                      *)
RunningIsDispatched ==
  ~compromised /\ faults = 0 =>
    \A c \in Cells : unitRow[c] = "running" =>
      \E d \in Drivers : \E u \in Units :
        Sent(d, u) /\ Cell(d, u) = c /\ ticket[d][u] = attempts[c]

(* A loop the judge rejected is over: no driver dispatches in it or before *)
(* it again, however often the run is interrupted and resumed.             *)
RejectedLoopIsOver ==
  ~compromised => \A d \in Drivers : \A l \in Loops :
    pc[d] = "exec" /\ at[d] \in Gated /\ gateRow[<<at[d], l>>] = "rejected" => l < loop[d]

(* "a judge outage never burns a gate loop": an exhausted gate is reported *)
(* only when the judge rejected the last loop.                             *)
ExhaustedOnlyByVerdict ==
  ~compromised => \A d \in Drivers :
    "rejected" \in flags[d] => gateRow[<<at[d], MaxLoops[at[d]]>>] = "rejected"

(* A completed step was earned in one loop: its units are all completed    *)
(* there, unless failures are tolerated, and its judge passed there, where *)
(* only a crash may have kept the verdict out of the journal.              *)
Passed(s, l) ==
  \/ gateRow[<<s, l>>] = "passed"
  \/ gateRow[<<s, l>>] = "running" /\ (faults > 0 \/ \E d \in Drivers : pc[d] = "settle" /\ at[d] = s)
CompletedByWork ==
  ~compromised => \A s \in Steps : stepStatus[s] = "completed" =>
    \E l \in 1..MaxLoops[s] :
      /\ s \in Gated => Passed(s, l)
      /\ s \notin Tolerant => \A u \in UnitsOf[s] : unitRow[<<s, l, u>>] = "completed"

(* The spine is completed in order, and the run with its last step.        *)
SpineInOrder ==
  /\ \A s, t \in Steps : stepStatus[s] = "completed" /\ t < s => stepStatus[t] = "completed"
  /\ runStatus = "completed" => \A s \in Steps : stepStatus[s] = "completed"
  /\ current # 0 => \A t \in Steps : t < current => stepStatus[t] = "completed"

(* Whatever resumes, retries and second drivers do, a completed step stays *)
(* completed.                                                              *)
StepsStayCompleted ==
  [][\A s \in Steps : stepStatus[s] = "completed" => stepStatus'[s] = "completed"]_vars

(* A run that only one command resumes is the cursor its observers expect. *)
Spine == INSTANCE RunSpine WITH
  status <- runStatus, done <- Cardinality({s \in Steps : stepStatus[s] = "completed"})
ImplementsSpine == Spine!Spec

(* An invocation ends, and with it its hold on the run: gate loops, unit   *)
(* retries and run retries are all bounded, whatever fails meanwhile.      *)
InvocationEnds == \A d \in Drivers : <>(pc[d] = "ended" /\ d \notin holders)

(* workflow-engine.md: the lock is taken before anything is read or        *)
(* dispatched, so units are only ever dispatched for the current step.     *)
DispatchesCurrentStep ==
  [][\A d \in Drivers, u \in Units : Dispatch(d, u) /\ unit'[d][u] = "sent" =>
       stepStatus[at[d]] = "pending"]_vars

(* cli.md: "Completed runs cannot be resumed".                             *)
CompletedIsTerminal == [][runStatus = "completed" => runStatus' = "completed"]_vars

(* cli.md, --max-retries: "When a step fails, reopen the same run and      *)
(* retry the failed step".                                                 *)
RetryReopensFailedStep ==
  [][\A d \in Drivers : ResumeCommit(d) => \E s \in Steps : stepStatus[s] = "failed"]_vars
=============================================================================
