---------------------------- MODULE ChildWorkflow ----------------------------
(***************************************************************************)
(* Workflow runs that compose others.  A unit of a parent run whose target *)
(* is a child workflow publishes a run for it, drives that run inside the  *)
(* process that drives the parent, and takes its final status for its own  *)
(* result.  Every run, a child or not, can also be run, resumed and        *)
(* abandoned by itself.                                                    *)
(*                                                                         *)
(* A node is a run that the frozen plan of the root allows: the root, or   *)
(* one invocation key (parent run, unit, input hash).  Its run is a cursor *)
(* over its steps, as in RunSpine; the units of a step that are not child  *)
(* workflows, and its gate, are one outcome (WorkflowRun has the details). *)
(* A step here is one transaction, one lock operation, or the outcome of a *)
(* step's own work.                                                        *)
(***************************************************************************)
EXTENDS Naturals, FiniteSets

CONSTANTS
  Root, Children,  \* the nodes
  Parent,          \* the node each child belongs to
  Step,            \* and the step of the parent that composes it
  Len,             \* the number of steps of each node
  Procs,           \* akm processes that drive runs
  None,
  MaxFaults        \* bound: whatever keeps a run from completing at once

Nodes == {Root} \cup Children

ASSUME TreeAssumption ==
  /\ Root \notin Children /\ None \notin Procs \cup Nodes
  /\ Parent \in [Children -> Nodes] /\ Len \in [Nodes -> Nat \ {0}]
  /\ Step \in [Children -> Nat] /\ \A k \in Children : Step[k] \in 1..Len[Parent[k]]
  /\ MaxFaults \in Nat
\* A composition that comes back to itself is refused (assertNoCompositionCycle).
ASSUME AcyclicAssumption ==
  \A S \in SUBSET Children : S # {} => \E k \in S : Parent[k] \notin S

VARIABLES
  run,      \* workflow_runs: the status of each node's run and its completed steps
  unit,     \* the latest attempt row of the parent's unit for each child
  lock,     \* the run lock of each node
  top,      \* the node each process was started on
  signal,   \* processes whose abort signal has fired
  pc,       \* where each process is with each node it drives
  at,       \* the step it works on
  out,      \* how far it is with each child of that step
  verdict,  \* and what it takes the child's result to be
  resuming, \* the run a resume has read
  orphans,  \* children whose latest attempt was left running: its process died, or its
            \* result could not be journaled
  faults

durable == <<run, unit>>
driver == <<pc, at, out, verdict>>
vars == <<durable, lock, top, signal, driver, resuming, orphans, faults>>

Driving == {"step", "exec", "passing", "failing", "blocking", "next"}
Labels == Driving \cup {"idle", "read", "lock", "returned", "thrown"}
Verdicts == {"none", "ok", "blocked", "bad", "lost"}

Init ==
  /\ run = [n \in Nodes |-> [status |-> IF n = Root THEN "active" ELSE "none", done |-> 0]]
  /\ unit = [k \in Children |-> "none"]
  /\ lock = [n \in Nodes |-> None]
  /\ top = [p \in Procs |-> None]
  /\ signal = {}
  /\ pc = [p \in Procs |-> [n \in Nodes |-> "idle"]]
  /\ at = [p \in Procs |-> [n \in Nodes |-> 0]]
  /\ out = [p \in Procs |-> [k \in Children |-> "none"]]
  /\ verdict = [p \in Procs |-> [k \in Children |-> "none"]]
  /\ resuming = None
  /\ orphans = {} /\ faults = 0

Goto(p, n, label) == pc' = [pc EXCEPT ![p][n] = label]
Fault == faults < MaxFaults /\ faults' = faults + 1

\* The children of the step a process works on, and those it waits for.
Composed(p, n) == {k \in Children : Parent[k] = n /\ Step[k] = at[p][n]}
InFlight(p, k) == out[p][k] \in {"reserved", "driving", "read"}

\* The end of a drive: the lock is released, and the caller gets an answer.
Leave(p, n, how) ==
  /\ lock' = [lock EXCEPT ![n] = IF @ = p THEN None ELSE @]
  /\ at' = [at EXCEPT ![p][n] = 0]
  /\ out' = [out EXCEPT ![p] = [k \in Children |-> IF Parent[k] = n THEN "none" ELSE @[k]]]
  /\ verdict' = [verdict EXCEPT ![p] = [k \in Children |-> IF Parent[k] = n THEN "none" ELSE @[k]]]
  /\ IF top[p] = n
     THEN top' = [top EXCEPT ![p] = None] /\ signal' = signal \ {p} /\ Goto(p, n, "idle")
     ELSE UNCHANGED <<top, signal>> /\ Goto(p, n, how)

-----------------------------------------------------------------------------
(* runWorkflowSteps on one node.                                           *)

\* `akm workflow run <run id>', of any run that exists.
Start(p, n) ==
  /\ top[p] = None /\ run[n].status # "none"
  /\ top' = [top EXCEPT ![p] = n]
  /\ Goto(p, n, "read")
  /\ UNCHANGED <<durable, lock, signal, at, out, verdict, resuming, orphans, faults>>

\* getNextWorkflowStep: a completed run needs no drive and no lock, one that is
\* blocked or failed is refused.
Read(p, n) ==
  /\ pc[p][n] = "read"
  /\ \/ /\ run[n].status = "active"
        /\ at' = [at EXCEPT ![p][n] = run[n].done + 1]
        /\ Goto(p, n, "lock")
        /\ UNCHANGED <<lock, top, signal, out, verdict>>
     \/ run[n].status = "completed" /\ Leave(p, n, "returned")
     \/ run[n].status \in {"blocked", "failed"} /\ Leave(p, n, "thrown")
  /\ UNCHANGED <<durable, resuming, orphans, faults>>

\* acquireWorkflowRunLock, or RUN_LEASE_HELD.
TakeLock(p, n) ==
  /\ pc[p][n] = "lock"
  /\ \/ /\ lock[n] = None /\ lock' = [lock EXCEPT ![n] = p]
        /\ Goto(p, n, "step")
        /\ UNCHANGED <<top, signal, at, out, verdict>>
     \/ lock[n] # None /\ Leave(p, n, "thrown")
  /\ UNCHANGED <<durable, resuming, orphans, faults>>

\* The units of the step: those with a completed row are reused.
BeginStep(p, n) ==
  /\ pc[p][n] = "step"
  /\ \/ p \in signal /\ Leave(p, n, "returned")
     \/ /\ p \notin signal /\ Goto(p, n, "exec")
        /\ LET done == {k \in Composed(p, n) : unit[k] = "completed"}
           IN /\ out' = [out EXCEPT ![p] = [k \in Children |->
                   IF k \in done THEN "over" ELSE IF k \in Composed(p, n) THEN "todo" ELSE @[k]]]
              /\ verdict' = [verdict EXCEPT ![p] = [k \in Children |->
                   IF k \in done THEN "ok" ELSE @[k]]]
        /\ UNCHANGED <<lock, top, signal, at>>
  /\ UNCHANGED <<durable, resuming, orphans, faults>>

\* executeStepPlan, reduceStepOutcomes and finalizeExecutedStep: a result that
\* could not be journaled fails the step, a blocked child blocks it and a failed
\* one fails it; then it depends on the step's own work, which may also be
\* rejected for good.
EndStep(p, n) ==
  LET verdicts == {verdict[p][k] : k \in Composed(p, n)}
      bad == verdicts \cap {"lost", "blocked", "bad"} # {}
  IN /\ pc[p][n] = "exec"
     /\ \A k \in Composed(p, n) : out[p][k] = "over" \/ (p \in signal /\ out[p][k] = "todo")
     /\ \/ p \in signal /\ Leave(p, n, "returned") /\ UNCHANGED faults
        \/ /\ p \notin signal /\ bad
           /\ Goto(p, n, IF "blocked" \in verdicts /\ "lost" \notin verdicts
                         THEN "blocking" ELSE "failing")
           /\ UNCHANGED <<lock, top, signal, at, out, verdict, faults>>
        \/ /\ p \notin signal /\ ~bad
           /\ Goto(p, n, "passing")
           /\ UNCHANGED <<lock, top, signal, at, out, verdict, faults>>
        \/ /\ p \notin signal /\ ~bad /\ Fault
           /\ Goto(p, n, "failing") \/ Goto(p, n, "blocking")
           /\ UNCHANGED <<lock, top, signal, at, out, verdict>>
        \/ p \notin signal /\ ~bad /\ Fault /\ Leave(p, n, "returned")
     /\ UNCHANGED <<durable, resuming, orphans>>

\* completeWorkflowStep: only the current step of an active run; anything else
\* is an error that ends the drive.
MayComplete_always(p, n) == TRUE   \* faulty: a step read before the lock is trusted
MayComplete(p, n) == run[n].status = "active" /\ run[n].done + 1 = at[p][n]

Complete(p, n) ==
  /\ pc[p][n] \in {"passing", "failing", "blocking"}
  /\ LET passes == pc[p][n] = "passing"
         allowed == MayComplete(p, n) /\ ~(passes /\ p \in signal)
         done == run[n].done + 1
     IN \/ /\ allowed /\ passes
           /\ run' = [run EXCEPT ![n] =
                [status |-> IF done = Len[n] THEN "completed" ELSE "active", done |-> done]]
           /\ Goto(p, n, "next")
           /\ UNCHANGED <<lock, top, signal, at, out, verdict>>
        \/ /\ allowed /\ ~passes
           /\ run' = [run EXCEPT ![n].status = IF pc[p][n] = "failing" THEN "failed" ELSE "blocked"]
           /\ Leave(p, n, "returned")
        \/ ~allowed /\ Leave(p, n, "thrown") /\ UNCHANGED run
  /\ UNCHANGED <<unit, resuming, orphans, faults>>

\* Re-read the run, and go on with its current step while it is active.
NextStep(p, n) ==
  /\ pc[p][n] = "next"
  /\ \/ /\ run[n].status = "active"
        /\ at' = [at EXCEPT ![p][n] = run[n].done + 1]
        /\ Goto(p, n, "step")
        /\ UNCHANGED <<lock, top, signal, out, verdict>>
     \/ run[n].status # "active" /\ Leave(p, n, "returned")
  /\ UNCHANGED <<durable, resuming, orphans, faults>>

-----------------------------------------------------------------------------
(* dispatchJournaledAttempt and driveChildWorkflowUnit for one child.      *)

Advance(p, k, how, v) ==
  /\ out' = [out EXCEPT ![p][k] = how]
  /\ verdict' = [verdict EXCEPT ![p][k] = v]

\* reserveUnitAttempt: a new row, or the one that was left running; a run that is
\* not active gets none and the unit fails, as it does if the write fails.
Reserve(p, k) ==
  /\ pc[p][Parent[k]] = "exec" /\ out[p][k] = "todo" /\ p \notin signal
  /\ \/ /\ run[Parent[k]].status = "active"
        /\ unit' = [unit EXCEPT ![k] = "running"] /\ orphans' = orphans \ {k}
        /\ Advance(p, k, "reserved", "none")
        /\ UNCHANGED faults
     \/ /\ (run[Parent[k]].status # "active" /\ UNCHANGED faults) \/ Fault
        /\ Advance(p, k, "over", "bad")
        /\ UNCHANGED <<unit, orphans>>
  /\ UNCHANGED <<run, lock, top, signal, pc, at, resuming>>

\* publishChildWorkflowRun: SELECT by invocation key, else INSERT.
Published_again(k) == [status |-> "active", done |-> 0]   \* faulty: always INSERT
Published(k) ==
  IF run[k].status = "none" THEN [status |-> "active", done |-> 0] ELSE run[k]

\* A child that is blocked or failed is not driven.
Driven_fresh(k) == run[k].status = "none"   \* faulty: one published before is not driven
Driven(k) == Published(k).status \notin {"blocked", "failed"}

\* What the parent makes of a child's status; one still active was interrupted,
\* or its gate exhausted.
VerdictOf_lenient(status) ==   \* faulty: what did not fail is a success
  CASE status = "blocked" -> "blocked" [] status = "failed" -> "bad" [] OTHER -> "ok"
VerdictOf(status) ==
  CASE status = "completed" -> "ok" [] status = "blocked" -> "blocked" [] OTHER -> "bad"

Publish(p, k) ==
  /\ out[p][k] = "reserved"
  /\ \/ /\ run' = [run EXCEPT ![k] = Published(k)]
        /\ \/ /\ Driven(k)
              /\ Advance(p, k, "driving", "none") /\ Goto(p, k, "read")
           \/ /\ ~Driven(k)
              /\ Advance(p, k, "read", VerdictOf(Published(k).status)) /\ UNCHANGED pc
        /\ UNCHANGED faults
     \/ /\ Fault                        \* child_workflow_publish_failed
        /\ Advance(p, k, "read", "bad")
        /\ UNCHANGED <<run, pc>>
  /\ UNCHANGED <<unit, lock, top, signal, at, resuming, orphans>>

\* The drive is over and the child's row is read again; a drive that was refused
\* or threw fails the unit whatever the row says.
AfterThrow_escapes == "over"   \* faulty: the attempt is not finished
AfterThrow == "read"
Return(p, k) ==
  /\ out[p][k] = "driving"
  /\ \/ pc[p][k] = "returned" /\ Advance(p, k, "read", VerdictOf(run[k].status))
     \/ pc[p][k] = "thrown" /\ Advance(p, k, AfterThrow, "bad")
  /\ Goto(p, k, "idle")
  /\ UNCHANGED <<durable, lock, top, signal, at, resuming, orphans, faults>>

\* finishUnitAttempt, whatever became of the parent run meanwhile; ...
Finish(p, k) ==
  /\ out[p][k] = "read"
  /\ unit' = [unit EXCEPT ![k] = IF verdict[p][k] = "ok" THEN "completed" ELSE "failed"]
  /\ Advance(p, k, "over", verdict[p][k])
  /\ UNCHANGED <<run, lock, top, signal, pc, at, resuming, orphans, faults>>

\* ... whose write may fail (journal_write_failed): the row stays running, and the
\* parent's step will fail, whatever the child's status is.
JournalFails(p, k) ==
  /\ out[p][k] = "read" /\ Fault
  /\ Advance(p, k, "over", "lost") /\ orphans' = orphans \cup {k}
  /\ UNCHANGED <<durable, lock, top, signal, pc, at, resuming>>

-----------------------------------------------------------------------------
(* The other commands, and the end of a process.                           *)

\* resumeWorkflowRun: the reads that decide, then the transaction.  No two
\* overlap: WorkflowRun's CompletedIsTerminal is about those that do.
ResumeRead(n) ==
  /\ resuming = None /\ run[n].status \in {"blocked", "failed"}
  /\ resuming' = n
  /\ UNCHANGED <<durable, lock, top, signal, driver, orphans, faults>>

ResumeCommit(n) ==
  /\ resuming = n /\ resuming' = None
  /\ run' = [run EXCEPT ![n].status = "active"]
  /\ UNCHANGED <<unit, lock, top, signal, driver, orphans, faults>>

\* abandonWorkflowRun; the children of the run are left as they are.
Abandon(n) ==
  /\ Fault /\ run[n].status \in {"active", "blocked"}
  /\ run' = [run EXCEPT ![n].status = "failed"]
  /\ UNCHANGED <<unit, lock, top, signal, driver, resuming, orphans>>

\* The abort signal, which a parent's drive hands down to its children's.
Interrupt(p) ==
  /\ Fault /\ top[p] # None /\ p \notin signal /\ signal' = signal \cup {p}
  /\ UNCHANGED <<durable, lock, top, driver, resuming, orphans>>

Crash(p) ==
  /\ Fault /\ top[p] # None /\ orphans' = orphans \cup {k \in Children : InFlight(p, k)}
  /\ lock' = [n \in Nodes |-> IF lock[n] = p THEN None ELSE lock[n]]
  /\ top' = [top EXCEPT ![p] = None] /\ signal' = signal \ {p}
  /\ pc' = [pc EXCEPT ![p] = [n \in Nodes |-> "idle"]]
  /\ at' = [at EXCEPT ![p] = [n \in Nodes |-> 0]]
  /\ out' = [out EXCEPT ![p] = [k \in Children |-> "none"]]
  /\ verdict' = [verdict EXCEPT ![p] = [k \in Children |-> "none"]]
  /\ UNCHANGED <<durable, resuming>>

StepOf(p) ==
  \/ \E n \in Nodes : \/ Read(p, n) \/ TakeLock(p, n) \/ BeginStep(p, n)
                      \/ EndStep(p, n) \/ Complete(p, n) \/ NextStep(p, n)
  \/ \E k \in Children : Reserve(p, k) \/ Publish(p, k) \/ Return(p, k) \/ Finish(p, k)
Resume(n) == ResumeRead(n) \/ ResumeCommit(n)

Next ==
  \/ \E p \in Procs : \/ StepOf(p) \/ Interrupt(p) \/ Crash(p)
                      \/ \E k \in Children : JournalFails(p, k)
                      \/ \E n \in Nodes : Start(p, n)
  \/ \E n \in Nodes : Resume(n) \/ Abandon(n)

Spec == Init /\ [][Next]_vars

\* A process runs its own code to the end.  The rest is a person who does what
\* run-workflows.md says: resumes every run that is stuck, and runs the root
\* again while it is active.
Rerun == run[Root].status = "active" /\ \E p \in Procs : Start(p, Root)
Fairness ==
  /\ \A p \in Procs : WF_vars(StepOf(p))
  /\ \A n \in Nodes : SF_vars(ResumeRead(n)) /\ WF_vars(ResumeCommit(n))
  /\ SF_vars(Rerun)
FairSpec == Spec /\ Fairness

-----------------------------------------------------------------------------
(* Correctness.                                                            *)

TypeOK ==
  /\ run \in [Nodes -> [status : {"none", "active", "blocked", "failed", "completed"},
                        done : Nat]]
  /\ \A n \in Nodes : run[n].done <= Len[n]
  /\ unit \in [Children -> {"none", "running", "completed", "failed"}]
  /\ lock \in [Nodes -> Procs \cup {None}] /\ top \in [Procs -> Nodes \cup {None}]
  /\ signal \subseteq Procs /\ resuming \in Nodes \cup {None}
  /\ pc \in [Procs -> [Nodes -> Labels]] /\ at \in [Procs -> [Nodes -> Nat]]
  /\ out \in [Procs -> [Children -> {"none", "todo", "reserved", "driving", "read", "over"}]]
  /\ verdict \in [Procs -> [Children -> Verdicts]]
  /\ orphans \subseteq Children /\ faults \in 0..MaxFaults

\* "so the parent never advances on an unresolved child" (child-workflow.ts): a
\* step that composes children is only ever completed over completed ones, all
\* the way down, whoever drives, resumes or abandons which of them.
AdvancesOnCompletedChildren == \A k \in Children :
  run[Parent[k]].done >= Step[k] => run[k].status = "completed"

\* A parent's attempt that is running is one a process is still working on under
\* the parent's lock, or one that this very attempt's process died over or could
\* not journal the result of ("so the row may be stuck `running'", native-executor.ts).
\* No other end of a drive leaves one behind ("an escaped throw would skip the
\* parent attempt's finish", driveChildRun), and one that was left behind is
\* reclaimed or finished, never forgotten under a new one.
AttemptsFinished == \A k \in Children :
  unit[k] = "running" <=> \/ k \in orphans
                          \/ \E p \in Procs : lock[Parent[k]] = p /\ InFlight(p, k)

Spine(n) == INSTANCE RunSpine WITH
  N <- Len[n], done <- run[n].done,
  status <- IF run[n].status = "none" THEN "active" ELSE run[n].status

\* Crashes between publication and result, retries and resumes never give an
\* invocation a second run: to its parent it is one cursor that moves forward
\* (publishChildWorkflowRun: "returns the same child both times").
ImplementsSpines ==
  /\ \A n \in Nodes : Spine(n)!Init
  /\ [][\A n \in Nodes : [Spine(n)!Next]_(Spine(n)!vars)]_run

\* run-workflows.md, "Recovering a blocked child": whatever stopped the runs of
\* the tree, resuming those that are stuck and running the root completes it, as
\* long as no two processes work at the same run (WorkflowRun's
\* DispatchesCurrentStep is about what they do to each other).
OneAtATime == \A n \in Nodes : Cardinality({p \in Procs : pc[p][n] # "idle"}) <= 1
RecoveryConverges == []OneAtATime => <>(run[Root].status = "completed")
=============================================================================
