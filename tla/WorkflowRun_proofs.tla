------------------------- MODULE WorkflowRun_proofs -------------------------
(***************************************************************************)
(* The proofs about WorkflowRun: its invariant is inductive, and what a    *)
(* workflow run promises follows from it, for every plan, every number of  *)
(* invocations and every bound.                                            *)
(***************************************************************************)
EXTENDS WorkflowRun_lemmas, FiniteSetTheorems

-----------------------------------------------------------------------------
(* The spine *)

(* The order of the steps, stated once for the provers that do no          *)
(* arithmetic.                                                             *)
LEMMA StepsAreOrdered ==
  \A s, t \in Steps : /\ s # 0 /\ s \in Nat /\ (s < t \/ s = t \/ s > t)
                      /\ s < t => s # t /\ ~(s > t) /\ ~(t <= s)
                      /\ s > t => s # t /\ ~(s < t) /\ ~(s <= t)
                      /\ \A f \in Steps : f > s /\ t > f => t > s
  BY PlanAssumption DEF Steps

(* The status of one step changes.                                         *)
Changes(st, c, x, new) == new = [st EXCEPT ![c] = x]

(* What deriveRunState finds after the step at the cursor c changed to x.  *)
LEMMA SplitMoves ==
  ASSUME NEW st \in [Steps -> {"pending", "completed", "blocked", "failed"}],
         NEW c \in Steps, Split(st, c),
         NEW x \in {"completed", "blocked", "failed"},
         NEW new, Changes(st, c, x, new)
  PROVE  \/ /\ x # "completed" /\ Stuck(new) # {} /\ First(Stuck(new)) = c /\ new[c] = x
            /\ Split(new, c)
         \/ /\ x = "completed" /\ Stuck(new) = {} /\ Pending(new) # {}
            /\ First(Pending(new)) \in Steps
            /\ Split(new, First(Pending(new)))
         \/ /\ x = "completed" /\ Stuck(new) = {} /\ Pending(new) = {}
            /\ \A s \in Steps : new[s] = "completed"
<1>1. /\ new[c] = x
      /\ \A s \in Steps : s # c => new[s] = st[s]
  BY DEF Changes
<1>2. \A s \in Steps : /\ s < c => new[s] = "completed"
                       /\ s > c => new[s] = "pending"
  BY <1>1, StepsAreOrdered, Zenon DEF Split
<1>3. /\ Stuck(new) \subseteq Nat /\ Pending(new) \subseteq Nat
      /\ Stuck(new) \subseteq Steps /\ Pending(new) \subseteq Steps
  BY StepsAreOrdered DEF Stuck, Pending
<1>4. CASE x # "completed"
  <2>1. \A s \in Stuck(new) : s = c
    <3> SUFFICES ASSUME NEW s \in Steps, s \in Stuck(new), s # c PROVE FALSE
      BY <1>3
    <3>1. new[s] \in {"completed", "pending"}
      BY <1>2, StepsAreOrdered, Zenon
    <3> QED
      BY <3>1 DEF Stuck
  <2>2. c \in Stuck(new)
    BY <1>1, <1>4 DEF Stuck
  <2>3. First(Stuck(new)) = c
    BY <1>3, <2>1, <2>2, FirstIsLeast
  <2> QED
    BY <1>1, <1>2, <1>4, <2>2, <2>3, Zenon DEF Split
<1>5. CASE x = "completed"
  <2>1. \A s \in Steps : new[s] = "completed" \/ (s > c /\ new[s] = "pending")
    BY <1>1, <1>2, <1>5, StepsAreOrdered, Zenon
  <2>2. Stuck(new) = {}
    BY <2>1 DEF Stuck
  <2>3. \A s \in Pending(new) : s > c
    BY <2>1 DEF Pending
  <2>4. \A s \in Steps : s > c => s \in Pending(new)
    BY <1>2 DEF Pending
  <2>5. CASE Pending(new) # {}
    <3> DEFINE f == First(Pending(new))
    <3>1. f \in Pending(new) /\ \A s \in Pending(new) : f <= s
      BY <1>3, <2>5, FirstIsLeast
    <3> HIDE DEF f
    <3>2. f \in Steps /\ f > c /\ new[f] # "completed"
      BY <1>2, <1>3, <2>3, <3>1
    <3>3. \A s \in Steps : s < f => new[s] = "completed"
      BY <2>1, <2>4, <3>1, <3>2, StepsAreOrdered, Zenon
    <3>4. \A s \in Steps : s > f => new[s] = "pending"
      BY <1>2, <3>2, StepsAreOrdered, Zenon
    <3>5. Split(new, f)
      BY <3>2, <3>3, <3>4, Zenon DEF Split
    <3> QED
      BY <1>5, <2>2, <2>5, <3>2, <3>5 DEF f
  <2>6. CASE Pending(new) = {}
    BY <1>5, <2>1, <2>2, <2>4, <2>6
  <2> QED
    BY <2>5, <2>6
<1> QED
  BY <1>4, <1>5

(* A step is completed, failed or blocked at the cursor, where it was      *)
(* pending, and deriveRunState finds the cursor again.                     *)
LEMMA CompleteKeepsOrder ==
  ASSUME TypeOK, SpineInv, NEW d \in Drivers, MayComplete(d),
         NEW x \in {"completed", "blocked", "failed"}, CompleteStep(at[d], x)
  PROVE  SpineInv'
<1>c. PICK c : c = at[d]
  OBVIOUS
<1>s. PICK st : st = [stepStatus EXCEPT ![c] = x]
  OBVIOUS
<1>1. /\ c \in Steps /\ Split(stepStatus, c)
      /\ stepStatus \in [Steps -> {"pending", "completed", "blocked", "failed"}]
  BY PlanAssumption, <1>c DEF MayComplete, TypeOK, Steps, SpineInv
<1>2. /\ stepStatus' = st
      /\ \/ Stuck(st) # {} /\ runStatus' = st[First(Stuck(st))] /\ current' = First(Stuck(st))
         \/ Stuck(st) = {} /\ Pending(st) # {} /\ runStatus' = "active" /\ current' = First(Pending(st))
         \/ Stuck(st) = {} /\ Pending(st) = {} /\ runStatus' = "completed" /\ current' = 0
  BY <1>c, <1>s DEF CompleteStep
<1>3. \/ /\ x # "completed" /\ Stuck(st) # {} /\ First(Stuck(st)) = c /\ st[c] = x
         /\ Split(st, c)
      \/ /\ x = "completed" /\ Stuck(st) = {} /\ Pending(st) # {}
         /\ First(Pending(st)) \in Steps
         /\ Split(st, First(Pending(st)))
      \/ /\ x = "completed" /\ Stuck(st) = {} /\ Pending(st) = {}
         /\ \A s \in Steps : st[s] = "completed"
  <2>1. Changes(stepStatus, c, x, st)
    BY <1>s DEF Changes
  <2> QED
    BY <1>1, <2>1, SplitMoves
<1>4. \A s \in Steps : s # 0
  BY StepsAreOrdered
<1>5. \/ current' \in Steps /\ Split(stepStatus', current') /\ runStatus' # "completed"
      \/ current' = 0 /\ \A s \in Steps : stepStatus'[s] = "completed"
  BY <1>1, <1>2, <1>3
<1>6. CASE current' \in Steps /\ Split(stepStatus', current') /\ runStatus' # "completed"
  <2>1. current' # 0
    BY <1>4, <1>6
  <2>2. Split(stepStatus, current)'
    BY <1>6, Zenon DEF Split
  <2> QED
    BY <1>6, <2>1, <2>2 DEF SpineInv
<1>7. CASE current' = 0 /\ \A s \in Steps : stepStatus'[s] = "completed"
  BY <1>7 DEF SpineInv
<1> QED
  BY <1>5, <1>6, <1>7

(* The steps of a driver that touch the spine.                             *)
LEMMA DriveSpine ==
  ASSUME NEW d \in Drivers, DriveStep(d)
  PROVE  \/ UNCHANGED spine
         \/ MarkAbandoned
         \/ /\ MayComplete(d)
            /\ \E x \in {"completed", "blocked", "failed"} : CompleteStep(at[d], x)
  BY DEF DriveStep, OpenPlan, BeginStep, EndLoop, Dispatch, Finish, JournalFails,
     Failing,
         Blocking, Stop, Gate, Judge, Commit, Settle, NextStep, Interrupt

(* What else touches it: a resume reopens the step the cursor stopped at,  *)
(* an abandon leaves the steps alone.                                      *)
LEMMA OtherSpine ==
  ASSUME [Next]_vars
  PROVE  \/ \E d \in Drivers : DriveStep(d)
         \/ UNCHANGED spine
         \/ MarkAbandoned
         \/ \E p \in Drivers \cup Resumers : ResumeCommit(p)
  BY NextCases DEF Read, TakeLock, Exit, Crash, Resume, ResumeRead, Abandon,
     BreakLock, vars

(* Whoever changes the spine, and whatever the lock is worth, the cursor   *)
(* splits it.                                                              *)
LEMMA SpineStep == TypeOK /\ SpineInv /\ [Next]_vars => SpineInv'
<1> SUFFICES ASSUME TypeOK, SpineInv, [Next]_vars PROVE SpineInv'
  OBVIOUS
<1>1. CASE UNCHANGED spine
  BY <1>1, Frame DEF SpineInv, Split
<1>2. CASE MarkAbandoned
  BY <1>2 DEF MarkAbandoned, SpineInv, Split
<1>3. ASSUME NEW p \in Drivers \cup Resumers, ResumeCommit(p) PROVE SpineInv'
  BY <1>3 DEF ResumeCommit, SpineInv, Split, TypeOK, Steps
<1>4. ASSUME NEW d \in Drivers, DriveStep(d) PROVE SpineInv'
  BY <1>1, <1>2, <1>4, DriveSpine, CompleteKeepsOrder
<1> QED
  BY <1>1, <1>2, <1>3, <1>4, OtherSpine

(* A spine that its cursor splits is completed in order.                   *)
LEMMA SpineOrder == TypeOK /\ SpineInv => SpineInOrder
  BY PlanAssumption, StepsAreOrdered DEF TypeOK, SpineInv, Split, SpineInOrder, Steps

(* No step of any process takes the completed status from a step: resume   *)
(* reopens only blocked and failed ones.                                   *)
LEMMA CompletedStays ==
  ASSUME TypeOK, [Next]_vars, NEW s \in Steps, stepStatus[s] = "completed"
  PROVE  stepStatus'[s] = "completed"
<1>1. CASE UNCHANGED spine \/ MarkAbandoned
  BY <1>1, Frame DEF MarkAbandoned
<1>2. ASSUME NEW p \in Drivers \cup Resumers, ResumeCommit(p) PROVE stepStatus'[s] = "completed"
  BY <1>2 DEF ResumeCommit
<1>3. ASSUME NEW d \in Drivers, MayComplete(d), NEW x, CompleteStep(at[d], x)
      PROVE  stepStatus'[s] = "completed"
  BY <1>3 DEF MayComplete, CompleteStep, TypeOK
<1> QED
  BY <1>1, <1>2, <1>3, OtherSpine, DriveSpine

-----------------------------------------------------------------------------
(* What holds while the run lock is exclusive *)

(* The driver d takes a step and no other is in the drive loop.            *)
Solo(d) ==
  /\ DriveStep(d)
  /\ Driven(d)
  /\ \A e \in Drivers : e # d => Same(e) /\ pc[e] \notin Driving /\ pc'[e] \notin Driving

(* A step either leaves the journal alone, or is the step of the only      *)
(* driver in the drive loop.                                               *)
LEMMA SoloOrQuiet ==
  ASSUME TypeOK, PlaceInv, LockInv, [Next]_vars, ~compromised'
  PROVE  ~compromised /\ (Quiet \/ \E d \in Drivers : Solo(d))
<1>1. CASE Quiet
  <2>1. compromised => compromised'
    BY <1>1 DEF Quiet
  <2> QED
    BY <1>1, <2>1, Zenon
<1>2. ASSUME NEW d \in Drivers, DriveStep(d), Driven(d)
      PROVE  ~compromised /\ Solo(d)
  <2>1. compromised' = compromised
    BY <1>2, Frame DEF Driven
  <2>2. ASSUME NEW e \in Drivers, e # d PROVE Same(e) /\ pc[e] \notin Driving
    BY <1>2, <2>2, Alone
  <2>3. \A e \in Drivers : e # d => pc'[e] \notin Driving
    BY <2>2 DEF Same
  <2>4. ~compromised
    BY <2>1, Zenon
  <2> QED
    BY <1>2, <2>2, <2>3, <2>4 DEF Solo
<1> QED
  BY <1>1, <1>2, TwoKinds

(* A driver is charged before it dispatches and counts a row of its own    *)
(* for every one it adds; nobody else adds any.                            *)
LEMMA BudgetStep == TypeOK /\ PlaceInv /\ LockInv /\ BudgetInv /\ [Next]_vars => BudgetInv'
<1> DEFINE Counted(e) == pc[e] \in Driving \ {"plan", "exit"} => rows <= used[e]
<1> SUFFICES ASSUME TypeOK, PlaceInv, LockInv, BudgetInv, [Next]_vars, ~compromised'
             PROVE  rows' <= MaxUnits /\ \A e \in Drivers : Counted(e)'
  BY Zenon DEF BudgetInv
<1> USE Names, Frame
<1>0. /\ pc \in [Actors -> Labels] /\ used \in [Drivers -> Nat] /\ rows \in Nat /\ MaxUnits \in Nat
      /\ Drivers \subseteq Actors
  BY LimitAssumption DEF TypeOK, Actors
<1>1. rows <= MaxUnits /\ \A e \in Drivers : Counted(e)
  BY SoloOrQuiet, Zenon DEF BudgetInv
<1>2. CASE Quiet
  <2>1. rows' = rows
    BY <1>2 DEF Quiet
  <2>2. \A e \in Drivers : pc'[e] \in Driving \ {"plan", "exit"} => pc'[e] = pc[e] /\ used'[e] = used[e]
    BY <1>2 DEF Quiet, Same, Parked
  <2> QED
    BY <1>1, <2>1, <2>2
<1>3. ASSUME NEW d \in Drivers, Solo(d) PROVE rows' <= MaxUnits /\ \A e \in Drivers : Counted(e)'
  <2>1. \A e \in Drivers : e # d => Counted(e)'
    BY <1>3 DEF Solo
  <2>2. CASE OpenPlan(d)
    <3>1. UNCHANGED rows /\ (used' = [used EXCEPT ![d] = rows] \/ Goto(d, "exit"))
      BY <2>2 DEF OpenPlan, JournalSeed, Leave
    <3> QED
      BY <1>0, <1>1, <2>1, <3>1 DEF Goto
  <2>3. ASSUME NEW u \in Units, Dispatch(d, u) PROVE rows' <= MaxUnits /\ Counted(d)'
    <3>1. pc[d] = "exec" /\ pc' = pc
      BY <2>3 DEF Dispatch
    <3>2. CASE UNCHANGED rows /\ UNCHANGED used
      BY <1>1, <3>1, <3>2
    <3>3. CASE /\ used[d] < MaxUnits
               /\ used' = [used EXCEPT ![d] = @ + 1]
               /\ rows' = rows \/ rows' = rows + 1
      BY <1>0, <1>1, <3>1, <3>3
    <3>4. OverBudget(d) \/ used[d] < MaxUnits
      BY <1>0 DEF OverBudget
    <3>5. \/ UNCHANGED rows /\ UNCHANGED used
          \/ ~OverBudget(d) /\ used' = [used EXCEPT ![d] = @ + 1] /\ (rows' = rows \/ rows' = rows + 1)
      BY <2>3 DEF Dispatch, NewAttempt
    <3> QED
      BY <3>2, <3>3, <3>4, <3>5
  <2>4. CASE /\ UNCHANGED rows /\ UNCHANGED used
             /\ pc[d] \notin {"plan", "exit"} \/ pc' = pc
    BY <1>1, <1>3, <2>1, <2>4 DEF Solo, Driven
  <2>5. \/ OpenPlan(d)
        \/ \E u \in Units : Dispatch(d, u)
        \/ /\ UNCHANGED rows /\ UNCHANGED used
           /\ pc[d] \notin {"plan", "exit"} \/ pc' = pc
    BY <1>3 DEF Solo, DriveStep, BeginStep, EndLoop, Finish, JournalFails, Failing,
       Blocking, Stop,
                Gate, Judge, Commit, Settle, NextStep, Interrupt
  <2> QED
    BY <2>1, <2>2, <2>3, <2>4, <2>5
<1> QED
  BY <1>2, <1>3, SoloOrQuiet

-----------------------------------------------------------------------------
(* The unit journal *)

(* Only a driver that dispatches touches the unit rows; a step that enters *)
(* a loop begins it.                                                       *)
LEMMA DriveKinds ==
  ASSUME TypeOK, PlaceInv, NEW d \in Drivers, DriveStep(d)
  PROVE  \/ \E l \in Loops : \E fs \in SUBSET Flags :
              BeginLoop(d, l, fs) /\ UNCHANGED <<dispatchLog, at, spine>>
         \/ \E u \in Units : Dispatch(d, u) \/ Finish(d, u) \/ JournalFails(d, u)
         \/ Interrupt(d)
         \/ pc'[d] # "exec" /\ UNCHANGED dispatchLog
<1> USE Names, Frame
<1>0. pc \in [Actors -> Labels] /\ d \in Actors /\ at \in [Drivers -> 0..N]
  BY DEF TypeOK, Actors
<1>g. ASSUME NEW x \in Labels, Goto(d, x) PROVE pc'[d] = x
  BY <1>0, <1>g DEF Goto
<1>l. ASSUME NEW fs, Leave(d, fs) PROVE pc'[d] = "exit"
  BY <1>g, <1>l DEF Leave
<1>s. at[d] # 0 /\ StartLoop(at[d]) <= MaxLoops[at[d]] => StartLoop(at[d]) \in Loops
  BY <1>0, StartLoopIsNext, PlanAssumption DEF Loops, Steps
<1>n. at[d] \in Steps /\ loop[d] < MaxLoops[at[d]] => loop[d] + 1 \in Loops
  BY <1>0, PlanAssumption DEF Loops, Steps, TypeOK
<1>1. CASE BeginStep(d)
  <2>1. UNCHANGED <<dispatchLog, at, spine>>
    BY <1>1 DEF BeginStep
  <2>2. \/ \E l \in Loops : BeginLoop(d, l, {})
        \/ Goto(d, "blocking") \/ \E fs \in SUBSET Flags : Leave(d, fs)
    BY <1>1, <1>s DEF BeginStep
  <2> QED
    BY <1>g, <1>l, <2>1, <2>2
<1>2. CASE EndLoop(d)
  <2>1. UNCHANGED <<dispatchLog, at, spine>> /\ at[d] \in Steps
    BY <1>2 DEF EndLoop, PlaceInv
  <2>2. \/ \E l \in Loops : BeginLoop(d, l, {"worked"})
        \/ \E x \in {"failing", "blocking", "gate", "commit"} : Goto(d, x)
        \/ Leave(d, {"aborted"})
    BY <1>2, <1>n, <2>1 DEF EndLoop
  <2> QED
    BY <1>g, <1>l, <2>1, <2>2
<1>3. CASE Judge(d)
  <2>1. UNCHANGED <<dispatchLog, at, spine>> /\ at[d] \in Steps
    BY <1>3 DEF Judge, PlaceInv
  <2>2. \/ \E l \in Loops : BeginLoop(d, l, {})
        \/ Goto(d, "commit") \/ Goto(d, "blocking") \/ \E fs \in SUBSET Flags : Leave(d, fs)
    BY <1>3, <1>n, <2>1 DEF Judge
  <2> QED
    BY <1>g, <1>l, <2>1, <2>2
<1>4. CASE OpenPlan(d)
  BY <1>g, <1>l, <1>4 DEF OpenPlan
<1>5. CASE Failing(d) \/ Blocking(d)
  BY <1>l, <1>5 DEF Failing, Blocking, Stop
<1>6. CASE Gate(d)
  BY <1>g, <1>l, <1>6 DEF Gate
<1>7. CASE Commit(d)
  BY <1>g, <1>l, <1>7 DEF Commit
<1>8. CASE Settle(d)
  BY <1>g, <1>8 DEF Settle
<1>9. CASE NextStep(d)
  BY <1>g, <1>l, <1>9 DEF NextStep
<1> QED
  BY <1>1, <1>2, <1>3, <1>4, <1>5, <1>6, <1>7, <1>8, <1>9 DEF DriveStep

(* A step on the unit u of d's loop leaves its other units alone.          *)
LEMMA OtherUnits ==
  ASSUME TypeOK, PlaceInv, NEW d \in Drivers, NEW u \in Units, pc[d] = "exec",
         Dispatch(d, u) \/ Finish(d, u) \/ JournalFails(d, u)
  PROVE  /\ Cell(d, u) \in Cells
         /\ \A v \in Units : Cell(d, v)' = Cell(d, v)
         /\ Work(d)' = Work(d) /\ pc'[d] = "exec"
         /\ \A c \in Cells : c # Cell(d, u) => unitRow'[c] = unitRow[c] /\ attempts'[c] = attempts[c]
         /\ \A v \in Units : v # u =>
              Cell(d, v) # Cell(d, u) /\ unit'[d][v] = unit[d][v] /\ ticket'[d][v] = ticket[d][v]
<1> USE Frame
<1>1. /\ at[d] \in Steps /\ loop[d] \in Loops
      /\ unitRow \in [Cells -> {"none", "running", "completed", "failed"}]
      /\ attempts \in [Cells -> Nat]
      /\ unit \in [Drivers -> [Units -> {"todo", "again", "sent", "ok", "bad"}]]
      /\ ticket \in [Drivers -> [Units -> Nat]]
  BY DEF TypeOK, PlaceInv
<1>2. /\ Cell(d, u) \in Cells
      /\ \A v \in Units : v # u => Cell(d, v) # Cell(d, u)
  BY <1>1 DEF Cell, Cells
<1>3. UNCHANGED <<pc, at, loop>>
  BY DEF Dispatch, Finish, JournalFails
<1>4. (\A v \in Units : Cell(d, v)' = Cell(d, v)) /\ Work(d)' = Work(d)
  BY <1>3 DEF Cell, Work
<1>5. \A c \in Cells : c # Cell(d, u) => unitRow'[c] = unitRow[c] /\ attempts'[c] = attempts[c]
  BY <1>1, <1>2 DEF Dispatch, NewAttempt, Finish, Record, JournalFails
<1>6. \A v \in Units : v # u => unit'[d][v] = unit[d][v] /\ ticket'[d][v] = ticket[d][v]
  BY <1>1 DEF Dispatch, Finish, JournalFails, Become
<1> QED
  BY <1>2, <1>3, <1>4, <1>5, <1>6

(* The row of the unit itself.                                             *)
LEMMA OwnUnit ==
  ASSUME TypeOK, PlaceInv, NEW d \in Drivers, NEW u \in Units, pc[d] = "exec", Knows(d, u),
         Dispatch(d, u) \/ Finish(d, u) \/ JournalFails(d, u)
  PROVE  Knows(d, u)' /\ unitRow[Cell(d, u)] # "completed"
<1> USE Frame
<1>1. /\ unitRow \in [Cells -> {"none", "running", "completed", "failed"}]
      /\ attempts \in [Cells -> Nat]
      /\ unit \in [Drivers -> [Units -> {"todo", "again", "sent", "ok", "bad"}]]
      /\ ticket \in [Drivers -> [Units -> Nat]]
  BY DEF TypeOK
<1>2. Cell(d, u) \in Cells /\ Cell(d, u)' = Cell(d, u) /\ Work(d)' = Work(d)
  BY OtherUnits
<1>c. PICK c : c = Cell(d, u)
  OBVIOUS
<1>k. /\ unit[d][u] \in {"todo", "again"} => u \in Work(d) /\ unitRow[c] # "completed"
      /\ unit[d][u] = "sent" => u \in Work(d) /\ unitRow[c] = "running" /\ ticket[d][u] = attempts[c]
  BY <1>c DEF Knows
<1>g. ASSUME \/ unit'[d][u] = "bad"
             \/ unit'[d][u] \in {"todo", "again"} /\ u \in Work(d) /\ unitRow'[c] # "completed"
             \/ unit'[d][u] = "ok" /\ unitRow'[c] = "completed"
             \/ /\ unit'[d][u] = "sent" /\ u \in Work(d)
                /\ unitRow'[c] = "running" /\ ticket'[d][u] = attempts'[c]
      PROVE  Knows(d, u)'
  BY <1>2, <1>c, <1>g DEF Knows
<1>b. ASSUME NEW x, Become(d, u, x) PROVE unit'[d][u] = x
  BY <1>1, <1>b DEF Become
<1>3. CASE Dispatch(d, u)
  <2>1. unit[d][u] \in {"todo", "again"} /\ u \in Work(d) /\ unitRow[c] # "completed"
    BY <1>3, <1>k DEF Dispatch, Claimable
  <2>2. CASE Become(d, u, "bad")
    BY <1>b, <1>c, <1>g, <2>1, <2>2
  <2>3. CASE UNCHANGED unitRow /\ \E x \in {"bad", "again"} : Become(d, u, x)
    BY <1>b, <1>c, <1>g, <2>1, <2>3
  <2>4. CASE /\ unitRow'[c] = "running"
             /\ ticket' = [ticket EXCEPT ![d][u] = attempts'[c]]
             /\ Become(d, u, "sent")
    <3>1. ticket'[d][u] = attempts'[c]
      BY <1>1, <2>4
    <3> QED
      BY <1>b, <1>c, <1>g, <2>1, <2>4, <3>1
  <2>5. ASSUME NewAttempt(d, u) PROVE unitRow'[c] = "running"
    BY <1>1, <1>2, <1>c, <2>5 DEF NewAttempt
  <2>6. ASSUME Running(d, u), UNCHANGED dispatchLog PROVE unitRow'[c] = "running"
    BY <1>c, <2>6 DEF Running
  <2>7. \/ Become(d, u, "bad")
        \/ UNCHANGED dispatchLog /\ \E x \in {"bad", "again"} : Become(d, u, x)
        \/ /\ (Running(d, u) /\ UNCHANGED dispatchLog) \/ NewAttempt(d, u)
           /\ ticket' = [ticket EXCEPT ![d][u] = attempts'[c]]
           /\ Become(d, u, "sent")
    BY <1>3, <1>c DEF Dispatch, AfterFailure
  <2> QED
    BY <2>2, <2>3, <2>4, <2>5, <2>6, <2>7
<1>4. CASE Finish(d, u)
  <2>1. u \in Work(d) /\ unitRow[c] = "running" /\ ticket[d][u] = attempts[c]
    BY <1>4, <1>k DEF Finish
  <2>2. ASSUME NEW x, Record(d, u, x) PROVE unitRow'[c] = x
    BY <1>1, <1>2, <1>c, <2>1, <2>2 DEF Record, Running
  <2>3. \/ Record(d, u, "completed") /\ Become(d, u, "ok")
        \/ Record(d, u, "failed") /\ \E x \in {"bad", "again"} : Become(d, u, x)
    BY <1>4 DEF Finish, AfterFailure
  <2> QED
    BY <1>b, <1>c, <1>g, <2>1, <2>2, <2>3
<1>5. CASE JournalFails(d, u)
  <2>1. unitRow[c] = "running" /\ unit'[d][u] = "bad"
    BY <1>5, <1>b, <1>k DEF JournalFails
  <2> QED
    BY <1>c, <1>g, <2>1
<1> QED
  BY <1>3, <1>4, <1>5

(* A loop begins with what the journal has.                                *)
LEMMA LoopKnows ==
  ASSUME TypeOK, NEW d \in Drivers, NEW l \in Loops, NEW fs \in SUBSET Flags, BeginLoop(d, l, fs),
         UNCHANGED <<dispatchLog, at>>, NEW u \in Units
  PROVE  Knows(d, u)'
<1>1. /\ loop'[d] = l
      /\ unit'[d] = [v \in Units |->
                  IF v \in UnitsOf[at[d]] /\ ~Reused(at[d], l, v) THEN "todo" ELSE "ok"]
  BY BeginLoopMoves
<1>2. unit'[d][u] = IF u \in Work(d) /\ unitRow[<<at[d], l, u>>] # "completed" THEN "todo" ELSE "ok"
  BY <1>1 DEF Reused, Work
<1>3. unitRow' = unitRow /\ Work(d)' = Work(d) /\ Cell(d, u)' = <<at[d], l, u>>
  BY <1>1, Frame DEF Work, Cell
<1> QED
  BY <1>2, <1>3 DEF Knows

(* What a driver remembers of its units stays what the journal says:       *)
(* only itself changes either.                                             *)
LEMMA WorkStep == TypeOK /\ PlaceInv /\ LockInv /\ WorkInv /\ [Next]_vars => WorkInv'
<1> SUFFICES ASSUME TypeOK, PlaceInv, LockInv, WorkInv, [Next]_vars, ~compromised',
                    NEW e \in Drivers, pc'[e] = "exec", NEW v \in Units
             PROVE  Knows(e, v)'
  BY Zenon DEF WorkInv
<1> USE Names, Frame
<1>1. \A d \in Drivers : pc[d] = "exec" => \A u \in Units : Knows(d, u)
  BY SoloOrQuiet, Zenon DEF WorkInv
<1>2. ASSUME Same(e), UNCHANGED dispatchLog PROVE Knows(e, v)'
  BY <1>1, <1>2 DEF Same, Knows, Work, Cell
<1>3. CASE Quiet
  BY <1>2, <1>3 DEF Quiet, Parked
<1>4. ASSUME NEW d \in Drivers, Solo(d) PROVE Knows(e, v)'
  <2>1. e = d
    BY <1>4 DEF Solo
  <2>2. ASSUME NEW l \in Loops, NEW fs \in SUBSET Flags, BeginLoop(d, l, fs), UNCHANGED <<dispatchLog, at>>
        PROVE  Knows(e, v)'
    BY <2>1, <2>2, LoopKnows
  <2>3. ASSUME NEW u \in Units, Dispatch(d, u) \/ Finish(d, u) \/ JournalFails(d, u)
        PROVE  Knows(e, v)'
    <3>1. pc[d] = "exec"
      BY <2>3 DEF Dispatch, Finish, JournalFails
    <3>2. CASE u = v
      BY <1>1, <2>1, <2>3, <3>1, <3>2, OwnUnit
    <3>3. CASE u # v
      <4>1. /\ Cell(d, v) \in Cells /\ Cell(d, v) # Cell(d, u)
            /\ Cell(d, v)' = Cell(d, v) /\ Work(d)' = Work(d)
            /\ unit'[d][v] = unit[d][v] /\ ticket'[d][v] = ticket[d][v]
        <5>1. at[d] \in Steps /\ loop[d] \in Loops
          BY <3>1 DEF PlaceInv, TypeOK
        <5>2. Cell(d, v) \in Cells
          BY <5>1 DEF Cell, Cells
        <5> QED
          BY <2>3, <3>1, <3>3, <5>2, OtherUnits
      <4>2. unitRow'[Cell(d, v)] = unitRow[Cell(d, v)] /\ attempts'[Cell(d, v)] = attempts[Cell(d, v)]
        BY <2>3, <3>1, <4>1, OtherUnits
      <4>3. Knows(d, v)
        BY <1>1, <3>1
      <4> QED
        BY <2>1, <4>1, <4>2, <4>3 DEF Knows
    <3> QED
      BY <3>2, <3>3
  <2>4. CASE Interrupt(d)
    BY <1>1, <2>1, <2>4 DEF Interrupt, Knows, Work, Cell
  <2> QED
    BY <1>4, <2>1, <2>2, <2>3, <2>4, DriveKinds DEF Solo
<1> QED
  BY <1>3, <1>4, SoloOrQuiet

(* Only the unit a driver works on has a row that changes, and that row is *)
(* not one of a completed unit.                                            *)
LEMMA RowsMove ==
  ASSUME TypeOK, PlaceInv, LockInv, WorkInv, [Next]_vars, ~compromised', NEW c \in Cells
  PROVE  \/ unitRow'[c] = unitRow[c] /\ attempts'[c] = attempts[c]
         \/ \E d \in Drivers : \E u \in Units :
              /\ pc[d] = "exec" /\ Solo(d) /\ c = Cell(d, u) /\ Knows(d, u)
              /\ Dispatch(d, u) \/ Finish(d, u) \/ JournalFails(d, u)
<1> USE Frame
<1>1. \A d \in Drivers : pc[d] = "exec" => \A u \in Units : Knows(d, u)
  BY SoloOrQuiet, Zenon DEF WorkInv
<1>2. CASE UNCHANGED dispatchLog
  BY <1>2
<1>3. ASSUME NEW d \in Drivers, Solo(d), NEW u \in Units,
             Dispatch(d, u) \/ Finish(d, u) \/ JournalFails(d, u)
      PROVE  \/ unitRow'[c] = unitRow[c] /\ attempts'[c] = attempts[c]
             \/ pc[d] = "exec" /\ c = Cell(d, u) /\ Knows(d, u)
  <2>1. pc[d] = "exec"
    BY <1>3 DEF Dispatch, Finish, JournalFails
  <2> QED
    BY <1>1, <1>3, <2>1, OtherUnits
<1>4. ASSUME NEW d \in Drivers, Solo(d)
      PROVE  UNCHANGED dispatchLog \/ \E u \in Units : Dispatch(d, u) \/ Finish(d, u) \/ JournalFails(d, u)
  <2>1. CASE Interrupt(d)
    BY <2>1 DEF Interrupt
  <2> QED
    BY <1>4, <2>1, DriveKinds DEF Solo
<1>5. CASE Quiet
  BY <1>2, <1>5 DEF Quiet
<1> QED
  BY <1>2, <1>3, <1>4, <1>5, SoloOrQuiet

(* The row of a completed unit is not touched again.                       *)
LEMMA FinalStep ==
  ASSUME TypeOK, PlaceInv, LockInv, WorkInv, [Next]_vars, ~compromised',
         NEW c \in Cells, unitRow[c] = "completed"
  PROVE  unitRow'[c] = "completed" /\ attempts'[c] = attempts[c]
  BY RowsMove, OwnUnit

(* An attempt that runs is one some driver waits for, as long as nothing   *)
(* crashes: the driver that works on it finishes it before it moves on.    *)
LEMMA RunningStep ==
  TypeOK /\ PlaceInv /\ LockInv /\ WorkInv /\ RunningIsDispatched /\ [Next]_vars => RunningIsDispatched'
<1> DEFINE Waits(e, u, c) == Sent(e, u) /\ Cell(e, u) = c /\ ticket[e][u] = attempts[c]
<1> SUFFICES ASSUME TypeOK, PlaceInv, LockInv, WorkInv, RunningIsDispatched, [Next]_vars, ~compromised',
                    faults' = 0, NEW c \in Cells, unitRow'[c] = "running"
             PROVE  \E e \in Drivers : \E u \in Units : Waits(e, u, c)'
  BY Zenon DEF RunningIsDispatched
<1> USE Names, Frame
<1>0. ~compromised
  BY SoloOrQuiet
<1>1. faults = 0 /\ unitRow[c] = "running" => \E e \in Drivers : \E u \in Units : Waits(e, u, c)
  BY <1>0, Zenon DEF RunningIsDispatched
<1>2. CASE Quiet
  <2>1. PICK e \in Drivers, u \in Units : Waits(e, u, c)
    BY <1>1, <1>2 DEF Quiet
  <2>2. Same(e)
    BY <1>2, <2>1 DEF Quiet, Parked, Sent
  <2>3. attempts' = attempts
    BY <1>2 DEF Quiet
  <2> QED
    BY <2>1, <2>2, <2>3 DEF Same, Sent, Work, Cell
<1>3. ASSUME NEW d \in Drivers, Solo(d) PROVE \E e \in Drivers : \E u \in Units : Waits(e, u, c)'
  <2>0. faults = 0
    BY <1>3 DEF Solo, Driven
  <2>1. ASSUME unitRow[c] = "running"
        PROVE  \E u \in Units : Waits(d, u, c) /\ pc[d] = "exec"
    <3>1. PICK e \in Drivers, u \in Units : Waits(e, u, c)
      BY <1>1, <2>0, <2>1
    <3>2. e = d
      BY <1>3, <3>1 DEF Solo, Sent
    <3> QED
      BY <3>1, <3>2 DEF Sent
  <2>2. ASSUME NEW u \in Units, Dispatch(d, u) \/ Finish(d, u) \/ JournalFails(d, u)
        PROVE  \E w \in Units : Waits(d, w, c)'
    <3>0. pc[d] = "exec"
      BY <2>2 DEF Dispatch, Finish, JournalFails
    <3>w. \A w \in Units : Knows(d, w)
      BY <1>0, <3>0, Zenon DEF WorkInv
    <3>k. Knows(d, u)'
      BY <2>2, <3>0, <3>w, OwnUnit
    <3>1. CASE c = Cell(d, u)
      <4>1. Cell(d, u)' = c /\ pc'[d] = "exec"
        BY <2>2, <3>0, <3>1, OtherUnits
      <4>2. CASE Dispatch(d, u)
        <5>1. unit[d][u] # "sent"
          BY <4>2 DEF Dispatch, Claimable
        <5>2. unitRow[c] # "running"
          <6> SUFFICES ASSUME unitRow[c] = "running" PROVE FALSE
            OBVIOUS
          <6>1. PICK w \in Units : Waits(d, w, c)
            BY <2>1
          <6>2. w # u
            BY <5>1, <6>1 DEF Sent
          <6> QED
            BY <2>2, <3>0, <3>1, <6>1, <6>2, OtherUnits
        <5>3. Become(d, u, "sent")
          BY <4>2, <5>2 DEF Dispatch
        <5>4. unit'[d][u] = "sent"
          BY <5>3 DEF Become, TypeOK
        <5> QED
          BY <3>k, <4>1, <5>4 DEF Knows, Sent
      <4>3. CASE Finish(d, u)
        <5>1. Running(d, u) /\ attempts[Cell(d, u)] = ticket[d][u]
          BY <3>w, <4>3 DEF Finish, Knows, Running
        <5>2. Record(d, u, "completed") \/ Record(d, u, "failed")
          BY <4>3 DEF Finish
        <5>3. ASSUME NEW x, Record(d, u, x) PROVE unitRow'[c] = x
          BY <3>1, <5>1, <5>3 DEF Record, TypeOK
        <5> QED
          BY <5>2, <5>3
      <4>4. CASE JournalFails(d, u)
        BY <2>0, <4>4 DEF JournalFails
      <4> QED
        BY <2>2, <4>2, <4>3, <4>4
    <3>2. CASE c # Cell(d, u)
      <4>1. unitRow'[c] = unitRow[c] /\ attempts'[c] = attempts[c]
        BY <2>2, <3>0, <3>2, OtherUnits
      <4>2. PICK w \in Units : Waits(d, w, c)
        BY <2>1, <4>1
      <4>3. w # u
        BY <3>2, <4>2
      <4>4. /\ pc'[d] = "exec" /\ Work(d)' = Work(d) /\ Cell(d, w)' = Cell(d, w)
            /\ unit'[d][w] = unit[d][w] /\ ticket'[d][w] = ticket[d][w]
        BY <2>2, <3>0, <4>3, OtherUnits
      <4> QED
        BY <4>1, <4>2, <4>4 DEF Sent
    <3> QED
      BY <3>1, <3>2
  <2>3. CASE UNCHANGED dispatchLog /\ (EndLoop(d) \/ pc[d] # "exec")
    BY <2>1, <2>3 DEF EndLoop, Sent
  <2>4. CASE Interrupt(d)
    <3>1. UNCHANGED <<dispatchLog, pc, at, round>>
      BY <2>4 DEF Interrupt
    <3>2. PICK w \in Units : Waits(d, w, c)
      BY <2>1, <3>1
    <3> QED
      BY <3>1, <3>2 DEF Sent, Work, Cell
  <2>5. \/ \E u \in Units : Dispatch(d, u) \/ Finish(d, u) \/ JournalFails(d, u)
        \/ UNCHANGED dispatchLog /\ (EndLoop(d) \/ pc[d] # "exec")
        \/ Interrupt(d)
    BY <1>3 DEF Solo, DriveStep, OpenPlan, BeginStep, EndLoop, Failing, Blocking, Stop,
                Gate, Judge, Commit, Settle, NextStep
  <2> QED
    BY <2>2, <2>3, <2>4, <2>5
<1> QED
  BY <1>2, <1>3, SoloOrQuiet

-----------------------------------------------------------------------------
(* The gate loops *)

(* Only the driver of a gated step sets its gate row, in a loop it has.    *)
LEMMA GateSets ==
  ASSUME PlaceInv, NEW d \in Drivers, DriveStep(d)
  PROVE  \/ UNCHANGED gateRow
         \/ /\ pc[d] \in {"gate", "judging", "commit", "settle"}
            /\ at[d] \in Gated /\ at[d] \in Steps /\ loop[d] <= MaxLoops[at[d]]
            /\ \E x \in {"running", "passed", "rejected", "errored"} :
                 SetGate(d, x) /\ (x = "rejected" => Judge(d))
<1> USE Frame
<1>1. /\ pc[d] \in {"gate", "judging", "commit", "settle"} => at[d] \in Steps /\ loop[d] <= MaxLoops[at[d]]
      /\ pc[d] \in {"gate", "judging", "settle"} => at[d] \in Gated
  BY DEF PlaceInv
<1>2. CASE Gate(d)
  BY <1>1, <1>2 DEF Gate
<1>3. CASE Judge(d)
  BY <1>1, <1>3 DEF Judge
<1>4. CASE Commit(d)
  BY <1>1, <1>4 DEF Commit
<1>5. CASE Settle(d)
  BY <1>1, <1>5 DEF Settle
<1>6. UNCHANGED gateRow \/ Gate(d) \/ Judge(d) \/ Commit(d) \/ Settle(d)
  BY DEF DriveStep, OpenPlan, BeginStep, EndLoop, Dispatch, Finish, JournalFails,
     Failing,
         Blocking, Stop, NextStep, Interrupt
<1> QED
  BY <1>2, <1>3, <1>4, <1>5, <1>6

(* Every gate row belongs to a gated step and a loop it has.               *)
LEMMA GatesStep == TypeOK /\ PlaceInv /\ LockInv /\ GatesInv /\ [Next]_vars => GatesInv'
<1> SUFFICES ASSUME TypeOK, PlaceInv, LockInv, GatesInv, [Next]_vars PROVE GatesInv'
  OBVIOUS
<1>0. gateRow \in [Gates -> {"none", "running", "passed", "rejected", "errored"}]
  BY DEF TypeOK
<1>1. CASE UNCHANGED gateRow
  BY <1>1 DEF GatesInv
<1>2. ASSUME NEW d \in Drivers, at[d] \in Gated, loop[d] <= MaxLoops[at[d]], NEW x, SetGate(d, x)
      PROVE  GatesInv'
  <2>1. \A g \in Gates : g # <<at[d], loop[d]>> => gateRow'[g] = gateRow[g]
    BY <1>0, <1>2 DEF SetGate
  <2>2. <<at[d], loop[d]>>[1] = at[d] /\ <<at[d], loop[d]>>[2] = loop[d]
    OBVIOUS
  <2> QED
    BY <1>2, <2>1, <2>2 DEF GatesInv
<1>3. CASE Quiet
  BY <1>1, <1>3, Frame DEF Quiet
<1>4. ASSUME NEW d \in Drivers, DriveStep(d) PROVE GatesInv'
  BY <1>1, <1>2, <1>4, GateSets
<1> QED
  BY <1>3, <1>4, TwoKinds

(* An exhausted gate is reported for one of two reasons.                   *)
LEMMA RejectedComes ==
  ASSUME TypeOK, PlaceInv, ExhaustedInv, NEW d \in Drivers, DriveStep(d), "rejected" \in flags'[d]
  PROVE  /\ at'[d] = at[d] /\ at[d] \in Steps /\ pc'[d] = "exit"
         /\ \/ /\ StartLoop(at[d]) > MaxLoops[at[d]]
               /\ UNCHANGED gateRow
            \/ /\ loop[d] = MaxLoops[at[d]]
               /\ SetGate(d, "rejected")
            \/ /\ "rejected" \in flags[d]
               /\ UNCHANGED gateRow
<1> USE Frame, Names
<1>0. /\ pc \in [Actors -> Labels] /\ flags \in [Drivers -> SUBSET Flags] /\ d \in Actors
      /\ at \in [Drivers -> 0..N]
      /\ "rejected" \in flags[d] => pc[d] = "exit" /\ at[d] \in Steps
  BY DEF TypeOK, Actors, ExhaustedInv
<1>l. ASSUME NEW fs \in SUBSET Flags, Leave(d, fs) PROVE pc'[d] = "exit" /\ flags'[d] = flags[d] \cup fs
  BY <1>l, LeaveMoves
<1>n. ASSUME NEW fs \in SUBSET Flags, Note(d, fs) PROVE flags'[d] = flags[d] \cup fs
  BY <1>n, NoteAdds
<1>b. ASSUME NEW l \in Loops, NEW fs \in SUBSET Flags, "rejected" \notin fs, pc[d] # "exit", BeginLoop(d, l, fs)
      PROVE  FALSE
  <2>1. flags'[d] \subseteq flags[d] \cup fs \cup {"barred"}
    BY <1>b, BeginLoopMoves
  <2> QED
    BY <1>0, <1>b, <2>1
<1>1. CASE BeginStep(d)
  <2>1. at[d] # 0 /\ StartLoop(at[d]) <= MaxLoops[at[d]] => StartLoop(at[d]) \in Loops
    BY <1>0, StartLoopIsNext, PlanAssumption DEF Loops, Steps
  <2>2. \/ Leave(d, {}) \/ Leave(d, {"aborted"})
        \/ at[d] # 0 /\ StartLoop(at[d]) > MaxLoops[at[d]] /\ Leave(d, {"rejected"})
        \/ \E l \in Loops : BeginLoop(d, l, {})
        \/ UNCHANGED flags
    BY <1>1, <2>1 DEF BeginStep
  <2>3. pc[d] = "step" /\ UNCHANGED at /\ UNCHANGED gateRow
    BY <1>1 DEF BeginStep
  <2>4. at[d] # 0 => at[d] \in Steps
    BY <1>0, PlanAssumption DEF Steps
  <2> QED
    BY <1>0, <1>l, <1>b, <2>2, <2>3, <2>4
<1>2. CASE EndLoop(d)
  <2>1. pc[d] = "exec" /\ at[d] \in Steps
    BY <1>2 DEF EndLoop, PlaceInv
  <2>2. loop[d] < MaxLoops[at[d]] => loop[d] + 1 \in Loops
    BY <2>1, PlanAssumption DEF Loops, TypeOK
  <2>3. \/ Leave(d, {"aborted"}) \/ Note(d, {"worked"})
        \/ \E l \in Loops : BeginLoop(d, l, {"worked"})
    BY <1>2, <2>2 DEF EndLoop
  <2> QED
    BY <1>0, <1>l, <1>n, <1>b, <2>1, <2>3
<1>3. CASE Judge(d)
  <2>1. pc[d] = "judging" /\ at[d] \in Steps /\ UNCHANGED at
    BY <1>3 DEF Judge, PlaceInv
  <2>2. loop[d] < MaxLoops[at[d]] => loop[d] + 1 \in Loops
    BY <2>1, PlanAssumption DEF Loops, TypeOK
  <2>3. \/ Leave(d, {"aborted"}) \/ UNCHANGED flags
        \/ \E l \in Loops : BeginLoop(d, l, {})
        \/ loop[d] = MaxLoops[at[d]] /\ SetGate(d, "rejected") /\ Leave(d, {"rejected"})
    BY <1>3, <2>2 DEF Judge
  <2> QED
    BY <1>0, <1>l, <1>n, <1>b, <2>1, <2>3
<1>4. CASE OpenPlan(d)
  BY <1>0, <1>l, <1>4 DEF OpenPlan
<1>5. CASE Failing(d) \/ Blocking(d)
  BY <1>0, <1>l, <1>5 DEF Failing, Blocking, Stop
<1>6. CASE Gate(d)
  BY <1>0, <1>l, <1>6 DEF Gate
<1>7. CASE Commit(d)
  <2>1. pc[d] = "commit" /\ (UNCHANGED flags \/ Leave(d, {"aborted"}) \/ Leave(d, {"error"}))
    BY <1>7 DEF Commit
  <2> QED
    BY <1>0, <1>l, <2>1
<1>8. CASE Settle(d)
  BY <1>0, <1>8 DEF Settle
<1>9. CASE NextStep(d)
  BY <1>0, <1>l, <1>9 DEF NextStep
<1>10. ASSUME NEW u \in Units, Dispatch(d, u) \/ Finish(d, u) \/ JournalFails(d, u) PROVE FALSE
  <2>1. pc[d] = "exec" /\ (UNCHANGED flags \/ Note(d, {"tripped"}) \/ Note(d, {"lost"}))
    BY <1>10 DEF Dispatch, Finish, JournalFails
  <2> QED
    BY <1>0, <1>n, <2>1
<1>11. CASE Interrupt(d)
  <2>1. Note(d, {"signal"}) /\ UNCHANGED <<at, pc, gateRow>>
    BY <1>11 DEF Interrupt
  <2> QED
    BY <1>0, <1>n, <2>1
<1> QED
  BY <1>1, <1>2, <1>3, <1>4, <1>5, <1>6, <1>7, <1>8, <1>9, <1>10, <1>11 DEF DriveStep

(* A driver that reports an exhausted gate is on its way out.              *)
LEMMA ExhaustedStep == TypeOK /\ PlaceInv /\ LockInv /\ ExhaustedInv /\ [Next]_vars => ExhaustedInv'
<1> SUFFICES ASSUME TypeOK, PlaceInv, LockInv, ExhaustedInv, [Next]_vars PROVE ExhaustedInv'
  OBVIOUS
<1>1. CASE Quiet
  BY <1>1 DEF Quiet, Same, Parked, ExhaustedInv
<1>2. ASSUME NEW d \in Drivers, DriveStep(d), Driven(d) PROVE ExhaustedInv'
  <2>1. "rejected" \in flags'[d] => pc'[d] = "exit" /\ at'[d] \in Steps
    BY <1>2, RejectedComes
  <2> QED
    BY <1>2, <2>1 DEF Driven, Same, ExhaustedInv
<1> QED
  BY <1>1, <1>2, TwoKinds

(* A loop is entered past the last one the judge rejected.                 *)
LEMMA BeyondStep ==
  ASSUME TypeOK, PlaceInv, GatesInv, NEW d \in Drivers, DriveStep(d), Beyond(d)
  PROVE  Beyond(d)'
<1> USE Frame, Names
<1>0. /\ pc \in [Actors -> Labels] /\ d \in Actors /\ at \in [Drivers -> 0..N] /\ loop \in [Drivers -> Loops]
      /\ gateRow \in [Gates -> {"none", "running", "passed", "rejected", "errored"}]
      /\ \A l \in Loops : l \in Nat
      /\ \A s \in Steps : MaxLoops[s] \in Loops
  BY PlanAssumption DEF TypeOK, Actors, Loops
<1>g. ASSUME NEW x \in Labels, Goto(d, x) PROVE pc'[d] = x
  BY <1>0, <1>g DEF Goto
<1>l. ASSUME NEW fs, Leave(d, fs) PROVE pc'[d] = "exit"
  BY <1>g, <1>l DEF Leave
<1>b. ASSUME NEW l \in Loops, NEW fs \in SUBSET Flags, BeginLoop(d, l, fs), UNCHANGED at,
             \A k \in Loops : gateRow'[<<at[d], k>>] = "rejected" => k < l
      PROVE  Beyond(d)'
  <2>1. loop'[d] = l
    BY <1>b, BeginLoopMoves
  <2> QED
    BY <1>b, <2>1 DEF Beyond
<1>k. ASSUME UNCHANGED <<at, loop, gateRow>>, pc[d] \in {"exec", "gate", "judging"} PROVE Beyond(d)'
  BY <1>k DEF Beyond
<1>1. CASE BeginStep(d)
  <2>1. UNCHANGED at /\ UNCHANGED gateRow
    BY <1>1 DEF BeginStep
  <2>2. \A k \in Loops : gateRow[<<at[d], k>>] = "rejected" /\ at[d] # 0 => k < StartLoop(at[d])
    <3> SUFFICES ASSUME NEW k \in Loops, gateRow[<<at[d], k>>] = "rejected", at[d] # 0
                 PROVE  k < StartLoop(at[d])
      OBVIOUS
    <3>1. <<at[d], k>> \in Gates
      BY <1>0, PlanAssumption DEF Gates, Steps
    <3>2. at[d] \in Gated
      BY <3>1 DEF GatesInv
    <3> QED
      BY <3>2, StartLoopIsNext DEF Judged
  <2>3. at[d] # 0 /\ StartLoop(at[d]) <= MaxLoops[at[d]] => StartLoop(at[d]) \in Loops
    BY <1>0, StartLoopIsNext, PlanAssumption DEF Loops, Steps
  <2>4. \/ pc'[d] = "exit" \/ pc'[d] = "blocking"
        \/ at[d] # 0 /\ StartLoop(at[d]) \in Loops /\ BeginLoop(d, StartLoop(at[d]), {})
    BY <1>1, <1>g, <1>l, <2>3 DEF BeginStep
  <2>5. CASE at[d] # 0 /\ StartLoop(at[d]) \in Loops /\ BeginLoop(d, StartLoop(at[d]), {})
    BY <1>b, <2>1, <2>2, <2>5
  <2> QED
    BY <2>4, <2>5 DEF Beyond
<1>2. CASE EndLoop(d)
  <2>1. pc[d] = "exec" /\ at[d] \in Steps /\ UNCHANGED at /\ UNCHANGED gateRow
    BY <1>2 DEF EndLoop, PlaceInv
  <2>2. \A k \in Loops : gateRow[<<at[d], k>>] = "rejected" => k < loop[d]
    BY <2>1 DEF Beyond
  <2>3. loop[d] < MaxLoops[at[d]] => loop[d] + 1 \in Loops /\ \A k \in Loops : k < loop[d] => k < loop[d] + 1
    BY <1>0, <2>1, PlanAssumption DEF Loops
  <2>4. \/ pc'[d] \in {"exit", "failing", "blocking", "commit"}
        \/ UNCHANGED round /\ Goto(d, "gate")
        \/ loop[d] < MaxLoops[at[d]] /\ BeginLoop(d, loop[d] + 1, {"worked"})
    BY <1>2, <1>g, <1>l DEF EndLoop
  <2>5. CASE UNCHANGED round /\ Goto(d, "gate")
    BY <1>k, <2>1, <2>5
  <2>6. CASE loop[d] < MaxLoops[at[d]] /\ BeginLoop(d, loop[d] + 1, {"worked"})
    BY <1>b, <2>1, <2>2, <2>3, <2>6
  <2> QED
    BY <2>4, <2>5, <2>6 DEF Beyond
<1>3. CASE Gate(d)
  <2>1. pc[d] = "gate" /\ at[d] \in Steps /\ UNCHANGED <<at, loop>>
    BY <1>3 DEF Gate, PlaceInv
  <2>2. pc'[d] \in {"exit", "blocking"} \/ SetGate(d, "running")
    BY <1>3, <1>g, <1>l DEF Gate
  <2>3. CASE SetGate(d, "running")
    <3>1. \A k \in Loops : gateRow'[<<at[d], k>>] = "rejected" => gateRow[<<at[d], k>>] = "rejected"
      BY <1>0, <2>1, <2>3 DEF SetGate, Gates
    <3> QED
      BY <2>1, <3>1 DEF Beyond
  <2> QED
    BY <2>2, <2>3 DEF Beyond
<1>4. CASE Judge(d)
  <2>1. pc[d] = "judging" /\ at[d] \in Steps /\ UNCHANGED at
    BY <1>4 DEF Judge, PlaceInv
  <2>2. \A k \in Loops : gateRow[<<at[d], k>>] = "rejected" => k < loop[d]
    BY <2>1 DEF Beyond
  <2>3. \/ pc'[d] \in {"exit", "blocking", "commit"}
        \/ loop[d] < MaxLoops[at[d]] /\ SetGate(d, "rejected") /\ BeginLoop(d, loop[d] + 1, {})
    BY <1>4, <1>g, <1>l DEF Judge
  <2>4. CASE loop[d] < MaxLoops[at[d]] /\ SetGate(d, "rejected") /\ BeginLoop(d, loop[d] + 1, {})
    <3>1. loop[d] + 1 \in Loops /\ \A k \in Loops : k < loop[d] \/ k = loop[d] => k < loop[d] + 1
      BY <1>0, <2>1, <2>4, PlanAssumption DEF Loops
    <3>2. \A k \in Loops : k # loop[d] => gateRow'[<<at[d], k>>] = gateRow[<<at[d], k>>]
      BY <1>0, <2>1, <2>4 DEF SetGate, Gates
    <3>3. \A k \in Loops : gateRow'[<<at[d], k>>] = "rejected" => k < loop[d] + 1
      BY <2>2, <3>1, <3>2
    <3> QED
      BY <1>b, <2>1, <2>4, <3>1, <3>3
  <2> QED
    BY <2>3, <2>4 DEF Beyond
<1>5. ASSUME NEW u \in Units, Dispatch(d, u) \/ Finish(d, u) \/ JournalFails(d, u) PROVE Beyond(d)'
  <2>1. pc[d] = "exec" /\ UNCHANGED <<at, loop, gateRow>>
    BY <1>5 DEF Dispatch, Finish, JournalFails
  <2> QED
    BY <1>k, <2>1
<1>6. CASE Interrupt(d)
  <2>1. UNCHANGED <<pc, at, loop, gateRow>>
    BY <1>6 DEF Interrupt
  <2> QED
    BY <2>1 DEF Beyond
<1>7. CASE OpenPlan(d) \/ Failing(d) \/ Blocking(d) \/ Commit(d) \/ Settle(d) \/ NextStep(d)
  <2>1. pc'[d] \notin {"exec", "gate", "judging"}
    BY <1>7, <1>g, <1>l DEF OpenPlan, Failing, Blocking, Stop, Commit, Settle, NextStep
  <2> QED
    BY <2>1 DEF Beyond
<1> QED
  BY <1>1, <1>2, <1>3, <1>4, <1>5, <1>6, <1>7 DEF DriveStep

(* An exhausted gate has a rejected last loop.                             *)
LEMMA ExhaustionIsJournaled ==
  ASSUME TypeOK, PlaceInv, GatesInv, ExhaustedInv, NEW d \in Drivers, DriveStep(d), Exhausted(d)
  PROVE  Exhausted(d)'
<1> SUFFICES ASSUME "rejected" \in flags'[d]
             PROVE  gateRow'[<<at'[d], MaxLoops[at'[d]]>>] = "rejected"
  BY DEF Exhausted
<1>1. /\ at'[d] = at[d] /\ at[d] \in Steps
      /\ \/ StartLoop(at[d]) > MaxLoops[at[d]] /\ UNCHANGED gateRow
         \/ loop[d] = MaxLoops[at[d]] /\ SetGate(d, "rejected")
         \/ "rejected" \in flags[d] /\ UNCHANGED gateRow
  BY RejectedComes
<1>2. /\ gateRow \in [Gates -> {"none", "running", "passed", "rejected", "errored"}]
      /\ MaxLoops[at[d]] \in Loops /\ <<at[d], MaxLoops[at[d]]>> \in Gates
  BY <1>1, PlanAssumption DEF TypeOK, Gates
<1>3. CASE StartLoop(at[d]) > MaxLoops[at[d]] /\ UNCHANGED gateRow
  <2> DEFINE k == StartLoop(at[d]) - 1
  <2>1. k \in Judged(at[d])
    BY <1>2, <1>3, StartLoopIsNext DEF Loops
  <2>2. k \in Loops /\ gateRow[<<at[d], k>>] = "rejected"
    BY <2>1 DEF Judged
  <2>3. <<at[d], k>> \in Gates /\ <<at[d], k>>[1] = at[d] /\ <<at[d], k>>[2] = k
    BY <1>1, <2>2 DEF Gates
  <2>4. k <= MaxLoops[at[d]]
    BY <2>2, <2>3 DEF GatesInv
  <2>5. k = MaxLoops[at[d]]
    BY <1>2, <1>3, <2>2, <2>4, StartLoopIsNext DEF Loops
  <2> QED
    BY <1>1, <1>3, <2>2, <2>5
<1>4. CASE loop[d] = MaxLoops[at[d]] /\ SetGate(d, "rejected")
  BY <1>1, <1>2, <1>4 DEF SetGate
<1>5. CASE "rejected" \in flags[d] /\ UNCHANGED gateRow
  BY <1>1, <1>5 DEF Exhausted
<1> QED
  BY <1>1, <1>3, <1>4, <1>5

(* The three facts about gate loops are kept together.                     *)
LEMMA LoopStep == TypeOK /\ PlaceInv /\ LockInv /\ LoopInv /\ [Next]_vars => LoopInv'
<1> SUFFICES ASSUME TypeOK, PlaceInv, LockInv, LoopInv, [Next]_vars PROVE LoopInv'
  OBVIOUS
<1>1. GatesInv' /\ ExhaustedInv'
  BY GatesStep, ExhaustedStep DEF LoopInv
<1>2. ASSUME ~compromised', NEW e \in Drivers PROVE Beyond(e)' /\ Exhausted(e)'
  <2>1. \A d \in Drivers : Beyond(d) /\ Exhausted(d)
    BY <1>2, SoloOrQuiet, Zenon DEF LoopInv
  <2>2. GatesInv /\ ExhaustedInv
    BY DEF LoopInv
  <2>3. CASE Quiet
    <3>1. gateRow' = gateRow
      BY <2>3, Frame DEF Quiet
    <3>2. CASE Same(e)
      BY <2>1, <3>1, <3>2 DEF Same, Beyond, Exhausted
    <3>3. CASE Parked(e)
      BY <2>2, <3>3, Names DEF Parked, Beyond, Exhausted, ExhaustedInv
    <3> QED
      BY <2>3, <3>2, <3>3 DEF Quiet
  <2>4. ASSUME NEW d \in Drivers, Solo(d) PROVE Beyond(e)' /\ Exhausted(e)'
    <3>1. CASE e = d
      BY <2>1, <2>2, <2>4, <3>1, BeyondStep, ExhaustionIsJournaled DEF Solo
    <3>2. CASE e # d
      <4>1. Same(e) /\ pc'[e] \notin Driving /\ pc[e] \notin Driving
        BY <2>4, <3>2 DEF Solo
      <4>2. "rejected" \notin flags'[e]
        BY <2>2, <4>1, Names DEF ExhaustedInv, Same
      <4> QED
        BY <4>1, <4>2, Names DEF Beyond, Exhausted
    <3> QED
      BY <3>1, <3>2
  <2> QED
    BY <1>2, <2>3, <2>4, SoloOrQuiet
<1>3. (~compromised => \A d \in Drivers : Beyond(d) /\ Exhausted(d))'
  BY <1>2, Zenon
<1> QED
  BY <1>1, <1>3, Zenon DEF LoopInv

-----------------------------------------------------------------------------
(* What a completed step rests on *)

(* What a driver has earned stays earned while it moves through the        *)
(* judging of its step.                                                    *)
LEMMA EarnedKept ==
  ASSUME NEW d \in Drivers, Earned(d), UNCHANGED <<at, loop, dispatchLog, gateRow, spine>>,
         \/ pc'[d] = pc[d]
         \/ pc[d] = "judging" /\ pc'[d] = "commit"
         \/ pc[d] = "commit" /\ at[d] \in Gated /\ pc'[d] = "settle"
  PROVE  Earned(d)'
  BY Frame DEF Earned, Judging, Work, Cell

(* The driver earns the completion: its units first, then its judge.       *)
LEMMA EarnedByDriver ==
  ASSUME TypeOK, PlaceInv, NEW d \in Drivers, Earned(d), DriveStep(d),
         pc[d] = "exec" => \A u \in Units : Knows(d, u)
  PROVE  Earned(d)'
<1> USE Frame, Names
<1>0. /\ pc \in [Actors -> Labels] /\ d \in Actors /\ at \in [Drivers -> 0..N] /\ loop \in [Drivers -> Loops]
      /\ gateRow \in [Gates -> {"none", "running", "passed", "rejected", "errored"}]
  BY DEF TypeOK, Actors
<1>g. ASSUME NEW x \in Labels, Goto(d, x) PROVE pc'[d] = x
  BY <1>0, <1>g DEF Goto
<1>l. ASSUME NEW fs, Leave(d, fs) PROVE pc'[d] = "exit"
  BY <1>g, <1>l DEF Leave
<1>o. ASSUME pc'[d] \notin {"gate", "judging", "commit", "settle"} PROVE Earned(d)'
  BY <1>o DEF Earned, Judging
<1>1. CASE EndLoop(d)
  <2>0. pc[d] = "exec" /\ at[d] \in Steps /\ UNCHANGED <<at, unitRow, gateRow, spine>>
    BY <1>1 DEF EndLoop, PlaceInv
  <2>1. \/ pc'[d] \in {"exit", "failing", "blocking", "exec"}
        \/ /\ UNCHANGED round
           /\ (\E u \in Work(d) : unit[d][u] # "ok") => at[d] \in Tolerant
           /\ pc'[d] = IF at[d] \in Gated THEN "gate" ELSE "commit"
    BY <1>1, <1>g, <1>l DEF EndLoop, BeginLoop
  <2>2. CASE /\ UNCHANGED round
             /\ (\E u \in Work(d) : unit[d][u] # "ok") => at[d] \in Tolerant
             /\ pc'[d] = IF at[d] \in Gated THEN "gate" ELSE "commit"
    <3>1. at[d] \notin Tolerant => \A u \in Work(d) : unitRow[Cell(d, u)] = "completed"
      BY <2>0, <2>2, PlanAssumption DEF Knows, Work
    <3>2. Work(d)' = Work(d) /\ \A u : Cell(d, u)' = Cell(d, u)
      BY <2>0, <2>2 DEF Work, Cell
    <3>3. ~Judging(d)' /\ pc'[d] # "settle"
      BY <2>0, <2>2 DEF Judging
    <3> QED
      BY <2>0, <3>1, <3>2, <3>3 DEF Earned
  <2> QED
    BY <1>o, <2>1, <2>2
<1>2. CASE Gate(d)
  <2>1. pc[d] = "gate" /\ at[d] \in Steps /\ UNCHANGED <<at, loop, dispatchLog, spine>>
    BY <1>2 DEF Gate, PlaceInv
  <2>2. pc'[d] \in {"exit", "blocking"} \/ (pc'[d] = "judging" /\ SetGate(d, "running") /\ MayComplete(d))
    BY <1>2, <1>g, <1>l DEF Gate
  <2>3. CASE pc'[d] = "judging" /\ SetGate(d, "running") /\ MayComplete(d)
    <3>1. gateRow'[<<at[d], loop[d]>>] = "running"
      BY <1>0, <2>1, <2>3 DEF SetGate, Gates
    <3>2. stepStatus'[at'[d]] = "pending"
      BY <2>1, <2>3 DEF MayComplete
    <3> QED
      BY <2>1, <2>3, <3>1, <3>2 DEF Earned, Judging, Work, Cell
  <2> QED
    BY <1>o, <2>2, <2>3
<1>3. CASE Judge(d)
  <2>1. pc[d] = "judging" /\ UNCHANGED <<at, dispatchLog, spine>>
    BY <1>3 DEF Judge
  <2>2. pc'[d] \in {"exit", "exec", "blocking"} \/ (pc'[d] = "commit" /\ UNCHANGED <<gateRow, round>>)
    BY <1>3, <1>g, <1>l DEF Judge, BeginLoop
  <2> QED
    BY <1>o, <2>1, <2>2, EarnedKept
<1>4. CASE Commit(d)
  <2>1. pc[d] = "commit" /\ UNCHANGED <<at, round, dispatchLog>>
    BY <1>4 DEF Commit
  <2>2. \/ pc'[d] \in {"exit", "next"}
        \/ pc'[d] = "settle" /\ at[d] \in Gated /\ UNCHANGED gateRow
    BY <1>4, <1>g, <1>l DEF Commit
  <2>3. CASE pc'[d] = "settle" /\ at[d] \in Gated /\ UNCHANGED gateRow
    BY <2>1, <2>3 DEF Earned, Judging, Work, Cell
  <2> QED
    BY <1>o, <2>2, <2>3
<1>5. CASE Interrupt(d)
  BY <1>5, EarnedKept DEF Interrupt
<1>6. ASSUME NEW u \in Units, Dispatch(d, u) \/ Finish(d, u) \/ JournalFails(d, u) PROVE Earned(d)'
  BY <1>6, <1>o DEF Dispatch, Finish, JournalFails
<1>7. CASE OpenPlan(d) \/ BeginStep(d) \/ Failing(d) \/ Blocking(d) \/ Settle(d) \/ NextStep(d)
  <2>1. pc'[d] \notin {"gate", "judging", "commit", "settle"}
    BY <1>7, <1>g, <1>l DEF OpenPlan, BeginStep, BeginLoop, Failing, Blocking, Stop,
       Settle, NextStep
  <2> QED
    BY <1>o, <2>1
<1> QED
  BY <1>1, <1>2, <1>3, <1>4, <1>5, <1>6, <1>7 DEF DriveStep

(* Nobody else takes from a driver what it has earned.                     *)
LEMMA EarnedStep ==
  TypeOK /\ PlaceInv /\ LockInv /\ WorkInv /\ EarnedInv /\ [Next]_vars => EarnedInv'
<1> SUFFICES ASSUME TypeOK, PlaceInv, LockInv, WorkInv, EarnedInv, [Next]_vars, ~compromised',
                    NEW e \in Drivers
             PROVE  Earned(e)'
  BY Zenon DEF EarnedInv
<1>1. Earned(e) /\ (pc[e] = "exec" => \A u \in Units : Knows(e, u))
  BY SoloOrQuiet, Zenon DEF EarnedInv, WorkInv
<1>2. CASE Quiet
  <2>1. CASE Same(e)
    <3>1. Judging(e) => at[e] \in Steps
      BY DEF Judging, PlaceInv
    <3>2. /\ UNCHANGED <<unitRow, gateRow>>
          /\ \A s \in Steps : stepStatus'[s] = "completed" <=> stepStatus[s] = "completed"
      BY <1>2, Frame DEF Quiet
    <3>3. pc'[e] = pc[e] /\ at'[e] = at[e] /\ loop'[e] = loop[e]
      BY <2>1 DEF Same
    <3>4. (Judging(e)' <=> Judging(e)) /\ Work(e)' = Work(e) /\ \A u : Cell(e, u)' = Cell(e, u)
      BY <3>3 DEF Judging, Work, Cell
    <3> QED
      BY <1>1, <3>1, <3>2, <3>3, <3>4 DEF Earned
  <2>2. CASE Parked(e)
    BY <2>2, Names DEF Parked, Earned, Judging
  <2> QED
    BY <1>2, <2>1, <2>2 DEF Quiet
<1>3. ASSUME NEW d \in Drivers, Solo(d) PROVE Earned(e)'
  <2>1. CASE e = d
    BY <1>1, <1>3, <2>1, EarnedByDriver DEF Solo
  <2>2. CASE e # d
    BY <1>3, <2>2, Names DEF Solo, Earned, Judging
  <2> QED
    BY <2>1, <2>2
<1> QED
  BY <1>2, <1>3, SoloOrQuiet

(* The gate loop l of the step s, as the completion of s rests on it.      *)
Rests(s, l) ==
  /\ s \in Gated => Passed(s, l)
  /\ s \notin Tolerant => \A u \in UnitsOf[s] : unitRow[<<s, l, u>>] = "completed"

(* A step is completed by the commit of its driver, and what a completed   *)
(* step rests on is left alone or, by the same driver, settled.            *)
LEMMA CommitCompletes ==
  ASSUME TypeOK, NEW d \in Drivers, DriveStep(d), NEW s \in Steps, stepStatus'[s] = "completed"
  PROVE  \/ stepStatus[s] = "completed"
         \/ /\ Commit(d) /\ s = at[d] /\ UNCHANGED <<unitRow, gateRow, at, loop>>
            /\ at[d] \in Gated => pc'[d] = "settle"
<1> USE Frame
<1>0. pc \in [Actors -> Labels] /\ d \in Actors
      /\ stepStatus \in [Steps -> {"pending", "completed", "blocked", "failed"}]
  BY DEF TypeOK, Actors
<1>1. CASE UNCHANGED spine \/ MarkAbandoned
  BY <1>1 DEF MarkAbandoned
<1>2. CASE Failing(d) \/ Blocking(d)
  <2>1. UNCHANGED spine \/ \E x \in {"failed", "blocked"} : stepStatus' = [stepStatus EXCEPT ![at[d]] = x]
    BY <1>2 DEF Failing, Blocking, Stop, CompleteStep
  <2> QED
    BY <1>0, <1>1, <2>1
<1>3. CASE Commit(d)
  <2>1. \/ UNCHANGED spine
        \/ /\ stepStatus' = [stepStatus EXCEPT ![at[d]] = "completed"]
           /\ UNCHANGED <<unitRow, gateRow, at, loop>>
           /\ Goto(d, IF at[d] \in Gated THEN "settle" ELSE "next")
    BY <1>3 DEF Commit, CompleteStep
  <2> QED
    BY <1>0, <1>1, <1>3, <2>1 DEF Goto
<1> QED
  BY <1>1, <1>2, <1>3 DEF DriveStep, OpenPlan, BeginStep, EndLoop, Dispatch, Finish,
     JournalFails,
      Gate, Judge, Settle, NextStep, Interrupt

(* A completed step keeps resting on its loop, and the step completed      *)
(* now rests on the loop of its driver.                                    *)
LEMMA CompletedStep ==
  TypeOK /\ PlaceInv /\ LockInv /\ WorkInv /\ EarnedInv /\ CompletedByWork /\ [Next]_vars
    => CompletedByWork'
<1> SUFFICES ASSUME TypeOK, PlaceInv, LockInv, WorkInv, EarnedInv, CompletedByWork, [Next]_vars,
                    ~compromised', NEW s \in Steps, stepStatus'[s] = "completed"
             PROVE  \E l \in 1..MaxLoops[s] : Rests(s, l)'
  BY Zenon DEF CompletedByWork, Rests
<1> USE Frame, Names
<1>0. /\ \A d \in Drivers : Earned(d)
      /\ stepStatus[s] = "completed" => \E l \in 1..MaxLoops[s] : Rests(s, l)
  BY SoloOrQuiet, Zenon DEF EarnedInv, CompletedByWork, Rests
<1>t. /\ faults' \in Nat /\ faults \in Nat /\ MaxLoops[s] \in Loops /\ \A l \in 1..MaxLoops[s] : l \in Loops
      /\ gateRow \in [Gates -> {"none", "running", "passed", "rejected", "errored"}]
      /\ \A u \in UnitsOf[s] : u \in Units
  <2>1. faults' \in Nat
    BY TypeStep DEF TypeOK
  <2> QED
    BY <2>1, PlanAssumption DEF TypeOK, Loops
<1>u. ASSUME NEW l \in 1..MaxLoops[s],
             s \notin Tolerant => \A u \in UnitsOf[s] : unitRow[<<s, l, u>>] = "completed"
      PROVE  s \notin Tolerant => \A u \in UnitsOf[s] : unitRow'[<<s, l, u>>] = "completed"
  <2>1. \A u \in UnitsOf[s] : <<s, l, u>> \in Cells
    BY <1>t DEF Cells
  <2> QED
    BY <1>u, <2>1, FinalStep
<1>p. ASSUME NEW l \in 1..MaxLoops[s], Rests(s, l), s \in Gated => Passed(s, l)'
      PROVE  \E k \in 1..MaxLoops[s] : Rests(s, k)'
  BY <1>p, <1>u DEF Rests
<1>1. CASE Quiet
  <2>1. PICK l \in 1..MaxLoops[s] : Rests(s, l)
    BY <1>0, <1>1 DEF Quiet
  <2>2. gateRow' = gateRow /\ (faults' = 0 => faults = 0)
    BY <1>1 DEF Quiet
  <2>3. ASSUME NEW e \in Drivers, pc[e] = "settle", at[e] = s, faults' = 0
        PROVE  pc'[e] = "settle" /\ at'[e] = s
    BY <1>1, <2>3 DEF Quiet, Same, Parked
  <2>4. s \in Gated => Passed(s, l)'
    BY <1>t, <2>1, <2>2, <2>3 DEF Rests, Passed
  <2> QED
    BY <1>p, <2>1, <2>4
<1>2. ASSUME NEW d \in Drivers, Solo(d) PROVE \E l \in 1..MaxLoops[s] : Rests(s, l)'
  <2>0. DriveStep(d) /\ (faults' = 0 => faults = 0) /\ \A e \in Drivers : pc[e] = "settle" => e = d
    BY <1>2 DEF Solo, Driven
  <2>1. CASE /\ Commit(d) /\ s = at[d] /\ UNCHANGED <<unitRow, gateRow, at, loop>>
             /\ at[d] \in Gated => pc'[d] = "settle"
    <3>1. pc[d] = "commit" /\ loop[d] \in 1..MaxLoops[s]
      BY <1>t, <2>1 DEF Commit, PlaceInv, TypeOK, Loops
    <3>2. s \notin Tolerant => \A u \in UnitsOf[s] : unitRow[<<s, loop[d], u>>] = "completed"
      BY <1>0, <2>1, <3>1 DEF Earned, Work, Cell
    <3>3. s \in Gated => gateRow[<<s, loop[d]>>] = "running"
      BY <1>0, <2>1, <3>1 DEF Earned, Judging
    <3> QED
      BY <2>1, <3>1, <3>2, <3>3 DEF Rests, Passed
  <2>2. CASE stepStatus[s] = "completed" /\ Settle(d) /\ s = at[d]
    <3>1. pc[d] = "settle" /\ loop[d] \in 1..MaxLoops[s] /\ UNCHANGED unitRow
      BY <1>t, <2>2 DEF Settle, PlaceInv, TypeOK, Loops
    <3>2. s \notin Tolerant => \A u \in UnitsOf[s] : unitRow[<<s, loop[d], u>>] = "completed"
      BY <1>0, <2>2, <3>1 DEF Earned, Work, Cell
    <3>3. gateRow'[<<s, loop[d]>>] = "passed"
      BY <1>t, <2>2, <3>1 DEF Settle, SetGate, Gates
    <3> QED
      BY <3>1, <3>2, <3>3 DEF Rests, Passed
  <2>3. CASE stepStatus[s] = "completed" /\ ~(Settle(d) /\ s = at[d])
    <3>1. PICK l \in 1..MaxLoops[s] : Rests(s, l)
      BY <1>0, <2>3
    <3>2. <<s, l>> \in Gates
      BY <1>t DEF Gates
    <3>3. gateRow'[<<s, l>>] = gateRow[<<s, l>>]
      <4>1. CASE UNCHANGED gateRow
        BY <4>1
      <4>2. CASE s # at[d] /\ \E x : SetGate(d, x)
        BY <1>t, <3>2, <4>2 DEF SetGate
      <4>3. Gate(d) /\ s = at[d] => UNCHANGED gateRow
        BY <2>3 DEF Gate, MayComplete
      <4>4. (Judge(d) \/ (Commit(d) /\ at[d] \in Gated)) => s # at[d]
        BY <1>0, <2>3 DEF Judge, Commit, Earned, Judging
      <4>5. \/ UNCHANGED gateRow
            \/ ((Gate(d) \/ Judge(d) \/ (Commit(d) /\ at[d] \in Gated) \/ Settle(d)) /\ \E x : SetGate(d, x))
        BY <2>0 DEF DriveStep, OpenPlan, BeginStep, EndLoop, Dispatch, Finish,
           JournalFails, Failing,
           Blocking, Stop, Gate, Judge, Commit, Settle, NextStep, Interrupt
      <4> QED
        BY <2>3, <4>1, <4>2, <4>3, <4>4, <4>5
    <3>4. pc[d] = "settle" /\ at[d] = s => pc'[d] = "settle" /\ at'[d] = s
      <4>1. pc[d] = "settle" => Settle(d) \/ Interrupt(d)
        BY <2>0 DEF DriveStep, OpenPlan, BeginStep, EndLoop, Dispatch, Finish,
           JournalFails, Failing,
           Blocking, Stop, Gate, Judge, Commit, NextStep
      <4> QED
        BY <2>3, <4>1 DEF Interrupt
    <3>5. s \in Gated => Passed(s, l)'
      BY <1>t, <2>0, <3>1, <3>3, <3>4 DEF Rests, Passed
    <3> QED
      BY <1>p, <3>1, <3>5
  <2>4. \/ stepStatus[s] = "completed"
        \/ /\ Commit(d) /\ s = at[d] /\ UNCHANGED <<unitRow, gateRow, at, loop>>
           /\ at[d] \in Gated => pc'[d] = "settle"
    BY <2>0, CommitCompletes
  <2> QED
    BY <2>1, <2>2, <2>3, <2>4
<1> QED
  BY <1>1, <1>2, SoloOrQuiet

-----------------------------------------------------------------------------
(* The invariant is inductive *)

(* A run that has just been started satisfies the invariant.               *)
LEMMA InitInv == Init => IInv
<1> SUFFICES ASSUME Init PROVE IInv
  OBVIOUS
<1> USE DEF Init, Lock!Init
<1>0. /\ \A d \in Drivers : pc[d] = "start"
      /\ Drivers \subseteq Actors /\ Resumers \subseteq Actors
      /\ Drivers \cap (Resumers \cup Abandoners) = {}
      /\ "start" \in Labels /\ "resuming" \in Labels /\ "start" \notin Driving
  BY ActorAssumption, Names DEF Actors, Driving
<1>1. TypeOK
  <2>1. SpineTypes
    BY PlanAssumption DEF SpineTypes
  <2>2. DispatchTypes /\ GateTypes
    BY DEF DispatchTypes, GateTypes
  <2>3. LockTypes
    BY DEF LockTypes
  <2>4. PlaceTypes
    BY <1>0 DEF PlaceTypes
  <2>5. StepTypes /\ UsedTypes /\ FlagTypes
    BY PlanAssumption DEF StepTypes, UsedTypes, FlagTypes
  <2>6. RoundTypes
    BY PlanAssumption DEF RoundTypes, Idle, Never, Loops
  <2>7. RestTypes
    BY PlanAssumption, LimitAssumption DEF RestTypes
  <2> QED
    BY <2>1, <2>2, <2>3, <2>4, <2>5, <2>6, <2>7, TypesInParts
<1>2. LockInv /\ PlaceInv
  BY <1>0 DEF LockInv, PlaceInv
<1>3. SpineInv
  BY PlanAssumption, StepsAreOrdered DEF SpineInv, Split, Steps
<1>4. BudgetInv
  BY <1>0, LimitAssumption DEF BudgetInv
<1>5. WorkInv
  BY <1>0 DEF WorkInv
<1>6. LoopInv
  BY <1>0 DEF LoopInv, GatesInv, ExhaustedInv, Beyond, Exhausted, Gates
<1>7. EarnedInv
  BY <1>0 DEF EarnedInv, Earned, Judging
<1>8. RunningIsDispatched /\ CompletedByWork
  BY DEF RunningIsDispatched, CompletedByWork
<1> QED
  BY <1>1, <1>2, <1>3, <1>4, <1>5, <1>6, <1>7, <1>8 DEF IInv

(* Every step of every process keeps it.                                   *)
LEMMA NextInv == IInv /\ [Next]_vars => IInv'
  BY TypeStep, LockStep, PlaceStep, SpineStep, BudgetStep, WorkStep, LoopStep,
     EarnedStep,
     RunningStep, CompletedStep DEF IInv

(* It implies what the runs check.                                         *)
LEMMA IInvImplies ==
  IInv => /\ OneDispatcher /\ WithinBudget /\ RejectedLoopIsOver /\ ExhaustedOnlyByVerdict
          /\ SpineInOrder
<1> SUFFICES ASSUME IInv
             PROVE  /\ OneDispatcher /\ WithinBudget /\ RejectedLoopIsOver /\ ExhaustedOnlyByVerdict
                    /\ SpineInOrder
  OBVIOUS
<1>1. OneDispatcher
  BY Names, Zenon DEF IInv, OneDispatcher, Sent, LockInv
<1>2. WithinBudget
  BY Zenon DEF IInv, WithinBudget, BudgetInv
<1>3. RejectedLoopIsOver
  BY Zenon DEF IInv, RejectedLoopIsOver, LoopInv, Beyond
<1>4. ExhaustedOnlyByVerdict
  BY Zenon DEF IInv, ExhaustedOnlyByVerdict, LoopInv, Exhausted
<1>5. SpineInOrder
  BY SpineOrder DEF IInv
<1> QED
  BY <1>1, <1>2, <1>3, <1>4, <1>5

-----------------------------------------------------------------------------
(* The theorems *)

(* The invariant holds in every reachable state of every run, whatever     *)
(* the plan, the processes and the bounds.                                 *)
THEOREM Inductive == Spec => []IInv
  BY InitInv, NextInv, PTL DEF Spec

(* Rows, cursors and what drivers remember stay within their types.        *)
THEOREM TypeCorrect == Spec => []TypeOK
<1>1. IInv => TypeOK
  BY DEF IInv
<1> QED
  BY <1>1, Inductive, PTL

(* While the run lock is exclusive, no two drivers wait for the same       *)
(* unit of the same loop: this is what lets reserveUnitAttempt reclaim a   *)
(* running row.                                                            *)
THEOREM DispatchedOnce == Spec => []OneDispatcher
  BY Inductive, IInvImplies, PTL

(* All invocations together journal no more attempts than                  *)
(* budget.max_units.                                                       *)
THEOREM BudgetHolds == Spec => []WithinBudget
  BY Inductive, IInvImplies, PTL

(* A completed unit is never dispatched again and its row never changes.   *)
THEOREM UnitsAreFinal == Spec => CompletedUnitsAreFinal
<1> DEFINE Final == \A c \in Cells : ~compromised' /\ unitRow[c] = "completed" =>
                      unitRow'[c] = "completed" /\ attempts'[c] = attempts[c]
<1>1. IInv /\ [Next]_vars => Final
  BY FinalStep DEF IInv
<1>2. UNCHANGED vars => Final
  BY DEF vars, journal, dispatchLog
<1> QED
  BY <1>1, <1>2, Inductive, PTL DEF Spec, CompletedUnitsAreFinal

(* Unless a process dies or a journal write fails, every running row is    *)
(* one that some driver waits for under its attempt number.                *)
THEOREM NoneLeftRunning == Spec => []RunningIsDispatched
<1>1. IInv => RunningIsDispatched
  BY DEF IInv
<1> QED
  BY <1>1, Inductive, PTL

(* A driver never works in a loop that the judge has rejected, nor         *)
(* before one.                                                             *)
THEOREM RejectionsLast == Spec => []RejectedLoopIsOver
  BY Inductive, IInvImplies, PTL

(* An exhausted gate has a rejected last loop in the journal: an outage    *)
(* of the judge does not burn one.                                         *)
THEOREM ExhaustionJudged == Spec => []ExhaustedOnlyByVerdict
  BY Inductive, IInvImplies, PTL

(* A completed step has a loop in which its units are completed and its    *)
(* judge passed.                                                           *)
THEOREM CompletionEarned == Spec => []CompletedByWork
<1>1. IInv => CompletedByWork
  BY DEF IInv
<1> QED
  BY <1>1, Inductive, PTL

(* The spine is completed in order, and the run with its last step.        *)
THEOREM SpineOrdered == Spec => []SpineInOrder
  BY Inductive, IInvImplies, PTL

(* A completed step stays completed.                                       *)
THEOREM StepsFinal == Spec => StepsStayCompleted
<1> DEFINE Stay == \A s \in Steps : stepStatus[s] = "completed" => stepStatus'[s] = "completed"
<1>1. IInv /\ [Next]_vars => Stay
  BY CompletedStays DEF IInv
<1>2. UNCHANGED vars => Stay
  BY DEF vars, spine
<1> QED
  BY <1>1, <1>2, Inductive, PTL DEF Spec, StepsStayCompleted

-----------------------------------------------------------------------------
(* The cursor that observers see *)

(* No two resumes overlap between their reads and their transactions.      *)
OneReopens ==
  \A p, q \in Drivers \cup Resumers : pc[p] = "reopening" /\ pc[q] = "reopening" => p = q

(* Then a run that is being reopened is still stopped.                     *)
ReopenInv ==
  \A p \in Drivers \cup Resumers : pc[p] = "reopening" => runStatus \in {"blocked", "failed"}

Completed(st) == {s \in Steps : st[s] = "completed"}

(* The completed steps are finitely many, and all of them when they are N. *)
LEMMA CompletedCount ==
  ASSUME NEW st
  PROVE  /\ Completed(st) \subseteq Steps
         /\ Cardinality(Completed(st)) \in Nat /\ Cardinality(Completed(st)) <= N
         /\ Cardinality(Completed(st)) = N <=> Completed(st) = Steps
         /\ \A s \in Steps \ Completed(st) :
              Cardinality(Completed(st) \cup {s}) = Cardinality(Completed(st)) + 1
<1>1. IsFiniteSet(Steps) /\ Cardinality(Steps) = N
  BY PlanAssumption, FS_Interval DEF Steps
<1>2. Completed(st) \in SUBSET Steps
  BY DEF Completed
<1>3. /\ IsFiniteSet(Completed(st)) /\ Cardinality(Completed(st)) <= N
      /\ Cardinality(Completed(st)) = N => Completed(st) = Steps
  BY <1>1, <1>2, FS_Subset
<1>4. Cardinality(Completed(st)) \in Nat
  BY <1>3, FS_CardinalityType
<1>5. \A s \in Steps \ Completed(st) :
        Cardinality(Completed(st) \cup {s}) = Cardinality(Completed(st)) + 1
  BY <1>3, FS_AddElement
<1> QED
  BY <1>1, <1>2, <1>3, <1>4, <1>5

(* The steps that change what an observer sees, with their guards.         *)
LEMMA SpineMoves ==
  ASSUME [Next]_vars
  PROVE  \/ UNCHANGED spine
         \/ Abandonable /\ MarkAbandoned
         \/ \E p \in Drivers \cup Resumers : ResumeCommit(p)
         \/ \E d \in Drivers : /\ MayComplete(d)
                               /\ \E x \in {"completed", "blocked", "failed"} : CompleteStep(at[d], x)
<1>1. ASSUME NEW d \in Drivers, DriveStep(d)
      PROVE  \/ UNCHANGED spine
             \/ Abandonable /\ MarkAbandoned
             \/ /\ MayComplete(d)
                /\ \E x \in {"completed", "blocked", "failed"} : CompleteStep(at[d], x)
  BY <1>1 DEF DriveStep, OpenPlan, BeginStep, EndLoop, Dispatch, Finish,
     JournalFails, Failing,
              Blocking, Stop, Gate, Judge, Commit, Settle, NextStep, Interrupt
<1> QED
  BY <1>1, NextCases DEF Read, TakeLock, Exit, Crash, Resume, ResumeRead, Abandon,
     BreakLock, vars

(* A step of the drive loop moves no process but its driver.               *)
LEMMA OthersStand ==
  ASSUME TypeOK, NEW d \in Drivers, DriveStep(d), NEW p \in Actors, p # d
  PROVE  pc'[p] = pc[p]
<1>1. pc \in [Actors -> Labels] /\ d \in Actors
  BY DEF TypeOK, Actors
<1>2. \/ UNCHANGED pc \/ \E x : Goto(d, x)
  BY DEF DriveStep, OpenPlan, BeginStep, EndLoop, BeginLoop, Dispatch, Finish,
     JournalFails, Failing,
         Blocking, Stop, Gate, Judge, Commit, Settle, NextStep, Interrupt, Leave
<1> QED
  BY <1>1, <1>2 DEF Goto

(* A process starts to reopen a run only where it has read it as stopped.  *)
LEMMA ReopenStep ==
  ASSUME TypeOK, PlaceInv, LockInv, ReopenInv, OneReopens, OneReopens', [Next]_vars
  PROVE  ReopenInv'
<1> SUFFICES ASSUME NEW p \in Drivers \cup Resumers, pc'[p] = "reopening"
             PROVE  runStatus' \in {"blocked", "failed"}
  BY DEF ReopenInv
<1> USE Frame, Names
<1>0. /\ pc \in [Actors -> Labels] /\ Drivers \cup Resumers \subseteq Actors /\ Abandoners \subseteq Actors
      /\ Drivers \cap (Resumers \cup Abandoners) = {} /\ Resumers \cap Abandoners = {}
  BY ActorAssumption DEF TypeOK, Actors
<1>k. pc[p] = "reopening" => runStatus \in {"blocked", "failed"}
  BY DEF ReopenInv
<1>1. ASSUME NEW d \in Drivers, DriveStep(d) PROVE pc[p] = "reopening" /\ runStatus' \in {"blocked", "failed"}
  <2>1. pc[p] = "reopening"
    <3>1. CASE p \in Drivers
      BY <1>1, <3>1, DrivenStep DEF Driven, Same, Driving
    <3>2. CASE p \notin Drivers
      BY <1>0, <1>1, <3>2, OthersStand
    <3> QED
      BY <3>1, <3>2
  <2>2. UNCHANGED spine \/ MarkAbandoned \/ MayComplete(d)
    BY <1>1, DriveSpine
  <2> QED
    BY <1>k, <2>1, <2>2 DEF MayComplete, MarkAbandoned
<1>2. ASSUME NEW q \in Drivers \cup Resumers, Resume(q) PROVE runStatus' \in {"blocked", "failed"}
  <2>1. CASE q = p
    <3>1. ~Resumed(q)
      BY <1>0, <2>1 DEF Resumed, Goto
    <3>2. runStatus \in {"blocked", "failed"} /\ UNCHANGED spine
      BY <1>0, <1>2, <2>1, <3>1 DEF Resume, ResumeRead, ResumeCommit, Goto
    <3> QED
      BY <3>2
  <2>2. CASE q # p
    <3>1. pc[p] = "reopening"
      BY <1>0, <1>2, <2>2 DEF Resume, ResumeRead, ResumeCommit, Resumed, Goto
    <3>2. pc[q] # "reopening"
      BY <2>2, <3>1 DEF OneReopens
    <3>3. UNCHANGED spine
      BY <1>2, <3>2 DEF Resume, ResumeRead, ResumeCommit
    <3> QED
      BY <1>k, <3>1, <3>3
  <2> QED
    BY <2>1, <2>2
<1>3. ASSUME NEW d \in Drivers, Read(d) \/ TakeLock(d) \/ Exit(d) \/ Crash(d)
      PROVE  runStatus' \in {"blocked", "failed"}
  <2>1. UNCHANGED spine /\ \E x \in {"locking", "ended", "plan", "resuming"} : Goto(d, x)
    BY <1>3 DEF Read, TakeLock, Exit, Crash, Forget
  <2> QED
    BY <1>0, <1>k, <2>1 DEF Goto
<1>4. ASSUME NEW q \in Abandoners, Abandon(q) PROVE runStatus' \in {"blocked", "failed"}
  <2>1. Goto(q, "ended") /\ (UNCHANGED spine \/ MarkAbandoned)
    BY <1>4 DEF Abandon
  <2> QED
    BY <1>0, <1>k, <2>1 DEF Goto, MarkAbandoned
<1>5. CASE BreakLock \/ UNCHANGED vars
  BY <1>k, <1>5 DEF BreakLock, vars
<1> QED
  BY <1>1, <1>2, <1>3, <1>4, <1>5, NextCases

(* A step of the run is a step of the cursor or none at all.               *)
LEMMA CursorStep ==
  ASSUME TypeOK, SpineInv, ReopenInv, [Next]_vars
  PROVE  [Spine!Next]_(Spine!vars)
<1> DEFINE done(st) == Cardinality(Completed(st))
<1>0. /\ stepStatus \in [Steps -> {"pending", "completed", "blocked", "failed"}]
      /\ runStatus \in {"active", "blocked", "failed", "completed"}
  BY DEF TypeOK
<1>1. CASE UNCHANGED spine
  BY <1>1, Frame DEF Spine!vars
<1>2. CASE Abandonable /\ MarkAbandoned
  BY <1>2 DEF Abandonable, MarkAbandoned, Spine!Next, Spine!Stop
<1>3. ASSUME NEW p \in Drivers \cup Resumers, ResumeCommit(p) PROVE Spine!Next
  <2>1. runStatus \in {"blocked", "failed"} /\ runStatus' = "active"
    BY <1>3 DEF ReopenInv, ResumeCommit
  <2>2. {s \in Steps : stepStatus'[s] = "completed"} = {s \in Steps : stepStatus[s] = "completed"}
    BY <1>0, <1>3 DEF ResumeCommit
  <2> QED
    BY <2>1, <2>2 DEF Spine!Next, Spine!Reopen
<1>4. ASSUME NEW d \in Drivers, MayComplete(d), NEW x \in {"completed", "blocked", "failed"},
             CompleteStep(at[d], x)
      PROVE  Spine!Next
  <2>c. PICK c : c = at[d]
    OBVIOUS
  <2>s. PICK st : st = [stepStatus EXCEPT ![c] = x]
    OBVIOUS
  <2>1. /\ runStatus = "active" /\ stepStatus[c] = "pending"
        /\ c \in Steps /\ Split(stepStatus, c)
    <3>1. runStatus = "active" /\ stepStatus[c] = "pending" /\ c = current /\ c # 0
      BY <1>4, <2>c DEF MayComplete
    <3>2. Split(stepStatus, c)
      BY <3>1 DEF SpineInv
    <3>3. c \in Steps
      BY <3>1, PlanAssumption DEF TypeOK, Steps
    <3> QED
      BY <3>1, <3>2, <3>3
  <2>2. /\ stepStatus' = st
        /\ \/ Stuck(st) # {} /\ runStatus' = st[First(Stuck(st))]
           \/ Stuck(st) = {} /\ Pending(st) # {} /\ runStatus' = "active"
           \/ Stuck(st) = {} /\ Pending(st) = {} /\ runStatus' = "completed"
    BY <1>4, <2>c, <2>s DEF CompleteStep
  <2>3. \/ /\ x # "completed" /\ Stuck(st) # {} /\ First(Stuck(st)) = c /\ st[c] = x
        \/ /\ x = "completed" /\ Stuck(st) = {} /\ Pending(st) # {}
        \/ /\ x = "completed" /\ Stuck(st) = {} /\ Pending(st) = {}
           /\ \A s \in Steps : st[s] = "completed"
    <3>1. Changes(stepStatus, c, x, st)
      BY <2>s DEF Changes
    <3> QED
      BY <1>0, <2>1, <3>1, SplitMoves
  <2>4. /\ x # "completed" => Completed(st) = Completed(stepStatus)
        /\ x = "completed" => Completed(st) = Completed(stepStatus) \cup {c}
        /\ c \notin Completed(stepStatus)
    BY <1>0, <2>1, <2>s DEF Completed
  <2>5. CASE x # "completed"
    <3>1. runStatus' = x /\ Completed(stepStatus') = Completed(stepStatus)
      BY <2>2, <2>3, <2>4, <2>5
    <3>2. {s \in Steps : stepStatus'[s] = "completed"} = {s \in Steps : stepStatus[s] = "completed"}
      BY <3>1 DEF Completed
    <3> QED
      BY <2>1, <2>5, <3>1, <3>2 DEF Spine!Next, Spine!Stop
  <2>6. CASE x = "completed"
    <3>1. done(stepStatus') = done(stepStatus) + 1
      <4>1. Completed(stepStatus') = Completed(stepStatus) \cup {c} /\ c \in Steps \ Completed(stepStatus)
        BY <2>1, <2>2, <2>4, <2>6
      <4>2. Cardinality(Completed(stepStatus) \cup {c}) = Cardinality(Completed(stepStatus)) + 1
        BY <4>1, CompletedCount
      <4> QED
        BY <4>1, <4>2
    <3>2. done(stepStatus) < N
      <4>1. Completed(stepStatus) # Steps
        BY <2>1, <2>4
      <4>2. done(stepStatus) \in Nat /\ done(stepStatus) <= N /\ done(stepStatus) # N
        BY <4>1, CompletedCount
      <4> QED
        BY <4>2, PlanAssumption
    <3>3. runStatus' = IF done(stepStatus') = N THEN "completed" ELSE "active"
      <4>1. done(st) = N <=> Pending(st) = {}
        <5>1. Completed(st) = Steps <=> Pending(st) = {}
          <6>1. CASE \A s \in Steps : st[s] = "completed"
            BY <6>1 DEF Completed, Pending
          <6>2. CASE Pending(st) # {}
            BY <6>2 DEF Completed, Pending
          <6> QED
            BY <2>3, <2>6, <6>1, <6>2
        <5> QED
          BY <5>1, CompletedCount
      <4> QED
        BY <2>2, <2>3, <2>6, <4>1
    <3>4. /\ done(stepStatus) = Cardinality({s \in Steps : stepStatus[s] = "completed"})
          /\ done(stepStatus') = Cardinality({s \in Steps : stepStatus'[s] = "completed"})
      BY DEF Completed
    <3> HIDE DEF done
    <3> QED
      BY <2>1, <3>1, <3>2, <3>3, <3>4 DEF Spine!Next, Spine!Advance
  <2> QED
    BY <2>5, <2>6
<1> QED
  BY <1>1, <1>2, <1>3, <1>4, SpineMoves

(* A run starts where the cursor does.                                     *)
LEMMA CursorStarts == Init => Spine!Init /\ ReopenInv
<1> SUFFICES ASSUME Init PROVE Spine!Init /\ ReopenInv
  OBVIOUS
<1>1. {s \in Steps : stepStatus[s] = "completed"} = {}
  BY DEF Init
<1>2. Spine!Init
  BY <1>1, FS_EmptySet DEF Init, Spine!Init
<1>3. ReopenInv
  BY ActorAssumption DEF Init, ReopenInv, Actors
<1> QED
  BY <1>2, <1>3

(* A run stays stopped from the reads of a resume to its transaction.      *)
LEMMA StoppedWhileReopened == Spec /\ []OneReopens => []ReopenInv
<1>1. IInv /\ ReopenInv /\ OneReopens /\ OneReopens' /\ [Next]_vars => ReopenInv'
  BY ReopenStep DEF IInv
<1> QED
  BY <1>1, CursorStarts, Inductive, PTL DEF Spec

(* As long as no two resumes overlap, an observer sees a cursor that       *)
(* moves forward a step at a time, stops, is reopened where it stopped,    *)
(* and completes for good (RunSpine).                                      *)
THEOREM CursorImplemented == Spec /\ []OneReopens => ImplementsSpine
<1>1. IInv /\ ReopenInv /\ [Next]_vars => [Spine!Next]_(Spine!vars)
  BY CursorStep DEF IInv
<1> QED
  BY <1>1, StoppedWhileReopened, CursorStarts, Inductive, PTL DEF Spec, ImplementsSpine, Spine!Spec

-----------------------------------------------------------------------------
(* When what the documentation says of a run is true                       *)

(* cli.md's "completed runs cannot be resumed": no process takes a run out *)
(* of its completed state, as long as no two resumes overlap.              *)
THEOREM CompletedIsTerminalIfOneReopens == Spec /\ []OneReopens => CompletedIsTerminal
<1>1. ASSUME ReopenInv, [Next]_vars, runStatus = "completed" PROVE runStatus' = "completed"
  <2>1. \A p \in Drivers \cup Resumers : ~ResumeCommit(p)
    BY <1>1 DEF ReopenInv, ResumeCommit
  <2>2. UNCHANGED spine
    BY <1>1, <2>1, SpineMoves DEF Abandonable, MayComplete
  <2> QED
    BY <1>1, <2>2, Frame
<1>2. UNCHANGED vars => (runStatus = "completed" => runStatus' = "completed")
  BY Frame DEF vars
<1> QED
  BY <1>1, <1>2, StoppedWhileReopened, PTL DEF Spec, CompletedIsTerminal

(* An invocation reads the run only while nobody drives it, as it would if *)
(* it took the run lock first.                                             *)
ReadsAlone == \A d, e \in Drivers : pc[d] = "locking" => pc[e] \notin Driving

(* Then one driver works at a time, on a step that is pending until it     *)
(* completes it, because a resume reopens the step the run stopped at and  *)
(* an active run has no other to offer.                                    *)
OneDrives == \A d, e \in Drivers : pc[d] \in Driving /\ pc[e] \in Driving => d = e
ReopensCursor == \A p \in Drivers \cup Resumers : pc[p] = "reopening" => saved[p] = current
ReadyInv == runStatus = "active" /\ current # 0 => stepStatus[current] = "pending"
Towards == {"locking", "plan", "step", "exec", "failing", "gate", "judging", "commit", "blocking"}
Ahead(d) == pc[d] \in Towards /\ at[d] # 0 => stepStatus[at[d]] = "pending"
CurrentInv == OneDrives /\ ReopensCursor /\ ReadyInv /\ \A d \in Drivers : Ahead(d)

(* What an active run offers next is pending.                              *)
LEMMA OffersPending ==
  ASSUME TypeOK, SpineInv, ReadyInv, runStatus = "active", CurrentStep # 0
  PROVE  stepStatus[CurrentStep] = "pending"
<1>1. CASE current = 0
  <2>1. Pending(stepStatus) = {}
    BY <1>1 DEF SpineInv, Pending
  <2> QED
    BY <1>1, <2>1 DEF CurrentStep
<1>2. CASE current # 0
  BY <1>2 DEF CurrentStep, ReadyInv
<1> QED
  BY <1>1, <1>2

(* A driver enters the drive loop through the lock.                        *)
LEMMA OneDrivesStep ==
  ASSUME TypeOK, PlaceInv, ReadsAlone, OneDrives, [Next]_vars
  PROVE  OneDrives'
<1> USE Names
<1>0. /\ pc \in [Actors -> Labels] /\ Drivers \subseteq Actors
      /\ Resumers \subseteq Actors /\ Abandoners \subseteq Actors
      /\ Drivers \cap (Resumers \cup Abandoners) = {}
  BY ActorAssumption DEF TypeOK, Actors
<1>1. ASSUME NEW d \in Drivers, DriveStep(d) PROVE OneDrives'
  BY <1>1, DrivenStep DEF Driven, Same, OneDrives
<1>2. ASSUME NEW d \in Drivers, TakeLock(d) PROVE OneDrives'
  BY <1>0, <1>2 DEF TakeLock, Goto, ReadsAlone, OneDrives
<1>3. ASSUME NEW p \in Actors, NEW x \in Labels \ Driving, Goto(p, x) PROVE OneDrives'
  BY <1>0, <1>3 DEF Goto, OneDrives
<1>4. ASSUME NEW d \in Drivers, Read(d) \/ Exit(d) \/ Crash(d) PROVE OneDrives'
  BY <1>0, <1>3, <1>4 DEF Read, Exit, Crash, Forget
<1>5. ASSUME NEW p \in Drivers \cup Resumers, Resume(p) PROVE OneDrives'
  BY <1>0, <1>3, <1>5 DEF Resume, ResumeRead, ResumeCommit, Resumed
<1>6. ASSUME NEW p \in Abandoners, Abandon(p) PROVE OneDrives'
  BY <1>0, <1>3, <1>6 DEF Abandon
<1>7. CASE BreakLock \/ UNCHANGED vars
  BY <1>7 DEF BreakLock, vars, OneDrives
<1> QED
  BY <1>1, <1>2, <1>4, <1>5, <1>6, <1>7, NextCases

(* Who is about to reopen the run has just read its cursor, or had.        *)
LEMMA ReopeningFrom ==
  ASSUME TypeOK, PlaceInv, [Next]_vars, NEW p \in Drivers \cup Resumers, pc'[p] = "reopening"
  PROVE  \/ UNCHANGED spine /\ saved'[p] = current
         \/ pc[p] = "reopening" /\ saved'[p] = saved[p]
<1> USE Frame, Names
<1>0. /\ pc \in [Actors -> Labels] /\ saved \in [Actors -> 0..N]
      /\ Drivers \cup Resumers \subseteq Actors /\ Abandoners \subseteq Actors
      /\ Drivers \cap (Resumers \cup Abandoners) = {} /\ Resumers \cap Abandoners = {}
  BY ActorAssumption DEF TypeOK, Actors
<1>1. ASSUME NEW d \in Drivers, DriveStep(d) PROVE pc[p] = "reopening" /\ saved'[p] = saved[p]
  <2>1. pc[p] = "reopening"
    BY <1>0, <1>1, DrivenStep, OthersStand DEF Driven
  <2>2. saved' = saved
    BY <1>1 DEF DriveStep, OpenPlan, BeginStep, EndLoop, Dispatch, Finish, JournalFails, Failing,
                Blocking, Stop, Gate, Judge, Commit, Settle, NextStep, Interrupt
  <2> QED
    BY <2>1, <2>2
<1>2. ASSUME NEW q \in Drivers \cup Resumers, Resume(q), q # p
      PROVE  pc[p] = "reopening" /\ saved'[p] = saved[p]
  BY <1>0, <1>2 DEF Resume, ResumeRead, ResumeCommit, Resumed, Goto
<1>3. ASSUME Resume(p) PROVE UNCHANGED spine /\ saved'[p] = current
  <2>1. ~Resumed(p)
    BY <1>0 DEF Resumed, Goto
  <2> QED
    BY <1>0, <1>3, <2>1 DEF Resume, ResumeRead, ResumeCommit, Goto
<1>4. ASSUME NEW d \in Drivers, Read(d) \/ TakeLock(d) \/ Exit(d) \/ Crash(d)
      PROVE  pc[p] = "reopening" /\ saved'[p] = saved[p]
  <2>1. saved' = saved /\ \E x \in {"locking", "ended", "plan", "resuming"} : Goto(d, x)
    BY <1>4 DEF Read, TakeLock, Exit, Crash, Forget
  <2> QED
    BY <1>0, <2>1 DEF Goto
<1>5. ASSUME NEW q \in Abandoners, Abandon(q) PROVE pc[p] = "reopening" /\ saved'[p] = saved[p]
  BY <1>0, <1>5 DEF Abandon, Goto
<1>6. CASE BreakLock \/ UNCHANGED vars
  BY <1>6 DEF BreakLock, vars
<1> QED
  BY <1>1, <1>2, <1>3, <1>4, <1>5, <1>6, NextCases

(* Meanwhile nobody moves the cursor of a stopped run.                     *)
LEMMA ReopensCursorStep ==
  ASSUME TypeOK, PlaceInv, ReopenInv, ReopensCursor, [Next]_vars
  PROVE  ReopensCursor'
<1> SUFFICES ASSUME NEW p \in Drivers \cup Resumers, pc'[p] = "reopening"
             PROVE  saved'[p] = current'
  BY DEF ReopensCursor
<1>1. CASE UNCHANGED spine /\ saved'[p] = current
  BY <1>1, Frame
<1>2. CASE pc[p] = "reopening" /\ saved'[p] = saved[p]
  <2>1. saved[p] = current /\ runStatus # "active"
    BY <1>2 DEF ReopensCursor, ReopenInv
  <2>2. current' = current
    BY <2>1, SpineMoves, Frame DEF MarkAbandoned, ResumeCommit, MayComplete
  <2> QED
    BY <1>2, <2>1, <2>2
<1> QED
  BY <1>1, <1>2, ReopeningFrom

(* A run becomes active at a step that is pending: the first of the rest,  *)
(* or the one it stopped at.                                               *)
LEMMA ReadyStep ==
  ASSUME TypeOK, SpineInv, ReopensCursor, ReadyInv, [Next]_vars
  PROVE  ReadyInv'
<1>0. /\ stepStatus \in [Steps -> {"pending", "completed", "blocked", "failed"}]
      /\ current # 0 => current \in Steps
  BY PlanAssumption DEF TypeOK, Steps
<1>1. CASE UNCHANGED spine
  BY <1>1, Frame DEF ReadyInv
<1>2. CASE MarkAbandoned
  BY <1>2 DEF MarkAbandoned, ReadyInv
<1>3. ASSUME NEW p \in Drivers \cup Resumers, ResumeCommit(p) PROVE ReadyInv'
  <2>1. saved[p] = current /\ current' = current
    BY <1>3 DEF ReopensCursor, ResumeCommit
  <2>2. current # 0 => stepStatus[current] # "completed"
    BY DEF SpineInv, Split
  <2>3. current # 0 => stepStatus'[current] = "pending"
    BY <1>0, <1>3, <2>1, <2>2 DEF ResumeCommit
  <2> QED
    BY <2>1, <2>3 DEF ReadyInv
<1>4. ASSUME NEW d \in Drivers, NEW x \in {"completed", "blocked", "failed"}, CompleteStep(at[d], x)
      PROVE  ReadyInv'
  <2>1. PICK st : /\ stepStatus' = st
                  /\ \/ Stuck(st) # {} /\ runStatus' = st[First(Stuck(st))]
                     \/ Pending(st) # {} /\ current' = First(Pending(st))
                     \/ runStatus' = "completed"
    BY <1>4 DEF CompleteStep
  <2>2. Stuck(st) \subseteq Steps /\ Pending(st) \subseteq Steps /\ Steps \subseteq Nat
    BY DEF Stuck, Pending, Steps
  <2>3. CASE Stuck(st) # {} /\ runStatus' = st[First(Stuck(st))]
    <3>1. First(Stuck(st)) \in Stuck(st)
      BY <2>2, <2>3, FirstIsLeast
    <3> QED
      BY <2>3, <3>1 DEF Stuck, ReadyInv
  <2>4. CASE Pending(st) # {} /\ current' = First(Pending(st))
    <3>1. First(Pending(st)) \in Pending(st)
      BY <2>2, <2>4, FirstIsLeast
    <3> QED
      BY <2>1, <2>4, <3>1 DEF Pending, ReadyInv
  <2> QED
    BY <2>1, <2>3, <2>4 DEF ReadyInv
<1> QED
  BY <1>1, <1>2, <1>3, <1>4, SpineMoves

(* A driver's own steps up to the completion leave its step as it is, or   *)
(* take the one the run offers.                                            *)
LEMMA OwnAhead ==
  ASSUME TypeOK, PlaceInv, NEW d \in Drivers, DriveStep(d), pc'[d] \in Towards
  PROVE  \/ pc[d] \in Towards /\ at'[d] = at[d] /\ stepStatus' = stepStatus
         \/ runStatus = "active" /\ at'[d] = CurrentStep /\ stepStatus' = stepStatus
<1> USE Frame DEF Towards
<1>0. pc \in [Actors -> Labels] /\ at \in [Drivers -> 0..N] /\ d \in Actors
  BY DEF TypeOK, Actors
<1>x. /\ \A x : Goto(d, x) => pc'[d] = x
      /\ \A fs : Leave(d, fs) => pc'[d] = "exit"
  BY <1>0 DEF Goto, Leave
<1>1. CASE OpenPlan(d)
  BY <1>1, <1>x DEF OpenPlan
<1>2. CASE BeginStep(d) \/ EndLoop(d) \/ \E u \in Units : Dispatch(d, u) \/ Finish(d, u) \/ JournalFails(d, u)
  BY <1>2 DEF BeginStep, EndLoop, Dispatch, Finish, JournalFails
<1>3. CASE Failing(d) \/ Blocking(d)
  BY <1>3, <1>x DEF Failing, Blocking, Stop
<1>4. CASE Gate(d) \/ Judge(d)
  BY <1>4 DEF Gate, Judge
<1>5. CASE Commit(d)
  BY <1>5, <1>x DEF Commit
<1>6. CASE Settle(d)
  BY <1>6, <1>x DEF Settle
<1>7. CASE NextStep(d)
  BY <1>0, <1>7, <1>x DEF NextStep
<1>8. CASE Interrupt(d)
  BY <1>8 DEF Interrupt
<1> QED
  BY <1>1, <1>2, <1>3, <1>4, <1>5, <1>6, <1>7, <1>8 DEF DriveStep

(* Nobody else touches it: who completes steps is in the drive loop, where *)
(* no other driver is, and the other commands complete and fail none.      *)
LEMMA AheadStep ==
  ASSUME TypeOK, PlaceInv, SpineInv, ReadsAlone, CurrentInv, [Next]_vars, NEW d \in Drivers
  PROVE  Ahead(d)'
<1> SUFFICES ASSUME pc'[d] \in Towards, at'[d] # 0
             PROVE  stepStatus'[at'[d]] = "pending"
  BY DEF Ahead
<1> USE Frame
<1>0. /\ pc \in [Actors -> Labels] /\ at \in [Drivers -> 0..N]
      /\ stepStatus \in [Steps -> {"pending", "completed", "blocked", "failed"}]
      /\ \A e \in Drivers : at[e] # 0 => at[e] \in Steps
      /\ Drivers \subseteq Actors /\ Resumers \subseteq Actors /\ Abandoners \subseteq Actors
      /\ Drivers \cap (Resumers \cup Abandoners) = {}
  BY PlanAssumption, ActorAssumption DEF TypeOK, Actors, Steps
<1>a. Ahead(d) /\ ReadyInv /\ OneDrives
  BY DEF CurrentInv
<1>r. ASSUME runStatus = "active", at'[d] = CurrentStep, stepStatus' = stepStatus
      PROVE  stepStatus'[at'[d]] = "pending"
  BY <1>a, <1>r, OffersPending
<1>k. ASSUME pc[d] \in Towards, at'[d] = at[d],
             \A s \in Steps : stepStatus[s] = "pending" => stepStatus'[s] = "pending"
      PROVE  stepStatus'[at'[d]] = "pending"
  BY <1>0, <1>a, <1>k DEF Ahead
<1>1. CASE DriveStep(d)
  BY <1>1, <1>r, <1>k, OwnAhead
<1>2. ASSUME NEW e \in Drivers, e # d, DriveStep(e) PROVE FALSE
  <2>1. pc[e] \in Driving /\ Same(d)
    BY <1>2, DrivenStep DEF Driven
  <2>2. pc[d] \in Driving \/ pc[d] = "locking"
    BY <2>1, Names DEF Same, Towards
  <2> QED
    BY <1>2, <1>a, <2>1, <2>2 DEF OneDrives, ReadsAlone
<1>3. CASE Read(d)
  <2>1. UNCHANGED spine /\ (Goto(d, "ended") \/ (runStatus = "active" /\ at'[d] = CurrentStep))
    BY <1>0, <1>3 DEF Read
  <2>2. ~Goto(d, "ended")
    BY <1>0 DEF Goto, Towards
  <2> QED
    BY <1>r, <2>1, <2>2
<1>4. ASSUME NEW e \in Drivers, e # d, Read(e) PROVE stepStatus'[at'[d]] = "pending"
  BY <1>0, <1>4, <1>k DEF Read, Goto
<1>5. ASSUME NEW e \in Drivers, TakeLock(e) PROVE stepStatus'[at'[d]] = "pending"
  <2>1. pc[d] \in Towards
    BY <1>0, <1>5 DEF TakeLock, Goto, Towards
  <2> QED
    BY <1>5, <1>k, <2>1 DEF TakeLock
<1>6. ASSUME NEW e \in Drivers, Exit(e) \/ Crash(e) PROVE stepStatus'[at'[d]] = "pending"
  <2>1. \E x \in {"ended", "resuming"} : Forget(e, x)
    BY <1>6 DEF Exit, Crash
  <2>2. e # d
    BY <1>0, <2>1 DEF Forget, Goto, Towards
  <2>3. pc'[d] = pc[d] /\ at'[d] = at[d]
    BY <1>0, <2>1, <2>2 DEF Forget, Goto
  <2> QED
    BY <1>6, <1>k, <2>3 DEF Exit, Crash
<1>7. ASSUME NEW p \in Drivers \cup Resumers, Resume(p) PROVE stepStatus'[at'[d]] = "pending"
  <2>1. at' = at /\ \E x \in {"ended", "start", "reopening"} : Goto(p, x)
    BY <1>7 DEF Resume, ResumeRead, ResumeCommit, Resumed
  <2>2. pc[d] \in Towards
    BY <1>0, <2>1 DEF Goto, Towards
  <2>3. \A s \in Steps : stepStatus[s] = "pending" => stepStatus'[s] = "pending"
    BY <1>0, <1>7 DEF Resume, ResumeRead, ResumeCommit
  <2> QED
    BY <1>k, <2>1, <2>2, <2>3
<1>8. ASSUME NEW p \in Abandoners, Abandon(p) PROVE stepStatus'[at'[d]] = "pending"
  <2>1. at' = at /\ pc'[d] = pc[d] /\ stepStatus' = stepStatus
    BY <1>0, <1>8 DEF Abandon, MarkAbandoned, Goto
  <2> QED
    BY <1>k, <2>1
<1>9. CASE BreakLock \/ UNCHANGED vars
  BY <1>9, <1>k DEF BreakLock, vars
<1> QED
  BY <1>1, <1>2, <1>3, <1>4, <1>5, <1>6, <1>7, <1>8, <1>9, NextCases

(* workflow-engine.md's "units are only ever dispatched for the current    *)
(* step": true when an invocation reads the run while nobody drives it and *)
(* no two resumes overlap.  That a lock file may be displaced then does    *)
(* not matter.                                                             *)
THEOREM DispatchesCurrentIfReadsAlone ==
  Spec /\ []OneReopens /\ []ReadsAlone => DispatchesCurrentStep
<1> DEFINE Current == \A d \in Drivers, u \in Units :
                        Dispatch(d, u) /\ unit'[d][u] = "sent" => stepStatus[at[d]] = "pending"
<1>1. Init => CurrentInv
  <2> SUFFICES ASSUME Init PROVE CurrentInv
    OBVIOUS
  <2>1. /\ \A d \in Drivers : pc[d] = "start"
        /\ \A p \in Resumers : pc[p] = "resuming"
    BY ActorAssumption DEF Init, Actors
  <2>2. ReadyInv
    BY PlanAssumption DEF Init, ReadyInv, Steps
  <2> QED
    BY <2>1, <2>2, Names DEF CurrentInv, OneDrives, ReopensCursor, Ahead, Towards
<1>2. IInv /\ ReopenInv /\ ReadsAlone /\ CurrentInv /\ [Next]_vars => CurrentInv'
  BY OneDrivesStep, ReopensCursorStep, ReadyStep, AheadStep DEF IInv, CurrentInv
<1>3. IInv /\ CurrentInv => Current
  <2> SUFFICES ASSUME IInv, CurrentInv, NEW d \in Drivers, NEW u \in Units, Dispatch(d, u)
               PROVE  stepStatus[at[d]] = "pending"
    OBVIOUS
  <2>1. pc[d] = "exec" /\ at[d] \in Steps
    BY DEF Dispatch, IInv, PlaceInv
  <2>2. at[d] # 0
    BY <2>1, StepsAreOrdered
  <2> QED
    BY <2>1, <2>2 DEF CurrentInv, Ahead, Towards
<1> HIDE DEF Current
<1>4. Spec /\ []OneReopens /\ []ReadsAlone => []CurrentInv
  BY <1>1, <1>2, StoppedWhileReopened, Inductive, PTL DEF Spec
<1>5. Spec /\ []OneReopens /\ []ReadsAlone => [][Current]_vars
  BY <1>3, <1>4, Inductive, PTL
<1> QED
  BY <1>5 DEF DispatchesCurrentStep, Current

(* What a lone invocation with retries knows: it has not worked before it  *)
(* is past its plan, and a failed run it may still retry has a failed step *)
(* (a run it gave up at the plan was failed without one).                  *)
FailedStep == \E s \in Steps : stepStatus[s] = "failed"
Fails(d) ==
  runStatus = "failed" =>
    FailedStep \/ pc[d] = "ended" \/ (pc[d] = "exit" /\ "worked" \notin flags[d])
RetryInv(d) ==
  /\ pc[d] \in {"start", "locking", "plan", "resuming", "reopening"} => "worked" \notin flags[d]
  /\ Fails(d)
  /\ pc[d] = "resuming" => runStatus \in {"failed", "active"}
  /\ pc[d] = "reopening" => runStatus = "failed"

(* Failing a run on the way through the drive loop takes a failed step.    *)
LEMMA DriveFails ==
  ASSUME TypeOK, PlaceInv, NEW d \in Drivers, RetryInv(d), DriveStep(d)
  PROVE  Fails(d)'
<1> USE Frame, Names
<1>0. pc \in [Actors -> Labels] /\ flags \in [Drivers -> SUBSET Flags] /\ d \in Actors
  BY DEF TypeOK, Actors
<1>1. CASE pc[d] = "exit"
  <2>1. UNCHANGED spine /\ pc' = pc /\ ("worked" \in flags'[d] => "worked" \in flags[d])
    BY <1>0, <1>1 DEF DriveStep, OpenPlan, BeginStep, EndLoop, Dispatch, Finish, JournalFails,
       Failing, Blocking, Stop, Gate, Judge, Commit, Settle, NextStep, Interrupt, Note
  <2> QED
    BY <2>1 DEF RetryInv, Fails, FailedStep
<1>2. CASE pc[d] # "exit" /\ UNCHANGED spine
  <2>1. pc[d] # "ended"
    BY DrivenStep DEF Driven
  <2> QED
    BY <1>2, <2>1 DEF RetryInv, Fails, FailedStep
<1>3. CASE OpenPlan(d)
  <2>1. CASE UNCHANGED spine
    BY <1>2, <1>3, <2>1 DEF OpenPlan
  <2>2. CASE Leave(d, {})
    <3>1. pc'[d] = "exit" /\ flags'[d] = flags[d]
      BY <1>0, <2>2 DEF Leave, Goto, Note
    <3> QED
      BY <1>3, <3>1 DEF OpenPlan, RetryInv, Fails
  <2> QED
    BY <1>3, <2>1, <2>2 DEF OpenPlan
<1>4. ASSUME NEW x \in {"completed", "blocked", "failed"}, CompleteStep(at[d], x)
      PROVE  Fails(d)'
  <2>1. PICK st : /\ stepStatus' = st
                  /\ \/ Stuck(st) # {} /\ runStatus' = st[First(Stuck(st))]
                     \/ runStatus' \in {"active", "completed"}
    BY <1>4 DEF CompleteStep
  <2>2. Stuck(st) # {} => First(Stuck(st)) \in Steps
    <3>1. Stuck(st) \subseteq Steps /\ Steps \subseteq Nat
      BY DEF Stuck, Steps
    <3> QED
      BY <3>1, FirstIsLeast
  <2> QED
    BY <2>1, <2>2 DEF Fails, FailedStep
<1>5. CASE ~OpenPlan(d) /\ MarkAbandoned
  <2>1. \/ UNCHANGED spine
        \/ \E x \in {"completed", "blocked", "failed"} : CompleteStep(at[d], x)
    BY <1>5 DEF DriveStep, BeginStep, EndLoop, Dispatch, Finish, JournalFails,
       Failing, Blocking, Stop, Gate, Judge, Commit, Settle, NextStep, Interrupt
  <2> QED
    BY <1>1, <1>2, <1>4, <2>1
<1> QED
  BY <1>1, <1>2, <1>3, <1>4, <1>5, DriveSpine

(* The other steps keep it too; a reopening that someone else's resume     *)
(* could overtake is what OneReopens excludes.                             *)
LEMMA RetryStep ==
  ASSUME TypeOK, PlaceInv, NEW d \in Drivers, Drivers = {d}, Abandoners = {},
         OneReopens, RetryInv(d), [Next]_vars
  PROVE  RetryInv(d)'
<1> USE Frame, Names
<1>0. /\ pc \in [Actors -> Labels] /\ flags \in [Drivers -> SUBSET Flags]
      /\ d \in Actors /\ Resumers \subseteq Actors /\ d \notin Resumers
      /\ runStatus \in {"active", "blocked", "failed", "completed"}
  BY ActorAssumption DEF TypeOK, Actors
<1>f. ASSUME UNCHANGED spine, pc[d] \notin {"ended", "exit"} PROVE Fails(d)'
  BY <1>f DEF RetryInv, Fails, FailedStep
<1>1. CASE DriveStep(d)
  <2>1. pc[d] \in Driving /\ pc'[d] \in Driving
    BY <1>1, DrivenStep DEF Driven
  <2>2. pc'[d] = "plan" => "worked" \notin flags'[d]
    <3>1. ASSUME pc'[d] = "plan" PROVE Interrupt(d) /\ pc[d] = "plan"
      <4>1. /\ \A x : Goto(d, x) => x = "plan"
            /\ \A fs : ~Leave(d, fs)
        BY <1>0, <3>1 DEF Goto, Leave
      <4>2. \A l, fs : ~BeginLoop(d, l, fs)
        BY <4>1 DEF BeginLoop
      <4>3. pc[d] = "plan"
        BY <1>0, <1>1, <3>1, <4>1, <4>2 DEF DriveStep, OpenPlan, BeginStep, EndLoop, Dispatch, Finish,
           JournalFails, Failing, Blocking, Stop, Gate, Judge, Commit, Settle, NextStep, Interrupt
      <4> QED
        BY <1>1, <4>1, <4>3 DEF DriveStep, OpenPlan, BeginStep, EndLoop, Dispatch, Finish,
           JournalFails, Failing, Blocking, Stop, Gate, Judge, Commit, Settle, NextStep
    <3> QED
      BY <1>0, <3>1 DEF Interrupt, Note, RetryInv
  <2>3. Fails(d)'
    BY <1>1, DriveFails
  <2> QED
    BY <2>1, <2>2, <2>3 DEF RetryInv
<1>2. CASE Read(d) \/ TakeLock(d)
  <2>1. /\ pc[d] \in {"start", "locking"} /\ UNCHANGED spine /\ flags' = flags
        /\ \E x \in {"locking", "ended", "plan"} : Goto(d, x)
    BY <1>2 DEF Read, TakeLock
  <2>2. pc'[d] \in {"locking", "ended", "plan"}
    BY <1>0, <2>1 DEF Goto
  <2> QED
    BY <1>f, <2>1, <2>2 DEF RetryInv
<1>x. ASSUME NEW x, Forget(d, x) PROVE pc'[d] = x /\ "worked" \notin flags'[d]
  BY <1>0, <1>x DEF Forget, Goto
<1>3. CASE Exit(d)
  <2>1. /\ UNCHANGED spine
        /\ Forget(d, "ended") \/ (runStatus = "failed" /\ "worked" \in flags[d] /\ Forget(d, "resuming"))
    BY <1>3 DEF Exit, MayRetry
  <2>2. CASE Forget(d, "ended")
    BY <1>x, <2>2 DEF RetryInv, Fails
  <2>3. CASE runStatus = "failed" /\ "worked" \in flags[d] /\ Forget(d, "resuming")
    <3>1. pc[d] = "exit"
      BY <1>3 DEF Exit
    <3>2. FailedStep
      BY <2>3, <3>1 DEF RetryInv, Fails
    <3> QED
      BY <1>x, <2>1, <2>3, <3>2 DEF RetryInv, Fails, FailedStep
  <2> QED
    BY <2>1, <2>2, <2>3
<1>4. CASE Crash(d)
  BY <1>4, <1>x DEF Crash, RetryInv, Fails
<1>5. CASE Resume(d)
  <2>1. flags' = flags /\ pc[d] \in {"resuming", "reopening"}
    BY <1>5 DEF Resume, ResumeRead, ResumeCommit
  <2>2. CASE ResumeRead(d)
    <3>1. /\ UNCHANGED spine
          /\ Goto(d, "ended") \/ Goto(d, "start") \/ (runStatus = "failed" /\ Goto(d, "reopening"))
      BY <2>2 DEF ResumeRead, Resumed, RetryInv
    <3>2. pc'[d] \in {"ended", "start"} \/ (runStatus = "failed" /\ pc'[d] = "reopening")
      BY <1>0, <3>1 DEF Goto
    <3> QED
      BY <1>f, <2>1, <3>1, <3>2 DEF RetryInv
  <2>3. CASE ResumeCommit(d)
    <3>1. runStatus' = "active" /\ pc'[d] \in {"ended", "start"}
      BY <1>0, <2>3 DEF ResumeCommit, Resumed, Goto
    <3> QED
      BY <2>1, <3>1 DEF RetryInv, Fails
  <2> QED
    BY <1>5, <2>2, <2>3 DEF Resume
<1>6. ASSUME NEW p \in Resumers, Resume(p) PROVE RetryInv(d)'
  <2>1. pc'[d] = pc[d] /\ flags' = flags
    BY <1>0, <1>6 DEF Resume, ResumeRead, ResumeCommit, Resumed, Goto
  <2>2. CASE ResumeRead(p)
    BY <2>1, <2>2 DEF ResumeRead, RetryInv, Fails, FailedStep
  <2>3. CASE ResumeCommit(p)
    <3>1. pc[d] # "reopening"
      BY <1>0, <2>3 DEF ResumeCommit, OneReopens
    <3> QED
      BY <2>1, <2>3, <3>1 DEF ResumeCommit, RetryInv, Fails
  <2> QED
    BY <1>6, <2>2, <2>3 DEF Resume
<1>7. CASE BreakLock \/ UNCHANGED vars
  <2>1. UNCHANGED spine /\ pc' = pc /\ flags' = flags
    BY <1>7 DEF BreakLock, vars
  <2> QED
    BY <2>1 DEF RetryInv, Fails, FailedStep
<1> QED
  BY <1>1, <1>2, <1>3, <1>4, <1>5, <1>6, <1>7, NextCases

(* cli.md's "reopen the same run and retry the failed step": true of an    *)
(* invocation that has the run to itself, with nobody to abandon it and    *)
(* no resume in the middle of its own, whatever dies or interrupts it and  *)
(* whether or not its plan could be read.                                  *)
THEOREM RetryReopensIfAlone ==
  ASSUME NEW self, Drivers = {self}, Abandoners = {}
  PROVE  Spec /\ []OneReopens => RetryReopensFailedStep
<1> DEFINE Reopens == \A d \in Drivers : ResumeCommit(d) => \E s \in Steps : stepStatus[s] = "failed"
<1>1. Init => RetryInv(self)
  <2> SUFFICES ASSUME Init PROVE RetryInv(self)
    OBVIOUS
  <2>1. self \in Drivers /\ pc[self] = "start" /\ flags[self] = {} /\ runStatus = "active"
    BY ActorAssumption DEF Init, Actors
  <2> QED
    BY <2>1 DEF RetryInv, Fails
<1>2. IInv /\ OneReopens /\ RetryInv(self) /\ [Next]_vars => RetryInv(self)'
  BY RetryStep DEF IInv
<1>3. RetryInv(self) => Reopens
  BY DEF RetryInv, Fails, FailedStep, ResumeCommit
<1>4. Spec /\ []OneReopens => []RetryInv(self)
  BY <1>1, <1>2, Inductive, PTL DEF Spec
<1> QED
  BY <1>3, <1>4, PTL DEF RetryReopensFailedStep

-----------------------------------------------------------------------------
(* That an invocation ends: every step of its own takes it nearer its end, *)
(* and nothing else takes it back.  The fairness of the model does the     *)
(* rest, which TLC checks (InvocationEnds).                                *)

(* What an invocation has left: retries of the run, then in an attempt the *)
(* phases of runWorkflowAttempt, in the drive loop steps, in a step gate   *)
(* loops, in a loop stages, and in the first of these the units.           *)
InLoop == {"exec", "gate", "judging", "commit", "settle", "failing", "blocking", "next"}
Phase(d) ==
  CASE pc[d] = "start" -> 7
    [] pc[d] = "locking" -> 6
    [] pc[d] = "plan" -> 5
    [] pc[d] \in InLoop \cup {"step"} -> 4
    [] pc[d] = "exit" -> 3
    [] pc[d] = "resuming" -> 2
    [] pc[d] = "reopening" -> 1
    [] OTHER -> 0
StepsLeft(d) == IF at[d] = 0 THEN 0 ELSE (N + 1) - at[d]
LoopsLeft(d) == IF pc[d] = "step" THEN LoopCap ELSE LoopCap - loop[d]
Stage(d) ==
  CASE pc[d] = "exec" -> 5
    [] pc[d] = "gate" -> 4
    [] pc[d] = "judging" -> 3
    [] pc[d] \in {"failing", "blocking", "commit"} -> 2
    [] pc[d] = "settle" -> 1
    [] OTHER -> 0
TriesLeft(d, u) ==
  CASE unit[d][u] \in {"todo", "again"} -> 2 * ((MaxAttempts + 1) - tries[d][u])
    [] unit[d][u] = "sent" -> 2 * ((MaxAttempts + 1) - tries[d][u]) + 1
    [] OTHER -> 0

(* Less of the first of these that changes.                                *)
FewerTries(d) == \E u \in Units :
  /\ TriesLeft(d, u)' < TriesLeft(d, u)
  /\ \A v \in Units \ {u} : TriesLeft(d, v)' = TriesLeft(d, v)
Within(d) ==
  \/ StepsLeft(d)' < StepsLeft(d)
  \/ /\ StepsLeft(d)' = StepsLeft(d)
     /\ \/ LoopsLeft(d)' < LoopsLeft(d)
        \/ /\ LoopsLeft(d)' = LoopsLeft(d)
           /\ Stage(d)' < Stage(d) \/ (Stage(d)' = Stage(d) /\ FewerTries(d))
Nearer(d) ==
  \/ retries'[d] < retries[d]
  \/ /\ retries'[d] = retries[d]
     /\ Phase(d)' < Phase(d) \/ (Phase(d)' = Phase(d) /\ Within(d))

(* Each is a natural number, so none of them can become less for ever.     *)
Left(d) ==
  /\ retries[d] \in Nat /\ StepsLeft(d) \in Nat /\ LoopsLeft(d) \in Nat
  /\ \A u \in Units : TriesLeft(d, u) \in Nat

(* A unit is tried again only while its policy has an attempt left, and    *)
(* the step a driver goes on from is completed, so the next one is later.  *)
Tried(d, u) ==
  /\ unit[d][u] = "todo" => tries[d][u] = 0
  /\ unit[d][u] = "again" => tries[d][u] < MaxAttempts
  /\ unit[d][u] = "sent" => tries[d][u] <= MaxAttempts \/ tries[d][u] = 1
Done(d) == pc[d] \in {"settle", "next"} => at[d] \in Steps /\ stepStatus[at[d]] = "completed"
EndInv == \A d \in Drivers : Done(d) /\ \A u \in Units : Tried(d, u)

(* What of the driver d the measure is made of.                            *)
Stands(d) ==
  /\ pc'[d] = pc[d] /\ at'[d] = at[d] /\ loop'[d] = loop[d]
  /\ unit'[d] = unit[d] /\ tries'[d] = tries[d] /\ retries'[d] = retries[d]

(* What a step of the driver d may do: begin a loop, ...                   *)
Starts(d) ==
  /\ pc[d] = "step" \/ (pc[d] \in {"exec", "judging"} /\ loop'[d] > loop[d])
  /\ pc'[d] = "exec" /\ loop'[d] \in Loops /\ at'[d] = at[d] /\ retries'[d] = retries[d]
  /\ \A u \in Units : unit'[d][u] \in {"todo", "ok"} /\ tries'[d][u] = 0
(* ... go on with a unit, ...                                              *)
Tries(d, u) ==
  /\ pc'[d] = pc[d] /\ pc[d] = "exec" /\ at'[d] = at[d] /\ loop'[d] = loop[d] /\ retries'[d] = retries[d]
  /\ \A v \in Units \ {u} : unit'[d][v] = unit[d][v] /\ tries'[d][v] = tries[d][v]
  /\ unit'[d][u] = "again" => tries'[d][u] < MaxAttempts
  /\ \/ /\ unit[d][u] \in {"todo", "again"} /\ unit'[d][u] \in {"sent", "again", "bad"}
        /\ tries'[d][u] = tries[d][u] + 1
     \/ /\ unit[d][u] \in {"todo", "again", "sent"} /\ unit'[d][u] \in {"ok", "bad"}
        /\ tries'[d][u] = tries[d][u]
     \/ /\ unit[d][u] = "sent" /\ unit'[d][u] = "again"
        /\ tries'[d][u] = tries[d][u]
(* ... go to another place, or ...                                         *)
Moves(d) ==
  /\ loop'[d] = loop[d] /\ unit'[d] = unit[d] /\ tries'[d] = tries[d]
  /\ \/ pc[d] = "start" /\ pc'[d] = "locking" /\ retries'[d] = retries[d]
     \/ pc[d] = "next" /\ pc'[d] = "step" /\ at'[d] = CurrentStep /\ retries'[d] = retries[d]
     \/ /\ at'[d] = at[d]
        /\ \/ retries'[d] < retries[d] /\ pc'[d] \in {"start", "ended"}
           \/ /\ retries'[d] = retries[d]
              /\ \/ Phase(d)' < Phase(d) /\ pc'[d] \notin {"settle", "next"}
                 \/ pc[d] = "step" /\ pc'[d] = "blocking"
                 \/ /\ {pc[d], pc'[d]} \subseteq InLoop /\ Stage(d)' < Stage(d)
                    /\ pc'[d] \in {"settle", "next"} =>
                         pc[d] = "settle" \/ (at[d] \in Steps /\ stepStatus'[at[d]] = "completed")
(* ... leave its attempt.                                                  *)
Parks(d) ==
  /\ Phase(d)' < Phase(d) /\ pc'[d] \notin {"settle", "next"} /\ retries'[d] = retries[d]
  /\ \A u \in Units : unit'[d][u] = "ok"

Acts(d) == StepOf(d) \/ Resume(d) \/ Disturbance(d)

(* It does nothing else.                                                   *)
LEMMA OwnStep ==
  ASSUME TypeOK, PlaceInv, NEW d \in Drivers, Acts(d)
  PROVE  Starts(d) \/ (\E u \in Units : Tries(d, u)) \/ Moves(d) \/ Parks(d)
<1> USE Names, Frame
<1>0. /\ pc \in [Actors -> Labels] /\ at \in [Drivers -> 0..N] /\ d \in Actors /\ d \notin Resumers
      /\ loop \in [Drivers -> Loops] /\ retries \in [Drivers -> Nat]
      /\ unit \in [Drivers -> [Units -> {"todo", "again", "sent", "ok", "bad"}]]
      /\ tries \in [Drivers -> [Units -> Nat]]
      /\ flags \in [Drivers -> SUBSET Flags]
  BY ActorAssumption DEF TypeOK, Actors
<1> DEFINE Rest == /\ at'[d] = at[d] /\ retries'[d] = retries[d]
                   /\ loop'[d] = loop[d] /\ unit'[d] = unit[d] /\ tries'[d] = tries[d]
<1>b. ASSUME NEW l \in Loops, NEW fs, BeginLoop(d, l, fs), UNCHANGED at, UNCHANGED retries,
             pc[d] = "step" \/ (pc[d] \in {"exec", "judging"} /\ l > loop[d])
      PROVE  Starts(d)
  BY <1>0, <1>b DEF BeginLoop, Goto, Starts, Never
<1>l. ASSUME Rest, pc'[d] = "exit", pc[d] \in InLoop \cup {"step", "plan"} PROVE Moves(d)
  BY <1>l DEF Moves, Phase, InLoop
<1>f. ASSUME NEW x \in {"resuming", "ended"}, Forget(d, x), UNCHANGED retries,
             pc[d] \in InLoop \cup {"step", "plan", "exit"} \/ (x = "ended" /\ pc[d] # "ended")
      PROVE  Parks(d)
  <2>1. pc'[d] = x /\ \A u \in Units : unit'[d][u] = "ok"
    BY <1>0, <1>f DEF Forget, Goto, Idle
  <2> QED
    BY <1>0, <1>f, <2>1 DEF Parks, Phase, InLoop, Labels, Driving
<1>1. CASE Read(d)
  BY <1>0, <1>1 DEF Read, Goto, Moves, Phase, InLoop
<1>2. CASE TakeLock(d)
  BY <1>0, <1>2 DEF TakeLock, Goto, Moves, Phase, InLoop
<1>3. CASE OpenPlan(d)
  BY <1>0, <1>3 DEF OpenPlan, Leave, Goto, Moves, Phase, InLoop
<1>4. CASE BeginStep(d)
  <2>0. pc[d] = "step" /\ UNCHANGED at /\ UNCHANGED retries
    BY <1>4 DEF BeginStep
  <2>1. CASE StartLoop(at[d]) <= MaxLoops[at[d]] /\ at[d] # 0 /\ BeginLoop(d, StartLoop(at[d]), {})
    <3>1. StartLoop(at[d]) \in Loops
      BY <1>0, <2>1, StartLoopIsNext, PlanAssumption DEF Loops, Steps
    <3> QED BY <1>b, <2>0, <2>1, <3>1
  <2>2. CASE UNCHANGED round /\ (Goto(d, "blocking") \/ \E fs : Leave(d, fs))
    BY <1>0, <2>0, <2>2 DEF Leave, Goto, Moves, Phase, InLoop
  <2> QED BY <1>4, <2>1, <2>2 DEF BeginStep
<1>5. ASSUME NEW u \in Units, Dispatch(d, u) PROVE Tries(d, u)
  BY <1>0, <1>5 DEF Dispatch, Claimable, Become, Note, AfterFailure, Tries
<1>6. ASSUME NEW u \in Units, Finish(d, u) PROVE Tries(d, u)
  BY <1>0, <1>6 DEF Finish, Become, AfterFailure, Tries
<1>7. ASSUME NEW u \in Units, JournalFails(d, u) PROVE Tries(d, u)
  BY <1>0, <1>7 DEF JournalFails, Become, Tries
<1>8. CASE EndLoop(d)
  <2>0. pc[d] = "exec" /\ UNCHANGED at /\ UNCHANGED retries /\ at[d] \in Steps
    BY <1>8 DEF EndLoop, PlaceInv
  <2>1. CASE loop[d] < MaxLoops[at[d]] /\ BeginLoop(d, loop[d] + 1, {"worked"})
    <3>1. loop[d] + 1 \in Loops /\ loop[d] + 1 > loop[d]
      BY <1>0, <2>0, <2>1, PlanAssumption DEF Loops
    <3> QED BY <1>b, <2>0, <2>1, <3>1
  <2>2. CASE UNCHANGED round /\ \E x \in {"failing", "blocking", "gate", "commit", "exit"} : Goto(d, x)
    BY <1>0, <2>0, <2>2 DEF Goto, Moves, Phase, Stage, InLoop
  <2>3. \/ BeginLoop(d, loop[d] + 1, {"worked"}) /\ loop[d] < MaxLoops[at[d]]
        \/ UNCHANGED round /\ \E x \in {"failing", "blocking", "gate", "commit", "exit"} : Goto(d, x)
    BY <1>8 DEF EndLoop, Leave
  <2> QED BY <2>1, <2>2, <2>3
<1>9. CASE Failing(d) \/ Blocking(d)
  BY <1>0, <1>9, <1>l DEF Failing, Blocking, Stop, Leave, Goto, InLoop
<1>10. CASE Gate(d)
  <2>1. pc[d] = "gate" /\ Rest /\ pc'[d] \in {"exit", "blocking", "judging"}
    BY <1>0, <1>10 DEF Gate, Leave, Goto
  <2> QED BY <2>1 DEF Moves, Phase, Stage, InLoop
<1>11. CASE Judge(d)
  <2>0. pc[d] = "judging" /\ UNCHANGED at /\ UNCHANGED retries /\ at[d] \in Steps
    BY <1>11 DEF Judge, PlaceInv
  <2>1. CASE loop[d] < MaxLoops[at[d]] /\ BeginLoop(d, loop[d] + 1, {})
    <3>1. loop[d] + 1 \in Loops /\ loop[d] + 1 > loop[d]
      BY <1>0, <2>0, <2>1, PlanAssumption DEF Loops
    <3> QED BY <1>b, <2>0, <2>1, <3>1
  <2>2. CASE UNCHANGED round /\ \E x \in {"exit", "commit", "blocking"} : Goto(d, x)
    BY <1>0, <2>0, <2>2 DEF Goto, Moves, Phase, Stage, InLoop
  <2>3. \/ BeginLoop(d, loop[d] + 1, {}) /\ loop[d] < MaxLoops[at[d]]
        \/ UNCHANGED round /\ \E x \in {"exit", "commit", "blocking"} : Goto(d, x)
    BY <1>11 DEF Judge, Leave
  <2> QED BY <2>1, <2>2, <2>3
<1>12. CASE Commit(d)
  <2>1. pc[d] = "commit" /\ Rest /\ pc'[d] \in {"exit", "settle", "next"}
    BY <1>0, <1>12 DEF Commit, Leave, Goto
  <2>2. CASE pc'[d] = "exit"
    BY <2>1, <2>2, <1>l DEF InLoop
  <2>3. CASE pc'[d] # "exit"
    <3>1. MayComplete(d) /\ CompleteStep(at[d], "completed")
      BY <1>0, <1>12, <2>3 DEF Commit, Leave, Goto
    <3>2. at[d] \in Steps /\ stepStatus'[at[d]] = "completed"
      BY <1>0, <3>1 DEF MayComplete, CompleteStep, TypeOK, Steps
    <3> QED BY <2>1, <2>3, <3>2 DEF Moves, Stage, InLoop
  <2> QED BY <2>2, <2>3
<1>13. CASE Settle(d)
  <2>1. pc[d] = "settle" /\ Rest /\ pc'[d] = "next"
    BY <1>0, <1>13 DEF Settle, Goto
  <2> QED BY <2>1 DEF Moves, Stage, InLoop
<1>14. CASE NextStep(d)
  BY <1>0, <1>14, <1>l DEF NextStep, Leave, Goto, Moves, InLoop
<1>15. CASE Exit(d)
  BY <1>15, <1>f DEF Exit
<1>16. CASE Resume(d)
  <2>1. pc[d] \in {"resuming", "reopening"} /\ retries[d] > 0 /\ retries[d] \in Nat
    BY <1>0, <1>16 DEF Resume, ResumeRead, ResumeCommit, PlaceInv
  <2>2. at'[d] = at[d] /\ loop'[d] = loop[d] /\ unit'[d] = unit[d] /\ tries'[d] = tries[d]
    BY <1>16 DEF Resume, ResumeRead, ResumeCommit
  <2>3. \/ retries'[d] = retries[d] /\ pc'[d] = "ended"
        \/ retries'[d] = retries[d] - 1 /\ pc'[d] = "start"
        \/ retries'[d] = retries[d] /\ pc[d] = "resuming" /\ pc'[d] = "reopening"
    BY <1>0, <1>16 DEF Resume, ResumeRead, ResumeCommit, Resumed, Goto
  <2> QED BY <2>1, <2>2, <2>3 DEF Moves, Phase, InLoop
<1>17. CASE Crash(d)
  BY <1>17, <1>f DEF Crash
<1> QED
  BY <1>1, <1>2, <1>3, <1>4, <1>5, <1>6, <1>7, <1>8, <1>9, <1>10, <1>11, <1>12, <1>13,
     <1>14, <1>15, <1>16, <1>17 DEF Acts, StepOf, Disturbance

(* No other step touches what it is at.                                    *)
LEMMA NotItsStep ==
  ASSUME TypeOK, [Next]_vars, NEW d \in Drivers
  PROVE  Acts(d) \/ Stands(d)
<1> USE Frame
<1>0. /\ pc \in [Actors -> Labels] /\ at \in [Drivers -> 0..N] /\ loop \in [Drivers -> Loops]
      /\ unit \in [Drivers -> [Units -> {"todo", "again", "sent", "ok", "bad"}]]
      /\ tries \in [Drivers -> [Units -> Nat]] /\ retries \in [Drivers -> Nat]
      /\ Drivers \subseteq Actors /\ Resumers \subseteq Actors /\ Abandoners \subseteq Actors
      /\ Drivers \cap (Resumers \cup Abandoners) = {} /\ Interruptible \subseteq Drivers
  BY ActorAssumption DEF TypeOK, Actors
<1>1. ASSUME NEW e \in Drivers, e # d, StepOf(e) PROVE Stands(d)
  <2>1. \A l, fs : BeginLoop(e, l, fs) =>
          pc'[d] = pc[d] /\ loop'[d] = loop[d] /\ unit'[d] = unit[d] /\ tries'[d] = tries[d]
    BY <1>0, <1>1 DEF BeginLoop, Goto
  <2>2. \A x : Forget(e, x) =>
          pc'[d] = pc[d] /\ at'[d] = at[d] /\ loop'[d] = loop[d] /\ unit'[d] = unit[d] /\ tries'[d] = tries[d]
    BY <1>0, <1>1 DEF Forget, Goto
  <2>3. CASE Read(e) \/ TakeLock(e) \/ OpenPlan(e)
    BY <1>0, <1>1, <2>3 DEF Read, TakeLock, OpenPlan, Leave, Goto, Stands
  <2>4. CASE BeginStep(e)
    BY <1>0, <1>1, <2>1, <2>4 DEF BeginStep, Leave, Goto, Stands
  <2>5. CASE \E u \in Units : Dispatch(e, u) \/ Finish(e, u)
    BY <1>0, <1>1, <2>5 DEF Dispatch, Finish, Become, Stands
  <2>6. CASE EndLoop(e)
    BY <1>0, <1>1, <2>1, <2>6 DEF EndLoop, Leave, Goto, Stands
  <2>7. CASE Failing(e) \/ Blocking(e) \/ Gate(e)
    BY <1>0, <1>1, <2>7 DEF Failing, Blocking, Stop, Gate, Leave, Goto, Stands
  <2>8. CASE Judge(e)
    BY <1>0, <1>1, <2>1, <2>8 DEF Judge, Leave, Goto, Stands
  <2>9. CASE Commit(e) \/ Settle(e) \/ NextStep(e)
    BY <1>0, <1>1, <2>9 DEF Commit, Settle, NextStep, Leave, Goto, Stands
  <2>10. CASE Exit(e)
    BY <1>0, <1>1, <2>2, <2>10 DEF Exit, Stands
  <2> QED
    BY <1>1, <2>3, <2>4, <2>5, <2>6, <2>7, <2>8, <2>9, <2>10 DEF StepOf
<1>2. ASSUME NEW e \in Drivers, e # d, Disturbance(e) PROVE Stands(d)
  BY <1>0, <1>2 DEF Disturbance, Crash, JournalFails, Forget, Become, Goto, Stands
<1>3. ASSUME NEW p \in Drivers \cup Resumers, p # d, Resume(p) PROVE Stands(d)
  BY <1>0, <1>3 DEF Resume, ResumeRead, ResumeCommit, Resumed, Goto, Stands
<1>4. CASE BreakLock \/ UNCHANGED vars
  BY <1>4 DEF BreakLock, vars, Stands
<1>5. ASSUME NEW e \in Interruptible, Interrupt(e) PROVE Stands(d)
  BY <1>5 DEF Interrupt, Stands
<1>6. ASSUME NEW p \in Abandoners, Abandon(p) PROVE Stands(d)
  BY <1>0, <1>6 DEF Abandon, Goto, Stands
<1> QED
  BY <1>0, <1>1, <1>2, <1>3, <1>4, <1>5, <1>6 DEF Next, Acts

LEMMA EndStep ==
  ASSUME TypeOK, PlaceInv, EndInv, [Next]_vars
  PROVE  EndInv'
<1> SUFFICES ASSUME NEW d \in Drivers PROVE Done(d)' /\ \A u \in Units : Tried(d, u)'
  BY DEF EndInv
<1>0. /\ Done(d) /\ \A u \in Units : Tried(d, u)
      /\ \A u \in Units : tries[d][u] \in Nat
      /\ MaxAttempts \in Nat
  BY LimitAssumption DEF EndInv, TypeOK
<1>1. CASE Stands(d)
  BY <1>0, <1>1, CompletedStays DEF Stands, Done, Tried
<1>2. CASE Starts(d)
  BY <1>0, <1>2 DEF Starts, Done, Tried
<1>3. ASSUME NEW u \in Units, Tries(d, u) PROVE Done(d)' /\ \A v \in Units : Tried(d, v)'
  <2>1. Done(d)'
    BY <1>3 DEF Tries, Done
  <2>2. Tried(d, u)'
    BY <1>0, <1>3 DEF Tries, Tried
  <2>3. ASSUME NEW v \in Units, v # u PROVE Tried(d, v)'
    BY <1>0, <1>3, <2>3 DEF Tries, Tried
  <2> QED BY <2>1, <2>2, <2>3
<1>4. CASE Moves(d)
  <2>1. \A u \in Units : Tried(d, u)'
    BY <1>0, <1>4 DEF Moves, Tried
  <2>2. pc'[d] \in {"settle", "next"} =>
          pc[d] = "settle" \/ (at[d] \in Steps /\ stepStatus'[at[d]] = "completed")
    BY <1>4 DEF Moves, Phase, InLoop
  <2>3. pc'[d] \in {"settle", "next"} => at'[d] = at[d]
    BY <1>4 DEF Moves
  <2>4. at[d] \in Steps /\ stepStatus[at[d]] = "completed" => stepStatus'[at[d]] = "completed"
    BY CompletedStays
  <2> QED BY <1>0, <2>1, <2>2, <2>3, <2>4 DEF Done
<1>5. CASE Parks(d)
  BY <1>5 DEF Parks, Done, Tried
<1> QED
  BY <1>1, <1>2, <1>3, <1>4, <1>5, OwnStep, NotItsStep

(* Whatever it does takes it nearer its end.                               *)
LEMMA NearerStep ==
  ASSUME TypeOK, PlaceInv, SpineInv, EndInv, NEW d \in Drivers, Acts(d)
  PROVE  Nearer(d)
<1>0. /\ Done(d) /\ \A u \in Units : Tried(d, u)
      /\ \A u \in Units : tries[d][u] \in Nat /\ unit[d][u] \in {"todo", "again", "sent", "ok", "bad"}
      /\ MaxAttempts \in Nat /\ loop[d] \in Nat /\ retries[d] \in Nat /\ at[d] \in 0..N /\ N \in Nat
      /\ LoopCap \in Nat /\ \A l \in Loops : l \in Nat /\ l > 0 /\ l <= LoopCap
      /\ loop[d] \in Loops
  BY LimitAssumption, PlanAssumption DEF EndInv, TypeOK, Loops
<1>1. CASE Starts(d)
  <2>1. Phase(d)' = 4 /\ Phase(d) = 4
    BY <1>1 DEF Starts, Phase, InLoop
  <2>2. StepsLeft(d)' = StepsLeft(d)
    BY <1>1 DEF Starts, StepsLeft
  <2>3. LoopsLeft(d)' < LoopsLeft(d)
    BY <1>0, <1>1 DEF Starts, LoopsLeft
  <2> QED BY <1>1, <2>1, <2>2, <2>3 DEF Nearer, Within, Starts
<1>2. ASSUME NEW u \in Units, Tries(d, u) PROVE Nearer(d)
  <2>1. retries'[d] = retries[d] /\ Phase(d)' = Phase(d) /\ StepsLeft(d)' = StepsLeft(d)
        /\ LoopsLeft(d)' = LoopsLeft(d) /\ Stage(d)' = Stage(d)
    BY <1>2 DEF Tries, Phase, StepsLeft, LoopsLeft, Stage
  <2>2. \A v \in Units \ {u} : TriesLeft(d, v)' = TriesLeft(d, v)
    BY <1>2 DEF Tries, TriesLeft
  <2>3. TriesLeft(d, u)' < TriesLeft(d, u)
    BY <1>0, <1>2 DEF Tries, Tried, TriesLeft
  <2> QED BY <2>1, <2>2, <2>3 DEF Nearer, Within, FewerTries
<1>3. CASE Moves(d)
  <2>1. CASE retries'[d] < retries[d]
    BY <2>1 DEF Nearer
  <2>2. CASE retries'[d] = retries[d] /\ Phase(d)' < Phase(d)
    BY <2>2 DEF Nearer
  <2>3. CASE pc[d] = "next" /\ pc'[d] = "step" /\ at'[d] = CurrentStep /\ retries'[d] = retries[d]
    <3>1. Phase(d)' = Phase(d)
      BY <2>3 DEF Phase, InLoop
    <3>2. at[d] \in Steps /\ stepStatus[at[d]] = "completed"
      BY <1>0, <2>3 DEF Done
    <3>3. at[d] \in Nat /\ 1 <= at[d] /\ at[d] <= N
      BY <1>0, <3>2 DEF Steps
    <3>4. CurrentStep = 0 \/ (CurrentStep \in 0..N /\ CurrentStep > at[d])
      <4>1. CASE current = 0
        <5>1. Pending(stepStatus) = {}
          BY <4>1 DEF SpineInv, Pending
        <5> QED BY <4>1, <5>1 DEF CurrentStep
      <4>2. CASE current # 0
        <5>1. CurrentStep = current /\ current \in 0..N
          BY <4>2 DEF CurrentStep, TypeOK
        <5>2. Split(stepStatus, current)
          BY <4>2 DEF SpineInv
        <5>3. ~(at[d] > current) /\ at[d] # current
          BY <3>2, <5>2 DEF Split
        <5> QED BY <1>0, <3>3, <5>1, <5>3
      <4> QED BY <4>1, <4>2
    <3>5. StepsLeft(d)' < StepsLeft(d)
      BY <1>0, <2>3, <3>3, <3>4 DEF StepsLeft
    <3> QED BY <2>3, <3>1, <3>5 DEF Nearer, Within
  <2>4. CASE pc[d] = "step" /\ pc'[d] = "blocking" /\ at'[d] = at[d] /\ retries'[d] = retries[d] /\ loop'[d] = loop[d]
    <3>1. Phase(d)' = Phase(d) /\ StepsLeft(d)' = StepsLeft(d)
      BY <2>4 DEF Phase, StepsLeft, InLoop
    <3>2. LoopsLeft(d)' < LoopsLeft(d)
      BY <1>0, <2>4 DEF LoopsLeft
    <3> QED BY <2>4, <3>1, <3>2 DEF Nearer, Within
  <2>5. CASE /\ {pc[d], pc'[d]} \subseteq InLoop /\ Stage(d)' < Stage(d)
             /\ at'[d] = at[d] /\ retries'[d] = retries[d] /\ loop'[d] = loop[d]
    <3>1. Phase(d)' = Phase(d) /\ StepsLeft(d)' = StepsLeft(d) /\ LoopsLeft(d)' = LoopsLeft(d)
      BY <2>5 DEF Phase, StepsLeft, LoopsLeft, InLoop
    <3> QED BY <2>5, <3>1 DEF Nearer, Within
  <2>6. CASE pc[d] = "start" /\ pc'[d] = "locking" /\ retries'[d] = retries[d]
    BY <2>6 DEF Phase, InLoop, Nearer
  <2> QED BY <1>3, <2>1, <2>2, <2>3, <2>4, <2>5, <2>6 DEF Moves
<1>4. CASE Parks(d)
  BY <1>4 DEF Parks, Nearer
<1> QED
  BY <1>1, <1>2, <1>3, <1>4, OwnStep

LEMMA AlwaysEnding == Spec => []EndInv
<1>1. Init => EndInv
  <2> SUFFICES ASSUME Init PROVE EndInv
    OBVIOUS
  <2>1. \A d \in Drivers : pc[d] \in {"start", "resuming"}
    BY DEF Init, Actors
  <2>2. \A d \in Drivers : \A u \in Units : unit[d][u] = "ok"
    BY DEF Init, Idle
  <2> QED BY <2>1, <2>2 DEF EndInv, Done, Tried
<1>2. IInv /\ EndInv /\ [Next]_vars => EndInv'
  BY EndStep DEF IInv
<1> QED
  BY <1>1, <1>2, Inductive, PTL DEF Spec

(* What InvocationEnds rests on, for every plan, any number of processes   *)
(* and also with a displaced lock file: what an invocation has left are    *)
(* natural numbers ...                                                     *)
THEOREM NothingIsEndless == Spec => [](\A d \in Drivers : Left(d))
<1>1. ASSUME IInv, EndInv PROVE \A d \in Drivers : Left(d)
  <2> SUFFICES ASSUME NEW d \in Drivers PROVE Left(d)
    OBVIOUS
  <2>0. /\ \A u \in Units : Tried(d, u)
        /\ \A u \in Units : tries[d][u] \in Nat /\ unit[d][u] \in {"todo", "again", "sent", "ok", "bad"}
        /\ MaxAttempts \in Nat /\ loop[d] \in Loops /\ retries[d] \in Nat /\ at[d] \in 0..N /\ N \in Nat
        /\ LoopCap \in Nat
    BY <1>1, LimitAssumption, PlanAssumption DEF EndInv, IInv, TypeOK
  <2>1. StepsLeft(d) \in Nat /\ LoopsLeft(d) \in Nat
    BY <2>0 DEF StepsLeft, LoopsLeft, Loops
  <2>2. \A u \in Units : TriesLeft(d, u) \in Nat
    BY <2>0 DEF TriesLeft, Tried
  <2> QED BY <2>0, <2>1, <2>2 DEF Left
<1> QED
  BY <1>1, Inductive, AlwaysEnding, PTL

(* ... and each step of the invocation, a crash and a failing journal      *)
(* included, makes one of them less, while no step of another process      *)
(* touches what they are made of.                                          *)
THEOREM StepsComeNearer ==
  Spec => [][\A d \in Drivers : IF Acts(d) THEN Nearer(d) ELSE Stands(d)]_vars
<1>1. ASSUME IInv, EndInv, [Next]_vars PROVE \A d \in Drivers : IF Acts(d) THEN Nearer(d) ELSE Stands(d)
  BY <1>1, NearerStep, NotItsStep DEF IInv
<1> QED
  BY <1>1, Inductive, AlwaysEnding, PTL DEF Spec

(* And there is always a next step.  Where the guards of a place do not    *)
(* exclude one another plainly: a worker of a gate loop has a unit to      *)
(* finish or to start, or the loop is over; who leaves has a lock to give  *)
(* up; who retries has a retry.                                            *)
Able(d) ==
  /\ pc[d] = "exec" =>
       \/ \E u \in Units : unit[d][u] = "sent"
       \/ ~Halted(d) /\ \E u \in Work(d) : Claimable(d, u)
       \/ Halted(d) \/ \A u \in Work(d) : unit[d][u] \in {"ok", "bad"}
  /\ pc[d] = "exit" => d \in holders
  /\ pc[d] \in {"resuming", "reopening"} => retries[d] > 0

(* No invocation is stuck: whatever fails or is aborted, the pool of unit  *)
(* workers never waits for itself.  A pool of width 0 would, which is why  *)
(* scheduleUnits asks for one worker at least.                            *)
THEOREM NoneIsStuck == Spec => [](\A d \in Drivers : Able(d))
<1>1. ASSUME IInv PROVE \A d \in Drivers : Able(d)
  <2> SUFFICES ASSUME NEW d \in Drivers PROVE Able(d)
    OBVIOUS
  <2>1. pc[d] = "exit" => d \in holders
    BY <1>1, Names DEF IInv, LockInv
  <2>2. pc[d] \in {"resuming", "reopening"} => retries[d] > 0
    BY <1>1 DEF IInv, PlaceInv
  <2>3. ASSUME pc[d] = "exec", \A u \in Units : unit[d][u] # "sent", NEW u \in Work(d),
               unit[d][u] \notin {"ok", "bad"}
        PROVE  \E v \in Work(d) : Claimable(d, v)
    <3>1. at[d] \in Steps /\ Work(d) \subseteq Units
      BY <1>1, <2>3, PlanAssumption DEF IInv, PlaceInv, Work
    <3>2. \A v \in Units : unit[d][v] \in {"todo", "again", "sent", "ok", "bad"}
      BY <1>1 DEF IInv, TypeOK
    <3>3. CASE \E v \in Work(d) : unit[d][v] = "again"
      BY <3>3 DEF Claimable
    <3>4. CASE ~\E v \in Work(d) : unit[d][v] = "again"
      <4>1. {v \in Work(d) : unit[d][v] \in {"again", "sent"}} = {}
        BY <2>3, <3>1, <3>4
      <4>2. Cardinality({v \in Work(d) : unit[d][v] \in {"again", "sent"}}) < Width
        BY <4>1, FS_EmptySet, LimitAssumption
      <4>3. unit[d][u] = "todo"
        BY <2>3, <3>1, <3>2, <3>4
      <4> QED BY <4>2, <4>3 DEF Claimable
    <3> QED BY <3>3, <3>4
  <2> QED BY <2>1, <2>2, <2>3 DEF Able
<1> QED
  BY <1>1, Inductive, PTL

=============================================================================
