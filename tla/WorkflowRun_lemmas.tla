------------------------- MODULE WorkflowRun_lemmas -------------------------
(***************************************************************************)
(* The inductive invariant of WorkflowRun, and the lemmas its proof rests  *)
(* on: the operators of the model, the types, and the division of all      *)
(* steps into those of the one driver that holds the run lock and those    *)
(* that leave the unit journal alone.                                      *)
(***************************************************************************)
EXTENDS WorkflowRun, WellFoundedInduction, TLAPS

-----------------------------------------------------------------------------
(* The operators of the model *)

Less == {ss \in Nat \X Nat : ss[1] < ss[2]}

(* The strict order on Nat, as the library names it.                       *)
LEMMA LessIsLess == Less = OpToRel(<, Nat)
  BY Zenon DEF Less, OpToRel

(* It has no infinite descent.                                             *)
LEMMA LessIsWellFounded == IsWellFoundedOn(Less, Nat)
  BY LessIsLess, NatLessThanWellFounded, Zenon

(* A set of naturals that is not empty has a least member.                 *)
LEMMA LeastExists ==
  ASSUME NEW S, S \subseteq Nat, S # {}
  PROVE  \E s \in S : \A t \in S : s <= t
<1>1. \E s \in S : \A t \in S : ~(<<t, s>> \in Less)
  BY LessIsWellFounded, WFMin, Zenon
<1>2. ASSUME NEW s \in S, NEW t \in S, ~(<<t, s>> \in Less) PROVE s <= t
  <2>1. s \in Nat /\ t \in Nat
    OBVIOUS
  <2>2. ~(t < s)
    BY <1>2, <2>1 DEF Less
  <2> QED
    BY <2>1, <2>2
<1> QED
  BY <1>1, <1>2

(* So First, the first step by row order, is a step of the set it is       *)
(* taken of.                                                               *)
LEMMA FirstIsLeast ==
  ASSUME NEW S, S \subseteq Nat, S # {}
  PROVE  First(S) \in S /\ \A t \in S : First(S) <= t
  BY LeastExists DEF First

(* A bounded set of naturals that is not empty has a greatest member.      *)
LEMMA GreatestExists ==
  ASSUME NEW S, NEW n \in Nat, S \subseteq 0..n, S # {}
  PROVE  \E s \in S : \A t \in S : t <= s
<1> DEFINE T == {n - s : s \in S}
<1>1. T \subseteq Nat /\ T # {}
  <2>1. \A s \in S : s \in Nat /\ s <= n /\ n - s \in Nat
    OBVIOUS
  <2>2. T \subseteq Nat
    BY <2>1
  <2>3. PICK s \in S : TRUE
    OBVIOUS
  <2>4. n - s \in T
    BY <2>3
  <2> QED
    BY <2>2, <2>4
<1>2. PICK m \in T : \A t \in T : m <= t
  BY <1>1, LeastExists
<1>3. PICK s \in S : m = n - s
  OBVIOUS
<1>4. \A t \in S : t <= s
  <2> TAKE t \in S
  <2>1. n - t \in T
    OBVIOUS
  <2>2. m <= n - t
    BY <1>2, <2>1
  <2> QED
    BY <2>2, <1>3
<1> QED
  BY <1>4

(* resolveCurrentStep returns a step of the plan, or none.                 *)
LEMMA CurrentStepType == TypeOK => CurrentStep \in 0..N
<1> SUFFICES ASSUME TypeOK PROVE CurrentStep \in 0..N
  OBVIOUS
<1>1. CASE current = 0 /\ Pending(stepStatus) # {}
  <2>1. Pending(stepStatus) \subseteq Steps /\ Steps \subseteq Nat /\ Steps \subseteq 0..N
    BY PlanAssumption DEF Pending, Steps
  <2>2. First(Pending(stepStatus)) \in Pending(stepStatus)
    BY <1>1, <2>1, FirstIsLeast
  <2> QED
    BY <1>1, <2>1, <2>2 DEF CurrentStep
<1>2. CASE ~(current = 0 /\ Pending(stepStatus) # {})
  BY <1>2 DEF CurrentStep, TypeOK
<1> QED
  BY <1>1, <1>2

(* The loops of s that its judge rejected.                                 *)
Judged(s) == {l \in Loops : s \in Gated /\ gateRow[<<s, l>>] = "rejected"}

(* activeGateLoop returns a loop that is past every rejected one, and      *)
(* the very next when there is one.                                        *)
LEMMA StartLoopIsNext ==
  ASSUME NEW s
  PROVE  /\ StartLoop(s) \in Nat \ {0}
         /\ \A l \in Judged(s) : l < StartLoop(s)
         /\ StartLoop(s) # 1 => StartLoop(s) - 1 \in Judged(s)
<1>0. Judged(s) \subseteq Loops /\ Loops \subseteq 0..LoopCap /\ Loops \subseteq Nat /\ LoopCap \in Nat
  BY PlanAssumption DEF Judged, Loops
<1>1. CASE Judged(s) = {}
  BY <1>1 DEF StartLoop, Judged
<1>2. CASE Judged(s) # {}
  <2> DEFINE m == CHOOSE l \in Judged(s) : \A k \in Judged(s) : k <= l
  <2>1. \E l \in Judged(s) : \A k \in Judged(s) : k <= l
    BY <1>0, <1>2, GreatestExists
  <2>2. m \in Judged(s) /\ \A k \in Judged(s) : k <= m
    BY <2>1
  <2>3. StartLoop(s) = 1 + m
    BY <1>2 DEF StartLoop, Judged
  <2>4. m \in Nat /\ \A k \in Judged(s) : k \in Nat
    BY <1>0, <2>2
  <2> HIDE DEF m
  <2>5. \A l \in Judged(s) : l < 1 + m
    BY <2>2, <2>4
  <2>6. (1 + m) - 1 = m /\ 1 + m \in Nat \ {0}
    BY <2>4
  <2> QED
    BY <2>2, <2>3, <2>5, <2>6
<1> QED
  BY <1>1, <1>2

(* What deriveRunState writes to the run is a status and a step of the     *)
(* plan.                                                                   *)
LEMMA CompleteStepType ==
  ASSUME TypeOK, NEW s \in Steps, NEW x \in {"completed", "blocked", "failed"}, CompleteStep(s, x)
  PROVE  /\ runStatus' \in {"active", "blocked", "failed", "completed"}
         /\ current' \in 0..N
         /\ stepStatus' \in [Steps -> {"pending", "completed", "blocked", "failed"}]
<1> DEFINE st == [stepStatus EXCEPT ![s] = x]
<1>1. st \in [Steps -> {"pending", "completed", "blocked", "failed"}]
  BY DEF TypeOK
<1>2. /\ stepStatus' = st
      /\ \/ /\ Stuck(st) # {}
            /\ runStatus' = st[First(Stuck(st))]
            /\ current' = First(Stuck(st))
         \/ /\ Pending(st) # {}
            /\ runStatus' = "active"
            /\ current' = First(Pending(st))
         \/ runStatus' = "completed" /\ current' = 0
  BY DEF CompleteStep
<1> HIDE DEF st
<1>3. /\ Stuck(st) \subseteq Steps /\ Pending(st) \subseteq Steps
      /\ Steps \subseteq Nat /\ Steps \subseteq 0..N /\ 0 \in 0..N
  BY PlanAssumption DEF Stuck, Pending, Steps
<1>4. Stuck(st) # {} => First(Stuck(st)) \in Stuck(st)
  BY <1>3, FirstIsLeast
<1>5. Pending(st) # {} => First(Pending(st)) \in Pending(st)
  BY <1>3, FirstIsLeast
<1>6. \A t \in Stuck(st) : st[t] \in {"blocked", "failed"}
  BY DEF Stuck
<1> QED
  BY <1>1, <1>2, <1>3, <1>4, <1>5, <1>6

(* The tuples of variables, taken apart.                                   *)
LEMMA Frame ==
  /\ UNCHANGED spine => UNCHANGED runStatus /\ UNCHANGED current /\ UNCHANGED stepStatus
  /\ UNCHANGED journal => UNCHANGED dispatchLog /\ UNCHANGED gateRow
  /\ UNCHANGED dispatchLog => UNCHANGED unitRow /\ UNCHANGED attempts /\ UNCHANGED rows
  /\ UNCHANGED lock => UNCHANGED holders /\ UNCHANGED compromised
  /\ UNCHANGED round => UNCHANGED loop /\ UNCHANGED unit /\ UNCHANGED tries /\ UNCHANGED ticket
  /\ UNCHANGED local => UNCHANGED at /\ UNCHANGED round /\ UNCHANGED used /\ UNCHANGED flags
  /\ UNCHANGED rest => UNCHANGED retries /\ UNCHANGED saved /\ UNCHANGED faults
  BY DEF spine, dispatchLog, journal, lock, round, local, rest

(* The labels and flags that the actions use.                              *)
LEMMA Names ==
  /\ Driving \subseteq Labels
  /\ {"plan", "step", "exec", "failing", "gate", "judging", "commit", "settle",
      "blocking", "next", "exit"} \subseteq Driving
  /\ {"start", "locking", "resuming", "reopening", "ended"} \subseteq Labels \ Driving
  /\ {"tripped", "lost", "barred", "worked", "rejected", "aborted", "error", "signal"} \subseteq Flags
  BY DEF Labels, Driving, Flags

(* Goto moves one process.                                                 *)
LEMMA GotoMoves ==
  ASSUME NEW p \in Actors, NEW label \in Labels, TypeOK, Goto(p, label)
  PROVE  /\ pc' \in [Actors -> Labels]
         /\ pc'[p] = label
         /\ \A q \in Actors : q # p => pc'[q] = pc[q]
  BY DEF TypeOK, Goto

(* Note adds to what one driver remembers.                                 *)
LEMMA NoteAdds ==
  ASSUME NEW d \in Drivers, NEW fs \in SUBSET Flags, TypeOK, Note(d, fs)
  PROVE  /\ flags' \in [Drivers -> SUBSET Flags]
         /\ flags'[d] = flags[d] \cup fs
         /\ \A e \in Drivers : e # d => flags'[e] = flags[e]
  BY DEF TypeOK, Note

(* Leave does both.                                                        *)
LEMMA LeaveMoves ==
  ASSUME NEW d \in Drivers, NEW fs \in SUBSET Flags, TypeOK, Leave(d, fs)
  PROVE  /\ pc' \in [Actors -> Labels]
         /\ pc'[d] = "exit"
         /\ \A q \in Actors : q # d => pc'[q] = pc[q]
         /\ flags' \in [Drivers -> SUBSET Flags]
         /\ flags'[d] = flags[d] \cup fs
         /\ \A e \in Drivers : e # d => flags'[e] = flags[e]
<1>1. d \in Actors /\ "exit" \in Labels
  BY Names DEF Actors
<1> QED
  BY <1>1, GotoMoves, NoteAdds DEF Leave

(* A loop begins for one driver, with its units as the journal has them.   *)
LEMMA BeginLoopMoves ==
  ASSUME TypeOK, NEW d \in Drivers, NEW l \in Loops, NEW fs \in SUBSET Flags, BeginLoop(d, l, fs)
  PROVE  /\ loop' \in [Drivers -> Loops]
         /\ unit' \in [Drivers -> [Units -> {"todo", "again", "sent", "ok", "bad"}]]
         /\ tries' \in [Drivers -> [Units -> Nat]]
         /\ ticket' \in [Drivers -> [Units -> Nat]]
         /\ flags' \in [Drivers -> SUBSET Flags]
         /\ pc' \in [Actors -> Labels]
         /\ pc'[d] = "exec"
         /\ \A q \in Actors : q # d => pc'[q] = pc[q]
         /\ loop'[d] = l
         /\ unit'[d] = [u \in Units |->
                     IF u \in UnitsOf[at[d]] /\ ~Reused(at[d], l, u) THEN "todo" ELSE "ok"]
         /\ flags'[d] \subseteq flags[d] \cup fs \cup {"barred"}
         /\ \A e \in Drivers : e # d =>
              loop'[e] = loop[e] /\ unit'[e] = unit[e] /\ ticket'[e] = ticket[e] /\ flags'[e] = flags[e]
<1>1. d \in Actors /\ "exec" \in Labels /\ "barred" \in Flags
  BY Names DEF Actors
<1>2. Goto(d, "exec")
  BY DEF BeginLoop
<1>3. /\ pc' \in [Actors -> Labels]
      /\ pc'[d] = "exec"
      /\ \A q \in Actors : q # d => pc'[q] = pc[q]
  BY <1>1, <1>2, GotoMoves
<1>4. loop' = [loop EXCEPT ![d] = l]
  BY DEF BeginLoop
<1>5. unit' = [unit EXCEPT ![d] = [u \in Units |->
            IF u \in UnitsOf[at[d]] /\ ~Reused(at[d], l, u) THEN "todo" ELSE "ok"]]
  BY DEF BeginLoop
<1>6. tries' = [tries EXCEPT ![d] = Never] /\ ticket' = [ticket EXCEPT ![d] = Never]
  BY DEF BeginLoop
<1>7. PICK bar \in {{}, {"barred"}} :
        flags' = [flags EXCEPT ![d] = ((@ \cup fs) \ {"tripped", "lost"}) \cup bar]
  BY DEF BeginLoop
<1>8. Never \in [Units -> Nat]
  BY DEF Never
<1>9. /\ flags' \in [Drivers -> SUBSET Flags]
      /\ flags'[d] \subseteq flags[d] \cup fs \cup {"barred"}
      /\ \A e \in Drivers : e # d => flags'[e] = flags[e]
  <2>1. flags \in [Drivers -> SUBSET Flags]
    BY DEF TypeOK
  <2>2. bar \subseteq {"barred"}
    OBVIOUS
  <2> QED
    BY <1>1, <1>7, <2>1, <2>2
<1>10. /\ loop' \in [Drivers -> Loops] /\ loop'[d] = l
       /\ \A e \in Drivers : e # d => loop'[e] = loop[e]
  BY <1>4 DEF TypeOK
<1>11. /\ unit' \in [Drivers -> [Units -> {"todo", "again", "sent", "ok", "bad"}]]
       /\ unit'[d] = [u \in Units |->
                   IF u \in UnitsOf[at[d]] /\ ~Reused(at[d], l, u) THEN "todo" ELSE "ok"]
       /\ \A e \in Drivers : e # d => unit'[e] = unit[e]
  BY <1>5 DEF TypeOK
<1>12. /\ tries' \in [Drivers -> [Units -> Nat]] /\ ticket' \in [Drivers -> [Units -> Nat]]
       /\ \A e \in Drivers : e # d => ticket'[e] = ticket[e]
  BY <1>6, <1>8 DEF TypeOK
<1> QED
  BY <1>3, <1>9, <1>10, <1>11, <1>12

-----------------------------------------------------------------------------
(* The invariant.  Its parts about the unit journal hold while the run     *)
(* lock is exclusive: a lock file displaced by FileLock's race ends them.  *)

(* Who drives holds the lock, and unless the lock file was displaced       *)
(* nobody else does.                                                       *)
LockInv ==
  /\ \A d \in Drivers : d \in holders <=> pc[d] \in Driving
  /\ ~compromised => \A d, e \in holders : d = e

(* Past the top of the drive loop there is a step, in a loop it has; a     *)
(* driver that reopens its run has a retry left.                           *)
PlaceInv ==
  /\ \A d \in Drivers : pc[d] \in {"exec", "gate", "judging", "commit", "settle"} =>
       at[d] \in Steps /\ loop[d] <= MaxLoops[at[d]]
  /\ \A d \in Drivers : pc[d] \in {"gate", "judging", "settle"} => at[d] \in Gated
  /\ \A d \in Drivers : pc[d] \in {"resuming", "reopening"} => retries[d] > 0

(* The cursor splits the spine: completed before it, pending after it.     *)
Split(st, c) ==
  /\ st[c] # "completed"
  /\ \A s \in Steps : s < c => st[s] = "completed"
  /\ \A s \in Steps : s > c => st[s] = "pending"
SpineInv ==
  /\ current = 0 => \A s \in Steps : stepStatus[s] = "completed"
  /\ current # 0 => Split(stepStatus, current)
  /\ runStatus = "completed" => current = 0

(* A driver that dispatches has counted every row of the journal.          *)
BudgetInv ==
  ~compromised =>
    /\ rows <= MaxUnits
    /\ \A d \in Drivers : pc[d] \in Driving \ {"plan", "exit"} => rows <= used[d]

(* What a driver remembers of its units is what the journal says of them.  *)
Knows(d, u) ==
  /\ unit[d][u] \in {"todo", "again"} => u \in Work(d) /\ unitRow[Cell(d, u)] # "completed"
  /\ unit[d][u] = "sent" =>
       u \in Work(d) /\ unitRow[Cell(d, u)] = "running" /\ ticket[d][u] = attempts[Cell(d, u)]
  /\ unit[d][u] = "ok" /\ u \in Work(d) => unitRow[Cell(d, u)] = "completed"
WorkInv ==
  ~compromised => \A d \in Drivers : pc[d] = "exec" => \A u \in Units : Knows(d, u)

(* The loops a judge has seen are loops the step has, a driver works past  *)
(* the rejected ones, and remembers an exhaustion that is in the journal.  *)
GatesInv == \A g \in Gates : gateRow[g] # "none" => g[1] \in Gated /\ g[2] <= MaxLoops[g[1]]
ExhaustedInv == \A d \in Drivers : "rejected" \in flags[d] => pc[d] = "exit" /\ at[d] \in Steps
Beyond(d) ==
  pc[d] \in {"exec", "gate", "judging"} =>
    \A l \in Loops : gateRow[<<at[d], l>>] = "rejected" => l < loop[d]
Exhausted(d) == "rejected" \in flags[d] => gateRow[<<at[d], MaxLoops[at[d]]>>] = "rejected"
LoopInv ==
  /\ GatesInv /\ ExhaustedInv
  /\ ~compromised => \A d \in Drivers : Beyond(d) /\ Exhausted(d)

(* Past its units a step has what its completion will rest on.             *)
Judging(d) == pc[d] = "judging" \/ (pc[d] = "commit" /\ at[d] \in Gated)
Earned(d) ==
  /\ pc[d] \in {"gate", "judging", "commit", "settle"} /\ at[d] \notin Tolerant =>
       \A u \in Work(d) : unitRow[Cell(d, u)] = "completed"
  /\ Judging(d) \/ pc[d] = "settle" => gateRow[<<at[d], loop[d]>>] = "running"
  /\ Judging(d) => stepStatus[at[d]] # "completed"
EarnedInv == ~compromised => \A d \in Drivers : Earned(d)

(* All of it, with the two properties that are inductive themselves.       *)
IInv ==
  /\ TypeOK /\ LockInv /\ PlaceInv /\ SpineInv /\ BudgetInv /\ WorkInv /\ LoopInv
  /\ EarnedInv /\ RunningIsDispatched /\ CompletedByWork

-----------------------------------------------------------------------------
(* The types *)

(* TypeOK in parts, as the groups of variables that a step changes.        *)
SpineTypes ==
  /\ runStatus \in {"active", "blocked", "failed", "completed"}
  /\ current \in 0..N
  /\ stepStatus \in [Steps -> {"pending", "completed", "blocked", "failed"}]
DispatchTypes ==
  /\ unitRow \in [Cells -> {"none", "running", "completed", "failed"}]
  /\ attempts \in [Cells -> Nat]
  /\ rows \in Nat
GateTypes == gateRow \in [Gates -> {"none", "running", "passed", "rejected", "errored"}]
LockTypes == holders \subseteq Drivers /\ compromised \in BOOLEAN
PlaceTypes == pc \in [Actors -> Labels]
StepTypes == at \in [Drivers -> 0..N]
RoundTypes ==
  /\ loop \in [Drivers -> Loops]
  /\ unit \in [Drivers -> [Units -> {"todo", "again", "sent", "ok", "bad"}]]
  /\ tries \in [Drivers -> [Units -> Nat]]
  /\ ticket \in [Drivers -> [Units -> Nat]]
UsedTypes == used \in [Drivers -> Nat]
FlagTypes == flags \in [Drivers -> SUBSET Flags]
RestTypes ==
  /\ retries \in [Drivers -> Nat]
  /\ saved \in [Actors -> 0..N]
  /\ faults \in Nat

(* The parts are the whole.                                                *)
LEMMA TypesInParts ==
  TypeOK <=> /\ SpineTypes /\ DispatchTypes /\ GateTypes /\ LockTypes /\ PlaceTypes
             /\ StepTypes /\ RoundTypes /\ UsedTypes /\ FlagTypes /\ RestTypes
  BY DEF TypeOK, SpineTypes, DispatchTypes, GateTypes, LockTypes, PlaceTypes,
         StepTypes, RoundTypes, UsedTypes, FlagTypes, RestTypes

(* A part whose variables are unchanged is kept.                           *)
LEMMA PartsKeep ==
  /\ UNCHANGED spine /\ SpineTypes => SpineTypes'
  /\ UNCHANGED dispatchLog /\ DispatchTypes => DispatchTypes'
  /\ UNCHANGED gateRow /\ GateTypes => GateTypes'
  /\ UNCHANGED journal /\ DispatchTypes /\ GateTypes => DispatchTypes' /\ GateTypes'
  /\ UNCHANGED lock /\ LockTypes => LockTypes'
  /\ UNCHANGED pc /\ PlaceTypes => PlaceTypes'
  /\ UNCHANGED at /\ StepTypes => StepTypes'
  /\ UNCHANGED round /\ RoundTypes => RoundTypes'
  /\ UNCHANGED used /\ UsedTypes => UsedTypes'
  /\ UNCHANGED flags /\ FlagTypes => FlagTypes'
  /\ UNCHANGED local /\ StepTypes /\ RoundTypes /\ UsedTypes /\ FlagTypes =>
       StepTypes' /\ RoundTypes' /\ UsedTypes' /\ FlagTypes'
  /\ UNCHANGED rest /\ RestTypes => RestTypes'
  BY DEF spine, dispatchLog, journal, lock, round, local, rest,
         SpineTypes, DispatchTypes, GateTypes, LockTypes, PlaceTypes,
         StepTypes, RoundTypes, UsedTypes, FlagTypes, RestTypes

(* Every step keeps the types.  The loop a step begins is one it has,      *)
(* because a driver in a loop is at a step (PlaceInv).                     *)
LEMMA TypeStep == TypeOK /\ PlaceInv /\ [Next]_vars => TypeOK'
<1> SUFFICES ASSUME TypeOK, PlaceInv, [Next]_vars PROVE TypeOK'
  OBVIOUS
<1> USE Names
<1>p. /\ SpineTypes /\ DispatchTypes /\ GateTypes /\ LockTypes /\ PlaceTypes
      /\ StepTypes /\ RoundTypes /\ UsedTypes /\ FlagTypes /\ RestTypes
  BY TypesInParts
<1>a. /\ Drivers \subseteq Actors /\ Resumers \subseteq Actors /\ Abandoners \subseteq Actors
      /\ Interruptible \subseteq Drivers
  BY ActorAssumption DEF Actors
<1>g. ASSUME NEW p \in Actors, NEW x \in Labels, Goto(p, x) PROVE PlaceTypes'
  BY <1>p, <1>g DEF Goto, PlaceTypes
<1>n. ASSUME NEW d \in Drivers, NEW fs \in SUBSET Flags, Note(d, fs) PROVE FlagTypes'
  BY <1>p, <1>n DEF Note, FlagTypes
<1>l. ASSUME NEW d \in Drivers, NEW fs \in SUBSET Flags, Leave(d, fs) PROVE PlaceTypes' /\ FlagTypes'
  BY <1>a, <1>g, <1>n, <1>l DEF Leave
<1>b. ASSUME NEW d \in Drivers, NEW l \in Loops, NEW fs \in SUBSET Flags, BeginLoop(d, l, fs)
      PROVE  PlaceTypes' /\ RoundTypes' /\ FlagTypes'
  BY <1>b, BeginLoopMoves DEF PlaceTypes, RoundTypes, FlagTypes
<1>u. ASSUME NEW d \in Drivers, NEW u \in Units, NEW x \in {"again", "sent", "ok", "bad"},
             Become(d, u, x), UNCHANGED <<loop, tries, ticket>>
      PROVE  RoundTypes'
  BY <1>p, <1>u DEF RoundTypes, Become
<1>f. ASSUME NEW d \in Drivers, NEW x \in Labels, Forget(d, x)
      PROVE  PlaceTypes' /\ StepTypes' /\ RoundTypes' /\ UsedTypes' /\ FlagTypes'
  <2>1. PlaceTypes'
    BY <1>a, <1>g, <1>f DEF Forget
  <2>2. StepTypes' /\ UsedTypes' /\ FlagTypes'
    BY <1>p, <1>f, PlanAssumption DEF Forget, StepTypes, UsedTypes, FlagTypes
  <2>3. Idle \in [Units -> {"todo", "again", "sent", "ok", "bad"}] /\ Never \in [Units -> Nat]
        /\ 1 \in Loops
    BY PlanAssumption DEF Idle, Never, Loops
  <2>4. RoundTypes'
    BY <1>p, <1>f, <2>3 DEF Forget, RoundTypes
  <2> QED
    BY <2>1, <2>2, <2>4
<1>s. ASSUME NEW d \in Drivers, NEW x \in {"completed", "blocked", "failed"},
             MayComplete(d), CompleteStep(at[d], x)
      PROVE  SpineTypes'
  <2>1. at[d] \in Steps
    BY <1>p, <1>s DEF StepTypes, MayComplete, Steps
  <2> QED
    BY <1>s, <2>1, CompleteStepType DEF SpineTypes
<1>v. ASSUME NEW d \in Drivers, at[d] \in Steps,
             NEW x \in {"running", "passed", "rejected", "errored"}, SetGate(d, x)
      PROVE  GateTypes'
  BY <1>p, <1>v DEF SetGate, GateTypes, RoundTypes, Gates
<1>q. /\ SpineTypes' /\ DispatchTypes' /\ GateTypes' /\ LockTypes' /\ PlaceTypes'
      /\ StepTypes' /\ RoundTypes' /\ UsedTypes' /\ FlagTypes' /\ RestTypes'
      => TypeOK'
  BY DEF TypeOK, SpineTypes, DispatchTypes, GateTypes, LockTypes, PlaceTypes,
         StepTypes, RoundTypes, UsedTypes, FlagTypes, RestTypes
<1>1. ASSUME NEW d \in Drivers, Read(d) PROVE TypeOK'
  <2>1. PlaceTypes'
    BY <1>a, <1>1, <1>g DEF Read
  <2>2. StepTypes'
    BY <1>p, <1>1, CurrentStepType DEF Read, StepTypes
  <2> QED
    BY <1>p, <1>1, <2>1, <2>2, <1>q, PartsKeep DEF Read
<1>2. ASSUME NEW d \in Drivers, TakeLock(d) PROVE TypeOK'
  <2>1. PlaceTypes'
    BY <1>a, <1>2, <1>g DEF TakeLock
  <2>2. LockTypes'
    BY <1>p, <1>2, PartsKeep DEF TakeLock, Lock!Acquire, LockTypes
  <2> QED
    BY <1>p, <1>2, <2>1, <2>2, <1>q, PartsKeep DEF TakeLock
<1>3. ASSUME NEW d \in Drivers, OpenPlan(d) PROVE TypeOK'
  <2>1. PlaceTypes' /\ FlagTypes'
    BY <1>a, <1>p, <1>3, <1>g, <1>l, PartsKeep DEF OpenPlan
  <2>2. SpineTypes'
    BY <1>p, <1>3, PartsKeep DEF OpenPlan, MarkAbandoned, SpineTypes
  <2>3. UsedTypes'
    BY <1>p, <1>3, PartsKeep DEF OpenPlan, JournalSeed, UsedTypes, DispatchTypes
  <2> QED
    BY <1>p, <1>3, <2>1, <2>2, <2>3, <1>q, PartsKeep DEF OpenPlan
<1>4. ASSUME NEW d \in Drivers, BeginStep(d) PROVE TypeOK'
  <2>1. at[d] # 0 /\ StartLoop(at[d]) <= MaxLoops[at[d]] => StartLoop(at[d]) \in Loops
    BY <1>p, StartLoopIsNext, PlanAssumption DEF Loops, Steps, StepTypes
  <2>2. PlaceTypes' /\ RoundTypes' /\ FlagTypes'
    BY <1>a, <1>p, <1>4, <1>b, <1>g, <1>l, <2>1, PartsKeep DEF BeginStep
  <2> QED
    BY <1>p, <1>4, <2>2, <1>q, PartsKeep DEF BeginStep
<1>5. ASSUME NEW d \in Drivers, NEW u \in Units, Dispatch(d, u) PROVE TypeOK'
  <2>1. Cell(d, u) \in Cells
    BY <1>p, <1>5 DEF PlaceInv, RoundTypes, Dispatch, Cell, Cells
  <2>2. DispatchTypes' /\ GateTypes'
    BY <1>p, <1>5, <2>1, PartsKeep DEF Dispatch, NewAttempt, DispatchTypes
  <2>3. UsedTypes' /\ FlagTypes'
    BY <1>p, <1>5, <1>n, PartsKeep DEF Dispatch, UsedTypes
  <2>4. RoundTypes'
    <3>1. /\ tries' = tries \/ tries' = [tries EXCEPT ![d][u] = @ + 1]
          /\ ticket' = ticket \/ ticket' = [ticket EXCEPT ![d][u] = attempts'[Cell(d, u)]]
      BY <1>5 DEF Dispatch
    <3>2. \E x \in {"again", "sent", "bad"} : Become(d, u, x)
      BY <1>5 DEF Dispatch, AfterFailure
    <3>3. unit' \in [Drivers -> [Units -> {"todo", "again", "sent", "ok", "bad"}]]
      BY <1>p, <3>2 DEF Become, RoundTypes
    <3>4. tries' \in [Drivers -> [Units -> Nat]]
      <4>1. tries \in [Drivers -> [Units -> Nat]]
        BY <1>p DEF RoundTypes
      <4>2. [tries EXCEPT ![d][u] = @ + 1] \in [Drivers -> [Units -> Nat]]
        BY <4>1
      <4> QED
        BY <3>1, <4>1, <4>2
    <3>5. attempts'[Cell(d, u)] \in Nat
      BY <2>1, <2>2 DEF DispatchTypes
    <3>6. ticket' \in [Drivers -> [Units -> Nat]]
      <4>1. ticket \in [Drivers -> [Units -> Nat]]
        BY <1>p DEF RoundTypes
      <4>2. [ticket EXCEPT ![d][u] = attempts'[Cell(d, u)]] \in [Drivers -> [Units -> Nat]]
        BY <3>5, <4>1
      <4> QED
        BY <3>1, <4>1, <4>2
    <3>7. loop' \in [Drivers -> Loops]
      BY <1>p, <1>5 DEF Dispatch, RoundTypes
    <3> QED
      BY <3>3, <3>4, <3>6, <3>7 DEF RoundTypes
  <2> QED
    BY <1>p, <1>5, <2>2, <2>3, <2>4, <1>q, PartsKeep DEF Dispatch
<1>6. ASSUME NEW d \in Drivers, NEW u \in Units, Finish(d, u) PROVE TypeOK'
  <2>1. DispatchTypes'
    BY <1>p, <1>6 DEF Finish, Record, DispatchTypes
  <2>2. RoundTypes'
    BY <1>6, <1>u DEF Finish, AfterFailure
  <2> QED
    BY <1>p, <1>6, <2>1, <2>2, <1>q, PartsKeep DEF Finish
<1>7. ASSUME NEW d \in Drivers, EndLoop(d) PROVE TypeOK'
  <2>1. loop[d] < MaxLoops[at[d]] => loop[d] + 1 \in Loops
    BY <1>p, <1>7, PlanAssumption DEF EndLoop, PlaceInv, Loops, RoundTypes
  <2>2. PlaceTypes' /\ RoundTypes' /\ FlagTypes'
    BY <1>a, <1>p, <1>7, <1>b, <1>g, <1>l, <1>n, <2>1, PartsKeep DEF EndLoop
  <2> QED
    BY <1>p, <1>7, <2>2, <1>q, PartsKeep DEF EndLoop
<1>8. ASSUME NEW d \in Drivers, Failing(d) \/ Blocking(d) PROVE TypeOK'
  <2>1. SpineTypes'
    BY <1>p, <1>8, <1>s, PartsKeep DEF Failing, Blocking, Stop
  <2>2. PlaceTypes' /\ FlagTypes'
    BY <1>8, <1>l DEF Failing, Blocking, Stop
  <2> QED
    BY <1>p, <1>8, <2>1, <2>2, <1>q, PartsKeep DEF Failing, Blocking, Stop
<1>9. ASSUME NEW d \in Drivers, Gate(d) PROVE TypeOK'
  <2>1. at[d] \in Steps
    BY <1>9 DEF Gate, PlaceInv
  <2>2. GateTypes' /\ PlaceTypes' /\ FlagTypes'
    BY <1>a, <1>p, <1>9, <1>g, <1>l, <1>v, <2>1, PartsKeep DEF Gate
  <2> QED
    BY <1>p, <1>9, <2>2, <1>q, PartsKeep DEF Gate
<1>10. ASSUME NEW d \in Drivers, Judge(d) PROVE TypeOK'
  <2>1. at[d] \in Steps
    BY <1>10 DEF Judge, PlaceInv
  <2>2. loop[d] < MaxLoops[at[d]] => loop[d] + 1 \in Loops
    BY <1>p, <2>1, PlanAssumption DEF Loops, RoundTypes
  <2>3. GateTypes'
    BY <1>p, <1>10, <1>v, <2>1, PartsKeep DEF Judge
  <2>4. PlaceTypes' /\ RoundTypes' /\ FlagTypes'
    BY <1>a, <1>p, <1>10, <1>b, <1>g, <1>l, <2>2, PartsKeep DEF Judge
  <2> QED
    BY <1>p, <1>10, <2>3, <2>4, <1>q, PartsKeep DEF Judge
<1>11. ASSUME NEW d \in Drivers, Commit(d) PROVE TypeOK'
  <2>1. at[d] \in Steps
    BY <1>11 DEF Commit, PlaceInv
  <2>2. SpineTypes' /\ GateTypes'
    BY <1>p, <1>11, <1>s, <1>v, <2>1, PartsKeep DEF Commit
  <2>3. PlaceTypes' /\ FlagTypes'
    BY <1>a, <1>p, <1>11, <1>g, <1>l, PartsKeep DEF Commit
  <2> QED
    BY <1>p, <1>11, <2>2, <2>3, <1>q, PartsKeep DEF Commit
<1>12. ASSUME NEW d \in Drivers, Settle(d) PROVE TypeOK'
  <2>1. at[d] \in Steps
    BY <1>12 DEF Settle, PlaceInv
  <2>2. GateTypes' /\ PlaceTypes'
    BY <1>a, <1>12, <1>g, <1>v, <2>1 DEF Settle
  <2> QED
    BY <1>p, <1>12, <2>2, <1>q, PartsKeep DEF Settle
<1>13. ASSUME NEW d \in Drivers, NextStep(d) PROVE TypeOK'
  <2>1. PlaceTypes' /\ FlagTypes'
    BY <1>a, <1>p, <1>13, <1>g, <1>l, PartsKeep DEF NextStep
  <2>2. StepTypes'
    BY <1>p, <1>13, CurrentStepType DEF NextStep, StepTypes
  <2> QED
    BY <1>p, <1>13, <2>1, <2>2, <1>q, PartsKeep DEF NextStep
<1>14. ASSUME NEW d \in Drivers, Exit(d) PROVE TypeOK'
  <2>1. PlaceTypes' /\ StepTypes' /\ RoundTypes' /\ UsedTypes' /\ FlagTypes'
    BY <1>14, <1>f DEF Exit
  <2>2. LockTypes'
    BY <1>p, <1>14 DEF Exit, Lock!Relinquish, LockTypes
  <2> QED
    BY <1>p, <1>14, <2>1, <2>2, <1>q, PartsKeep DEF Exit
<1>15. ASSUME NEW d \in Drivers, Crash(d) PROVE TypeOK'
  <2>1. PlaceTypes' /\ StepTypes' /\ RoundTypes' /\ UsedTypes' /\ FlagTypes'
    BY <1>15, <1>f DEF Crash
  <2>2. LockTypes'
    BY <1>p, <1>15, PartsKeep DEF Crash, Lock!Relinquish, LockTypes
  <2>3. RestTypes'
    BY <1>p, <1>15 DEF Crash, RestTypes
  <2> QED
    BY <1>p, <1>15, <2>1, <2>2, <2>3, <1>q, PartsKeep DEF Crash
<1>16. ASSUME NEW d \in Drivers, NEW u \in Units, JournalFails(d, u) PROVE TypeOK'
  <2>1. RoundTypes' /\ FlagTypes'
    BY <1>16, <1>u, <1>n DEF JournalFails
  <2>2. RestTypes'
    BY <1>p, <1>16 DEF JournalFails, RestTypes
  <2> QED
    BY <1>p, <1>16, <2>1, <2>2, <1>q, PartsKeep DEF JournalFails
<1>17. ASSUME NEW d \in Interruptible, Interrupt(d) PROVE TypeOK'
  <2>1. FlagTypes'
    BY <1>a, <1>17, <1>n DEF Interrupt
  <2> QED
    BY <1>p, <1>17, <2>1, <1>q, PartsKeep DEF Interrupt
<1>18. ASSUME NEW p \in Drivers \cup Resumers, Resume(p) PROVE TypeOK'
  <2>1. PlaceTypes'
    BY <1>a, <1>18, <1>g DEF Resume, ResumeRead, ResumeCommit, Resumed
  <2>2. RestTypes'
    <3>1. \/ retries' = retries
          \/ p \in Drivers /\ retries[p] > 0 /\ retries' = [retries EXCEPT ![p] = @ - 1]
      BY <1>18 DEF Resume, ResumeRead, ResumeCommit, Resumed, PlaceInv
    <3>2. retries' \in [Drivers -> Nat]
      BY <1>p, <3>1 DEF RestTypes
    <3>3. saved' \in [Actors -> 0..N] /\ faults' \in Nat
      BY <1>a, <1>p, <1>18, PlanAssumption DEF Resume, ResumeRead, ResumeCommit,
         RestTypes, SpineTypes
    <3> QED
      BY <3>2, <3>3 DEF RestTypes
  <2>3. SpineTypes'
    BY <1>p, <1>18, PartsKeep DEF Resume, ResumeRead, ResumeCommit, SpineTypes
  <2> QED
    BY <1>p, <1>18, <2>1, <2>2, <2>3, <1>q, PartsKeep DEF Resume, ResumeRead,
       ResumeCommit
<1>19. ASSUME NEW p \in Abandoners, Abandon(p) PROVE TypeOK'
  <2>1. PlaceTypes'
    BY <1>a, <1>19, <1>g DEF Abandon
  <2>2. SpineTypes'
    BY <1>p, <1>19, PartsKeep DEF Abandon, MarkAbandoned, SpineTypes
  <2> QED
    BY <1>p, <1>19, <2>1, <2>2, <1>q, PartsKeep DEF Abandon
<1>20. CASE BreakLock
  <2>1. LockTypes'
    BY <1>p, <1>20 DEF BreakLock, Lock!Compromise, LockTypes
  <2> QED
    BY <1>p, <1>20, <2>1, <1>q, PartsKeep DEF BreakLock
<1>21. CASE UNCHANGED vars
  BY <1>21, <1>p, <1>q, PartsKeep DEF vars
<1> QED
  BY <1>1, <1>2, <1>3, <1>4, <1>5, <1>6, <1>7, <1>8, <1>9, <1>10, <1>11, <1>12,
     <1>13, <1>14,
     <1>15, <1>16, <1>17, <1>18, <1>19, <1>20, <1>21 DEF Next, StepOf, Disturbance

-----------------------------------------------------------------------------
(* Two kinds of steps *)

(* Nothing of what the driver e remembers changes.                         *)
Same(e) ==
  /\ pc'[e] = pc[e] /\ at'[e] = at[e] /\ loop'[e] = loop[e] /\ unit'[e] = unit[e]
  /\ ticket'[e] = ticket[e] /\ used'[e] = used[e] /\ flags'[e] = flags[e]

(* A driver that holds the run lock works on, and the others stand still.  *)
Driven(d) ==
  /\ pc[d] \in Driving /\ pc'[d] \in Driving
  /\ UNCHANGED lock
  /\ faults' = 0 => faults = 0
  /\ \A e \in Drivers : e # d => Same(e)

DriveStep(d) ==
  \/ OpenPlan(d) \/ BeginStep(d) \/ EndLoop(d)
  \/ \E u \in Units : Dispatch(d, u) \/ Finish(d, u) \/ JournalFails(d, u)
  \/ Failing(d) \/ Blocking(d) \/ Gate(d) \/ Judge(d) \/ Commit(d) \/ Settle(d)
  \/ NextStep(d) \/ Interrupt(d)

(* A driver that e's step leaves outside the drive loop.                   *)
Parked(e) ==
  /\ pc'[e] \notin Driving \ {"plan"}
  /\ "rejected" \in flags'[e] => "rejected" \in flags[e] /\ pc[e] # "exit"
  /\ faults' = 0 => pc[e] \notin {"exec", "settle"}

(* Any other step leaves the journal alone and no step is completed.       *)
Quiet ==
  /\ UNCHANGED journal
  /\ compromised => compromised'
  /\ faults' = 0 => faults = 0
  /\ \A s \in Steps : stepStatus'[s] = "completed" <=> stepStatus[s] = "completed"
  /\ \A e \in Drivers : Same(e) \/ Parked(e)

(* A step of the drive loop needs the run lock and keeps it; no other      *)
(* driver is moved.                                                        *)
LEMMA DrivenStep ==
  ASSUME TypeOK, PlaceInv, NEW d \in Drivers, DriveStep(d)
  PROVE  Driven(d)
<1> USE Names, Frame
<1>0. /\ pc \in [Actors -> Labels] /\ d \in Actors /\ at \in [Drivers -> 0..N]
      /\ unit \in [Drivers -> [Units -> {"todo", "again", "sent", "ok", "bad"}]]
      /\ ticket \in [Drivers -> [Units -> Nat]] /\ used \in [Drivers -> Nat]
      /\ flags \in [Drivers -> SUBSET Flags] /\ faults \in Nat /\ MaxFaults \in Nat
      /\ Drivers \subseteq Actors
  BY LimitAssumption DEF TypeOK, Actors
<1>l. at[d] # 0 /\ StartLoop(at[d]) <= MaxLoops[at[d]] => StartLoop(at[d]) \in Loops
  BY <1>0, StartLoopIsNext, PlanAssumption DEF Loops, Steps
<1>n. at[d] \in Steps /\ loop[d] < MaxLoops[at[d]] => loop[d] + 1 \in Loops
  BY <1>0, PlanAssumption DEF Loops, Steps, TypeOK
<1>b. ASSUME pc[d] \in Driving, UNCHANGED <<lock, at, used, rest>>,
                 NEW l \in Loops, NEW fs \in SUBSET Flags, BeginLoop(d, l, fs)
          PROVE  Driven(d)
  <2>1. /\ pc'[d] = "exec"
        /\ \A q \in Actors : q # d => pc'[q] = pc[q]
        /\ \A e \in Drivers : e # d =>
             loop'[e] = loop[e] /\ unit'[e] = unit[e] /\ ticket'[e] = ticket[e] /\ flags'[e] = flags[e]
    BY <1>b, BeginLoopMoves
  <2> QED
    BY <1>0, <1>b, <2>1 DEF Driven, Same
<1>1. CASE OpenPlan(d)
  BY <1>0, <1>1 DEF OpenPlan, Driven, Same, Leave, Goto, Note
<1>2. CASE BeginStep(d)
  <2>1. pc[d] = "step" /\ UNCHANGED <<spine, journal, lock, at, used, rest>>
    BY <1>2 DEF BeginStep
  <2>2. \/ \E l \in Loops : BeginLoop(d, l, {})
        \/ UNCHANGED round /\ Goto(d, "blocking") /\ UNCHANGED flags
        \/ UNCHANGED round /\ \E f \in SUBSET Flags : Leave(d, f)
    BY <1>2, <1>l DEF BeginStep
  <2>3. CASE \E l \in Loops : BeginLoop(d, l, {})
    BY <2>1, <2>3, <1>b
  <2>4. CASE /\ UNCHANGED round
             /\ \/ Goto(d, "blocking") /\ UNCHANGED flags
                \/ \E f \in SUBSET Flags : Leave(d, f)
    BY <1>0, <2>1, <2>4 DEF Driven, Same, Leave, Goto, Note
  <2> QED
    BY <2>2, <2>3, <2>4
<1>3. CASE EndLoop(d)
  <2>1. pc[d] = "exec" /\ UNCHANGED <<spine, journal, lock, at, used, rest>>
    BY <1>3 DEF EndLoop
  <2>2. \/ \E l \in Loops : BeginLoop(d, l, {"worked"})
        \/ UNCHANGED round /\ \E x \in Driving : Goto(d, x) /\ Note(d, {"worked"})
        \/ UNCHANGED round /\ Leave(d, {"aborted"})
    BY <1>3, <1>n DEF EndLoop, PlaceInv
  <2>3. CASE \E l \in Loops : BeginLoop(d, l, {"worked"})
    BY <2>1, <2>3, <1>b
  <2>4. CASE /\ UNCHANGED round
             /\ (\E x \in Driving : Goto(d, x) /\ Note(d, {"worked"})) \/ Leave(d, {"aborted"})
    BY <1>0, <2>1, <2>4 DEF Driven, Same, Leave, Goto, Note
  <2> QED
    BY <2>2, <2>3, <2>4
<1>4. ASSUME NEW u \in Units, Dispatch(d, u) PROVE Driven(d)
  BY <1>0, <1>4 DEF Dispatch, Driven, Same, Become, Note
<1>5. ASSUME NEW u \in Units, Finish(d, u) PROVE Driven(d)
  BY <1>0, <1>5 DEF Finish, Driven, Same, Become
<1>6. ASSUME NEW u \in Units, JournalFails(d, u) PROVE Driven(d)
  BY <1>0, <1>6 DEF JournalFails, Driven, Same, Become, Note
<1>7. CASE Failing(d) \/ Blocking(d)
  BY <1>0, <1>7 DEF Failing, Blocking, Stop, Driven, Same, Leave, Goto, Note
<1>8. CASE Gate(d)
  BY <1>0, <1>8 DEF Gate, Driven, Same, Leave, Goto, Note
<1>9. CASE Judge(d)
  <2>1. pc[d] = "judging" /\ UNCHANGED <<spine, dispatchLog, lock, at, used, rest>>
    BY <1>9 DEF Judge
  <2>2. \/ \E l \in Loops : BeginLoop(d, l, {})
        \/ UNCHANGED round /\ (\E x \in Driving : Goto(d, x)) /\ UNCHANGED flags
        \/ UNCHANGED round /\ \E f \in SUBSET Flags : Leave(d, f)
    BY <1>9, <1>n DEF Judge, PlaceInv
  <2>3. CASE \E l \in Loops : BeginLoop(d, l, {})
    BY <2>1, <2>3, <1>b
  <2>4. CASE /\ UNCHANGED round
             /\ \/ (\E x \in Driving : Goto(d, x)) /\ UNCHANGED flags
                \/ \E f \in SUBSET Flags : Leave(d, f)
    BY <1>0, <2>1, <2>4 DEF Driven, Same, Leave, Goto, Note
  <2> QED
    BY <2>2, <2>3, <2>4
<1>10. CASE Commit(d)
  BY <1>0, <1>10 DEF Commit, Driven, Same, Leave, Goto, Note
<1>11. CASE Settle(d)
  BY <1>0, <1>11 DEF Settle, Driven, Same, Goto
<1>12. CASE NextStep(d)
  BY <1>0, <1>12 DEF NextStep, Driven, Same, Leave, Goto, Note
<1>13. CASE Interrupt(d)
  BY <1>0, <1>13 DEF Interrupt, Driven, Same, Note
<1> QED
  BY <1>1, <1>2, <1>3, <1>4, <1>5, <1>6, <1>7, <1>8, <1>9, <1>10, <1>11, <1>12,
     <1>13 DEF DriveStep

(* Every other step is quiet.                                              *)
LEMMA QuietStep ==
  ASSUME TypeOK, PlaceInv, LockInv,
         \/ \E d \in Drivers : Read(d) \/ TakeLock(d) \/ Exit(d) \/ Crash(d)
         \/ \E p \in Drivers \cup Resumers : Resume(p)
         \/ \E p \in Abandoners : Abandon(p)
         \/ BreakLock
         \/ UNCHANGED vars
  PROVE  Quiet
<1> USE Names, Frame
<1>0. /\ pc \in [Actors -> Labels] /\ at \in [Drivers -> 0..N]
      /\ flags \in [Drivers -> SUBSET Flags] /\ faults \in Nat /\ MaxFaults \in Nat
      /\ loop \in [Drivers -> Loops] /\ used \in [Drivers -> Nat]
      /\ unit \in [Drivers -> [Units -> {"todo", "again", "sent", "ok", "bad"}]]
      /\ ticket \in [Drivers -> [Units -> Nat]]
      /\ stepStatus \in [Steps -> {"pending", "completed", "blocked", "failed"}]
      /\ Drivers \subseteq Actors /\ Resumers \subseteq Actors /\ Abandoners \subseteq Actors
      /\ Drivers \cap (Resumers \cup Abandoners) = {}
  BY LimitAssumption, ActorAssumption DEF TypeOK, Actors
<1>1. ASSUME NEW d \in Drivers, Read(d) PROVE Quiet
  BY <1>0, <1>1 DEF Read, Quiet, Same, Parked, Goto
<1>2. ASSUME NEW d \in Drivers, TakeLock(d) PROVE Quiet
  BY <1>0, <1>2 DEF TakeLock, Quiet, Same, Parked, Goto, Lock!Acquire
<1>f. ASSUME NEW d \in Drivers, NEW x \in Labels \ Driving, Forget(d, x)
      PROVE  /\ pc'[d] \notin Driving /\ "rejected" \notin flags'[d]
             /\ \A e \in Drivers : e # d => Same(e)
  BY <1>0, <1>f DEF Forget, Same, Goto
<1>3. ASSUME NEW d \in Drivers, Exit(d) PROVE Quiet
  <2>1. /\ pc'[d] \notin Driving /\ "rejected" \notin flags'[d]
        /\ \A e \in Drivers : e # d => Same(e)
    BY <1>3, <1>f DEF Exit
  <2> QED
    BY <1>0, <1>3, <2>1 DEF Exit, Quiet, Parked, Lock!Relinquish
<1>4. ASSUME NEW d \in Drivers, Crash(d) PROVE Quiet
  <2>1. /\ pc'[d] \notin Driving /\ "rejected" \notin flags'[d]
        /\ \A e \in Drivers : e # d => Same(e)
    BY <1>4, <1>f DEF Crash
  <2> QED
    BY <1>0, <1>4, <2>1 DEF Crash, Quiet, Parked, Lock!Relinquish
<1>5. ASSUME NEW p \in Drivers \cup Resumers, Resume(p) PROVE Quiet
  <2>1. /\ pc[p] \in {"resuming", "reopening"}
        /\ \E x \in Labels \ Driving : Goto(p, x)
        /\ UNCHANGED <<journal, lock, local, faults>>
    BY <1>5 DEF Resume, ResumeRead, ResumeCommit, Resumed
  <2>2. \A s \in Steps : stepStatus'[s] = "completed" <=> stepStatus[s] = "completed"
    BY <1>0, <1>5 DEF Resume, ResumeRead, ResumeCommit
  <2> QED
    BY <1>0, <2>1, <2>2 DEF Quiet, Same, Parked, Goto
<1>6. ASSUME NEW p \in Abandoners, Abandon(p) PROVE Quiet
  BY <1>0, <1>6 DEF Abandon, MarkAbandoned, Quiet, Same, Goto
<1>7. CASE BreakLock
  BY <1>0, <1>7 DEF BreakLock, Quiet, Same, Lock!Compromise
<1>8. CASE UNCHANGED vars
  BY <1>0, <1>8 DEF vars, Quiet, Same
<1> QED
  BY <1>1, <1>2, <1>3, <1>4, <1>5, <1>6, <1>7, <1>8

(* Every step of the system is one of the two kinds.                       *)
LEMMA NextCases ==
  ASSUME [Next]_vars
  PROVE  \/ \E d \in Drivers : DriveStep(d)
         \/ \E d \in Drivers : Read(d) \/ TakeLock(d) \/ Exit(d) \/ Crash(d)
         \/ \E p \in Drivers \cup Resumers : Resume(p)
         \/ \E p \in Abandoners : Abandon(p)
         \/ BreakLock
         \/ UNCHANGED vars
  BY ActorAssumption DEF Next, StepOf, Disturbance, DriveStep

(* The same, with what is known of each kind.                              *)
LEMMA TwoKinds ==
  ASSUME TypeOK, PlaceInv, LockInv, [Next]_vars
  PROVE  Quiet \/ \E d \in Drivers : DriveStep(d) /\ Driven(d)
<1>1. ASSUME NEW d \in Drivers, DriveStep(d) PROVE \E e \in Drivers : DriveStep(e) /\ Driven(e)
  BY <1>1, DrivenStep
<1> QED
  BY <1>1, NextCases, QuietStep

-----------------------------------------------------------------------------
(* The lock and the place of the drivers *)

(* The lock is taken on the way into the drive loop and given up on the    *)
(* way out, or by dying in it.                                             *)
LEMMA LockStep == TypeOK /\ PlaceInv /\ LockInv /\ [Next]_vars => LockInv'
<1> SUFFICES ASSUME TypeOK, PlaceInv, LockInv, [Next]_vars PROVE LockInv'
  OBVIOUS
<1> USE Names, Frame
<1>0. /\ pc \in [Actors -> Labels] /\ holders \subseteq Drivers /\ compromised \in BOOLEAN
      /\ Drivers \subseteq Actors /\ Interruptible \subseteq Drivers
      /\ Drivers \cap (Resumers \cup Abandoners) = {}
      /\ Resumers \subseteq Actors /\ Abandoners \subseteq Actors
  BY ActorAssumption DEF TypeOK, Actors
<1>1. ASSUME NEW d \in Drivers, DriveStep(d) PROVE LockInv'
  BY <1>1, DrivenStep DEF Driven, Same, LockInv
<1>o. ASSUME NEW p \in Actors, pc[p] \notin Driving, NEW x \in Labels \ Driving, Goto(p, x), UNCHANGED lock
      PROVE  LockInv'
  BY <1>0, <1>o DEF LockInv, Goto
<1>2. ASSUME NEW d \in Drivers, Read(d) PROVE LockInv'
  BY <1>0, <1>2, <1>o DEF Read
<1>3. ASSUME NEW d \in Drivers, TakeLock(d) PROVE LockInv'
  <2>1. CASE Lock!Acquire(d) /\ Goto(d, "plan")
    BY <1>0, <2>1 DEF LockInv, Goto, Lock!Acquire
  <2>2. CASE Goto(d, "ended") /\ UNCHANGED lock
    BY <1>0, <1>3, <1>o, <2>2 DEF TakeLock
  <2> QED
    BY <1>3, <2>1, <2>2 DEF TakeLock
<1>4. ASSUME NEW d \in Drivers, Exit(d) PROVE LockInv'
  <2>1. Lock!Relinquish(d) /\ \E x \in Labels \ Driving : Goto(d, x)
    BY <1>4 DEF Exit, Forget
  <2>2. PICK x \in Labels \ Driving : pc' = [pc EXCEPT ![d] = x]
    BY <2>1 DEF Goto
  <2>3. holders' = holders \ {d} /\ compromised' = compromised
    BY <2>1 DEF Lock!Relinquish
  <2> QED
    BY <1>0, <2>2, <2>3 DEF LockInv
<1>5. ASSUME NEW d \in Drivers, Crash(d) PROVE LockInv'
  <2>1. Lock!Relinquish(d) \/ (d \notin holders /\ UNCHANGED lock)
    BY <1>5 DEF Crash
  <2>2. pc' = [pc EXCEPT ![d] = "ended"]
    BY <1>5 DEF Crash, Forget, Goto
  <2>3. /\ \A e \in holders' : e \in holders
        /\ \A e \in Drivers \ {d} : e \in holders => e \in holders'
        /\ d \notin holders' /\ compromised' = compromised
    BY <2>1 DEF Lock!Relinquish
  <2> QED
    BY <1>0, <2>2, <2>3 DEF LockInv
<1>6. ASSUME NEW p \in Drivers \cup Resumers, Resume(p) PROVE LockInv'
  BY <1>0, <1>6, <1>o DEF Resume, ResumeRead, ResumeCommit, Resumed
<1>7. ASSUME NEW p \in Abandoners, Abandon(p) PROVE LockInv'
  BY <1>0, <1>7, <1>o DEF Abandon
<1>8. CASE BreakLock
  BY <1>8 DEF BreakLock, LockInv, Lock!Compromise
<1>9. CASE UNCHANGED vars
  BY <1>9 DEF vars, LockInv
<1> QED
  BY <1>1, <1>2, <1>3, <1>4, <1>5, <1>6, <1>7, <1>8, <1>9, NextCases

(* While the lock is exclusive, a driver in the drive loop is the only     *)
(* one there.                                                              *)
LEMMA Alone ==
  ASSUME LockInv, NEW d \in Drivers, Driven(d), ~compromised', NEW e \in Drivers, e # d
  PROVE  Same(e) /\ pc[e] \notin Driving /\ ~compromised
<1>1. compromised' = compromised
  BY Frame DEF Driven
<1>2. ~compromised
  BY <1>1, Zenon
<1>3. d \in holders /\ (pc[e] \in Driving <=> e \in holders)
  BY DEF LockInv, Driven
<1>4. Same(e)
  BY DEF Driven
<1> QED
  BY <1>2, <1>3, <1>4 DEF LockInv

(* A loop begins at a step, and no later than the last loop it has; a      *)
(* driver past its units is at a gated step exactly when it has a judge.   *)
LEMMA PlaceStep == TypeOK /\ PlaceInv /\ LockInv /\ [Next]_vars => PlaceInv'
<1> SUFFICES ASSUME TypeOK, PlaceInv, LockInv, [Next]_vars PROVE PlaceInv'
  OBVIOUS
<1> USE Names, Frame
<1> DEFINE Busy == {"exec", "gate", "judging", "commit", "settle"}
           PlaceOf(d) ==
             /\ pc[d] \in Busy => at[d] \in Steps /\ loop[d] <= MaxLoops[at[d]]
             /\ pc[d] \in {"gate", "judging", "settle"} => at[d] \in Gated
           RetryOf(d) == pc[d] \in {"resuming", "reopening"} => retries[d] > 0
<1>0. /\ pc \in [Actors -> Labels] /\ at \in [Drivers -> 0..N] /\ loop \in [Drivers -> Loops]
      /\ flags \in [Drivers -> SUBSET Flags]
      /\ Drivers \subseteq Actors /\ Loops \subseteq Nat
      /\ MaxLoops \in [Steps -> Loops] /\ \A d \in Drivers : at[d] # 0 => at[d] \in Steps
  BY PlanAssumption DEF TypeOK, Actors, Loops, Steps
<1>1. (\A d \in Drivers : PlaceOf(d)' /\ RetryOf(d)') => PlaceInv'
  BY DEF PlaceInv
<1>2. \A d \in Drivers : PlaceOf(d) /\ RetryOf(d)
  BY DEF PlaceInv
<1>l. ASSUME NEW d \in Drivers, NEW fs \in SUBSET Flags, Leave(d, fs) PROVE pc'[d] = "exit"
  BY <1>0, <1>l DEF Leave, Goto
<1>b. ASSUME NEW d \in Drivers, NEW l \in Loops, NEW fs \in SUBSET Flags, BeginLoop(d, l, fs),
             at[d] \in Steps, l <= MaxLoops[at[d]], at' = at
      PROVE  PlaceOf(d)'
  <2>1. pc'[d] = "exec" /\ loop'[d] = l
    BY <1>b, BeginLoopMoves
  <2> QED
    BY <1>b, <2>1
<1>3. ASSUME NEW d \in Drivers, DriveStep(d) PROVE PlaceOf(d)'
  <2>1. CASE OpenPlan(d)
    BY <1>0, <1>l, <2>1 DEF OpenPlan, Goto
  <2>2. CASE BeginStep(d)
    <3>1. UNCHANGED at /\ (at[d] # 0 => StartLoop(at[d]) \in Nat \ {0})
      BY <2>2, StartLoopIsNext DEF BeginStep
    <3>2. at[d] # 0 /\ StartLoop(at[d]) <= MaxLoops[at[d]] =>
            at[d] \in Steps /\ StartLoop(at[d]) \in Loops
      BY <1>0, <3>1, PlanAssumption DEF Loops
    <3>3. \/ PlaceOf(d)' \/ pc'[d] \in {"exit", "blocking"}
      BY <1>0, <1>l, <1>b, <2>2, <3>1, <3>2 DEF BeginStep, Goto
    <3> QED
      BY <3>3
  <2>3. CASE EndLoop(d)
    <3>1. UNCHANGED at /\ at[d] \in Steps /\ loop[d] <= MaxLoops[at[d]]
      BY <1>2, <2>3 DEF EndLoop
    <3>2. loop[d] < MaxLoops[at[d]] => loop[d] + 1 \in Loops /\ loop[d] + 1 <= MaxLoops[at[d]]
      BY <1>0, <3>1, PlanAssumption DEF Loops
    <3>3. \/ Leave(d, {"aborted"})
          \/ Goto(d, "failing") \/ Goto(d, "blocking")
          \/ loop[d] < MaxLoops[at[d]] /\ BeginLoop(d, loop[d] + 1, {"worked"})
          \/ UNCHANGED round /\ Goto(d, IF at[d] \in Gated THEN "gate" ELSE "commit")
      BY <2>3 DEF EndLoop
    <3>4. CASE Leave(d, {"aborted"})
      BY <1>l, <3>4
    <3>5. CASE Goto(d, "failing") \/ Goto(d, "blocking")
      BY <1>0, <3>5 DEF Goto
    <3>6. CASE loop[d] < MaxLoops[at[d]] /\ BeginLoop(d, loop[d] + 1, {"worked"})
      BY <1>b, <3>1, <3>2, <3>6
    <3>7. CASE UNCHANGED round /\ Goto(d, IF at[d] \in Gated THEN "gate" ELSE "commit")
      BY <1>0, <3>1, <3>7 DEF Goto
    <3> QED
      BY <3>3, <3>4, <3>5, <3>6, <3>7
  <2>4. ASSUME NEW u \in Units, Dispatch(d, u) \/ Finish(d, u) \/ JournalFails(d, u) PROVE PlaceOf(d)'
    BY <1>2, <2>4 DEF Dispatch, Finish, JournalFails
  <2>5. CASE Failing(d) \/ Blocking(d)
    BY <1>l, <2>5 DEF Failing, Blocking, Stop
  <2>6. CASE Gate(d)
    BY <1>0, <1>2, <1>l, <2>6 DEF Gate, Goto
  <2>7. CASE Judge(d)
    <3>1. UNCHANGED at /\ at[d] \in Steps /\ loop[d] <= MaxLoops[at[d]]
      BY <1>2, <2>7 DEF Judge
    <3>2. loop[d] < MaxLoops[at[d]] => loop[d] + 1 \in Loops /\ loop[d] + 1 <= MaxLoops[at[d]]
      BY <1>0, <3>1, PlanAssumption DEF Loops
    <3>3. \/ Leave(d, {"aborted"}) \/ Leave(d, {"rejected"})
          \/ Goto(d, "blocking")
          \/ loop[d] < MaxLoops[at[d]] /\ BeginLoop(d, loop[d] + 1, {})
          \/ UNCHANGED round /\ Goto(d, "commit")
      BY <2>7 DEF Judge
    <3>4. CASE Leave(d, {"aborted"}) \/ Leave(d, {"rejected"})
      BY <1>l, <3>4
    <3>5. CASE Goto(d, "blocking")
      BY <1>0, <3>5 DEF Goto
    <3>6. CASE loop[d] < MaxLoops[at[d]] /\ BeginLoop(d, loop[d] + 1, {})
      BY <1>b, <3>1, <3>2, <3>6
    <3>7. CASE UNCHANGED round /\ Goto(d, "commit")
      BY <1>0, <3>1, <3>7 DEF Goto
    <3> QED
      BY <3>3, <3>4, <3>5, <3>6, <3>7
  <2>8. CASE Commit(d)
    BY <1>0, <1>2, <1>l, <2>8 DEF Commit, Goto
  <2>9. CASE Settle(d)
    BY <1>0, <2>9 DEF Settle, Goto
  <2>10. CASE NextStep(d)
    BY <1>0, <1>l, <2>10 DEF NextStep, Goto
  <2>11. CASE Interrupt(d)
    BY <1>2, <2>11 DEF Interrupt
  <2> QED
    BY <1>3, <2>1, <2>2, <2>3, <2>4, <2>5, <2>6, <2>7, <2>8, <2>9, <2>10, <2>11
       DEF DriveStep
<1>4. \A d \in Drivers : PlaceOf(d)'
  <2>1. CASE Quiet
    <3> SUFFICES ASSUME NEW d \in Drivers PROVE PlaceOf(d)'
      OBVIOUS
    <3>1. CASE Same(d)
      BY <1>2, <3>1 DEF Same
    <3>2. CASE Parked(d)
      BY <3>2 DEF Parked
    <3> QED
      BY <2>1, <3>1, <3>2 DEF Quiet
  <2>2. ASSUME NEW d \in Drivers, DriveStep(d), Driven(d) PROVE \A e \in Drivers : PlaceOf(e)'
    BY <1>2, <1>3, <2>2 DEF Driven, Same
  <2> QED
    BY <2>1, <2>2, TwoKinds
<1>5. \A d \in Drivers : RetryOf(d)'
  <2>0. /\ retries \in [Drivers -> Nat]
        /\ Drivers \cap (Resumers \cup Abandoners) = {}
        /\ Resumers \subseteq Actors /\ Abandoners \subseteq Actors
    BY ActorAssumption DEF TypeOK, Actors
  <2>1. ASSUME NEW d \in Drivers, DriveStep(d) PROVE \A e \in Drivers : RetryOf(e)'
    <3>1. UNCHANGED retries
      BY <2>1, Frame DEF DriveStep, OpenPlan, BeginStep, EndLoop, Dispatch, Finish,
         JournalFails,
         Failing, Blocking, Stop, Gate, Judge, Commit, Settle, NextStep, Interrupt
    <3> QED
      BY <1>2, <2>1, <3>1, DrivenStep DEF Driven, Same
  <2>2. ASSUME NEW d \in Drivers, Read(d) PROVE \A e \in Drivers : RetryOf(e)'
    BY <1>0, <1>2, <2>2 DEF Read, Goto
  <2>3. ASSUME NEW d \in Drivers, TakeLock(d) PROVE \A e \in Drivers : RetryOf(e)'
    BY <1>0, <1>2, <2>3 DEF TakeLock, Goto
  <2>4. ASSUME NEW d \in Drivers, Exit(d) PROVE \A e \in Drivers : RetryOf(e)'
    <3>1. UNCHANGED retries /\ (Goto(d, "ended") \/ (Goto(d, "resuming") /\ retries[d] > 0))
      BY <2>4 DEF Exit, MayRetry, Forget
    <3> QED
      BY <1>0, <1>2, <3>1 DEF Goto
  <2>5. ASSUME NEW d \in Drivers, Crash(d) PROVE \A e \in Drivers : RetryOf(e)'
    BY <1>0, <1>2, <2>5 DEF Crash, Forget, Goto
  <2>6. ASSUME NEW p \in Drivers \cup Resumers, Resume(p) PROVE \A e \in Drivers : RetryOf(e)'
    <3>1. p \in Drivers => RetryOf(p)
      BY <1>2
    <3>2. CASE /\ UNCHANGED retries
               /\ Goto(p, "ended") \/ (Goto(p, "reopening") /\ pc[p] = "resuming")
      BY <1>0, <1>2, <2>0, <3>1, <3>2 DEF Goto
    <3>3. CASE Resumed(p)
      BY <1>0, <1>2, <2>0, <3>3 DEF Resumed, Goto
    <3> QED
      BY <2>6, <3>2, <3>3 DEF Resume, ResumeRead, ResumeCommit
  <2>7. ASSUME NEW p \in Abandoners, Abandon(p) PROVE \A e \in Drivers : RetryOf(e)'
    BY <1>0, <1>2, <2>0, <2>7 DEF Abandon, Goto
  <2>8. CASE BreakLock
    BY <1>2, <2>8 DEF BreakLock
  <2>9. CASE UNCHANGED vars
    BY <1>2, <2>9 DEF vars
  <2> QED
    BY <2>1, <2>2, <2>3, <2>4, <2>5, <2>6, <2>7, <2>8, <2>9, NextCases
<1> QED
  BY <1>1, <1>4, <1>5
=============================================================================
