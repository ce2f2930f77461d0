------------------------- MODULE ChildWorkflow_proofs -------------------------
(***************************************************************************)
(* Theorems about ChildWorkflow, for any tree of runs, any number of       *)
(* processes and any number of faults.                                     *)
(*                                                                         *)
(* A parent advances on what its driver remembers of its children.  The    *)
(* invariant says where a driver can be with a run (Placed), why what it   *)
(* remembers of a child is still true when it is used (Earned), and what   *)
(* the rows themselves say (Durable).                                      *)
(***************************************************************************)
EXTENDS ChildWorkflow, TLAPS

\* The rows of a run agree, a resume has read a run that is stopped, and a
\* completed attempt has a completed child.
Durable ==
  /\ \A n \in Nodes : /\ run[n].done <= Len[n]
                      /\ run[n].status = "completed" <=> run[n].done = Len[n]
                      /\ run[n].status = "none" => run[n].done = 0
  /\ resuming # None => run[resuming].status \in {"blocked", "failed"}
  /\ \A k \in Children : unit[k] = "completed" => run[k].status = "completed"

\* A process is with a node because it was started on it or because it drives
\* that child; it holds the lock of the nodes it drives; a child it has to
\* do something with is one of the step its parent executes.
Busy(p, k) == out[p][k] \in {"todo", "reserved", "driving", "read"}
Placed(p) ==
  /\ top[p] = None => \A n \in Nodes : pc[p][n] = "idle"
  /\ \A n \in Nodes : pc[p][n] # "idle" /\ n # top[p] => n \in Children /\ out[p][n] = "driving"
  /\ \A n \in Nodes : pc[p][n] \in Driving <=> lock[n] = p
  /\ \A k \in Children : Busy(p, k) => pc[p][Parent[k]] = "exec" /\ Step[k] = at[p][Parent[k]]

\* What a driver takes for a success is one, and a step only passes on successes.
Earned(p) ==
  /\ \A k \in Children : out[p][k] \in {"read", "over"} => verdict[p][k] # "none"
  /\ \A k \in Children : verdict[p][k] = "ok" => run[k].status = "completed"
  /\ \A n \in Nodes : pc[p][n] = "passing" =>
       \A k \in Composed(p, n) : run[k].status = "completed"

\* An attempt in flight is not one that was left behind: it was reclaimed.
Held == \A p \in Procs : \A k \in Children : InFlight(p, k) => k \notin orphans

IInv ==
  /\ TypeOK /\ Durable /\ AdvancesOnCompletedChildren /\ AttemptsFinished /\ Held
  /\ \A p \in Procs : Placed(p) /\ Earned(p)

-----------------------------------------------------------------------------
(* The tree.                                                               *)

LEMMA ParentNode == \A k \in Children : Parent[k] \in Nodes /\ k \in Nodes
BY TreeAssumption DEF Nodes

\* A process is with nodes of one subtree, that of its top.
LEMMA UnderTop == ASSUME NEW p \in Procs, Placed(p), NEW n \in Nodes,
    pc[p][n] # "idle", n # top[p]
  PROVE \E k \in Children : InFlight(p, k) /\ Parent[k] = top[p]
<1> DEFINE S == {k \in Children : pc[p][k] # "idle" /\ k # top[p]}
<1>1. n \in S
  BY DEF Placed
<1>2. PICK k \in S : Parent[k] \notin S
  BY <1>1, AcyclicAssumption
<1>3. InFlight(p, k) /\ pc[p][Parent[k]] = "exec"
  BY <1>2, ParentNode DEF Placed, InFlight, Busy
<1>4. Parent[k] = top[p]
  BY <1>2, <1>3, ParentNode DEF Placed
<1> QED BY <1>3, <1>4

LEMMA TopNotInFlight == ASSUME NEW p \in Procs, Placed(p), NEW k \in Children, InFlight(p, k)
  PROVE k # top[p]
<1> SUFFICES ASSUME k = top[p] PROVE FALSE
  OBVIOUS
<1> DEFINE S == {m \in Children : pc[p][m] # "idle" \/ m = k}
<1>1. PICK m \in S : Parent[m] \notin S
  BY AcyclicAssumption
<1>2. InFlight(p, m)
  BY <1>1, ParentNode DEF Placed, InFlight, Busy
<1>3. pc[p][Parent[m]] = "exec"
  BY <1>2 DEF Placed, InFlight, Busy
<1> QED BY <1>1, <1>3, ParentNode DEF Placed

-----------------------------------------------------------------------------
(* The end of a drive.                                                     *)

LEMMA LeaveType == ASSUME TypeOK, NEW p \in Procs, NEW n \in Nodes,
    NEW how \in {"returned", "thrown"}, Leave(p, n, how)
  PROVE /\ lock' \in [Nodes -> Procs \cup {None}] /\ top' \in [Procs -> Nodes \cup {None}]
        /\ signal' \subseteq Procs /\ pc' \in [Procs -> [Nodes -> Labels]]
        /\ at' \in [Procs -> [Nodes -> Nat]]
        /\ out' \in [Procs -> [Children -> {"none", "todo", "reserved", "driving", "read", "over"}]]
        /\ verdict' \in [Procs -> [Children -> Verdicts]]
<1>1. lock' \in [Nodes -> Procs \cup {None}]
  BY DEF Leave, TypeOK
<1>2. top' \in [Procs -> Nodes \cup {None}] /\ signal' \subseteq Procs
  BY DEF Leave, TypeOK
<1>3. "idle" \in Labels /\ how \in Labels /\ "none" \in Verdicts
  BY DEF Labels, Verdicts
<1>4. pc' \in [Procs -> [Nodes -> Labels]]
  <2>1. PICK l \in Labels : pc' = [pc EXCEPT ![p][n] = l]
    BY <1>3 DEF Leave, Goto
  <2>2. pc \in [Procs -> [Nodes -> Labels]]
    BY DEF TypeOK
  <2> QED BY <2>1, <2>2
<1>5. at' \in [Procs -> [Nodes -> Nat]]
  BY DEF Leave, TypeOK
<1>6. out' \in [Procs -> [Children -> {"none", "todo", "reserved", "driving", "read", "over"}]]
  BY DEF Leave, TypeOK
<1>7. verdict' \in [Procs -> [Children -> Verdicts]]
  BY <1>3 DEF Leave, TypeOK
<1> QED BY <1>1, <1>2, <1>4, <1>5, <1>6, <1>7

\* Where everybody is after the end of a drive.
LEMMA LeaveEffect == ASSUME TypeOK, NEW p \in Procs, NEW n \in Nodes,
    NEW how \in {"returned", "thrown"}, Leave(p, n, how)
  PROVE /\ \A q \in Procs \ {p} : /\ pc'[q] = pc[q] /\ at'[q] = at[q] /\ out'[q] = out[q]
                                  /\ verdict'[q] = verdict[q] /\ top'[q] = top[q]
        /\ \A m \in Nodes \ {n} : pc'[p][m] = pc[p][m] /\ at'[p][m] = at[p][m] /\ lock'[m] = lock[m]
        /\ lock'[n] = IF lock[n] = p THEN None ELSE lock[n]
        /\ \A k \in Children : IF Parent[k] = n THEN out'[p][k] = "none" /\ verdict'[p][k] = "none"
                               ELSE out'[p][k] = out[p][k] /\ verdict'[p][k] = verdict[p][k]
        /\ IF top[p] = n THEN top'[p] = None /\ pc'[p][n] = "idle"
                         ELSE top'[p] = top[p] /\ pc'[p][n] = how
BY DEF Leave, Goto, TypeOK

LEMMA LeavePlaced == ASSUME TypeOK, NEW p \in Procs, Placed(p), NEW n \in Nodes,
    pc[p][n] # "idle", \A k \in Children : Parent[k] = n => ~InFlight(p, k),
    NEW how \in {"returned", "thrown"}, Leave(p, n, how)
  PROVE Placed(p)'
<1>1. \A m \in Nodes : m # n => pc'[p][m] = pc[p][m] /\ lock'[m] = lock[m] /\ at'[p][m] = at[p][m]
  BY LeaveEffect
<1>2. CASE top[p] = n
  <2>1. \A m \in Nodes : m # n => pc[p][m] = "idle"
    BY <1>2, UnderTop
  <2>2. top'[p] = None /\ \A m \in Nodes : pc'[p][m] = "idle"
    BY <1>1, <1>2, <2>1, LeaveEffect
  <2>3. \A m \in Nodes : lock'[m] # p
    BY <1>1, <2>1, LeaveEffect, TreeAssumption DEF Placed, Driving
  <2>4. \A k \in Children : ~Busy(p, k)'
    <3> SUFFICES ASSUME NEW k \in Children PROVE ~Busy(p, k)'
      OBVIOUS
    <3>1. CASE Parent[k] = n
      BY <3>1, LeaveEffect DEF Busy
    <3>2. CASE Parent[k] # n
      <4>1. out'[p][k] = out[p][k] /\ ~Busy(p, k)
        BY <2>1, <3>2, LeaveEffect, ParentNode DEF Placed
      <4> QED BY <4>1 DEF Busy
    <3> QED BY <3>1, <3>2
  <2> QED BY <2>2, <2>3, <2>4 DEF Placed, Driving
<1>3. CASE top[p] # n
  <2>1. top'[p] = top[p] /\ top[p] # None /\ pc'[p][n] = how
    BY <1>3, LeaveEffect DEF Placed
  <2>2. \A m \in Nodes : pc'[p][m] # "idle" /\ m # top'[p] => m \in Children /\ out'[p][m] = "driving"
    <3> SUFFICES ASSUME NEW m \in Nodes, pc'[p][m] # "idle", m # top'[p]
                 PROVE m \in Children /\ out'[p][m] = "driving"
      OBVIOUS
    <3>1. m \in Children /\ out[p][m] = "driving"
      BY <1>1, <2>1 DEF Placed
    <3>2. Parent[m] # n
      BY <3>1 DEF InFlight
    <3> QED BY <3>1, <3>2, LeaveEffect
  <2>3. \A m \in Nodes : pc'[p][m] \in Driving <=> lock'[m] = p
    BY <1>1, <2>1, LeaveEffect, TreeAssumption DEF Placed, Driving
  <2>4. ASSUME NEW k \in Children, Busy(p, k)'
        PROVE pc'[p][Parent[k]] = "exec" /\ Step[k] = at'[p][Parent[k]]
    <3>1. Parent[k] # n /\ out'[p][k] = out[p][k]
      BY <2>4, LeaveEffect DEF Busy
    <3>2. Busy(p, k)
      BY <2>4, <3>1 DEF Busy
    <3> QED BY <1>1, <3>1, <3>2, ParentNode DEF Placed
  <2> QED BY <2>1, <2>2, <2>3, <2>4 DEF Placed
<1> QED BY <1>2, <1>3

LEMMA LeaveEarned == ASSUME TypeOK, NEW p \in Procs, Earned(p), NEW n \in Nodes,
    NEW how \in {"returned", "thrown"}, Leave(p, n, how),
    \A m \in Nodes : run[m].status = "completed" => run'[m].status = "completed"
  PROVE Earned(p)'
<1>1. \A k \in Children :
        /\ out'[p][k] \in {"read", "over"} => verdict'[p][k] # "none"
        /\ verdict'[p][k] = "ok" => run[k].status = "completed"
  <2> SUFFICES ASSUME NEW k \in Children
               PROVE /\ out'[p][k] \in {"read", "over"} => verdict'[p][k] # "none"
                     /\ verdict'[p][k] = "ok" => run[k].status = "completed"
    OBVIOUS
  <2>1. CASE Parent[k] = n
    BY <2>1, LeaveEffect
  <2>2. CASE Parent[k] # n
    BY <2>2, LeaveEffect DEF Earned
  <2> QED BY <2>1, <2>2
<1>2. ASSUME NEW m \in Nodes, pc'[p][m] = "passing"
      PROVE \A k \in Composed(p, m)' : run'[k].status = "completed"
  <2>1. pc[p][m] = "passing" /\ at'[p][m] = at[p][m]
    BY <1>2, LeaveEffect
  <2> QED BY <2>1, ParentNode DEF Earned, Composed
<1>3. \A k \in Children : verdict'[p][k] = "ok" => run'[k].status = "completed"
  BY <1>1, ParentNode
<1>4. \A m \in Nodes : pc'[p][m] = "passing" => \A k \in Composed(p, m)' : run'[k].status = "completed"
  BY <1>2
<1>5. \A k \in Children : out'[p][k] \in {"read", "over"} => verdict'[p][k] # "none"
  BY <1>1
<1> QED BY <1>3, <1>4, <1>5 DEF Earned

-----------------------------------------------------------------------------
(* Types.                                                                  *)

LEMMA GotoType == ASSUME TypeOK, NEW p \in Procs, NEW n \in Nodes, NEW l \in Labels, Goto(p, n, l)
  PROVE pc' \in [Procs -> [Nodes -> Labels]]
BY DEF Goto, TypeOK

LEMMA AtType == ASSUME TypeOK, NEW p \in Procs, NEW n \in Nodes,
    at' = [at EXCEPT ![p][n] = run[n].done + 1]
  PROVE at' \in [Procs -> [Nodes -> Nat]]
BY DEF TypeOK

LEMMA AdvanceType == ASSUME TypeOK, NEW p \in Procs, NEW k \in Children,
    NEW how \in {"reserved", "driving", "read", "over"}, NEW v \in Verdicts, Advance(p, k, how, v)
  PROVE /\ out' \in [Procs -> [Children -> {"none", "todo", "reserved", "driving", "read", "over"}]]
        /\ verdict' \in [Procs -> [Children -> Verdicts]]
BY DEF Advance, TypeOK

LEMMA FaultType == ASSUME TypeOK, Fault PROVE faults' \in 0..MaxFaults
BY TreeAssumption DEF Fault, TypeOK

Row == [status : {"none", "active", "blocked", "failed", "completed"}, done : Nat]

\* The drive loop of one run.
LEMMA DriveType == ASSUME IInv, NEW p \in Procs, NEW n \in Nodes,
    \/ Start(p, n) \/ Read(p, n) \/ TakeLock(p, n) \/ BeginStep(p, n)
    \/ EndStep(p, n) \/ Complete(p, n) \/ NextStep(p, n)
  PROVE TypeOK'
<1> USE DEF durable, driver
<1>l. TypeOK /\ Durable
  BY DEF IInv
<1>m. {"idle", "read", "lock", "step", "exec", "passing", "failing", "blocking", "next"} \subseteq Labels
  BY DEF Labels, Driving
<1>1. CASE Start(p, n)
  <2>1. pc' \in [Procs -> [Nodes -> Labels]]
    BY <1>l, <1>m, <1>1, GotoType DEF Start
  <2> QED BY <1>l, <1>1, <2>1 DEF Start, TypeOK
<1>2. CASE Read(p, n)
  <2>1. CASE run[n].status = "active"
    <3>1. pc' \in [Procs -> [Nodes -> Labels]] /\ at' \in [Procs -> [Nodes -> Nat]]
      BY <1>l, <1>m, <1>2, <2>1, GotoType, AtType DEF Read
    <3> QED BY <1>l, <1>2, <2>1, <3>1 DEF Read, TypeOK
  <2>2. CASE run[n].status # "active"
    <3>1. Leave(p, n, "returned") \/ Leave(p, n, "thrown")
      BY <1>2, <2>2 DEF Read
    <3> QED BY <1>l, <1>2, <3>1, LeaveType DEF Read, TypeOK
  <2> QED BY <2>1, <2>2
<1>3. CASE TakeLock(p, n)
  <2>1. CASE lock[n] = None
    <3>1. pc' \in [Procs -> [Nodes -> Labels]]
      BY <1>l, <1>m, <1>3, <2>1, GotoType DEF TakeLock
    <3> QED BY <1>l, <1>3, <2>1, <3>1 DEF TakeLock, TypeOK
  <2>2. CASE lock[n] # None
    BY <1>l, <1>3, <2>2, LeaveType DEF TakeLock, TypeOK
  <2> QED BY <2>1, <2>2
<1>4. CASE BeginStep(p, n)
  <2>1. CASE p \in signal
    BY <1>l, <1>4, <2>1, LeaveType DEF BeginStep, TypeOK
  <2>2. CASE p \notin signal
    <3>1. pc' \in [Procs -> [Nodes -> Labels]]
      BY <1>l, <1>m, <1>4, <2>2, GotoType DEF BeginStep
    <3>2. out' \in [Procs -> [Children -> {"none", "todo", "reserved", "driving", "read", "over"}]]
      <4>1. PICK d \in SUBSET Children : out' = [out EXCEPT ![p] = [k \in Children |->
              IF k \in d THEN "over" ELSE IF k \in Composed(p, n) THEN "todo" ELSE @[k]]]
        BY <1>4, <2>2 DEF BeginStep, Composed
      <4> QED BY <1>l, <4>1 DEF TypeOK
    <3>3. verdict' \in [Procs -> [Children -> Verdicts]]
      <4>1. PICK d \in SUBSET Children : verdict' = [verdict EXCEPT ![p] = [k \in Children |->
              IF k \in d THEN "ok" ELSE @[k]]]
        BY <1>4, <2>2 DEF BeginStep, Composed
      <4>2. "ok" \in Verdicts
        BY DEF Verdicts
      <4> QED BY <1>l, <4>1, <4>2 DEF TypeOK
    <3> QED BY <1>l, <1>4, <2>2, <3>1, <3>2, <3>3 DEF BeginStep, TypeOK
  <2> QED BY <2>1, <2>2
<1>5. CASE EndStep(p, n)
  <2>1. faults' \in 0..MaxFaults
    BY <1>l, <1>5, FaultType DEF EndStep, TypeOK
  <2>2. CASE Leave(p, n, "returned")
    BY <1>l, <1>5, <2>1, <2>2, LeaveType DEF EndStep, TypeOK
  <2>3. CASE ~Leave(p, n, "returned")
    <3>1. \E l \in {"passing", "failing", "blocking"} : Goto(p, n, l)
      BY <1>5, <2>3 DEF EndStep
    <3>2. pc' \in [Procs -> [Nodes -> Labels]]
      BY <1>l, <1>m, <3>1, GotoType
    <3> QED BY <1>l, <1>5, <2>1, <2>3, <3>2 DEF EndStep, TypeOK
  <2> QED BY <2>2, <2>3
<1>6. CASE Complete(p, n)
  <2>1. run' \in [Nodes -> Row] /\ \A m \in Nodes : run'[m].done <= Len[m]
    <3>1. CASE run' = run
      BY <1>l, <3>1 DEF TypeOK, Row
    <3>2. CASE run' # run
      <4>1. MayComplete(p, n) /\ run[n].done + 1 <= Len[n]
        <5>1. MayComplete(p, n) /\ run[n].status = "active"
          BY <1>6, <3>2 DEF Complete, MayComplete
        <5>2. run[n].done \in Nat /\ Len[n] \in Nat /\ run[n].done <= Len[n] /\ run[n].done # Len[n]
          BY <1>l, <5>1, TreeAssumption DEF Durable, TypeOK
        <5> QED BY <5>1, <5>2
      <4>2. \E s \in {"active", "blocked", "failed", "completed"}, d \in {run[n].done, run[n].done + 1} :
              run' = [run EXCEPT ![n] = [status |-> s, done |-> d]]
        BY <1>l, <1>6, <3>2 DEF Complete, TypeOK
      <4> QED BY <1>l, <4>1, <4>2 DEF TypeOK, Row
    <3> QED BY <3>1, <3>2
  <2>2. CASE \E how \in {"returned", "thrown"} : Leave(p, n, how)
    BY <1>l, <1>6, <2>1, <2>2, LeaveType DEF Complete, TypeOK, Row
  <2>3. CASE Goto(p, n, "next") /\ UNCHANGED <<lock, top, signal, at, out, verdict>>
    <3>1. pc' \in [Procs -> [Nodes -> Labels]]
      BY <1>l, <1>m, <2>3, GotoType
    <3> QED BY <1>l, <1>6, <2>1, <2>3, <3>1 DEF Complete, TypeOK, Row
  <2> QED BY <1>6, <2>2, <2>3 DEF Complete
<1>7. CASE NextStep(p, n)
  <2>1. CASE run[n].status = "active"
    <3>1. pc' \in [Procs -> [Nodes -> Labels]] /\ at' \in [Procs -> [Nodes -> Nat]]
      BY <1>l, <1>m, <1>7, <2>1, GotoType, AtType DEF NextStep
    <3> QED BY <1>l, <1>7, <2>1, <3>1 DEF NextStep, TypeOK
  <2>2. CASE run[n].status # "active"
    BY <1>l, <1>7, <2>2, LeaveType DEF NextStep, TypeOK
  <2> QED BY <2>1, <2>2
<1> QED BY <1>1, <1>2, <1>3, <1>4, <1>5, <1>6, <1>7

\* The unit of one child, and the other commands.
LEMMA UnitType == ASSUME IInv, NEW p \in Procs, NEW k \in Children,
    Reserve(p, k) \/ Publish(p, k) \/ Return(p, k) \/ Finish(p, k) \/ JournalFails(p, k)
  PROVE TypeOK'
<1> USE DEF durable, driver
<1>l. TypeOK /\ Durable /\ Placed(p) /\ Earned(p) /\ k \in Nodes
  BY ParentNode DEF IInv
<1>v. {"none", "ok", "bad", "blocked", "lost"} \subseteq Verdicts /\ {"idle", "read"} \subseteq Labels
  BY DEF Verdicts, Labels
<1>1. CASE Reserve(p, k)
  <2>1. \E how \in {"reserved", "driving", "read", "over"}, v \in Verdicts : Advance(p, k, how, v)
    BY <1>v, <1>1 DEF Reserve
  <2>2. faults' \in 0..MaxFaults /\ orphans' \subseteq Children
    BY <1>l, <1>1, FaultType DEF Reserve, TypeOK
  <2> QED BY <1>l, <1>1, <2>1, <2>2, AdvanceType DEF Reserve, TypeOK
<1>2. CASE Publish(p, k)
  <2>1. \E how \in {"reserved", "driving", "read", "over"}, v \in Verdicts : Advance(p, k, how, v)
    BY <1>v, <1>2 DEF Publish, VerdictOf
  <2>2. pc' \in [Procs -> [Nodes -> Labels]]
    BY <1>l, <1>v, <1>2, GotoType DEF Publish, TypeOK
  <2>3. /\ run' \in [Nodes -> Row]
        /\ \A n \in Nodes : run'[n].done <= Len[n]
    <3>1. CASE run' = run
      BY <1>l, <3>1 DEF TypeOK, Row
    <3>2. CASE run' # run
      <4>1. run' = [run EXCEPT ![k] = [status |-> "active", done |-> 0]]
        BY <1>l, <1>2, <3>2 DEF Publish, Published, TypeOK
      <4>2. 0 <= Len[k]
        BY <1>l, TreeAssumption
      <4> QED BY <1>l, <4>1, <4>2 DEF TypeOK, Row
    <3> QED BY <3>1, <3>2
  <2>4. faults' \in 0..MaxFaults
    BY <1>l, <1>2, FaultType DEF Publish, TypeOK
  <2> QED BY <1>l, <1>2, <2>1, <2>2, <2>3, <2>4, AdvanceType DEF Publish, TypeOK, Row
<1>3. CASE Return(p, k)
  <2>1. \E how \in {"reserved", "driving", "read", "over"}, v \in Verdicts : Advance(p, k, how, v)
    BY <1>v, <1>3 DEF Return, VerdictOf, AfterThrow
  <2>2. pc' \in [Procs -> [Nodes -> Labels]]
    BY <1>l, <1>v, <1>3, GotoType DEF Return
  <2> QED BY <1>l, <1>3, <2>1, <2>2, AdvanceType DEF Return, TypeOK
<1>4. CASE Finish(p, k)
  <2>1. \E how \in {"reserved", "driving", "read", "over"}, v \in Verdicts : Advance(p, k, how, v)
    BY <1>l, <1>4 DEF Finish, TypeOK
  <2> QED BY <1>l, <1>4, <2>1, AdvanceType DEF Finish, TypeOK
<1>5. CASE JournalFails(p, k)
  <2>1. \E how \in {"reserved", "driving", "read", "over"}, v \in Verdicts : Advance(p, k, how, v)
    BY <1>v, <1>5 DEF JournalFails
  <2>2. faults' \in 0..MaxFaults /\ orphans' \subseteq Children
    BY <1>l, <1>5, FaultType DEF JournalFails, TypeOK
  <2> QED BY <1>l, <1>5, <2>1, <2>2, AdvanceType DEF JournalFails, TypeOK
<1> QED BY <1>1, <1>2, <1>3, <1>4, <1>5

LEMMA AroundType == ASSUME IInv, \/ \E n \in Nodes : Resume(n) \/ Abandon(n)
                                 \/ \E p \in Procs : Interrupt(p) \/ Crash(p)
  PROVE TypeOK'
<1> USE DEF durable, driver
<1>l. TypeOK
  BY DEF IInv
<1>1. ASSUME NEW n \in Nodes, Resume(n) PROVE TypeOK'
  <2>1. CASE ResumeRead(n)
    BY <1>l, <2>1 DEF ResumeRead, TypeOK
  <2>2. CASE ResumeCommit(n)
    BY <1>l, <2>2 DEF ResumeCommit, TypeOK
  <2> QED BY <1>1, <2>1, <2>2 DEF Resume
<1>2. ASSUME NEW n \in Nodes, Abandon(n) PROVE TypeOK'
  <2>1. faults' \in 0..MaxFaults
    BY <1>l, <1>2, FaultType DEF Abandon
  <2> QED BY <1>l, <1>2, <2>1 DEF Abandon, TypeOK
<1>3. ASSUME NEW p \in Procs, Interrupt(p) PROVE TypeOK'
  <2>1. faults' \in 0..MaxFaults
    BY <1>l, <1>3, FaultType DEF Interrupt
  <2> QED BY <1>l, <1>3, <2>1 DEF Interrupt, TypeOK
<1>4. ASSUME NEW p \in Procs, Crash(p) PROVE TypeOK'
  <2>1. faults' \in 0..MaxFaults /\ orphans' \subseteq Children
    BY <1>l, <1>4, FaultType DEF Crash, TypeOK
  <2>2. "idle" \in Labels /\ "none" \in Verdicts
    BY DEF Labels, Verdicts
  <2>3. /\ lock' \in [Nodes -> Procs \cup {None}] /\ top' \in [Procs -> Nodes \cup {None}]
        /\ signal' \subseteq Procs
    BY <1>l, <1>4 DEF Crash, TypeOK
  <2>4. pc' \in [Procs -> [Nodes -> Labels]] /\ at' \in [Procs -> [Nodes -> Nat]]
    BY <1>l, <1>4, <2>2 DEF Crash, TypeOK
  <2>5. /\ out' \in [Procs -> [Children -> {"none", "todo", "reserved", "driving", "read", "over"}]]
        /\ verdict' \in [Procs -> [Children -> Verdicts]]
    BY <1>l, <1>4, <2>2 DEF Crash, TypeOK
  <2> QED BY <1>l, <1>4, <2>1, <2>3, <2>4, <2>5 DEF Crash, TypeOK
<1> QED BY <1>1, <1>2, <1>3, <1>4

LEMMA TypeStep == IInv /\ [Next]_vars => TypeOK'
<1> SUFFICES ASSUME IInv, [Next]_vars PROVE TypeOK'
  OBVIOUS
<1>1. CASE UNCHANGED vars
  BY <1>1 DEF IInv, vars, durable, driver, TypeOK
<1> QED BY <1>1, DriveType, UnitType, AroundType DEF Next, StepOf

-----------------------------------------------------------------------------
(* The rows.                                                               *)

\* What one step may make of the run of a node.
Begun(n) == run[n].status = "none" /\ run'[n] = [status |-> "active", done |-> 0]
Advanced(n) ==
  /\ run[n].status = "active" /\ run[n].done < Len[n]
  /\ run'[n] = [status |-> IF run[n].done + 1 = Len[n] THEN "completed" ELSE "active",
                done |-> run[n].done + 1]
Stopped(n) ==
  /\ run[n].status \in {"active", "blocked"} /\ run'[n].done = run[n].done
  /\ run'[n].status \in {"blocked", "failed"} \ {run[n].status}
Reopened(n) ==
  /\ run[n].status \in {"blocked", "failed"}
  /\ run'[n].status = "active" /\ run'[n].done = run[n].done
Moved(n) == run'[n] = run[n] \/ Begun(n) \/ Advanced(n) \/ Stopped(n) \/ Reopened(n)

\* A run that is reopened is the one that was read.
LEMMA RunStep == ASSUME IInv, [Next]_vars
  PROVE \A n \in Nodes : Moved(n) /\ (Reopened(n) => resuming' = None)
<1> USE DEF durable
<1>l. TypeOK /\ Durable
  BY DEF IInv
<1>1. ASSUME NEW p \in Procs, NEW n \in Nodes, Complete(p, n) PROVE \A m \in Nodes : Moved(m) /\ ~Reopened(m)
  <2>1. CASE run' = run
    BY <2>1 DEF Moved, Reopened
  <2>2. CASE run' # run
    <3>1. MayComplete(p, n) /\ run[n].status = "active"
      BY <1>1, <2>2 DEF Complete, MayComplete
    <3>2. run[n].done \in Nat /\ Len[n] \in Nat /\ run[n].done <= Len[n] /\ run[n].done # Len[n]
      BY <1>l, <3>1, TreeAssumption DEF Durable, TypeOK
    <3>3. \A m \in Nodes : m # n => run'[m] = run[m]
      BY <1>l, <1>1, <2>2 DEF Complete, TypeOK
    <3>4. CASE pc[p][n] = "passing"
      <4>1. run'[n] = [status |-> IF run[n].done + 1 = Len[n] THEN "completed" ELSE "active",
                       done |-> run[n].done + 1]
        BY <1>l, <1>1, <2>2, <3>4 DEF Complete, TypeOK
      <4>2. Advanced(n)
        BY <3>1, <3>2, <4>1 DEF Advanced
      <4> QED BY <3>1, <3>3, <4>2 DEF Moved, Reopened
    <3>5. CASE pc[p][n] # "passing"
      <4>1. run'[n].status \in {"failed", "blocked"} /\ run'[n].done = run[n].done
        BY <1>l, <1>1, <2>2, <3>5 DEF Complete, TypeOK
      <4> QED BY <3>1, <3>3, <4>1 DEF Moved, Reopened, Stopped
    <3> QED BY <3>4, <3>5
  <2> QED BY <2>1, <2>2
<1>2. ASSUME NEW p \in Procs, NEW k \in Children, Publish(p, k) PROVE \A m \in Nodes : Moved(m) /\ ~Reopened(m)
  <2>1. CASE run' = run
    BY <2>1 DEF Moved, Reopened
  <2>2. CASE run' # run
    <3>1. run' = [run EXCEPT ![k] = [status |-> "active", done |-> 0]] /\ run[k].status = "none"
      BY <1>l, <1>2, <2>2 DEF Publish, Published, TypeOK
    <3>2. \A m \in Nodes : IF m = k THEN Begun(m) ELSE run'[m] = run[m]
      BY <1>l, <3>1, ParentNode DEF Begun, TypeOK
    <3> QED BY <3>1, <3>2 DEF Moved, Begun, Reopened
  <2> QED BY <2>1, <2>2
<1>3. ASSUME NEW n \in Nodes, ResumeCommit(n) PROVE resuming' = None /\ \A m \in Nodes : Moved(m)
  <2>1. resuming' = None /\ run[n].status \in {"blocked", "failed"}
    BY <1>l, <1>3, TreeAssumption DEF ResumeCommit, Durable
  <2>2. \A m \in Nodes : IF m = n THEN run'[m].status = "active" /\ run'[m].done = run[m].done
                         ELSE run'[m] = run[m]
    BY <1>l, <1>3 DEF ResumeCommit, TypeOK
  <2> QED BY <2>1, <2>2 DEF Moved, Reopened
<1>4. ASSUME NEW n \in Nodes, Abandon(n) PROVE \A m \in Nodes : Moved(m) /\ ~Reopened(m)
  <2>1. \A m \in Nodes : IF m = n THEN run'[m].status = "failed" /\ run'[m].done = run[m].done
                         ELSE run'[m] = run[m]
    BY <1>l, <1>4 DEF Abandon, TypeOK
  <2> QED BY <1>4, <2>1 DEF Abandon, Moved, Stopped, Reopened
<1>5. CASE run' = run
  BY <1>5 DEF Moved, Reopened
<1>6. ASSUME NEW p \in Procs, NEW n \in Nodes,
             \/ Start(p, n) \/ Read(p, n) \/ TakeLock(p, n) \/ BeginStep(p, n)
             \/ EndStep(p, n) \/ NextStep(p, n)
      PROVE run' = run
  BY <1>6 DEF Start, Read, TakeLock, BeginStep, EndStep, NextStep
<1>7. ASSUME NEW p \in Procs, NEW k \in Children, Reserve(p, k) \/ Return(p, k) \/ Finish(p, k) \/ JournalFails(p, k)
      PROVE run' = run
  BY <1>7 DEF Reserve, Return, Finish, JournalFails
<1>8. ASSUME NEW p \in Procs, Interrupt(p) \/ Crash(p) PROVE run' = run
  BY <1>8 DEF Interrupt, Crash
<1>9. ASSUME NEW n \in Nodes, ResumeRead(n) PROVE run' = run
  BY <1>9 DEF ResumeRead
<1>10. CASE UNCHANGED vars
  BY <1>5, <1>10 DEF vars
<1> QED BY <1>1, <1>2, <1>3, <1>4, <1>5, <1>6, <1>7, <1>8, <1>9, <1>10 DEF Next, StepOf, Resume

LEMMA CompletedStays == ASSUME IInv, [Next]_vars, NEW n \in Nodes, run[n].status = "completed"
  PROVE run'[n].status = "completed"
BY RunStep DEF Moved, Begun, Advanced, Stopped, Reopened

LEMMA DurableStep == ASSUME IInv, [Next]_vars PROVE Durable'
<1>l. TypeOK /\ TypeOK' /\ Durable
  BY TypeStep DEF IInv
<1>1. ASSUME NEW n \in Nodes
      PROVE /\ run'[n].done <= Len[n]
            /\ run'[n].status = "completed" <=> run'[n].done = Len[n]
            /\ run'[n].status = "none" => run'[n].done = 0
  <2>1. run[n].done \in Nat /\ Len[n] \in Nat /\ Len[n] # 0
    BY <1>l, TreeAssumption DEF TypeOK
  <2>2. /\ run[n].done <= Len[n] /\ (run[n].status = "completed" <=> run[n].done = Len[n])
        /\ run[n].status = "none" => run[n].done = 0
    BY <1>l DEF Durable
  <2>3. CASE run'[n] = run[n]
    BY <2>2, <2>3
  <2>4. CASE Begun(n)
    BY <2>1, <2>4 DEF Begun
  <2>5. CASE Advanced(n)
    BY <2>1, <2>2, <2>5 DEF Advanced
  <2>6. CASE Stopped(n) \/ Reopened(n)
    BY <2>1, <2>2, <2>6 DEF Stopped, Reopened
  <2> QED BY <2>3, <2>4, <2>5, <2>6, RunStep DEF Moved
<1>2. resuming' # None => run'[resuming'].status \in {"blocked", "failed"}
  <2> SUFFICES ASSUME resuming' # None PROVE run'[resuming'].status \in {"blocked", "failed"}
    OBVIOUS
  <2>1. CASE resuming' = resuming
    <3>1. resuming \in Nodes /\ run[resuming].status \in {"blocked", "failed"}
      BY <1>l, <2>1 DEF TypeOK, Durable
    <3> QED BY <2>1, <3>1, RunStep DEF Moved, Begun, Advanced, Stopped
  <2>2. CASE resuming' # resuming
    <3>1. PICK n \in Nodes : ResumeRead(n)
      <4>1. ASSUME NEW p \in Procs, NEW n \in Nodes,
                   \/ Start(p, n) \/ Read(p, n) \/ TakeLock(p, n) \/ BeginStep(p, n)
                   \/ EndStep(p, n) \/ Complete(p, n) \/ NextStep(p, n)
            PROVE FALSE
        BY <2>2, <4>1 DEF Start, Read, TakeLock, BeginStep, EndStep, Complete, NextStep
      <4>2. ASSUME NEW p \in Procs, NEW k \in Children,
                   Reserve(p, k) \/ Publish(p, k) \/ Return(p, k) \/ Finish(p, k) \/ JournalFails(p, k)
            PROVE FALSE
        BY <2>2, <4>2 DEF Reserve, Publish, Return, Finish, JournalFails
      <4>3. ASSUME NEW p \in Procs, Interrupt(p) \/ Crash(p) PROVE FALSE
        BY <2>2, <4>3 DEF Interrupt, Crash
      <4>4. ASSUME NEW n \in Nodes, ResumeCommit(n) \/ Abandon(n) PROVE FALSE
        BY <2>2, <4>4 DEF ResumeCommit, Abandon
      <4>5. ~UNCHANGED vars
        BY <2>2 DEF vars
      <4> QED BY <4>1, <4>2, <4>3, <4>4, <4>5 DEF Next, StepOf, Resume
    <3> QED BY <3>1 DEF ResumeRead, durable
  <2> QED BY <2>1, <2>2
<1>3. ASSUME NEW k \in Children, unit'[k] = "completed" PROVE run'[k].status = "completed"
  <2>1. CASE unit[k] = "completed"
    BY <1>l, <2>1, ParentNode, CompletedStays DEF Durable
  <2>2. CASE unit[k] # "completed"
    <3>1. PICK p \in Procs, m \in Children : Finish(p, m)
      <4>1. ASSUME NEW p \in Procs, NEW n \in Nodes,
                   \/ Start(p, n) \/ Read(p, n) \/ TakeLock(p, n) \/ BeginStep(p, n)
                   \/ EndStep(p, n) \/ Complete(p, n) \/ NextStep(p, n)
            PROVE unit' = unit
        BY <4>1 DEF Start, Read, TakeLock, BeginStep, EndStep, Complete, NextStep, durable
      <4>2. ASSUME NEW p \in Procs, NEW m \in Children,
                   Publish(p, m) \/ Return(p, m) \/ JournalFails(p, m)
            PROVE unit' = unit
        BY <4>2 DEF Publish, Return, JournalFails, durable
      <4>3. ASSUME NEW p \in Procs, NEW m \in Children, Reserve(p, m)
            PROVE unit' = unit \/ unit'[k] # "completed"
        BY <1>l, <2>2, <4>3 DEF Reserve, TypeOK
      <4>4. ASSUME NEW p \in Procs, Interrupt(p) \/ Crash(p) PROVE unit' = unit
        BY <4>4 DEF Interrupt, Crash, durable
      <4>5. ASSUME NEW n \in Nodes, ResumeRead(n) \/ ResumeCommit(n) \/ Abandon(n) PROVE unit' = unit
        BY <4>5 DEF ResumeRead, ResumeCommit, Abandon, durable
      <4>6. UNCHANGED vars => unit' = unit
        BY DEF vars, durable
      <4> QED BY <1>3, <2>2, <4>1, <4>2, <4>3, <4>4, <4>5, <4>6 DEF Next, StepOf, Resume
    <3>2. m = k /\ verdict[p][k] = "ok"
      BY <1>l, <1>3, <2>2, <3>1 DEF Finish, TypeOK
    <3>3. run[k].status = "completed"
      BY <3>2 DEF IInv, Earned
    <3> QED BY <3>3, ParentNode, CompletedStays
  <2> QED BY <2>1, <2>2
<1> QED BY <1>1, <1>2, <1>3 DEF Durable

-----------------------------------------------------------------------------
(* The processes.                                                          *)

Good(p) == Placed(p) /\ Earned(p)

\* A step that leaves a process alone leaves it good.
Untouched(q) ==
  /\ pc'[q] = pc[q] /\ at'[q] = at[q] /\ out'[q] = out[q]
  /\ verdict'[q] = verdict[q] /\ top'[q] = top[q]
  /\ \A n \in Nodes : lock'[n] = q <=> lock[n] = q

LEMMA UntouchedGood == ASSUME NEW q \in Procs, Good(q), Untouched(q),
    \A m \in Nodes : run[m].status = "completed" => run'[m].status = "completed"
  PROVE Good(q)'
<1>1. Placed(q)'
  BY DEF Good, Untouched, Placed, Busy
<1>2. \A n \in Nodes : pc'[q][n] = "passing" => \A k \in Composed(q, n)' : run'[k].status = "completed"
  BY ParentNode DEF Good, Untouched, Earned, Composed
<1>3. \A k \in Children : /\ out'[q][k] \in {"read", "over"} => verdict'[q][k] # "none"
                          /\ verdict'[q][k] = "ok" => run'[k].status = "completed"
  BY ParentNode DEF Good, Untouched, Earned
<1> QED BY <1>1, <1>2, <1>3 DEF Good, Earned

LEMMA DriveTouches == ASSUME TypeOK, NEW p \in Procs, NEW n \in Nodes, NEW q \in Procs, q # p,
    \/ Start(p, n) \/ Read(p, n) \/ TakeLock(p, n) \/ BeginStep(p, n)
    \/ EndStep(p, n) \/ Complete(p, n) \/ NextStep(p, n)
  PROVE Untouched(q)
<1>1. CASE \E how \in {"returned", "thrown"} : Leave(p, n, how)
  <2>1. PICK how \in {"returned", "thrown"} : Leave(p, n, how)
    BY <1>1
  <2>2. /\ pc'[q] = pc[q] /\ at'[q] = at[q] /\ out'[q] = out[q]
        /\ verdict'[q] = verdict[q] /\ top'[q] = top[q]
    BY <2>1, LeaveEffect
  <2>3. \A m \in Nodes : lock'[m] = q <=> lock[m] = q
    BY <2>1, LeaveEffect, TreeAssumption
  <2> QED BY <2>2, <2>3 DEF Untouched
<1>2. CASE ~\E how \in {"returned", "thrown"} : Leave(p, n, how)
  <2>1. CASE Start(p, n)
    BY <2>1 DEF Start, Goto, TypeOK, Untouched
  <2>2. CASE Read(p, n) \/ NextStep(p, n)
    BY <1>2, <2>2 DEF Read, NextStep, Goto, TypeOK, Untouched
  <2>3. CASE TakeLock(p, n)
    BY <1>2, <2>3, TreeAssumption DEF TakeLock, Goto, TypeOK, Untouched
  <2>4. CASE BeginStep(p, n)
    BY <1>2, <2>4 DEF BeginStep, Goto, TypeOK, Untouched
  <2>5. CASE EndStep(p, n)
    BY <1>2, <2>5 DEF EndStep, Goto, TypeOK, Untouched
  <2>6. CASE Complete(p, n)
    BY <1>2, <2>6 DEF Complete, Goto, TypeOK, Untouched
  <2> QED BY <2>1, <2>2, <2>3, <2>4, <2>5, <2>6
<1> QED BY <1>1, <1>2

LEMMA UnitTouches == ASSUME TypeOK, NEW p \in Procs, NEW k \in Children, NEW q \in Procs, q # p,
    Reserve(p, k) \/ Publish(p, k) \/ Return(p, k) \/ Finish(p, k) \/ JournalFails(p, k)
  PROVE Untouched(q)
BY DEF Reserve, Publish, Return, Finish, JournalFails, Advance, Goto, TypeOK, Untouched

LEMMA LeaveGood == ASSUME IInv, [Next]_vars, NEW p \in Procs, NEW n \in Nodes, pc[p][n] # "idle",
    \A k \in Children : Parent[k] = n => ~InFlight(p, k),
    NEW how \in {"returned", "thrown"}, Leave(p, n, how)
  PROVE Good(p)'
BY LeavePlaced, LeaveEarned, CompletedStays DEF IInv, Good

\* A child in flight keeps its parent in "exec".
LEMMA NotExec == ASSUME NEW p \in Procs, Placed(p), NEW n \in Nodes, pc[p][n] # "exec"
  PROVE \A k \in Children : Parent[k] = n => ~InFlight(p, k) /\ ~Busy(p, k)
BY DEF Placed, InFlight, Busy

\* Going on to another place with the same node, which executes no children.
LEMMA GotoGood == ASSUME IInv, [Next]_vars, NEW p \in Procs, NEW n \in Nodes,
    NEW l \in {"lock", "step", "passing", "failing", "blocking", "next"},
    pc[p][n] # "idle", \A k \in Children : Parent[k] = n => ~Busy(p, k),
    Goto(p, n, l), UNCHANGED <<top, out, verdict>>,
    \A m \in Nodes : m # n => at'[p][m] = at[p][m] /\ lock'[m] = lock[m],
    l \in Driving <=> lock'[n] = p,
    l = "passing" => UNCHANGED at /\ \A k \in Composed(p, n) : run[k].status = "completed"
  PROVE Good(p)'
<1>l. TypeOK /\ Placed(p) /\ Earned(p)
  BY DEF IInv
<1>1. pc'[p][n] = l /\ \A m \in Nodes : m # n => pc'[p][m] = pc[p][m]
  BY <1>l DEF Goto, TypeOK
<1>2. top[p] # None
  BY <1>l DEF Placed
<1>3. \A m \in Nodes : pc'[p][m] \in Driving <=> lock'[m] = p
  BY <1>l, <1>1 DEF Placed
<1>4. \A k \in Children : Busy(p, k)' => pc'[p][Parent[k]] = "exec" /\ Step[k] = at'[p][Parent[k]]
  BY <1>l, <1>1, ParentNode DEF Placed, Busy
<1>5. Placed(p)'
  BY <1>l, <1>1, <1>2, <1>3, <1>4 DEF Placed
<1>6. \A m \in Nodes : pc'[p][m] = "passing" => \A k \in Composed(p, m)' : run'[k].status = "completed"
  <2> SUFFICES ASSUME NEW m \in Nodes, pc'[p][m] = "passing", NEW k \in Composed(p, m)'
               PROVE run'[k].status = "completed"
    OBVIOUS
  <2>1. at'[p][m] = at[p][m]
    BY <1>1
  <2>2. k \in Children /\ k \in Composed(p, m)
    BY <2>1 DEF Composed
  <2>3. run[k].status = "completed"
    BY <1>l, <1>1, <2>2 DEF Earned
  <2> QED BY <2>2, <2>3, ParentNode, CompletedStays
<1>7. \A k \in Children : verdict'[p][k] = "ok" => run'[k].status = "completed"
  BY <1>l, ParentNode, CompletedStays DEF Earned
<1>8. \A k \in Children : out'[p][k] \in {"read", "over"} => verdict'[p][k] # "none"
  BY <1>l DEF Earned
<1> QED BY <1>5, <1>6, <1>7, <1>8 DEF Good, Earned

LEMMA DriveGood == ASSUME IInv, [Next]_vars, NEW p \in Procs, NEW n \in Nodes,
    \/ Start(p, n) \/ Read(p, n) \/ TakeLock(p, n) \/ BeginStep(p, n)
    \/ EndStep(p, n) \/ Complete(p, n) \/ NextStep(p, n)
  PROVE Good(p)'
<1>l. TypeOK /\ Durable /\ Placed(p) /\ Earned(p)
  BY DEF IInv
<1>1. CASE Start(p, n)
  <2>1. /\ \A m \in Nodes : pc[p][m] = "idle"
        /\ pc'[p][n] = "read" /\ top'[p] = n /\ \A m \in Nodes : m # n => pc'[p][m] = pc[p][m]
        /\ UNCHANGED <<run, lock, at, out, verdict>>
    BY <1>l, <1>1 DEF Start, Goto, Placed, TypeOK, durable
  <2>2. Placed(p)'
    BY <1>l, <2>1, ParentNode, TreeAssumption DEF Placed, Busy, Driving
  <2>3. Earned(p)'
    BY <1>l, <2>1 DEF Earned, Composed
  <2> QED BY <2>2, <2>3 DEF Good
<1>2. CASE Read(p, n)
  <2>1. pc[p][n] = "read" /\ \A k \in Children : Parent[k] = n => ~InFlight(p, k) /\ ~Busy(p, k)
    BY <1>l, <1>2, NotExec DEF Read
  <2>2. CASE run[n].status = "active"
    <3>1. /\ Goto(p, n, "lock") /\ UNCHANGED <<top, out, verdict, lock>>
          /\ at' = [at EXCEPT ![p][n] = run[n].done + 1]
      BY <1>2, <2>2 DEF Read
    <3>2. \A m \in Nodes : m # n => at'[p][m] = at[p][m]
      BY <1>l, <3>1 DEF TypeOK
    <3>3. "lock" \notin Driving /\ lock[n] # p
      BY <1>l, <2>1 DEF Placed, Driving
    <3> QED BY <2>1, <3>1, <3>2, <3>3, GotoGood
  <2>3. CASE run[n].status # "active"
    <3>1. \E how \in {"returned", "thrown"} : Leave(p, n, how)
      BY <1>2, <2>3 DEF Read
    <3> QED BY <2>1, <3>1, LeaveGood
  <2> QED BY <2>2, <2>3
<1>3. CASE TakeLock(p, n)
  <2>1. pc[p][n] = "lock" /\ \A k \in Children : Parent[k] = n => ~InFlight(p, k) /\ ~Busy(p, k)
    BY <1>l, <1>3, NotExec DEF TakeLock
  <2>2. CASE lock[n] = None
    <3>1. /\ Goto(p, n, "step") /\ UNCHANGED <<top, out, verdict>>
          /\ \A m \in Nodes : m # n => at'[p][m] = at[p][m] /\ lock'[m] = lock[m]
          /\ "step" \in Driving <=> lock'[n] = p
      BY <1>l, <1>3, <2>2, TreeAssumption DEF TakeLock, Placed, Driving, TypeOK
    <3> QED BY <2>1, <3>1, GotoGood
  <2>3. CASE lock[n] # None
    BY <1>3, <2>1, <2>3, LeaveGood DEF TakeLock
  <2> QED BY <2>2, <2>3
<1>4. CASE BeginStep(p, n)
  <2>1. pc[p][n] = "step" /\ \A k \in Children : Parent[k] = n => ~InFlight(p, k) /\ ~Busy(p, k)
    BY <1>l, <1>4, NotExec DEF BeginStep
  <2>2. CASE p \in signal
    BY <1>4, <2>1, <2>2, LeaveGood DEF BeginStep
  <2>3. CASE p \notin signal
    <3>1. /\ pc'[p][n] = "exec" /\ \A m \in Nodes : m # n => pc'[p][m] = pc[p][m]
          /\ UNCHANGED <<run, top, lock, at>>
      BY <1>l, <1>4, <2>3 DEF BeginStep, Goto, TypeOK, durable
    <3>2. \A k \in Children :
            IF k \in Composed(p, n)
            THEN IF unit[k] = "completed" THEN out'[p][k] = "over" /\ verdict'[p][k] = "ok"
                                          ELSE out'[p][k] = "todo" /\ verdict'[p][k] = verdict[p][k]
            ELSE out'[p][k] = out[p][k] /\ verdict'[p][k] = verdict[p][k]
      BY <1>l, <1>4, <2>3 DEF BeginStep, TypeOK
    <3>3. \A m \in Nodes : pc'[p][m] # "idle" /\ m # top'[p] => m \in Children /\ out'[p][m] = "driving"
      <4> SUFFICES ASSUME NEW m \in Nodes, pc'[p][m] # "idle", m # top'[p]
                   PROVE m \in Children /\ out'[p][m] = "driving"
        OBVIOUS
      <4>1. m \in Children /\ out[p][m] = "driving"
        BY <1>l, <2>1, <3>1 DEF Placed
      <4>2. m \notin Composed(p, n)
        BY <2>1, <4>1 DEF Composed, Busy
      <4> QED BY <3>2, <4>1, <4>2
    <3>4. \A k \in Children : Busy(p, k)' => pc'[p][Parent[k]] = "exec" /\ Step[k] = at'[p][Parent[k]]
      <4> SUFFICES ASSUME NEW k \in Children, Busy(p, k)'
                   PROVE pc'[p][Parent[k]] = "exec" /\ Step[k] = at'[p][Parent[k]]
        OBVIOUS
      <4>1. CASE k \in Composed(p, n)
        BY <3>1, <4>1 DEF Composed
      <4>2. CASE k \notin Composed(p, n)
        <5>1. Busy(p, k)
          BY <3>2, <4>2 DEF Busy
        <5> QED BY <1>l, <2>1, <3>1, <5>1, ParentNode DEF Placed
      <4> QED BY <4>1, <4>2
    <3>5. top'[p] # None /\ \A m \in Nodes : pc'[p][m] \in Driving <=> lock'[m] = p
      BY <1>l, <2>1, <3>1 DEF Placed, Driving
    <3>6. Placed(p)'
      BY <3>3, <3>4, <3>5 DEF Placed
    <3>7. \A k \in Children : out'[p][k] \in {"read", "over"} => verdict'[p][k] # "none"
      BY <1>l, <3>2 DEF Earned
    <3>8. \A k \in Children : verdict'[p][k] = "ok" => run'[k].status = "completed"
      BY <1>l, <3>1, <3>2 DEF Earned, Durable
    <3>9. \A m \in Nodes : pc'[p][m] = "passing" => \A k \in Composed(p, m)' : run'[k].status = "completed"
      BY <1>l, <3>1 DEF Earned, Composed
    <3> QED BY <3>6, <3>7, <3>8, <3>9 DEF Good, Earned
  <2> QED BY <2>2, <2>3
<1>5. CASE EndStep(p, n)
  <2>1. pc[p][n] = "exec" /\ lock[n] = p
    BY <1>l, <1>5 DEF EndStep, Placed, Driving
  <2>2. \A k \in Children : Parent[k] = n => ~InFlight(p, k)
    <3>1. \A k \in Composed(p, n) : out[p][k] \in {"over", "todo"}
      BY <1>5 DEF EndStep
    <3> QED BY <1>l, <3>1 DEF Placed, Busy, InFlight, Composed
  <2>3. CASE Leave(p, n, "returned")
    BY <2>1, <2>2, <2>3, LeaveGood
  <2>4. CASE ~Leave(p, n, "returned")
    <3>1. p \notin signal /\ \A k \in Composed(p, n) : out[p][k] = "over"
      BY <1>5, <2>4 DEF EndStep
    <3>2. \A k \in Children : Parent[k] = n => ~Busy(p, k)
      BY <1>l, <3>1 DEF Placed, Busy, Composed
    <3>3. PICK l \in {"passing", "failing", "blocking"} : Goto(p, n, l)
      BY <1>5, <2>4 DEF EndStep
    <3>4. UNCHANGED <<lock, top, at, out, verdict>>
      BY <1>5, <2>4 DEF EndStep
    <3>5. l = "passing" => \A k \in Composed(p, n) : run[k].status = "completed"
      <4> SUFFICES ASSUME l = "passing", NEW k \in Composed(p, n) PROVE run[k].status = "completed"
        OBVIOUS
      <4>1. verdict[p][k] \notin {"lost", "blocked", "bad"}
        <5>1. pc'[p][n] = "passing"
          BY <1>l, <3>3 DEF Goto, TypeOK
        <5> DEFINE V == {verdict[p][j] : j \in Composed(p, n)}
        <5>2. V \cap {"lost", "blocked", "bad"} # {} =>
                Goto(p, n, IF "blocked" \in V /\ "lost" \notin V THEN "blocking" ELSE "failing")
          BY <1>5, <2>4 DEF EndStep
        <5>3. V \cap {"lost", "blocked", "bad"} # {} => pc'[p][n] # "passing"
          <6> HIDE DEF V
          <6> QED BY <1>l, <5>2 DEF Goto, TypeOK
        <5> QED BY <5>1, <5>3
      <4>2. k \in Children /\ verdict[p][k] \in Verdicts /\ verdict[p][k] # "none"
        BY <1>l, <3>1 DEF Composed, TypeOK, Earned
      <4> QED BY <1>l, <4>1, <4>2 DEF Earned, Verdicts
    <3>6. l \in Driving
      BY DEF Driving
    <3> QED BY <2>1, <3>2, <3>3, <3>4, <3>5, <3>6, GotoGood
  <2> QED BY <2>3, <2>4
<1>6. CASE Complete(p, n)
  <2>1. /\ pc[p][n] \in {"passing", "failing", "blocking"} /\ lock[n] = p
        /\ \A k \in Children : Parent[k] = n => ~InFlight(p, k) /\ ~Busy(p, k)
    BY <1>l, <1>6, NotExec DEF Complete, Placed, Driving
  <2>2. CASE \E how \in {"returned", "thrown"} : Leave(p, n, how)
    BY <2>1, <2>2, LeaveGood
  <2>3. CASE Goto(p, n, "next") /\ UNCHANGED <<lock, top, signal, at, out, verdict>>
    <3>1. "next" \in Driving
      BY DEF Driving
    <3> QED BY <2>1, <2>3, <3>1, GotoGood
  <2> QED BY <1>6, <2>2, <2>3 DEF Complete
<1>7. CASE NextStep(p, n)
  <2>1. /\ pc[p][n] = "next" /\ lock[n] = p
        /\ \A k \in Children : Parent[k] = n => ~InFlight(p, k) /\ ~Busy(p, k)
    BY <1>l, <1>7, NotExec DEF NextStep, Placed, Driving
  <2>2. CASE run[n].status = "active"
    <3>1. /\ Goto(p, n, "step") /\ UNCHANGED <<top, out, verdict, lock>>
          /\ \A m \in Nodes : m # n => at'[p][m] = at[p][m]
      BY <1>l, <1>7, <2>2 DEF NextStep, TypeOK
    <3>2. "step" \in Driving
      BY DEF Driving
    <3> QED BY <2>1, <3>1, <3>2, GotoGood
  <2>3. CASE run[n].status # "active"
    BY <1>7, <2>1, <2>3, LeaveGood DEF NextStep
  <2> QED BY <2>2, <2>3
<1> QED BY <1>1, <1>2, <1>3, <1>4, <1>5, <1>6, <1>7

\* What a step of the unit of a child does to the process that takes it.
LEMMA UnitMoves == ASSUME TypeOK, NEW p \in Procs, NEW k \in Children,
    NEW how, NEW v, Advance(p, k, how, v)
  PROVE /\ out'[p][k] = how /\ verdict'[p][k] = v
        /\ \A j \in Children : j # k => out'[p][j] = out[p][j] /\ verdict'[p][j] = verdict[p][j]
BY DEF Advance, TypeOK

LEMMA UnitStepGood == ASSUME IInv, [Next]_vars, NEW p \in Procs, NEW k \in Children, Busy(p, k),
    UNCHANGED <<lock, top, at>>,
    NEW how, NEW v, NEW l, Advance(p, k, how, v), pc'[p][k] = l,
    \A m \in Nodes : m # k => pc'[p][m] = pc[p][m],
    how \in {"reserved", "driving", "read", "over"}, how \in {"read", "over"} => v # "none",
    v = "ok" => run'[k].status = "completed",
    l = pc[p][k] \/ {l, pc[p][k]} \cap Driving = {},
    l # "idle" => how = "driving" \/ k = top[p]
  PROVE Good(p)'
<1>l. TypeOK /\ Placed(p) /\ Earned(p) /\ k \in Nodes
  BY ParentNode DEF IInv
<1>1. /\ out'[p][k] = how /\ verdict'[p][k] = v
      /\ \A j \in Children : j # k => out'[p][j] = out[p][j] /\ verdict'[p][j] = verdict[p][j]
  BY <1>l, UnitMoves
<1>2. top'[p] # None /\ pc[p][Parent[k]] = "exec" /\ Step[k] = at[p][Parent[k]]
  BY <1>l, ParentNode DEF Placed
<1>3. \A m \in Nodes : pc'[p][m] # "idle" /\ m # top'[p] => m \in Children /\ out'[p][m] = "driving"
  BY <1>l, <1>1 DEF Placed
<1>4. \A m \in Nodes : pc'[p][m] \in Driving <=> lock'[m] = p
  BY <1>l DEF Placed
<1>5. \A m \in Nodes : pc[p][m] = "exec" => pc'[p][m] = "exec"
  BY <1>l DEF Driving
<1>6. \A j \in Children : Busy(p, j)' => pc'[p][Parent[j]] = "exec" /\ Step[j] = at'[p][Parent[j]]
  <2> SUFFICES ASSUME NEW j \in Children, Busy(p, j)'
               PROVE pc'[p][Parent[j]] = "exec" /\ Step[j] = at'[p][Parent[j]]
    OBVIOUS
  <2>1. Busy(p, j)
    BY <1>1 DEF Busy
  <2> QED BY <1>l, <1>5, <2>1, ParentNode DEF Placed
<1>7. Placed(p)'
  BY <1>2, <1>3, <1>4, <1>6 DEF Placed
<1>8. \A m \in Nodes : pc'[p][m] = "passing" => pc[p][m] = "passing"
  BY <1>l DEF Driving
<1>9. \A m \in Nodes : pc'[p][m] = "passing" => \A j \in Composed(p, m)' : run'[j].status = "completed"
  <2> SUFFICES ASSUME NEW m \in Nodes, pc'[p][m] = "passing", NEW j \in Composed(p, m)'
               PROVE run'[j].status = "completed"
    OBVIOUS
  <2>1. j \in Children /\ run[j].status = "completed"
    BY <1>l, <1>8 DEF Earned, Composed
  <2> QED BY <2>1, ParentNode, CompletedStays
<1>10. \A j \in Children : verdict'[p][j] = "ok" => run'[j].status = "completed"
  BY <1>l, <1>1, ParentNode, CompletedStays DEF Earned
<1>11. \A j \in Children : out'[p][j] \in {"read", "over"} => verdict'[p][j] # "none"
  BY <1>l, <1>1 DEF Earned
<1> QED BY <1>7, <1>9, <1>10, <1>11 DEF Good, Earned

LEMMA UnitGood == ASSUME IInv, [Next]_vars, NEW p \in Procs, NEW k \in Children,
    Reserve(p, k) \/ Publish(p, k) \/ Return(p, k) \/ Finish(p, k) \/ JournalFails(p, k)
  PROVE Good(p)'
<1>l. TypeOK /\ Placed(p) /\ Earned(p) /\ k \in Nodes
  BY ParentNode DEF IInv
<1>1. CASE Reserve(p, k)
  <2>1. PICK how \in {"reserved", "over"}, v \in {"none", "bad"} :
          Advance(p, k, how, v) /\ (how = "over" => v = "bad")
    BY <1>1 DEF Reserve
  <2>2. Busy(p, k) /\ UNCHANGED <<lock, top, at, pc>>
    BY <1>1 DEF Reserve, Busy
  <2>3. pc[p][k] # "idle" => k = top[p]
    BY <1>l, <1>1 DEF Reserve, Placed
  <2> QED BY <2>1, <2>2, <2>3, UnitStepGood
<1>2. CASE Publish(p, k)
  <2>1. Busy(p, k) /\ UNCHANGED <<lock, top, at>> /\ InFlight(p, k)
    BY <1>2 DEF Publish, Busy, InFlight
  <2>2. pc[p][k] = "idle"
    BY <1>l, <1>2, <2>1, TopNotInFlight DEF Placed, Publish
  <2>3. "read" \notin Driving /\ "idle" \notin Driving
    BY DEF Driving
  <2>4. CASE Driven(k) /\ Advance(p, k, "driving", "none") /\ Goto(p, k, "read")
    <3>1. pc'[p][k] = "read" /\ \A m \in Nodes : m # k => pc'[p][m] = pc[p][m]
      BY <1>l, <2>4 DEF Goto, TypeOK
    <3> QED BY <2>1, <2>2, <2>3, <2>4, <3>1, UnitStepGood
  <2>5. CASE ~Driven(k) /\ Advance(p, k, "read", VerdictOf(Published(k).status)) /\ UNCHANGED pc
    <3>1. VerdictOf(Published(k).status) \in {"blocked", "bad"}
      BY <2>5 DEF Driven, VerdictOf
    <3> QED BY <2>1, <2>2, <2>3, <2>5, <3>1, UnitStepGood
  <2>6. CASE Advance(p, k, "read", "bad") /\ UNCHANGED pc
    BY <2>1, <2>2, <2>3, <2>6, UnitStepGood
  <2> QED BY <1>2, <2>4, <2>5, <2>6 DEF Publish
<1>3. CASE Return(p, k)
  <2>1. Busy(p, k) /\ UNCHANGED <<lock, top, at, run>> /\ pc[p][k] \in {"returned", "thrown"}
    BY <1>3 DEF Return, Busy, durable
  <2>2. pc'[p][k] = "idle" /\ \A m \in Nodes : m # k => pc'[p][m] = pc[p][m]
    BY <1>l, <1>3 DEF Return, Goto, TypeOK
  <2>3. "returned" \notin Driving /\ "thrown" \notin Driving /\ "idle" \notin Driving
    BY DEF Driving
  <2>4. PICK v : Advance(p, k, "read", v) /\ v # "none" /\ (v = "ok" => run[k].status = "completed")
    BY <1>3 DEF Return, AfterThrow, VerdictOf
  <2> QED BY <2>1, <2>2, <2>3, <2>4, UnitStepGood
<1>4. CASE Finish(p, k)
  <2>1. Busy(p, k) /\ UNCHANGED <<lock, top, at, run, pc>>
    BY <1>4 DEF Finish, Busy
  <2>2. Advance(p, k, "over", verdict[p][k]) /\ verdict[p][k] # "none"
    BY <1>l, <1>4 DEF Finish, Earned
  <2>3. verdict[p][k] = "ok" => run[k].status = "completed"
    BY <1>l DEF Earned
  <2>4. InFlight(p, k)
    BY <1>4 DEF Finish, InFlight
  <2>5. pc[p][k] = "idle"
    BY <1>l, <1>4, <2>4, TopNotInFlight DEF Placed, Finish
  <2> QED BY <2>1, <2>2, <2>3, <2>5, UnitStepGood
<1>5. CASE JournalFails(p, k)
  <2>1. Busy(p, k) /\ UNCHANGED <<lock, top, at, run, pc>> /\ InFlight(p, k)
    BY <1>5 DEF JournalFails, Busy, InFlight, durable
  <2>2. pc[p][k] = "idle"
    BY <1>l, <1>5, <2>1, TopNotInFlight DEF Placed, JournalFails
  <2>3. Advance(p, k, "over", "lost")
    BY <1>5 DEF JournalFails
  <2> QED BY <2>1, <2>2, <2>3, UnitStepGood
<1> QED BY <1>1, <1>2, <1>3, <1>4, <1>5

LEMMA CrashGood == ASSUME IInv, [Next]_vars, NEW p \in Procs, NEW q \in Procs, Crash(q)
  PROVE Good(p)'
<1>l. TypeOK /\ Good(p)
  BY DEF IInv, Good
<1>r. \A m \in Nodes : run[m].status = "completed" => run'[m].status = "completed"
  BY CompletedStays
<1>1. CASE p # q
  <2>1. Untouched(p)
    BY <1>l, <1>1, TreeAssumption DEF Crash, Untouched, TypeOK
  <2> QED BY <1>l, <1>r, <2>1, UntouchedGood
<1>2. CASE p = q
  <2>1. /\ top'[p] = None /\ \A n \in Nodes : pc'[p][n] = "idle" /\ lock'[n] # p
        /\ \A k \in Children : out'[p][k] = "none" /\ verdict'[p][k] = "none"
    BY <1>l, <1>2, TreeAssumption DEF Crash, TypeOK
  <2>2. Placed(p)'
    BY <2>1 DEF Placed, Busy, Driving
  <2>3. Earned(p)'
    BY <2>1 DEF Earned
  <2> QED BY <2>2, <2>3 DEF Good
<1> QED BY <1>1, <1>2

LEMMA GoodStep == ASSUME IInv, [Next]_vars, NEW p \in Procs PROVE Good(p)'
<1>l. TypeOK /\ Good(p)
  BY DEF IInv, Good
<1>r. \A m \in Nodes : run[m].status = "completed" => run'[m].status = "completed"
  BY CompletedStays
<1>1. ASSUME NEW q \in Procs, NEW n \in Nodes,
             \/ Start(q, n) \/ Read(q, n) \/ TakeLock(q, n) \/ BeginStep(q, n)
             \/ EndStep(q, n) \/ Complete(q, n) \/ NextStep(q, n)
      PROVE Good(p)'
  <2>1. CASE p = q
    BY <1>1, <2>1, DriveGood
  <2>2. CASE p # q
    BY <1>l, <1>r, <1>1, <2>2, DriveTouches, UntouchedGood
  <2> QED BY <2>1, <2>2
<1>2. ASSUME NEW q \in Procs, NEW k \in Children,
             Reserve(q, k) \/ Publish(q, k) \/ Return(q, k) \/ Finish(q, k) \/ JournalFails(q, k)
      PROVE Good(p)'
  <2>1. CASE p = q
    BY <1>2, <2>1, UnitGood
  <2>2. CASE p # q
    BY <1>l, <1>r, <1>2, <2>2, UnitTouches, UntouchedGood
  <2> QED BY <2>1, <2>2
<1>3. ASSUME UNCHANGED <<lock, top, driver>> PROVE Good(p)'
  BY <1>l, <1>r, <1>3, UntouchedGood DEF Untouched, driver
<1>4. ASSUME NEW n \in Nodes, Resume(n) \/ Abandon(n) PROVE Good(p)'
  BY <1>3, <1>4 DEF Resume, ResumeRead, ResumeCommit, Abandon
<1>5. ASSUME NEW q \in Procs, Interrupt(q) PROVE Good(p)'
  BY <1>3, <1>5 DEF Interrupt
<1>6. CASE UNCHANGED vars
  BY <1>3, <1>6 DEF vars
<1> QED BY <1>1, <1>2, <1>4, <1>5, <1>6, CrashGood DEF Next, StepOf

-----------------------------------------------------------------------------
(* The step of a parent, and the attempts at its units.                    *)

\* A completed step is the one a process works on and has found to pass.
LEMMA AdvancedBy == ASSUME IInv, [Next]_vars, NEW n \in Nodes, Advanced(n)
  PROVE \E p \in Procs : pc[p][n] = "passing" /\ at[p][n] = run[n].done + 1
<1> USE DEF durable
<1>l. TypeOK /\ run[n].done \in Nat
  BY DEF IInv, TypeOK
<1>a. run'[n].done # run[n].done /\ run[n].status = "active"
  BY <1>l DEF Advanced
<1>1. ASSUME NEW p \in Procs, NEW m \in Nodes, Complete(p, m)
      PROVE m = n /\ pc[p][n] = "passing" /\ at[p][n] = run[n].done + 1
  <2>1. run' # run /\ MayComplete(p, m)
    BY <1>a, <1>1 DEF Complete
  <2>2. m = n
    BY <1>l, <1>a, <1>1, <2>1 DEF Complete, TypeOK
  <2>3. pc[p][n] = "passing"
    BY <1>l, <1>a, <1>1, <2>1, <2>2 DEF Complete, TypeOK
  <2> QED BY <1>a, <2>1, <2>2, <2>3 DEF MayComplete
<1>2. ASSUME NEW p \in Procs, NEW k \in Children, Publish(p, k) PROVE FALSE
  <2>1. run' = [run EXCEPT ![k] = Published(k)]
    BY <1>a, <1>2 DEF Publish
  <2>2. Published(n) = run[n]
    BY <1>a DEF Published
  <2> QED BY <1>l, <1>a, <2>1, <2>2 DEF TypeOK
<1>3. ASSUME NEW m \in Nodes, ResumeCommit(m) \/ Abandon(m) PROVE FALSE
  <2>1. \E s \in {"active", "failed"} : run' = [run EXCEPT ![m].status = s]
    BY <1>3 DEF ResumeCommit, Abandon
  <2>2. run'[n].done = run[n].done
    BY <1>l, <2>1 DEF TypeOK
  <2> QED BY <1>a, <2>2
<1>4. ASSUME NEW p \in Procs, NEW m \in Nodes,
             \/ Start(p, m) \/ Read(p, m) \/ TakeLock(p, m) \/ BeginStep(p, m)
             \/ EndStep(p, m) \/ NextStep(p, m)
      PROVE FALSE
  BY <1>a, <1>4 DEF Start, Read, TakeLock, BeginStep, EndStep, NextStep
<1>5. ASSUME NEW p \in Procs, NEW k \in Children, Reserve(p, k) \/ Return(p, k) \/ Finish(p, k) \/ JournalFails(p, k)
      PROVE FALSE
  BY <1>a, <1>5 DEF Reserve, Return, Finish, JournalFails
<1>6. ASSUME NEW p \in Procs, Interrupt(p) \/ Crash(p) PROVE FALSE
  BY <1>a, <1>6 DEF Interrupt, Crash
<1>7. ASSUME NEW m \in Nodes, ResumeRead(m) PROVE FALSE
  BY <1>a, <1>7 DEF ResumeRead
<1>8. ~UNCHANGED vars
  BY <1>a DEF vars
<1> QED BY <1>1, <1>2, <1>3, <1>4, <1>5, <1>6, <1>7, <1>8 DEF Next, StepOf, Resume

LEMMA ChildrenStep == ASSUME IInv, [Next]_vars PROVE AdvancesOnCompletedChildren'
<1> SUFFICES ASSUME NEW k \in Children, run'[Parent[k]].done >= Step[k]
             PROVE run'[k].status = "completed"
  BY DEF AdvancesOnCompletedChildren
<1> DEFINE n == Parent[k]
<1>1. n \in Nodes /\ k \in Nodes /\ Step[k] \in Nat /\ Step[k] >= 1 /\ run[n].done \in Nat
  BY ParentNode, TreeAssumption DEF IInv, TypeOK
<1>2. run[k].status = "completed"
  <2>1. CASE run[n].done >= Step[k]
    BY <2>1 DEF IInv, AdvancesOnCompletedChildren
  <2>2. CASE ~(run[n].done >= Step[k])
    <3>1. Advanced(n)
      BY <1>1, <2>2, RunStep DEF Moved, Begun, Stopped, Reopened
    <3>2. run[n].done + 1 = Step[k]
      BY <1>1, <2>2, <3>1 DEF Advanced
    <3>3. PICK p \in Procs : pc[p][n] = "passing" /\ at[p][n] = run[n].done + 1
      BY <1>1, <3>1, AdvancedBy
    <3>4. k \in Composed(p, n)
      BY <3>2, <3>3 DEF Composed
    <3> QED BY <1>1, <3>3, <3>4 DEF IInv, Earned
  <2> QED BY <2>1, <2>2
<1> QED BY <1>1, <1>2, CompletedStays

\* What a step means for the attempt at a child: nothing, a new or a reclaimed row,
\* or the end of the work on it, which finishes the row or leaves it an orphan.
Kept(k) == unit'[k] = unit[k] /\ (k \in orphans' <=> k \in orphans)
Attempted(p, k) == unit'[k] = "running" /\ k \notin orphans' /\ InFlight(p, k)'
Ended(p, k) ==
  /\ InFlight(p, k) /\ ~InFlight(p, k)'
  /\ \/ unit'[k] # "running" /\ (k \in orphans' <=> k \in orphans)
     \/ unit'[k] = unit[k] /\ k \in orphans'
Others(p, k) == \A q \in Procs \ {p} : InFlight(q, k)' <=> InFlight(q, k)

\* A drive of a node changes neither row nor orphans, and it takes no child in flight
\* from anybody.
LEMMA DriveAttempts == ASSUME IInv, NEW p \in Procs, NEW n \in Nodes, NEW k \in Children,
    \/ Start(p, n) \/ Read(p, n) \/ TakeLock(p, n) \/ BeginStep(p, n)
    \/ EndStep(p, n) \/ Complete(p, n) \/ NextStep(p, n)
  PROVE UNCHANGED <<unit, orphans>> /\ \A q \in Procs : InFlight(q, k)' <=> InFlight(q, k)
<1>l. TypeOK /\ Placed(p)
  BY DEF IInv
<1>1. UNCHANGED <<unit, orphans>>
  BY DEF Start, Read, TakeLock, BeginStep, EndStep, Complete, NextStep, durable
<1>2. ASSUME NEW q \in Procs, q # p PROVE InFlight(q, k)' <=> InFlight(q, k)
  BY <1>l, <1>2, DriveTouches DEF Untouched, InFlight
<1>3. Parent[k] = n => ~InFlight(p, k) \/ Start(p, n)
  <2>1. EndStep(p, n) /\ Parent[k] = n => ~InFlight(p, k)
    BY <1>l DEF EndStep, Composed, InFlight, Placed, Busy
  <2> QED BY <1>l, <2>1 DEF Placed, Busy, InFlight, Read, TakeLock, BeginStep, Complete, NextStep
<1>4. InFlight(p, k)' <=> InFlight(p, k)
  <2>1. CASE Start(p, n)
    BY <2>1 DEF Start, InFlight
  <2>2. CASE ~Start(p, n) /\ \E how \in {"returned", "thrown"} : Leave(p, n, how)
    BY <1>l, <1>3, <2>2, LeaveEffect DEF InFlight
  <2>3. CASE BeginStep(p, n) /\ ~\E how \in {"returned", "thrown"} : Leave(p, n, how)
    <3>1. \E d \in SUBSET Composed(p, n) : out' = [out EXCEPT ![p] = [j \in Children |->
            IF j \in d THEN "over" ELSE IF j \in Composed(p, n) THEN "todo" ELSE @[j]]]
      BY <2>3 DEF BeginStep
    <3>2. \/ out'[p][k] \in {"over", "todo"} /\ Parent[k] = n
          \/ out'[p][k] = out[p][k]
      BY <1>l, <3>1 DEF TypeOK, Composed
    <3>3. pc[p][n] # "exec" /\ ~Start(p, n)
      BY <1>l, <2>3 DEF BeginStep, Start, Placed
    <3> QED BY <1>3, <3>2, <3>3 DEF InFlight
  <2>4. CASE /\ ~Start(p, n) /\ ~BeginStep(p, n)
             /\ ~\E how \in {"returned", "thrown"} : Leave(p, n, how)
    <3>1. out' = out
      BY <2>4 DEF Read, TakeLock, EndStep, Complete, NextStep
    <3> QED BY <3>1 DEF InFlight
  <2> QED BY <2>1, <2>2, <2>3, <2>4
<1> QED BY <1>1, <1>2, <1>4

\* A step of the unit of a child.
LEMMA UnitAttempts == ASSUME IInv, NEW p \in Procs, NEW j \in Children, NEW k \in Children,
    Reserve(p, j) \/ Publish(p, j) \/ Return(p, j) \/ Finish(p, j) \/ JournalFails(p, j)
  PROVE /\ Others(p, k)
        /\ \/ Kept(k) /\ (InFlight(p, k)' <=> InFlight(p, k))
           \/ Attempted(p, k) \/ Ended(p, k)
<1>l. TypeOK
  BY DEF IInv
<1>1. Others(p, k)
  BY <1>l, UnitTouches DEF Untouched, InFlight, Others
<1>2. PICK how, v : Advance(p, j, how, v)
  BY DEF Reserve, Publish, Return, Finish, JournalFails
<1>3. CASE j # k
  <2>1. out'[p][k] = out[p][k]
    BY <1>l, <1>2, <1>3, UnitMoves
  <2>2. Kept(k)
    BY <1>l, <1>3 DEF Reserve, Publish, Return, Finish, JournalFails, durable, TypeOK, Kept
  <2> QED BY <1>1, <2>1, <2>2 DEF InFlight
<1>4. CASE j = k
  <2>1. CASE Reserve(p, k)
    <3>1. CASE unit' = [unit EXCEPT ![k] = "running"] /\ orphans' = orphans \ {k}
               /\ Advance(p, k, "reserved", "none")
      BY <1>l, <1>1, <3>1, UnitMoves DEF Attempted, InFlight, TypeOK
    <3>2. CASE Advance(p, k, "over", "bad") /\ UNCHANGED <<unit, orphans>>
      <4>1. out[p][k] = "todo" /\ out'[p][k] = "over"
        BY <1>l, <2>1, <3>2, UnitMoves DEF Reserve
      <4> QED BY <1>1, <3>2, <4>1 DEF Kept, InFlight
    <3> QED BY <2>1, <3>1, <3>2 DEF Reserve
  <2>2. CASE Publish(p, k) \/ Return(p, k)
    <3>1. out[p][k] \in {"reserved", "driving"} /\ out'[p][k] \in {"driving", "read"}
      BY <1>l, <2>2, UnitMoves DEF Publish, Return, AfterThrow
    <3>2. UNCHANGED <<unit, orphans>>
      BY <2>2 DEF Publish, Return, durable
    <3> QED BY <1>1, <3>1, <3>2 DEF Kept, InFlight
  <2>3. CASE Finish(p, k)
    <3>1. out[p][k] = "read" /\ out'[p][k] = "over" /\ UNCHANGED orphans /\ unit'[k] # "running"
      BY <1>l, <2>3, UnitMoves DEF Finish, TypeOK
    <3> QED BY <1>1, <3>1 DEF Ended, InFlight
  <2>4. CASE JournalFails(p, k)
    <3>1. out[p][k] = "read" /\ out'[p][k] = "over" /\ UNCHANGED unit /\ k \in orphans'
      BY <1>l, <2>4, UnitMoves DEF JournalFails, durable
    <3> QED BY <1>1, <3>1 DEF Ended, InFlight
  <2> QED BY <1>4, <2>1, <2>2, <2>3, <2>4
<1> QED BY <1>3, <1>4

\* The end of a process ends its attempts and nobody else's.
LEMMA CrashAttempts == ASSUME IInv, NEW p \in Procs, Crash(p), NEW k \in Children
  PROVE /\ Others(p, k)
        /\ \/ Kept(k) /\ ~InFlight(p, k) /\ ~InFlight(p, k)'
           \/ Ended(p, k)
<1>l. TypeOK
  BY DEF IInv
<1>1. /\ \A q \in Procs \ {p} : out'[q] = out[q]
      /\ out'[p][k] = "none" /\ UNCHANGED unit
      /\ orphans' = orphans \cup {j \in Children : InFlight(p, j)}
  BY <1>l DEF Crash, TypeOK, durable
<1>2. Others(p, k) /\ ~InFlight(p, k)'
  BY <1>1 DEF Others, InFlight
<1>3. CASE InFlight(p, k)
  BY <1>1, <1>2, <1>3 DEF Ended
<1>4. CASE ~InFlight(p, k)
  BY <1>1, <1>2, <1>4 DEF Kept
<1> QED BY <1>2, <1>3, <1>4

\* All there is that can happen to the attempt at a child.
LEMMA AttemptMoves == ASSUME IInv, [Next]_vars, NEW k \in Children
  PROVE \/ Kept(k) /\ \A q \in Procs : InFlight(q, k)' <=> InFlight(q, k)
        \/ \E p \in Procs : Others(p, k) /\ (Attempted(p, k) \/ Ended(p, k))
<1>1. ASSUME NEW p \in Procs, NEW n \in Nodes,
             \/ Start(p, n) \/ Read(p, n) \/ TakeLock(p, n) \/ BeginStep(p, n)
             \/ EndStep(p, n) \/ Complete(p, n) \/ NextStep(p, n)
      PROVE Kept(k) /\ \A q \in Procs : InFlight(q, k)' <=> InFlight(q, k)
  BY <1>1, DriveAttempts DEF Kept
<1>2. ASSUME NEW p \in Procs, NEW j \in Children,
             Reserve(p, j) \/ Publish(p, j) \/ Return(p, j) \/ Finish(p, j) \/ JournalFails(p, j)
      PROVE \/ Kept(k) /\ \A q \in Procs : InFlight(q, k)' <=> InFlight(q, k)
            \/ Others(p, k) /\ (Attempted(p, k) \/ Ended(p, k))
  BY <1>2, UnitAttempts DEF Others
<1>3. ASSUME NEW p \in Procs, Crash(p)
      PROVE \/ Kept(k) /\ \A q \in Procs : InFlight(q, k)' <=> InFlight(q, k)
            \/ Others(p, k) /\ (Attempted(p, k) \/ Ended(p, k))
  BY <1>3, CrashAttempts DEF Others
<1>4. ASSUME UNCHANGED <<unit, orphans, out>>
      PROVE Kept(k) /\ \A q \in Procs : InFlight(q, k)' <=> InFlight(q, k)
  BY <1>4 DEF Kept, InFlight
<1>5. ASSUME NEW n \in Nodes, Resume(n) \/ Abandon(n) PROVE UNCHANGED <<unit, orphans, out>>
  BY <1>5 DEF Resume, ResumeRead, ResumeCommit, Abandon, driver, durable
<1>6. ASSUME NEW p \in Procs, Interrupt(p) PROVE UNCHANGED <<unit, orphans, out>>
  BY <1>6 DEF Interrupt, driver, durable
<1>7. UNCHANGED vars => UNCHANGED <<unit, orphans, out>>
  BY DEF vars, driver, durable
<1> QED BY <1>1, <1>2, <1>3, <1>4, <1>5, <1>6, <1>7 DEF Next, StepOf

LEMMA AttemptsStep == ASSUME IInv, [Next]_vars PROVE (AttemptsFinished /\ Held)'
<1> SUFFICES ASSUME NEW k \in Children
             PROVE /\ unit'[k] = "running" <=>
                        \/ k \in orphans'
                        \/ \E p \in Procs : lock'[Parent[k]] = p /\ InFlight(p, k)'
                   /\ \A p \in Procs : InFlight(p, k)' => k \notin orphans'
  BY DEF AttemptsFinished, Held
<1>1. \A p \in Procs : /\ InFlight(p, k) => lock[Parent[k]] = p
                       /\ InFlight(p, k)' => lock'[Parent[k]] = p
  <2> SUFFICES ASSUME NEW p \in Procs
               PROVE /\ InFlight(p, k) => lock[Parent[k]] = p
                     /\ InFlight(p, k)' => lock'[Parent[k]] = p
    OBVIOUS
  <2>1. Placed(p) /\ Placed(p)'
    BY GoodStep DEF IInv, Good
  <2>2. InFlight(p, k) => lock[Parent[k]] = p
    BY <2>1, ParentNode DEF Placed, Busy, InFlight, Driving
  <2>3. InFlight(p, k)' => lock'[Parent[k]] = p
    BY <2>1, ParentNode DEF Placed, Busy, InFlight, Driving
  <2> QED BY <2>2, <2>3
<1>2. /\ unit[k] = "running" <=> k \in orphans \/ \E p \in Procs : InFlight(p, k)
      /\ \A p \in Procs : InFlight(p, k) => k \notin orphans
  BY <1>1 DEF IInv, AttemptsFinished, Held
<1>3. /\ unit'[k] = "running" <=> k \in orphans' \/ \E p \in Procs : InFlight(p, k)'
      /\ \A p \in Procs : InFlight(p, k)' => k \notin orphans'
  <2>1. CASE Kept(k) /\ \A q \in Procs : InFlight(q, k)' <=> InFlight(q, k)
    BY <1>2, <2>1 DEF Kept
  <2>2. ASSUME NEW p \in Procs, Others(p, k), Attempted(p, k)
        PROVE /\ unit'[k] = "running" <=> k \in orphans' \/ \E q \in Procs : InFlight(q, k)'
              /\ \A q \in Procs : InFlight(q, k)' => k \notin orphans'
    BY <2>2 DEF Attempted
  <2>3. ASSUME NEW p \in Procs, Others(p, k), Ended(p, k)
        PROVE /\ unit'[k] = "running" <=> k \in orphans' \/ \E q \in Procs : InFlight(q, k)'
              /\ \A q \in Procs : InFlight(q, k)' => k \notin orphans'
    <3>1. \A q \in Procs : ~InFlight(q, k)'
      BY <1>1, <2>3 DEF Ended, Others
    <3>2. unit[k] = "running" /\ k \notin orphans
      BY <1>2, <2>3 DEF Ended
    <3> QED BY <2>3, <3>1, <3>2 DEF Ended
  <2> QED BY <2>1, <2>2, <2>3, AttemptMoves
<1> QED BY <1>1, <1>3

-----------------------------------------------------------------------------
(* The invariant, and the theorems.                                        *)

LEMMA InitGood == Init => IInv
<1> SUFFICES ASSUME Init PROVE IInv
  OBVIOUS
<1> USE TreeAssumption
<1>1. TypeOK
  <2>1. /\ run \in [Nodes -> [status : {"none", "active", "blocked", "failed", "completed"},
                              done : Nat]]
        /\ \A n \in Nodes : run[n].done <= Len[n]
    BY DEF Init
  <2>2. faults \in 0..MaxFaults
    BY DEF Init
  <2> QED BY <2>1, <2>2 DEF Init, TypeOK, Labels, Verdicts
<1>2. Durable
  BY DEF Init, Durable
<1>3. AdvancesOnCompletedChildren
  BY ParentNode DEF Init, AdvancesOnCompletedChildren
<1>4. AttemptsFinished /\ Held
  BY DEF Init, AttemptsFinished, Held, InFlight
<1>5. ASSUME NEW p \in Procs PROVE Placed(p) /\ Earned(p)
  BY DEF Init, Placed, Earned, Busy, Driving
<1> QED BY <1>1, <1>2, <1>3, <1>4, <1>5 DEF IInv

LEMMA Inductive == IInv /\ [Next]_vars => IInv'
<1> SUFFICES ASSUME IInv, [Next]_vars PROVE IInv'
  OBVIOUS
<1>1. \A p \in Procs : Placed(p)' /\ Earned(p)'
  BY GoodStep DEF Good
<1> QED BY <1>1, TypeStep, DurableStep, ChildrenStep, AttemptsStep DEF IInv

LEMMA Always == Spec => []IInv
BY InitGood, Inductive, PTL DEF Spec

\* Types, with a cursor that stays within the plan of every run of the tree.
THEOREM TypeCorrect == Spec => []TypeOK
<1>1. IInv => TypeOK
  BY DEF IInv
<1> QED BY Always, <1>1, PTL

\* A step that composes children is only ever completed over completed ones,
\* for any tree, whoever drives, resumes or abandons which of its runs.
THEOREM ParentsWait == Spec => []AdvancesOnCompletedChildren
<1>1. IInv => AdvancesOnCompletedChildren
  BY DEF IInv
<1> QED BY Always, <1>1, PTL

\* An attempt at a child is running exactly if a process works on it under the
\* parent's lock, or it was left behind by its process's end or by a failed journal
\* write of its own: no other way a drive can end skips finish.
THEOREM AttemptsHaveOwners == Spec => []AttemptsFinished
<1>1. IInv => AttemptsFinished
  BY DEF IInv
<1> QED BY Always, <1>1, PTL

\* Every run of the tree is one cursor of RunSpine: no crash, retry or resume
\* starts an invocation over, and every step of a run is a step of its cursor.
THEOREM SpinesImplemented == Spec => ImplementsSpines
<1> DEFINE Moves == \A n \in Nodes : [Spine(n)!Next]_(Spine(n)!vars)
<1>1. Init => \A n \in Nodes : Spine(n)!Init
  BY DEF Init, Spine!Init
<1>2. ASSUME IInv, [Next]_vars PROVE [Moves]_run
  <2> SUFFICES ASSUME NEW n \in Nodes PROVE [Spine(n)!Next]_(Spine(n)!vars)
    OBVIOUS
  <2>1. Moved(n)
    BY <1>2, RunStep
  <2>2. CASE run'[n] = run[n]
    BY <2>2 DEF Spine!vars
  <2>3. CASE Begun(n)
    BY <1>2, <2>3 DEF Begun, IInv, Durable, Spine!vars
  <2>4. CASE Advanced(n)
    BY <2>4 DEF Advanced, Spine!Next, Spine!Advance
  <2>5. CASE Stopped(n)
    BY <2>5 DEF Stopped, Spine!Next, Spine!Stop
  <2>6. CASE Reopened(n)
    BY <2>6 DEF Reopened, Spine!Next, Spine!Reopen
  <2> QED BY <2>1, <2>2, <2>3, <2>4, <2>5, <2>6 DEF Moved
<1> QED BY Always, <1>1, <1>2, PTL DEF Spec, ImplementsSpines
=============================================================================
