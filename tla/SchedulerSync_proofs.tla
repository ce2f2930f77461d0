------------------------- MODULE SchedulerSync_proofs -------------------------
(***************************************************************************)
(* Theorems about SchedulerSync, for any number of installations, tasks,   *)
(* bundles, edits and faults.                                              *)
(*                                                                         *)
(* What a command does to a row rests on what it read of it some steps     *)
(* before.  The invariant says what is left of that reading at each place  *)
(* of a command, and that the lock keeps all others from writing meanwhile.*)
(***************************************************************************)
EXTENDS SchedulerSync, FiniteSetTheorems, TLAPS

Changes == {"enable", "disable", "add"}

\* Whoever is under way has the lock; only who applies a plan has one; who has
\* listed the rows and not yet planned knows them.
Holding == \A i \in Insts :
  /\ pc[i] # "idle" => lock = i
  /\ pc[i] # "apply" => todo[i] = Nothing
  /\ pc[i] \in {"choose", "plan"} => seen[i] = rows

\* The commands that come to each place, and that they have a list to change.
Placed == \A i \in Insts :
  /\ cmd[i].kind \in Changes => cmd[i].bundle \in Bundles /\ cmd[i].task \in Tasks
  /\ pc[i] \in {"list", "choose"} => cmd[i].kind # "none"
  /\ pc[i] = "choose" => cmd[i].kind # "prune"
  /\ pc[i] \in {"write", "set"} => cmd[i].kind \in Changes /\ enabled[i] # None
  /\ pc[i] = "plan" => cmd[i].kind = "prune" \/ enabled[i] # None

\* What a command may still do to a row it has seen.
Allowed(i, t) ==
  \/ seen[i][t] = None
  \/ seen[i][t].inst \in {i} \cup gone
  \/ seen[i][t].bundle \in Covered(i) \ {Primary[i]}
  \/ todo[i][t].op = "remove" /\ cmd[i].bundle = None /\ seen[i][t].bundle \in BundlesOf[i]
Reach == \A i \in Insts, t \in Tasks : todo[i][t].op # "none" => Allowed(i, t)

\* What it writes is a row of its own, and it has a list to write from.
Written == \A i \in Insts, t \in Tasks :
  /\ todo[i][t].op = "remove" => todo[i][t].row = None
  /\ todo[i][t].op = "write" => todo[i][t].row.inst = i /\ enabled[i] # None

\* As long as nobody has started the list, the rows that setup has listed are those
\* of its host that are there, or they have been pruned.
Fresh == \A i \in Insts : setup[i].at = "listed" /\ enabled[i] = None =>
  \A t \in Tasks : rows[t] # None /\ rows[t].inst = i => setup[i].found[t] = rows[t]

\* The configs are functions of their installation (TypeOK has their values).
Configured == bundle = [i \in Insts |-> bundle[i]]

IInv ==
  /\ TypeOK /\ Configured /\ Holding /\ Placed /\ PlanIsCurrent /\ Reach /\ Written /\ Fresh

\* One installation's command.
StepBy(i) ==
  \/ StepOf(i) \/ Crash(i) \/ Setup(i) \/ Vanish(i) \/ Sync(i) \/ Prune(i)
  \/ \E b \in BundlesOf[i] : SyncBundle(i, b) \/ Toggle(i, b) \/ RemoveBundle(i, b)
  \/ \E kind \in Changes, b \in BundlesOf[i], t \in Tasks : Activate(i, kind, <<b, t>>)

\* A command that begins, whichever it is.
Begins(i) == \E c \in [kind : {"sync", "prune"} \cup Changes,
                       bundle : Bundles \cup {None}, task : Tasks \cup {None}] :
  /\ c.kind \in Changes => c.bundle \in Bundles /\ c.task \in Tasks
  /\ Begin(i, c) /\ edits' \in 0..MaxEdits

-----------------------------------------------------------------------------
LEMMA BeginsOne == ASSUME TypeOK, NEW i \in Insts,
    \/ Sync(i) \/ Prune(i) \/ \E b \in BundlesOf[i] : SyncBundle(i, b)
    \/ \E kind \in Changes, b \in BundlesOf[i], t \in Tasks : Activate(i, kind, <<b, t>>)
  PROVE Begins(i)
<1> USE HostAssumption
<1>1. CASE Sync(i)
  BY <1>1 DEF Sync, Begins, NoCmd, TypeOK, Changes
<1>2. CASE Prune(i)
  BY <1>2 DEF Prune, Begins, NoCmd, TypeOK, Changes
<1>3. ASSUME NEW b \in BundlesOf[i], SyncBundle(i, b) PROVE Begins(i)
  <2>1. b \in Bundles
    OBVIOUS
  <2> QED BY <1>3, <2>1 DEF SyncBundle, Begins, TypeOK, Changes
<1>4. ASSUME NEW kind \in Changes, NEW b \in BundlesOf[i], NEW t \in Tasks,
             Activate(i, kind, <<b, t>>)
      PROVE Begins(i)
  <2>1. b \in Bundles
    OBVIOUS
  <2>2. edits' \in 0..MaxEdits
    BY <1>4 DEF Activate, Edit, TypeOK
  <2>3. Begin(i, [kind |-> kind, bundle |-> b, task |-> t])
    BY <1>4 DEF Activate
  <2> QED BY <2>1, <2>2, <2>3 DEF Begins, Changes
<1> QED BY <1>1, <1>2, <1>3, <1>4

LEMMA OneWorks == ASSUME Holding, NEW i \in Insts, NEW j \in Insts,
    pc[i] # "idle", pc[j] # "idle"
  PROVE i = j
BY DEF Holding

\* Plans have the type the crontab has, and reach no further than Allowed.
LEMMA PlanType == ASSUME TypeOK, Placed, NEW i \in Insts, pc[i] = "plan"
  PROVE Planned(i) \in [Tasks -> [op : {"none", "remove", "write"}, row : Row \cup {None}]]
<1>1. ASSUME NEW t \in Tasks, cmd[i].kind # "prune", NEW r \in Writes(i), r[2] = t
      PROVE Render(i, r) \in Row
  <2>1. enabled[i] \in SUBSET Refs
    BY <1>1 DEF TypeOK, Placed
  <2>2. r \in Refs /\ Content(i, r) \in Versions
    BY <2>1 DEF Writes, Desired
  <2> QED BY <2>2 DEF Render, Row, Refs
<1> DEFINE W(t) == CHOOSE r \in Writes(i) : r[2] = t
<1>2. ASSUME NEW t \in Tasks, cmd[i].kind # "prune", \E r \in Writes(i) : r[2] = t
      PROVE Render(i, W(t)) \in Row
  <2>1. W(t) \in Writes(i) /\ W(t)[2] = t
    BY <1>2
  <2> HIDE DEF W
  <2> QED BY <1>1, <1>2, <2>1
<1> QED BY <1>2 DEF Planned

LEMMA PlanAllowed == ASSUME TypeOK, NEW i \in Insts, NEW t \in Tasks,
    Planned(i)[t].op # "none"
  PROVE \/ seen[i][t] = None
        \/ seen[i][t].inst \in {i} \cup gone
        \/ seen[i][t].bundle \in Covered(i) \ {Primary[i]}
        \/ Planned(i)[t].op = "remove" /\ cmd[i].bundle = None /\ seen[i][t].bundle \in BundlesOf[i]
<1>s. Selected(i) \subseteq Covered(i) /\ \A state : In(i, state) \subseteq BundlesOf[i]
  BY DEF Selected, Covered, In
<1>1. CASE cmd[i].kind = "prune" /\ t \in Orphans(i)
  BY <1>1 DEF Orphans
<1>2. CASE cmd[i].kind # "prune" /\ t \in Removals(i)
  <2>1. Planned(i)[t].op = "remove"
    BY <1>2 DEF Planned
  <2> QED BY <1>s, <1>2, <2>1 DEF Removals, InScope
<1>3. CASE cmd[i].kind # "prune" /\ t \notin Removals(i) /\ \E r \in Writes(i) : r[2] = t
  <2>1. PICK r \in Writes(i) : r[2] = t
    BY <1>3
  <2>2. t \in DesiredTasks(i) /\ t \notin Skipped(i)
    BY <2>1 DEF Writes, DesiredTasks
  <2>3. seen[i][t] = None \/ InScope(i, seen[i][t])
    BY <2>2 DEF Skipped
  <2> QED BY <1>s, <2>3 DEF InScope
<1> QED BY <1>1, <1>2, <1>3 DEF Planned

LEMMA PlanWritten == ASSUME NEW i \in Insts, NEW t \in Tasks
  PROVE /\ Planned(i)[t].op = "remove" => Planned(i)[t].row = None
        /\ Planned(i)[t].op = "write" => Planned(i)[t].row.inst = i /\ cmd[i].kind # "prune"
BY DEF Planned, Render

-----------------------------------------------------------------------------
LEMMA InitType == Init => IInv
<1> SUFFICES ASSUME Init PROVE IInv
  OBVIOUS
<1> USE HostAssumption
<1>1. TypeOK
  BY DEF Init, TypeOK, NoCmd, NoRows, NoSetup, Nothing
<1>2. Configured /\ Holding /\ Placed /\ PlanIsCurrent /\ Reach /\ Written /\ Fresh
  BY DEF Init, Configured, Holding, Placed, PlanIsCurrent, Reach, Written, Fresh, NoCmd, NoSetup,
         Nothing, Changes
<1> QED BY <1>1, <1>2 DEF IInv
\* The actions of one command, and what begins it.
LEMMA Cases == ASSUME TypeOK, Next
  PROVE \/ \E i \in Insts :
             \/ Begins(i) \/ List(i) \/ Choose(i) \/ WriteTask(i) \/ SetRef(i) \/ Plan(i)
             \/ (\E t \in Tasks : Apply(i, t) \/ ApplyFails(i, t))
             \/ End(i) \/ Crash(i) \/ Setup(i) \/ Vanish(i)
             \/ (\E b \in BundlesOf[i] : Toggle(i, b) \/ RemoveBundle(i, b))
        \/ \E s \in Sources : EditFile(s)
BY BeginsOne DEF Next, StepOf, Changes

\* Of TypeOK, what the end of a command changes.
ProcessOK ==
  /\ lock \in Insts \cup {None}
  /\ pc \in [Insts -> {"idle", "list", "choose", "write", "set", "plan", "apply"}]
  /\ cmd \in [Insts -> [kind : {"none", "sync", "prune", "enable", "disable", "add"},
                        bundle : Bundles \cup {None}, task : Tasks \cup {None}]]
  /\ seen \in [Insts -> [Tasks -> Row \cup {None}]]
  /\ todo \in [Insts -> [Tasks -> [op : {"none", "remove", "write"}, row : Row \cup {None}]]]

LEMMA FinishType == ASSUME TypeOK, NEW i \in Insts, Finish(i) PROVE ProcessOK'
<1>1. /\ NoCmd \in [kind : {"none", "sync", "prune", "enable", "disable", "add"},
                    bundle : Bundles \cup {None}, task : Tasks \cup {None}]
      /\ NoRows \in [Tasks -> Row \cup {None}]
      /\ Nothing \in [Tasks -> [op : {"none", "remove", "write"}, row : Row \cup {None}]]
  BY DEF NoCmd, NoRows, Nothing
<1> QED BY <1>1 DEF Finish, Goto, TypeOK, ProcessOK

\* `setup' takes no part in the commands: it leaves the rows, the lock and the
\* bundles alone, and keeps a list once there is one.
LEMMA SetupAround == ASSUME NEW i \in Insts, Setup(i)
  PROVE UNCHANGED <<rows, bundle, gone, lock, process>>
BY DEF Setup, SetupBegin, SetupChoose, SetupPrepare, SetupEnlist, SetupLeaves, config

LEMMA SetupType == ASSUME TypeOK, NEW i \in Insts, Setup(i)
  PROVE /\ TypeOK' /\ (\A j \in Insts : enabled[j] # None => enabled'[j] # None)
        /\ \A j \in Insts \ {i} : setup'[j] = setup[j]
        /\ setup'[i].at = "listed" => setup'[i].found = rows
<1> USE HostAssumption
<1>1. UNCHANGED <<rows, bundle, gone, lock, pc, cmd, seen, todo>>
  BY SetupAround DEF process
<1>2. PICK place \in {"idle", "listed", "review", "enlist"}, found \in [Tasks -> Row \cup {None}] :
        SetupAt(i, place, found) /\ (place = "listed" => found = rows)
  <2>1. NoRows \in [Tasks -> Row \cup {None}] /\ rows \in [Tasks -> Row \cup {None}]
    BY DEF NoRows, TypeOK
  <2>2. Review(i) => \E place \in {"idle", "review"} : SetupAt(i, place, NoRows)
    BY DEF Review
  <2>3. \/ SetupAt(i, "listed", rows) \/ Review(i)
        \/ \E place \in {"idle", "enlist"} : SetupAt(i, place, NoRows)
    BY DEF Setup, SetupBegin, SetupChoose, SetupPrepare, SetupEnlist, SetupLeaves
  <2> QED BY <2>1, <2>2, <2>3
<1>3. /\ setup' \in [Insts -> [at : {"idle", "listed", "review", "enlist"},
                              found : [Tasks -> Row \cup {None}]]]
      /\ setup'[i] = [at |-> place, found |-> found]
      /\ \A j \in Insts \ {i} : setup'[j] = setup[j]
  BY <1>2 DEF SetupAt, TypeOK
<1>4. edits' \in 0..MaxEdits /\ faults' \in 0..MaxFaults
  BY DEF Setup, SetupBegin, SetupChoose, SetupPrepare, SetupEnlist, SetupLeaves, Edit, Fault, TypeOK
<1>5. file' \in [Sources -> Contents]
  <2>1. CASE SetupPrepare(i)
    <3>1. PICK v \in Versions : file' = [s \in Sources |->
            IF s[1] = i /\ s[2] = Primary[i] /\ s[3] \in Templates /\ file[s] = "absent" THEN v ELSE file[s]]
      BY <2>1 DEF SetupPrepare
    <3>2. v \in Contents /\ \A s \in Sources : file[s] \in Contents
      BY DEF Contents, TypeOK
    <3> QED BY <3>1, <3>2
  <2>2. CASE ~SetupPrepare(i)
    BY <2>2 DEF Setup, SetupBegin, SetupChoose, SetupEnlist, SetupLeaves, TypeOK
  <2> QED BY <2>1, <2>2
<1>6. enabled' = enabled \/ \E l \in SUBSET Refs : enabled' = [enabled EXCEPT ![i] = l]
  <2>1. CASE SetupChoose(i)
    <3>1. Chosen(i, setup[i].found) \in SUBSET Refs
      BY DEF Chosen
    <3> QED BY <2>1, <3>1 DEF SetupChoose
  <2>2. CASE SetupEnlist(i)
    <3>1. PICK selected \in SUBSET Templates : enabled' = [enabled EXCEPT ![i] =
            {r \in (IF @ = None THEN {} ELSE @) : r[1] = Primary[i] => r[2] \notin Templates}
              \cup {Local(i, t) : t \in selected}]
      BY <2>2 DEF SetupEnlist
    <3>2. (IF enabled[i] = None THEN {} ELSE enabled[i]) \subseteq Refs
      BY DEF TypeOK
    <3>3. {Local(i, t) : t \in selected} \subseteq Refs
      BY DEF Local, Refs
    <3> DEFINE l == {r \in (IF enabled[i] = None THEN {} ELSE enabled[i]) :
                       r[1] = Primary[i] => r[2] \notin Templates} \cup {Local(i, t) : t \in selected}
    <3>4. l \in SUBSET Refs
      BY <3>2, <3>3
    <3>5. enabled' = [enabled EXCEPT ![i] = l]
      BY <3>1 DEF TypeOK
    <3> HIDE DEF l
    <3> QED BY <3>4, <3>5
  <2>3. CASE ~SetupChoose(i) /\ ~SetupEnlist(i)
    BY <2>3 DEF Setup, SetupBegin, SetupPrepare, SetupLeaves, config
  <2> QED BY <2>1, <2>2, <2>3
<1>7. /\ enabled' \in [Insts -> {None} \cup SUBSET Refs]
      /\ \A j \in Insts : enabled[j] # None => enabled'[j] # None
  <2>1. CASE enabled' = enabled
    BY <2>1 DEF TypeOK
  <2>2. ASSUME NEW l \in SUBSET Refs, enabled' = [enabled EXCEPT ![i] = l]
        PROVE  /\ enabled' \in [Insts -> {None} \cup SUBSET Refs]
               /\ \A j \in Insts : enabled[j] # None => enabled'[j] # None
    <3>1. enabled \in [Insts -> {None} \cup SUBSET Refs] /\ l # None
      BY DEF TypeOK
    <3>2. \A j \in Insts : enabled'[j] = IF j = i THEN l ELSE enabled[j]
      BY <2>2, <3>1
    <3>3. enabled' \in [Insts -> {None} \cup SUBSET Refs]
      BY <2>2, <3>1
    <3> QED BY <3>1, <3>2, <3>3
  <2> QED BY <1>6, <2>1, <2>2
<1>8. TypeOK'
  BY <1>1, <1>3, <1>4, <1>5, <1>7 DEF TypeOK
<1> QED BY <1>2, <1>3, <1>7, <1>8

LEMMA TypeStep == IInv /\ [Next]_vars => TypeOK'
<1> SUFFICES ASSUME IInv, [Next]_vars PROVE TypeOK'
  OBVIOUS
<1> USE HostAssumption DEF IInv, TypeOK, Goto, config, process
<1>1. ASSUME NEW i \in Insts, Begins(i) PROVE TypeOK'
  BY <1>1 DEF Begins, Begin, Changes
<1>2. ASSUME NEW i \in Insts, List(i) PROVE TypeOK'
  <2>1. CASE Finish(i)
    BY <1>2, <2>1, FinishType DEF List, ProcessOK
  <2>2. CASE ~Finish(i)
    <3>1. seen' = [seen EXCEPT ![i] = rows] /\ UNCHANGED <<lock, cmd, todo>>
      BY <1>2, <2>2 DEF List
    <3>2. seen' \in [Insts -> [Tasks -> Row \cup {None}]]
      BY <3>1
    <3>3. pc' \in [Insts -> {"idle", "list", "choose", "write", "set", "plan", "apply"}]
      BY <1>2, <2>2 DEF List, After
    <3> QED BY <1>2, <3>1, <3>2, <3>3 DEF List
  <2> QED BY <2>1, <2>2
<1>3. ASSUME NEW i \in Insts, Choose(i) PROVE TypeOK'
  <2>1. enabled' \in [Insts -> {None} \cup SUBSET Refs]
    <3>1. Chosen(i, seen[i]) \in SUBSET Refs
      BY DEF Chosen
    <3> QED BY <1>3, <3>1 DEF Choose
  <2>2. pc' \in [Insts -> {"idle", "list", "choose", "write", "set", "plan", "apply"}]
    BY <1>3 DEF Choose, After
  <2> QED BY <1>3, <2>1, <2>2 DEF Choose
<1>4. ASSUME NEW i \in Insts, WriteTask(i) PROVE TypeOK'
  <2>1. PICK v \in Versions : file' = [file EXCEPT ![<<i, cmd[i].bundle, cmd[i].task>>] = v]
    BY <1>4 DEF WriteTask
  <2>2. file' \in [Sources -> Contents]
    BY <2>1 DEF Contents
  <2>3. pc' \in [Insts -> {"idle", "list", "choose", "write", "set", "plan", "apply"}]
    BY <1>4 DEF WriteTask
  <2> QED BY <1>4, <2>2, <2>3 DEF WriteTask
<1>5. ASSUME NEW i \in Insts, SetRef(i) PROVE TypeOK'
  <2>1. CASE Finish(i) /\ UNCHANGED enabled
    BY <1>5, <2>1, FinishType DEF SetRef, ProcessOK
  <2>2. CASE ~(Finish(i) /\ UNCHANGED enabled)
    <3>1. <<cmd[i].bundle, cmd[i].task>> \in Refs /\ enabled[i] \in SUBSET Refs
      BY <1>5 DEF SetRef, Placed, Refs
    <3>2. enabled' \in [Insts -> {None} \cup SUBSET Refs]
      <4> DEFINE r == <<cmd[i].bundle, cmd[i].task>>
      <4>1. \E l \in {enabled[i] \ {r}, enabled[i] \cup {r}} : enabled' = [enabled EXCEPT ![i] = l]
        BY <1>5, <2>2 DEF SetRef
      <4>2. enabled[i] \ {r} \in SUBSET Refs /\ enabled[i] \cup {r} \in SUBSET Refs
        BY <3>1
      <4> HIDE DEF r
      <4> QED BY <4>1, <4>2
    <3>3. cmd' \in [Insts -> [kind : {"none", "sync", "prune", "enable", "disable", "add"},
                             bundle : Bundles \cup {None}, task : Tasks \cup {None}]]
      <4>1. cmd' = [cmd EXCEPT ![i] = [kind |-> "sync", bundle |-> cmd[i].bundle, task |-> None]]
        BY <1>5, <2>2 DEF SetRef
      <4> QED BY <4>1
    <3>4. pc' = [pc EXCEPT ![i] = "list"] /\ UNCHANGED <<lock, seen, todo>>
      BY <1>5, <2>2 DEF SetRef
    <3>5. pc' \in [Insts -> {"idle", "list", "choose", "write", "set", "plan", "apply"}]
      BY <3>4
    <3> QED BY <1>5, <3>2, <3>3, <3>4, <3>5 DEF SetRef
  <2> QED BY <2>1, <2>2
<1>6. ASSUME NEW i \in Insts, Plan(i) PROVE TypeOK'
  <2>1. CASE Finish(i)
    BY <1>6, <2>1, FinishType DEF Plan, ProcessOK
  <2>2. CASE ~Finish(i)
    <3>1. todo' = [todo EXCEPT ![i] = Planned(i)] /\ pc[i] = "plan" /\ UNCHANGED <<lock, cmd, seen>>
      BY <1>6, <2>2 DEF Plan
    <3>2. todo' \in [Insts -> [Tasks -> [op : {"none", "remove", "write"}, row : Row \cup {None}]]]
      BY <3>1, PlanType
    <3>3. pc' \in [Insts -> {"idle", "list", "choose", "write", "set", "plan", "apply"}]
      BY <1>6, <2>2 DEF Plan
    <3> QED BY <1>6, <3>1, <3>2, <3>3 DEF Plan
  <2> QED BY <2>1, <2>2
<1>7. ASSUME NEW i \in Insts, NEW t \in Tasks, Apply(i, t) PROVE TypeOK'
  BY <1>7 DEF Apply, Nothing
<1>8. ASSUME NEW i \in Insts, NEW t \in Tasks, ApplyFails(i, t) PROVE TypeOK'
  <2>1. faults' \in 0..MaxFaults
    BY <1>8 DEF ApplyFails, Fault
  <2>2. CASE Finish(i)
    BY <1>8, <2>1, <2>2, FinishType DEF ApplyFails, ProcessOK
  <2>3. CASE ~Finish(i)
    <3>1. todo' = [todo EXCEPT ![i][t] = Nothing[t]] /\ UNCHANGED <<lock, pc, cmd, seen>>
      BY <1>8, <2>3 DEF ApplyFails
    <3>2. todo' \in [Insts -> [Tasks -> [op : {"none", "remove", "write"}, row : Row \cup {None}]]]
      BY <3>1 DEF Nothing
    <3> QED BY <1>8, <2>1, <3>1, <3>2 DEF ApplyFails
  <2> QED BY <2>2, <2>3
<1>9. ASSUME NEW i \in Insts, End(i) PROVE TypeOK'
  BY <1>9, FinishType DEF End, ProcessOK
<1>10. ASSUME NEW i \in Insts, Crash(i) PROVE TypeOK'
  <2>1. faults' \in 0..MaxFaults
    BY <1>10 DEF Crash, Fault
  <2> QED BY <1>10, <2>1, FinishType DEF Crash, ProcessOK
<1>11. ASSUME NEW i \in Insts, Vanish(i) PROVE TypeOK'
  BY <1>11 DEF Vanish, Edit
<1>12. ASSUME NEW i \in Insts, NEW b \in BundlesOf[i], Toggle(i, b) PROVE TypeOK'
  <2>1. \E c \in {"active", "disabled"} : bundle' = [bundle EXCEPT ![i] = [bundle[i] EXCEPT ![b] = c]]
    BY <1>12 DEF Toggle
  <2>2. \A j \in Insts : bundle'[j] \in [BundlesOf[j] -> {"active", "disabled", "removed"}]
    BY <2>1 DEF Configured
  <2> QED BY <1>12, <2>2 DEF Toggle, Edit
<1>13. ASSUME NEW i \in Insts, NEW b \in BundlesOf[i], RemoveBundle(i, b) PROVE TypeOK'
  BY <1>13 DEF RemoveBundle, Edit, Configured
<1>14. ASSUME NEW s \in Sources, EditFile(s) PROVE TypeOK'
  BY <1>14 DEF EditFile, Edit
<1>15. CASE UNCHANGED vars
  BY <1>15 DEF vars, config, process
<1>16. ASSUME NEW i \in Insts, Setup(i) PROVE TypeOK'
  BY <1>16, SetupType
<1> QED
  BY <1>16, <1>1, <1>2, <1>3, <1>4, <1>5, <1>6, <1>7, <1>8, <1>9, <1>10, <1>11, <1>12, <1>13, <1>14, <1>15, Cases
LEMMA ConfiguredStep == ASSUME IInv, [Next]_vars PROVE Configured'
<1>1. CASE UNCHANGED bundle
  BY <1>1 DEF Configured, IInv
<1>2. ASSUME NEW i \in Insts, NEW b \in BundlesOf[i], Toggle(i, b) \/ RemoveBundle(i, b)
      PROVE Configured'
  <2>1. PICK c : bundle' = [bundle EXCEPT ![i] = c]
    BY <1>2 DEF Toggle, RemoveBundle
  <2>2. bundle = [j \in Insts |-> bundle[j]]
    BY DEF IInv, Configured
  <2>3. bundle' = [j \in Insts |-> IF j = i THEN c ELSE bundle[j]]
    BY <2>1, <2>2
  <2> QED BY <2>3 DEF Configured
<1>3. ASSUME NEW i \in Insts, Begins(i) PROVE UNCHANGED bundle
  BY <1>3 DEF Begins, Begin, config
<1>4. ASSUME NEW i \in Insts,
             \/ List(i) \/ Choose(i) \/ WriteTask(i) \/ SetRef(i) \/ Plan(i)
             \/ End(i) \/ Crash(i) \/ Vanish(i) \/ Setup(i)
      PROVE UNCHANGED bundle
  BY <1>4, SetupAround DEF List, Choose, WriteTask, SetRef, Plan, End, Crash, Vanish, config
<1>5. ASSUME NEW i \in Insts, NEW t \in Tasks, Apply(i, t) \/ ApplyFails(i, t)
      PROVE UNCHANGED bundle
  BY <1>5 DEF Apply, ApplyFails, config
<1>6. ASSUME NEW s \in Sources, EditFile(s) PROVE UNCHANGED bundle
  BY <1>6 DEF EditFile, config
<1>7. CASE Next
  <2>1. TypeOK
    BY DEF IInv
  <2> QED BY <1>1, <1>2, <1>3, <1>4, <1>5, <1>6, <1>7, <2>1, Cases
<1>8. CASE UNCHANGED vars
  BY <1>1, <1>8 DEF vars, config
<1> QED BY <1>7, <1>8

\* The rest of the invariant, installation by installation.
Good(i) ==
  /\ pc[i] # "idle" => lock = i
  /\ pc[i] # "apply" => todo[i] = Nothing
  /\ pc[i] \in {"choose", "plan"} => seen[i] = rows
  /\ cmd[i].kind \in Changes => cmd[i].bundle \in Bundles /\ cmd[i].task \in Tasks
  /\ pc[i] \in {"list", "choose"} => cmd[i].kind # "none"
  /\ pc[i] = "choose" => cmd[i].kind # "prune"
  /\ pc[i] \in {"write", "set"} => cmd[i].kind \in Changes /\ enabled[i] # None
  /\ pc[i] = "plan" => cmd[i].kind = "prune" \/ enabled[i] # None
  /\ \A t \in Tasks : todo[i][t].op # "none" => rows[t] = seen[i][t] /\ Allowed(i, t)
  /\ \A t \in Tasks : /\ todo[i][t].op = "remove" => todo[i][t].row = None
                      /\ todo[i][t].op = "write" => todo[i][t].row.inst = i /\ enabled[i] # None

LEMMA AllGood == Holding /\ Placed /\ PlanIsCurrent /\ Reach /\ Written <=> \A i \in Insts : Good(i)
BY DEF Holding, Placed, PlanIsCurrent, Reach, Written, Good

\* An installation that is not at work, and that a step leaves alone, is good
\* after it.
LEMMA IdleGood == ASSUME NEW i \in Insts, Good(i), pc[i] = "idle",
    pc'[i] = pc[i], cmd'[i] = cmd[i], todo'[i] = todo[i]
  PROVE Good(i)'
<1>1. \A t \in Tasks : todo'[i][t].op = "none"
  BY DEF Good, Nothing
<1> QED BY <1>1 DEF Good, Changes

\* One whose command has ended is good.
LEMMA FinishGood == ASSUME TypeOK, NEW i \in Insts, Finish(i) PROVE Good(i)'
<1>1. pc'[i] = "idle" /\ cmd'[i] = NoCmd /\ todo'[i] = Nothing
  BY DEF Finish, Goto, TypeOK
<1>2. \A t \in Tasks : todo'[i][t].op = "none"
  BY <1>1 DEF Nothing
<1> QED BY <1>1, <1>2 DEF Good, NoCmd, Changes
LEMMA OthersGood == ASSUME \A k \in Insts : Good(k), NEW i \in Insts, NEW j \in Insts, j # i,
    pc[i] # "idle", pc'[j] = pc[j], cmd'[j] = cmd[j], todo'[j] = todo[j]
  PROVE Good(j)'
<1>1. pc[j] = "idle"
  BY DEF Good
<1> QED BY <1>1, IdleGood

\* One command begins, goes on or ends: the others are not under way.
LEMMA CommandGood == ASSUME IInv, \A k \in Insts : Good(k), NEW i \in Insts,
    \/ Begins(i) \/ List(i) \/ Choose(i) \/ WriteTask(i) \/ SetRef(i) \/ Plan(i)
    \/ (\E t \in Tasks : Apply(i, t) \/ ApplyFails(i, t)) \/ End(i) \/ Crash(i)
  PROVE \A j \in Insts : Good(j)'
<1>a. TypeOK /\ Good(i)
  BY DEF IInv
<1>1. CASE Begins(i)
  <2>1. PICK c : /\ c.kind \in {"sync", "prune"} \cup Changes
                 /\ c.kind \in Changes => c.bundle \in Bundles /\ c.task \in Tasks
                 /\ Begin(i, c)
    BY <1>1 DEF Begins
  <2>2. ASSUME NEW j \in Insts, j # i PROVE Good(j)'
    <3>1. pc[j] = "idle"
      BY <2>1, HostAssumption DEF Begin, MayBegin, Good
    <3>2. pc'[j] = pc[j] /\ cmd'[j] = cmd[j] /\ todo'[j] = todo[j]
      BY <1>a, <2>1, <2>2 DEF Begin, Goto, TypeOK
    <3> QED BY <3>1, <3>2, IdleGood
  <2>3. /\ pc'[i] = "list" /\ lock' = i /\ cmd'[i] = c
        /\ todo'[i] = Nothing
    BY <1>a, <2>1 DEF Begin, Goto, TypeOK, Good
  <2>4. \A t \in Tasks : todo'[i][t].op = "none"
    BY <2>3 DEF Nothing
  <2>5. c.kind # "none"
    BY <2>1 DEF Changes
  <2>6. Good(i)'
    BY <2>1, <2>3, <2>4, <2>5 DEF Good
  <2> QED BY <2>2, <2>6
<1>2. CASE List(i)
  <2>1. ASSUME NEW j \in Insts, j # i PROVE Good(j)'
    <3>1. pc[i] # "idle" /\ pc'[j] = pc[j] /\ cmd'[j] = cmd[j] /\ todo'[j] = todo[j]
      BY <1>a, <1>2, <2>1 DEF List, Finish, Goto, TypeOK
    <3> QED BY <2>1, <3>1, OthersGood
  <2>2. CASE Finish(i)
    BY <1>a, <2>1, <2>2, FinishGood
  <2>3. CASE ~Finish(i)
    <3>1. /\ seen'[i] = rows /\ rows' = rows /\ lock' = lock /\ cmd' = cmd /\ todo' = todo
          /\ enabled' = enabled
          /\ pc'[i] = IF enabled[i] = None /\ cmd[i].kind # "prune" THEN "choose" ELSE After(i)
      BY <1>a, <1>2, <2>3 DEF List, Goto, TypeOK, config
    <3>2. todo[i] = Nothing /\ lock = i /\ cmd[i].kind # "none"
      BY <1>a, <1>2 DEF List, Good
    <3>3. \A t \in Tasks : todo'[i][t].op = "none"
      BY <3>1, <3>2 DEF Nothing
    <3>4. \/ pc'[i] = "choose" /\ cmd[i].kind # "prune"
          \/ pc'[i] = "plan" /\ (cmd[i].kind = "prune" \/ enabled[i] # None)
          \/ pc'[i] \in {"write", "set"} /\ cmd[i].kind \in Changes /\ enabled[i] # None
      BY <1>a, <3>1, <3>2 DEF After, Changes, TypeOK
    <3>5. Good(i)'
      BY <1>a, <3>1, <3>2, <3>3, <3>4 DEF Good
    <3> QED BY <2>1, <3>5
  <2> QED BY <2>2, <2>3
<1>3. CASE Choose(i)
  <2>1. ASSUME NEW j \in Insts, j # i PROVE Good(j)'
    <3>1. pc[i] # "idle" /\ pc'[j] = pc[j] /\ cmd'[j] = cmd[j] /\ todo'[j] = todo[j]
      BY <1>a, <1>3, <2>1 DEF Choose, Goto, TypeOK
    <3> QED BY <2>1, <3>1, OthersGood
  <2>2. /\ rows' = rows /\ lock' = lock /\ cmd' = cmd /\ seen' = seen /\ todo' = todo
        /\ gone' = gone /\ seen[i] = rows /\ lock = i /\ todo[i] = Nothing
        /\ cmd[i].kind \in {"sync"} \cup Changes
    BY <1>a, <1>3 DEF Choose, Good, TypeOK, Changes
  <2>3. enabled'[i] # None
    <3>1. enabled'[i] = Chosen(i, seen[i])
      BY <1>a, <1>3 DEF Choose, TypeOK
    <3>2. Chosen(i, seen[i]) # None
      BY HostAssumption DEF Chosen
    <3> QED BY <3>1, <3>2
  <2>4. \/ pc'[i] = "plan"
        \/ pc'[i] \in {"write", "set"} /\ cmd[i].kind \in Changes
    BY <1>a, <1>3, <2>2 DEF Choose, After, Goto, TypeOK, Changes
  <2>5. \A t \in Tasks : todo'[i][t].op = "none"
    BY <2>2 DEF Nothing
  <2>6. Good(i)'
    BY <1>a, <2>2, <2>3, <2>4, <2>5 DEF Good
  <2> QED BY <2>1, <2>6
<1>4. CASE WriteTask(i)
  <2>1. ASSUME NEW j \in Insts, j # i PROVE Good(j)'
    <3>1. pc[i] # "idle" /\ pc'[j] = pc[j] /\ cmd'[j] = cmd[j] /\ todo'[j] = todo[j]
      BY <1>a, <1>4, <2>1 DEF WriteTask, Goto, TypeOK
    <3> QED BY <2>1, <3>1, OthersGood
  <2>2. /\ lock' = lock /\ cmd' = cmd /\ todo' = todo /\ enabled' = enabled
        /\ pc'[i] = "set" /\ lock = i /\ todo[i] = Nothing
        /\ cmd[i].kind \in Changes /\ enabled[i] # None
    BY <1>a, <1>4 DEF WriteTask, Goto, Good, TypeOK, config
  <2>3. \A t \in Tasks : todo'[i][t].op = "none"
    BY <2>2 DEF Nothing
  <2>4. Good(i)'
    BY <1>a, <2>2, <2>3 DEF Good
  <2> QED BY <2>1, <2>4
<1>5. CASE SetRef(i)
  <2>1. ASSUME NEW j \in Insts, j # i PROVE Good(j)'
    <3>1. pc[i] # "idle" /\ pc'[j] = pc[j] /\ cmd'[j] = cmd[j] /\ todo'[j] = todo[j]
      BY <1>a, <1>5, <2>1 DEF SetRef, Finish, Goto, TypeOK
    <3> QED BY <2>1, <3>1, OthersGood
  <2>2. CASE Finish(i)
    BY <1>a, <2>1, <2>2, FinishGood
  <2>3. CASE ~Finish(i)
    <3>1. /\ lock' = lock /\ todo' = todo /\ pc'[i] = "list" /\ lock = i /\ todo[i] = Nothing
          /\ cmd'[i].kind = "sync"
      <4>1. cmd' = [cmd EXCEPT ![i] = [kind |-> "sync", bundle |-> cmd[i].bundle, task |-> None]]
        BY <1>a, <1>5, <2>3 DEF SetRef, TypeOK
      <4> QED BY <1>a, <1>5, <2>3, <4>1 DEF SetRef, Goto, Good, TypeOK
    <3>2. \A t \in Tasks : todo'[i][t].op = "none"
      BY <3>1 DEF Nothing
    <3>3. Good(i)'
      BY <3>1, <3>2 DEF Good, Changes
    <3> QED BY <2>1, <3>3
  <2> QED BY <2>2, <2>3
<1>6. CASE Plan(i)
  <2>1. ASSUME NEW j \in Insts, j # i PROVE Good(j)'
    <3>1. pc[i] # "idle" /\ pc'[j] = pc[j] /\ cmd'[j] = cmd[j] /\ todo'[j] = todo[j]
      BY <1>a, <1>6, <2>1 DEF Plan, Finish, Goto, TypeOK
    <3> QED BY <2>1, <3>1, OthersGood
  <2>2. CASE Finish(i)
    BY <1>a, <2>1, <2>2, FinishGood
  <2>3. CASE ~Finish(i)
    <3>1. /\ pc'[i] = "apply" /\ todo'[i] = Planned(i) /\ lock = i /\ seen[i] = rows
          /\ rows' = rows /\ lock' = lock /\ cmd' = cmd /\ seen' = seen /\ gone' = gone
          /\ enabled' = enabled /\ (cmd[i].kind = "prune" \/ enabled[i] # None)
      BY <1>a, <1>6, <2>3 DEF Plan, Goto, Good, TypeOK, config
    <3>2. ASSUME NEW t \in Tasks, todo'[i][t].op # "none" PROVE Allowed(i, t)'
      BY <1>a, <3>1, <3>2, PlanAllowed DEF Allowed, Covered
    <3>3. \A t \in Tasks : /\ todo'[i][t].op = "remove" => todo'[i][t].row = None
                           /\ todo'[i][t].op = "write" => todo'[i][t].row.inst = i /\ enabled'[i] # None
      BY <3>1, PlanWritten
    <3>4. Good(i)'
      BY <1>a, <3>1, <3>2, <3>3 DEF Good
    <3> QED BY <2>1, <3>4
  <2> QED BY <2>2, <2>3
<1>7. ASSUME NEW t \in Tasks, Apply(i, t) PROVE \A j \in Insts : Good(j)'
  <2>1. ASSUME NEW j \in Insts, j # i PROVE Good(j)'
    <3>1. pc[i] # "idle" /\ pc'[j] = pc[j] /\ cmd'[j] = cmd[j] /\ todo'[j] = todo[j]
      BY <1>a, <1>7, <2>1 DEF Apply, Goto, TypeOK
    <3> QED BY <2>1, <3>1, OthersGood
  <2>2. /\ pc' = pc /\ pc[i] = "apply" /\ lock = i /\ lock' = lock /\ cmd' = cmd /\ seen' = seen
        /\ gone' = gone /\ enabled' = enabled /\ todo'[i][t].op = "none"
        /\ \A u \in Tasks \ {t} : rows'[u] = rows[u] /\ todo'[i][u] = todo[i][u]
    BY <1>a, <1>7 DEF Apply, Good, TypeOK, Nothing, config
  <2>3. Good(i)'
    BY <1>a, <2>2 DEF Good, Allowed, Covered
  <2> QED BY <2>1, <2>3
<1>8. ASSUME NEW t \in Tasks, ApplyFails(i, t) PROVE \A j \in Insts : Good(j)'
  <2>1. ASSUME NEW j \in Insts, j # i PROVE Good(j)'
    <3>1. pc[i] # "idle" /\ pc'[j] = pc[j] /\ cmd'[j] = cmd[j] /\ todo'[j] = todo[j]
      BY <1>a, <1>8, <2>1 DEF ApplyFails, Finish, Goto, TypeOK
    <3> QED BY <2>1, <3>1, OthersGood
  <2>2. CASE Finish(i)
    BY <1>a, <2>1, <2>2, FinishGood
  <2>3. CASE ~Finish(i)
    <3>1. /\ pc' = pc /\ pc[i] = "apply" /\ lock = i /\ lock' = lock /\ cmd' = cmd /\ seen' = seen
          /\ rows' = rows /\ gone' = gone /\ enabled' = enabled /\ todo'[i][t].op = "none"
          /\ \A u \in Tasks \ {t} : todo'[i][u] = todo[i][u]
      BY <1>a, <1>8, <2>3 DEF ApplyFails, Good, TypeOK, Nothing, config
    <3>2. Good(i)'
      BY <1>a, <3>1 DEF Good, Allowed, Covered
    <3> QED BY <2>1, <3>2
  <2> QED BY <2>2, <2>3
<1>9. CASE End(i) \/ Crash(i)
  <2>1. ASSUME NEW j \in Insts, j # i PROVE Good(j)'
    <3>1. pc[i] # "idle" /\ pc'[j] = pc[j] /\ cmd'[j] = cmd[j] /\ todo'[j] = todo[j]
      BY <1>a, <1>9, <2>1 DEF End, Crash, Finish, Goto, TypeOK
    <3> QED BY <2>1, <3>1, OthersGood
  <2> QED BY <1>a, <1>9, <2>1, FinishGood DEF End, Crash
<1> QED BY <1>1, <1>2, <1>3, <1>4, <1>5, <1>6, <1>7, <1>8, <1>9

\* What changes around the commands leaves them what they know: the rows, the
\* lock and the commands stay, a list stays a list, and no stash comes back.
LEMMA AroundGood == ASSUME IInv, NEW j \in Insts, Good(j),
    UNCHANGED <<rows, lock, process>>, gone \subseteq gone',
    enabled[j] # None => enabled'[j] # None
  PROVE Good(j)'
<1>1. pc' = pc /\ cmd' = cmd /\ seen' = seen /\ todo' = todo /\ rows' = rows /\ lock' = lock
  BY DEF process
<1>2. \A t \in Tasks : Allowed(j, t) => Allowed(j, t)'
  BY <1>1 DEF Allowed, Covered
<1> QED BY <1>1, <1>2 DEF Good

\* Only a change that is applied writes a row, and only setup moves setup.
LEMMA RowsMove == ASSUME TypeOK, [Next]_vars
  PROVE \/ \E i \in Insts, t \in Tasks : Apply(i, t)
        \/ \E i \in Insts : Setup(i)
        \/ UNCHANGED <<rows, setup>>
<1>1. ASSUME NEW i \in Insts,
             \/ Begins(i) \/ List(i) \/ Choose(i) \/ WriteTask(i) \/ SetRef(i) \/ Plan(i)
             \/ (\E t \in Tasks : ApplyFails(i, t)) \/ End(i) \/ Crash(i) \/ Vanish(i)
             \/ (\E b \in BundlesOf[i] : Toggle(i, b) \/ RemoveBundle(i, b))
      PROVE UNCHANGED <<rows, setup>>
  BY <1>1 DEF Begins, Begin, List, Choose, WriteTask, SetRef, Plan, ApplyFails, End, Crash,
              Vanish, Toggle, RemoveBundle
<1>2. ASSUME NEW s \in Sources, EditFile(s) PROVE UNCHANGED <<rows, setup>>
  BY <1>2 DEF EditFile
<1>3. CASE UNCHANGED vars
  BY <1>3 DEF vars
<1> QED BY <1>1, <1>2, <1>3, Cases

\* A list that was started stays a list.
LEMMA ListStays == ASSUME IInv, [Next]_vars, NEW j \in Insts, enabled[j] # None
  PROVE enabled'[j] # None
<1>0. TypeOK /\ enabled[j] \in SUBSET Refs /\ (\A i \in Insts : Good(i))
  BY AllGood DEF IInv, TypeOK
<1>1. ASSUME NEW i \in Insts, \E l \in SUBSET Refs : enabled' = [enabled EXCEPT ![i] = l]
      PROVE enabled'[j] # None
  BY <1>0, <1>1, HostAssumption DEF TypeOK
<1>2. ASSUME NEW i \in Insts, Choose(i) PROVE enabled'[j] # None
  <2>1. Chosen(i, seen[i]) \in SUBSET Refs
    BY DEF Chosen
  <2> QED BY <1>1, <1>2, <2>1 DEF Choose
<1>3. ASSUME NEW i \in Insts, SetRef(i) PROVE enabled'[j] # None
  <2> DEFINE r == <<cmd[i].bundle, cmd[i].task>>
  <2>1. r \in Refs /\ enabled[i] \in SUBSET Refs
    BY <1>0, <1>3 DEF SetRef, Good, Refs, TypeOK
  <2>2. enabled' = enabled \/ \E l \in {enabled[i] \ {r}, enabled[i] \cup {r}} : enabled' = [enabled EXCEPT ![i] = l]
    BY <1>3 DEF SetRef
  <2>3. enabled[i] \ {r} \in SUBSET Refs /\ enabled[i] \cup {r} \in SUBSET Refs
    BY <2>1
  <2> HIDE DEF r
  <2> QED BY <1>1, <2>2, <2>3
<1>4. ASSUME NEW i \in Insts, NEW b \in BundlesOf[i], RemoveBundle(i, b) PROVE enabled'[j] # None
  <2>1. enabled'[j] = enabled[j] \/ enabled'[j] = {r \in enabled[j] : r[1] # b}
    BY <1>0, <1>4 DEF RemoveBundle, TypeOK
  <2>2. {r \in enabled[j] : r[1] # b} \in SUBSET Refs
    BY <1>0
  <2> QED BY <2>1, <2>2, HostAssumption
<1>5. ASSUME NEW i \in Insts,
             \/ Begins(i) \/ List(i) \/ WriteTask(i) \/ Plan(i) \/ End(i) \/ Crash(i) \/ Vanish(i)
             \/ (\E t \in Tasks : Apply(i, t) \/ ApplyFails(i, t))
             \/ (\E b \in BundlesOf[i] : Toggle(i, b))
      PROVE enabled' = enabled
  BY <1>5 DEF Begins, Begin, List, WriteTask, Plan, End, Crash, Vanish, Apply, ApplyFails, Toggle, config
<1>6. ASSUME NEW s \in Sources, EditFile(s) PROVE enabled' = enabled
  BY <1>6 DEF EditFile, config
<1>7. ASSUME NEW i \in Insts, Setup(i) PROVE enabled'[j] # None
  BY <1>0, <1>7, SetupType
<1>8. UNCHANGED vars => enabled' = enabled
  BY DEF vars, config
<1> QED BY <1>0, <1>2, <1>3, <1>4, <1>5, <1>6, <1>7, <1>8, Cases

LEMMA FreshStep == ASSUME IInv, [Next]_vars PROVE Fresh'
<1> SUFFICES ASSUME NEW i \in Insts, setup'[i].at = "listed", enabled'[i] = None,
                    NEW t \in Tasks, rows'[t] # None, rows'[t].inst = i
             PROVE setup'[i].found[t] = rows'[t]
  BY DEF Fresh
<1>0. TypeOK /\ (\A j \in Insts : Good(j)) /\ enabled[i] = None
  BY AllGood, ListStays DEF IInv
<1>1. CASE UNCHANGED <<rows, setup>>
  BY <1>0, <1>1 DEF IInv, Fresh
<1>2. ASSUME NEW j \in Insts, Setup(j) PROVE setup'[i].found[t] = rows'[t]
  <2>1. rows' = rows
    BY <1>2, SetupAround
  <2>2. CASE j = i
    BY <1>0, <1>2, <2>1, <2>2, SetupType
  <2>3. CASE j # i
    <3>1. setup'[i] = setup[i]
      BY <1>0, <1>2, <2>3, SetupType
    <3> QED BY <1>0, <2>1, <3>1 DEF IInv, Fresh
  <2> QED BY <2>2, <2>3
<1>3. ASSUME NEW j \in Insts, NEW u \in Tasks, Apply(j, u) PROVE setup'[i].found[t] = rows'[t]
  <2>1. u # t
    <3> SUFFICES ASSUME u = t PROVE FALSE
      OBVIOUS
    <3>1. rows'[t] = todo[j][t].row /\ todo[j][t].op \in {"remove", "write"}
      BY <1>0, <1>3 DEF Apply, NextOps, Pending, TypeOK
    <3>2. todo[j][t].row.inst = j /\ enabled[j] # None
      BY <1>0, <3>1 DEF Good
    <3> QED BY <1>0, <3>1, <3>2
  <2>2. rows'[t] = rows[t] /\ setup' = setup
    BY <1>0, <1>3, <2>1 DEF Apply, TypeOK
  <2> QED BY <1>0, <2>2 DEF IInv, Fresh
<1> QED BY <1>0, <1>1, <1>2, <1>3, RowsMove

LEMMA Inductive == IInv /\ [Next]_vars => IInv'
<1> SUFFICES ASSUME IInv, [Next]_vars PROVE IInv'
  OBVIOUS
<1>1. TypeOK' /\ Configured'
  BY TypeStep, ConfiguredStep
<1>2. TypeOK /\ \A j \in Insts : Good(j)
  BY AllGood DEF IInv
<1>3. ASSUME NEW i \in Insts,
             \/ Begins(i) \/ List(i) \/ Choose(i) \/ WriteTask(i) \/ SetRef(i) \/ Plan(i)
             \/ (\E t \in Tasks : Apply(i, t) \/ ApplyFails(i, t)) \/ End(i) \/ Crash(i)
      PROVE \A j \in Insts : Good(j)'
  BY <1>2, <1>3, CommandGood
<1>4. ASSUME NEW i \in Insts, Vanish(i) PROVE \A j \in Insts : Good(j)'
  BY <1>2, <1>4, AroundGood DEF Vanish, config
<1>5. ASSUME NEW i \in Insts, NEW b \in BundlesOf[i], Toggle(i, b)
      PROVE \A j \in Insts : Good(j)'
  BY <1>2, <1>5, AroundGood DEF Toggle
<1>6. ASSUME NEW i \in Insts, NEW b \in BundlesOf[i], RemoveBundle(i, b)
      PROVE \A j \in Insts : Good(j)'
  <2>1. ASSUME NEW j \in Insts, enabled[j] # None PROVE enabled'[j] # None
    <3>1. enabled[j] \in SUBSET Refs
      BY <1>2, <2>1 DEF TypeOK
    <3>2. enabled'[j] = enabled[j] \/ enabled'[j] = {r \in enabled[j] : r[1] # b}
      BY <1>2, <1>6, <2>1 DEF RemoveBundle, TypeOK
    <3>3. {r \in enabled[j] : r[1] # b} \in SUBSET Refs
      BY <3>1
    <3> QED BY <2>1, <3>2, <3>3, HostAssumption
  <2> QED BY <1>2, <1>6, <2>1, AroundGood DEF RemoveBundle
<1>7. ASSUME NEW s \in Sources, EditFile(s) PROVE \A j \in Insts : Good(j)'
  BY <1>2, <1>7, AroundGood DEF EditFile, config
<1>s. ASSUME NEW i \in Insts, Setup(i) PROVE \A j \in Insts : Good(j)'
  <2>1. \A j \in Insts : enabled[j] # None => enabled'[j] # None
    BY <1>2, <1>s, SetupType
  <2> QED BY <1>2, <1>s, <2>1, SetupAround, AroundGood
<1>8. ASSUME UNCHANGED vars PROVE \A j \in Insts : Good(j)'
  BY <1>2, <1>8, AroundGood DEF vars, config, process
<1>9. ASSUME Next PROVE \A j \in Insts : Good(j)'
  <2>1. \/ \E i \in Insts :
             \/ Begins(i) \/ List(i) \/ Choose(i) \/ WriteTask(i) \/ SetRef(i) \/ Plan(i)
             \/ (\E t \in Tasks : Apply(i, t) \/ ApplyFails(i, t))
             \/ End(i) \/ Crash(i) \/ Setup(i) \/ Vanish(i)
             \/ (\E b \in BundlesOf[i] : Toggle(i, b) \/ RemoveBundle(i, b))
        \/ \E s \in Sources : EditFile(s)
    BY <1>2, <1>9, Cases
  <2> QED BY <1>3, <1>4, <1>5, <1>6, <1>7, <1>s, <2>1
<1>10. \A j \in Insts : Good(j)'
  BY <1>8, <1>9
<1>11. Holding' /\ Placed' /\ PlanIsCurrent' /\ Reach' /\ Written'
  BY <1>10 DEF Holding, Placed, PlanIsCurrent, Reach, Written, Good
<1> QED BY <1>1, <1>11, FreshStep DEF IInv

LEMMA Always == Spec => []IInv
BY InitType, Inductive, PTL DEF Spec

-----------------------------------------------------------------------------
(* Theorems.                                                               *)

\* Every variable keeps its type.
THEOREM TypeCorrect == Spec => []TypeOK
<1>1. IInv => TypeOK
  BY DEF IInv
<1> QED BY Always, <1>1, PTL

\* The lock keeps all others away between the listing of the rows and the last
\* change that was planned from it: no plan is ever applied to another row than
\* the one it was made for.
THEOREM PlansCurrent == Spec => []PlanIsCurrent
<1>1. IInv => PlanIsCurrent
  BY DEF IInv
<1> QED BY Always, <1>1, PTL

\* The rows of others are out of reach, but for the ways akmTasksSync really has.
THEOREM OthersRowsKept == Spec => ForeignRowsKept
<1> DEFINE Kept == \A t \in Tasks : rows[t] # None /\ rows'[t] # rows[t] =>
      \E i \in Insts : /\ todo[i][t].op # "none"
                       /\ \/ rows[t].inst \in {i} \cup gone
                          \/ rows[t].bundle \in Covered(i) \ {Primary[i]}
                          \/ todo[i][t].op = "remove" /\ cmd[i].bundle = None /\ rows[t].bundle \in BundlesOf[i]
<1>1. ASSUME IInv, [Next]_vars PROVE [Kept]_vars
  <2> SUFFICES ASSUME NEW t \in Tasks, rows[t] # None, rows'[t] # rows[t]
               PROVE \E i \in Insts : /\ todo[i][t].op # "none"
                                      /\ \/ rows[t].inst \in {i} \cup gone
                                         \/ rows[t].bundle \in Covered(i) \ {Primary[i]}
                                         \/ /\ todo[i][t].op = "remove"
                                            /\ cmd[i].bundle = None /\ rows[t].bundle \in BundlesOf[i]
    OBVIOUS
  <2>1. TypeOK
    BY <1>1 DEF IInv
  <2>2. Next
    BY <1>1 DEF vars
  <2>3. PICK i \in Insts : \E u \in Tasks : Apply(i, u)
    BY <2>1, <2>2, RowsMove, SetupAround
  <2>4. Apply(i, t)
    BY <2>1, <2>3 DEF Apply, TypeOK
  <2>5. todo[i][t].op # "none"
    BY <2>4 DEF Apply, NextOps, Pending
  <2>6. rows[t] = seen[i][t] /\ Allowed(i, t)
    BY <1>1, <2>5 DEF IInv, PlanIsCurrent, Reach
  <2> QED BY <2>5, <2>6 DEF Allowed
<1> QED BY Always, <1>1, PTL DEF Spec, ForeignRowsKept

\* No plan has a removal in it of a row that the installation whose row it is
\* still wants, broken files included, but for the removals by a name.
THEOREM WantedKept == Spec => WantedRowsKept
<1> DEFINE Kept == \A i \in Insts, t \in Tasks :
      /\ rows[t] # None /\ pc[i] = "plan" /\ todo'[i][t].op = "remove"
      /\ rows[t].inst \notin gone /\ Wants(rows[t].inst, <<rows[t].bundle, t>>)
      => /\ rows[t].inst # i
         /\ rows[t].bundle # Primary[i] \/ rows[t].bundle \in In(i, "disabled")
<1>1. ASSUME IInv, [Next]_vars PROVE [Kept]_vars
  <2> SUFFICES ASSUME NEW i \in Insts, NEW t \in Tasks, rows[t] # None, pc[i] = "plan",
                      todo'[i][t].op = "remove", rows[t].inst \notin gone,
                      Wants(rows[t].inst, <<rows[t].bundle, t>>), Next
               PROVE /\ rows[t].inst # i
                     /\ rows[t].bundle # Primary[i] \/ rows[t].bundle \in In(i, "disabled")
    BY <1>1
  <2> DEFINE row == rows[t]
  <2>1. TypeOK /\ TypeOK' /\ (\A j \in Insts : Good(j))
    BY <1>1, AllGood, TypeStep DEF IInv
  <2>2. todo[i][t].op = "none" /\ seen[i] = rows /\ lock = i
    BY <2>1 DEF Good, Nothing
  <2>3. Plan(i) /\ todo'[i] = Planned(i)
    <3>1. ASSUME NEW j \in Insts,
                 \/ List(j) \/ Choose(j) \/ WriteTask(j) \/ SetRef(j) \/ Plan(j)
                 \/ (\E u \in Tasks : Apply(j, u) \/ ApplyFails(j, u)) \/ End(j)
          PROVE j = i /\ Plan(i)
      BY <2>1, <2>2, <3>1 DEF List, Choose, WriteTask, SetRef, Plan, Apply, ApplyFails, End, Good
    <3>2. ASSUME NEW j \in Insts, Crash(j) PROVE FALSE
      BY <2>1, <2>2, <3>2 DEF Crash, Finish, Nothing, Good, TypeOK
    <3>3. ASSUME NEW j \in Insts, Begins(j) PROVE FALSE
      BY <2>2, <3>3, HostAssumption DEF Begins, Begin, MayBegin
    <3>4. ASSUME NEW j \in Insts,
                 Vanish(j) \/ \E b \in BundlesOf[j] : Toggle(j, b) \/ RemoveBundle(j, b)
          PROVE FALSE
      BY <2>2, <3>4 DEF Vanish, Toggle, RemoveBundle, process
    <3>5. ASSUME NEW s \in Sources, EditFile(s) PROVE FALSE
      BY <2>2, <3>5 DEF EditFile, process
    <3>6. ASSUME NEW j \in Insts, Setup(j) PROVE FALSE
      BY <2>2, <3>6, SetupAround DEF process
    <3>7. Plan(i)
      BY <2>1, <3>1, <3>2, <3>3, <3>4, <3>5, <3>6, Cases
    <3>8. todo'[i][t] = Planned(i)[t] \/ todo'[i] = Nothing
      BY <2>1, <3>7 DEF Plan, Finish, TypeOK
    <3> QED BY <2>1, <3>7 DEF Plan, Finish, TypeOK, Nothing
  <2>4. \/ cmd[i].kind = "prune" /\ t \in Orphans(i)
        \/ t \in Removals(i)
    BY <2>3 DEF Planned
  <2>5. t \in Removals(i)
    BY <2>2, <2>4 DEF Orphans
  <2>6. t \notin DesiredTasks(i)
    BY <2>5 DEF Removals
  <2>7. \/ InScope(i, row) /\ <<row.bundle, t>> \notin KeepRefs(i)
        \/ row.bundle \in In(i, "disabled")
    BY <2>2, <2>5 DEF Removals
  <2>8. /\ row.bundle \in In(row.inst, "active") /\ <<row.bundle, t>> \in enabled[row.inst]
        /\ Content(row.inst, <<row.bundle, t>>) # "absent"
    BY DEF Wants
  <2>9. row.inst # i
    <3> SUFFICES ASSUME row.inst = i PROVE FALSE
      OBVIOUS
    <3>1. row.bundle \notin In(i, "disabled")
      BY <2>8 DEF In
    <3>2. row.bundle \in Selected(i) /\ <<row.bundle, t>> \notin KeepRefs(i)
      BY <2>7, <3>1 DEF InScope
    <3>3. Content(i, <<row.bundle, t>>) \in Contents
      <4>1. <<i, row.bundle, t>> \in Sources
        BY <2>1, <2>8 DEF Sources, In, TypeOK, Row
      <4> QED BY <2>1, <4>1 DEF Content, TypeOK
    <3>4. <<row.bundle, t>> \notin Desired(i)
      BY <2>6 DEF DesiredTasks
    <3> QED BY <2>8, <3>2, <3>3, <3>4 DEF Desired, KeepRefs, Contents
  <2>10. row.bundle # Primary[i] \/ row.bundle \in In(i, "disabled")
    BY <2>7, <2>9 DEF InScope
  <2> QED BY <2>9, <2>10
<1> QED BY Always, <1>1, PTL DEF Spec, WantedRowsKept

\* The list of a host is started, by a command or by a setup that could list the
\* rows, with every row that the host runs and still has: neither the listing that
\* a setup makes without the lock nor the overwriting of another one's list drops
\* one.
THEOREM FirstChoiceKept == Spec => FirstChoiceKeepsRows
<1> DEFINE Kept == \A i \in Insts :
      enabled[i] = None /\ enabled'[i] # None /\ ~SetupEnlist(i) =>
        \A t \in Tasks : LET row == rows[t] IN
          /\ row # None /\ row.inst = i /\ row.bundle \in In(i, "active")
          /\ Content(i, <<row.bundle, t>>) # "absent"
          => <<row.bundle, t>> \in enabled'[i]
<1>1. ASSUME IInv, [Next]_vars PROVE [Kept]_vars
  <2> SUFFICES ASSUME Next, NEW i \in Insts, enabled[i] = None, enabled'[i] # None, ~SetupEnlist(i),
                      NEW t \in Tasks, rows[t] # None, rows[t].inst = i,
                      rows[t].bundle \in In(i, "active"),
                      Content(i, <<rows[t].bundle, t>>) # "absent"
               PROVE <<rows[t].bundle, t>> \in enabled'[i]
    BY <1>1
  <2>1. TypeOK /\ (\A j \in Insts : Good(j)) /\ Fresh
    BY <1>1, AllGood DEF IInv
  <2>2. Choose(i) \/ SetupChoose(i)
    <3>1. ASSUME NEW j \in Insts, SetRef(j) PROVE FALSE
      BY <2>1, <3>1 DEF SetRef, Good, TypeOK
    <3>2. ASSUME NEW j \in Insts, NEW b \in BundlesOf[j], RemoveBundle(j, b) PROVE FALSE
      BY <2>1, <3>2 DEF RemoveBundle, TypeOK
    <3>3. ASSUME NEW j \in Insts, Choose(j) \/ SetupChoose(j) \/ SetupEnlist(j) PROVE j = i
      BY <2>1, <3>3 DEF Choose, SetupChoose, SetupEnlist, TypeOK
    <3>4. ASSUME NEW j \in Insts,
                 \/ Begins(j) \/ List(j) \/ WriteTask(j) \/ Plan(j) \/ End(j) \/ Crash(j) \/ Vanish(j)
                 \/ (\E u \in Tasks : Apply(j, u) \/ ApplyFails(j, u))
                 \/ (\E b \in BundlesOf[j] : Toggle(j, b))
                 \/ SetupBegin(j) \/ SetupPrepare(j) \/ SetupLeaves(j)
          PROVE FALSE
      BY <3>4 DEF Begins, Begin, List, WriteTask, Plan, End, Crash, Vanish, Apply, ApplyFails,
                  Toggle, SetupBegin, SetupPrepare, SetupLeaves, config
    <3>5. ASSUME NEW s \in Sources, EditFile(s) PROVE FALSE
      BY <3>5 DEF EditFile, config
    <3>6. ASSUME NEW j \in Insts, Setup(j) PROVE SetupChoose(i)
      BY <3>3, <3>4, <3>6 DEF Setup
    <3> QED BY <2>1, <3>1, <3>2, <3>3, <3>4, <3>5, <3>6, Cases
  <2>3. \E listed : enabled'[i] = Chosen(i, listed) /\ listed[t] = rows[t]
    <3>1. CASE Choose(i)
      <4>1. seen[i] = rows /\ enabled'[i] = Chosen(i, seen[i])
        BY <2>1, <3>1 DEF Choose, Good, TypeOK
      <4> QED BY <4>1
    <3>2. CASE SetupChoose(i)
      <4>1. enabled'[i] = Chosen(i, setup[i].found) /\ setup[i].at = "listed"
        BY <2>1, <3>2 DEF SetupChoose, TypeOK
      <4>2. setup[i].found[t] = rows[t]
        BY <2>1, <4>1 DEF Fresh
      <4> QED BY <4>1, <4>2
    <3> QED BY <2>2, <3>1, <3>2
  <2>4. <<rows[t].bundle, t>> \in Refs
    BY <2>1 DEF TypeOK, Row, Refs
  <2> QED BY <2>3, <2>4 DEF Chosen
<1> QED BY Always, <1>1, PTL DEF Spec, FirstChoiceKeepsRows

-----------------------------------------------------------------------------
(* What a sync leaves behind: the safety core of Converges.                *)

Syncing(i) == cmd[i].kind = "sync" /\ cmd[i].bundle = None

\* While a command is under way nothing changes but by commands (no edit of a file
\* or a config, no setup that writes one), no call of the backend fails and no
\* process dies.
Calm ==
  /\ bundle' = bundle /\ gone' = gone /\ faults' = faults
  /\ file' # file => \E i \in Insts : WriteTask(i)
  /\ enabled' # enabled => \E i \in Insts : Choose(i) \/ SetRef(i)
CalmUnderLock == lock # None => Calm

\* What Reflects says of a row, and the row that a plan will have left.
Settles(i, t, row) ==
  LET wanting == {r \in Refs : r[2] = t /\ Wants(i, r) /\ Content(i, r) # "broken"}
  IN \/ Cardinality(wanting) > 1
     \/ \E r \in wanting : row = Render(i, r)
     \/ \E r \in wanting : row # None /\ ~(Mine(i, row) /\ row.bundle = r[1])
     \/ /\ wanting = {}
        /\ row # None => /\ row.bundle \notin In(i, "disabled")
                         /\ ~Mine(i, row) \/ Wants(i, <<row.bundle, t>>)
Outcome(i, t) == IF todo[i][t].op = "none" THEN rows[t] ELSE todo[i][t].row

\* A sync that applies its plan is on its way to what its configs want.
OnCourse == \A i \in Insts :
  pc[i] = "apply" /\ Syncing(i) => \A t \in Tasks : Settles(i, t, Outcome(i, t))

\* The plan of an unscoped sync, row by row: one ref wants the task and gets it
\* (its row is written unless it is there), or is kept from it by somebody else's
\* row; or none does, and a row of this host's goes unless its file is broken.
LEMMA PlanSettles ==
  ASSUME IsFiniteSet(Bundles), TypeOK, NEW i \in Insts, NEW t \in Tasks,
         Syncing(i), enabled[i] # None, seen[i] = rows
  PROVE  Settles(i, t, IF Planned(i)[t].op = "none" THEN rows[t] ELSE Planned(i)[t].row)
<1> DEFINE wanting == {r \in Refs : r[2] = t /\ Wants(i, r) /\ Content(i, r) # "broken"}
           after == IF Planned(i)[t].op = "none" THEN rows[t] ELSE Planned(i)[t].row
<1>1. enabled[i] \in SUBSET Refs /\ Selected(i) = In(i, "active") /\ In(i, "active") \subseteq BundlesOf[i]
  BY DEF TypeOK, Selected, Syncing, In
<1>2. \A r \in Refs : r[1] \in BundlesOf[i] => Content(i, r) \in Contents
  <2> SUFFICES ASSUME NEW r \in Refs, r[1] \in BundlesOf[i] PROVE Content(i, r) \in Contents
    OBVIOUS
  <2>1. <<i, r[1], r[2]>> \in Sources
    BY DEF Sources, Refs
  <2> QED BY <2>1 DEF Content, TypeOK
<1>3. \A r \in Refs : r \in wanting <=> r \in Desired(i) /\ r[2] = t
  BY <1>1, <1>2, HostAssumption DEF Wants, Desired, Contents
<1>4. wanting \subseteq Refs /\ Desired(i) \subseteq Refs
  BY <1>1 DEF Desired
<1>5. \A row : InScope(i, row) <=> Mine(i, row)
  BY <1>1 DEF InScope, Mine
<1>6. IsFiniteSet(wanting)
  <2>1. IsFiniteSet(Bundles \X {t})
    BY FS_Product, FS_Singleton
  <2>2. wanting \in SUBSET (Bundles \X {t})
    BY DEF Refs
  <2> HIDE DEF wanting
  <2> QED BY <2>1, <2>2, FS_Subset
<1> HIDE DEF wanting, after
<1>7. ASSUME \E r, s \in wanting : r # s PROVE Settles(i, t, after)
  <2>1. Cardinality(wanting) # 0 /\ Cardinality(wanting) # 1 /\ Cardinality(wanting) \in Nat
    <3>1. wanting # {} /\ \A x : wanting # {x}
      BY <1>7
    <3> QED BY <1>6, <3>1, FS_EmptySet, FS_Singleton, FS_CardinalityType
  <2>2. Cardinality(wanting) > 1
    BY <2>1
  <2> QED BY <2>2 DEF Settles, wanting
<1>8. ASSUME NEW r \in wanting, \A s \in wanting : s = r PROVE Settles(i, t, after)
  <2>1. r \in Refs /\ r \in Desired(i) /\ r[2] = t /\ \A s \in Desired(i) : s[2] = t => s = r
    BY <1>3, <1>4, <1>8
  <2>2. t \in DesiredTasks(i) /\ t \notin Removals(i)
    BY <2>1 DEF DesiredTasks, Removals
  <2>3. CASE t \in Skipped(i)
    <3>1. \A s \in Writes(i) : s[2] # t
      BY <2>3 DEF Writes
    <3>2. after = rows[t]
      BY <2>2, <3>1 DEF Planned, Syncing, after
    <3>3. rows[t] # None /\ ~(InScope(i, rows[t]) /\ <<rows[t].bundle, t>> \in Desired(i))
      BY <2>1, <2>3 DEF Skipped
    <3>4. rows[t].bundle = r[1] => <<rows[t].bundle, t>> = r
      BY <2>1 DEF Refs
    <3>5. rows[t] # None /\ ~(Mine(i, rows[t]) /\ rows[t].bundle = r[1])
      BY <1>5, <2>1, <3>3, <3>4
    <3> QED BY <1>8, <3>2, <3>5 DEF Settles, wanting
  <2>4. CASE t \notin Skipped(i) /\ rows[t] # Render(i, r)
    <3>1. r \in Writes(i) /\ \A s \in Writes(i) : s[2] = t => s = r
      BY <2>1, <2>4 DEF Writes
    <3>2. Planned(i)[t] = [op |-> "write", row |-> Render(i, r)]
      BY <2>1, <2>2, <3>1 DEF Planned, Syncing, after
    <3>3. after = Render(i, r)
      BY <3>2 DEF after
    <3> QED BY <1>8, <3>3 DEF Settles, wanting
  <2>5. CASE t \notin Skipped(i) /\ rows[t] = Render(i, r)
    <3>1. \A s \in Writes(i) : s[2] # t
      BY <2>1, <2>5 DEF Writes
    <3>2. after = Render(i, r)
      BY <2>2, <2>5, <3>1 DEF Planned, Syncing, after
    <3> QED BY <1>8, <3>2 DEF Settles, wanting
  <2> QED BY <2>3, <2>4, <2>5
<1>9. ASSUME wanting = {} PROVE Settles(i, t, after)
  <2>1. t \notin DesiredTasks(i) /\ \A s \in Writes(i) : s[2] # t
    BY <1>3, <1>4, <1>9 DEF DesiredTasks, Writes
  <2>2. after # None => after = rows[t] /\ t \notin Removals(i)
    BY <2>1 DEF Planned, Syncing, after
  <2>3. ASSUME after # None
        PROVE  /\ after.bundle \notin In(i, "disabled")
               /\ ~Mine(i, after) \/ Wants(i, <<after.bundle, t>>)
    <3>1. after = rows[t] /\ t \notin Removals(i)
      BY <2>2, <2>3
    <3>2. /\ ~(InScope(i, after) /\ <<after.bundle, t>> \notin KeepRefs(i))
          /\ after.bundle \notin In(i, "disabled")
      BY <2>1, <2>3, <3>1 DEF Removals, Syncing
    <3>3. <<after.bundle, t>> \in KeepRefs(i) => Wants(i, <<after.bundle, t>>)
      BY <1>1, HostAssumption DEF KeepRefs, Wants
    <3> QED BY <1>5, <3>2, <3>3
  <2> QED BY <1>9, <2>3 DEF Settles, wanting
<1>10. Settles(i, t, after)
  BY <1>7, <1>8, <1>9
<1> QED BY <1>10 DEF after

\* A step that leaves files and the config of i alone changes nothing of that.
LEMMA SettlesKept ==
  ASSUME NEW i \in Insts, NEW t \in Tasks, NEW row, file' = file, bundle' = bundle, enabled' = enabled,
         Settles(i, t, row)
  PROVE  Settles(i, t, row)'
BY DEF Settles, Wants, Content, Mine, In, Render

\* In a calm step of an installation that applies a plan only its own command
\* goes on: the lock keeps the others from beginning one.
LEMMA ApplyCalm ==
  ASSUME IInv, [Next]_vars, CalmUnderLock, NEW i \in Insts, pc[i] = "apply", pc'[i] = "apply"
  PROVE  \/ \E u \in Tasks : Apply(i, u)
         \/ UNCHANGED <<rows, file, config, process>>
<1>0. TypeOK /\ Configured /\ lock = i /\ (\A j \in Insts : Good(j)) /\ i # None
  BY AllGood, HostAssumption DEF IInv, Holding
<1>c. Calm
  BY <1>0 DEF CalmUnderLock
<1>1. ASSUME NEW j \in Insts,
             \/ List(j) \/ Choose(j) \/ WriteTask(j) \/ SetRef(j) \/ Plan(j)
             \/ (\E u \in Tasks : Apply(j, u) \/ ApplyFails(j, u)) \/ End(j) \/ Crash(j)
      PROVE \E u \in Tasks : Apply(i, u)
  <2>1. pc[j] # "idle"
    BY <1>1 DEF List, Choose, WriteTask, SetRef, Plan, Apply, ApplyFails, End, Crash
  <2>2. j = i
    BY <1>0, <2>1 DEF Good
  <2>3. ~(List(j) \/ Choose(j) \/ WriteTask(j) \/ SetRef(j) \/ Plan(j))
    BY <2>2 DEF List, Choose, WriteTask, SetRef, Plan
  <2>4. ~(End(j) \/ Crash(j))
    BY <1>0, <2>2 DEF End, Crash, Finish, Goto, TypeOK
  <2>5. \A u \in Tasks : ~ApplyFails(j, u)
    BY <1>0, <1>c DEF ApplyFails, Fault, Calm, TypeOK
  <2> QED BY <1>1, <2>2, <2>3, <2>4, <2>5
<1>2. ASSUME NEW j \in Insts, Begins(j) PROVE FALSE
  BY <1>0, <1>2 DEF Begins, Begin, MayBegin
<1>3. ASSUME NEW j \in Insts, Vanish(j) PROVE FALSE
  BY <1>3, <1>c DEF Vanish, Calm
<1>4. ASSUME NEW j \in Insts, NEW b \in BundlesOf[j], Toggle(j, b) PROVE UNCHANGED <<rows, file, config, process>>
  BY <1>4, <1>c DEF Toggle, Calm, config
<1>5. ASSUME NEW j \in Insts, NEW b \in BundlesOf[j], RemoveBundle(j, b) PROVE FALSE
  <2>1. bundle[j] \in [BundlesOf[j] -> {"active", "disabled", "removed"}]
    BY <1>0 DEF TypeOK
  <2>2. bundle'[j][b] = "removed"
    BY <1>0, <1>5, <2>1 DEF RemoveBundle, Configured
  <2> QED BY <1>5, <1>c, <2>2 DEF RemoveBundle, Calm
<1>6. ASSUME NEW s \in Sources, EditFile(s) PROVE FALSE
  <2>1. file' # file
    BY <1>0, <1>6 DEF EditFile, TypeOK
  <2>2. PICK j \in Insts : WriteTask(j)
    BY <1>c, <2>1 DEF Calm
  <2>3. pc'[j] # pc[j]
    BY <1>0, <2>2 DEF WriteTask, Goto, TypeOK
  <2> QED BY <1>6, <2>3 DEF EditFile, process
<1>7. CASE UNCHANGED vars
  BY <1>7 DEF vars
<1>8. ASSUME NEW j \in Insts, Setup(j) PROVE UNCHANGED <<rows, file, config, process>>
  <2>1. UNCHANGED <<rows, bundle, process>>
    BY <1>8, SetupAround
  <2>2. \A k \in Insts : ~(Choose(k) \/ SetRef(k) \/ WriteTask(k))
    <3> SUFFICES ASSUME NEW k \in Insts, Choose(k) \/ SetRef(k) \/ WriteTask(k) PROVE FALSE
      OBVIOUS
    <3>1. k = i
      BY <1>0 DEF Choose, SetRef, WriteTask, Good
    <3> QED BY <3>1 DEF Choose, SetRef, WriteTask
  <2>3. file' = file /\ enabled' = enabled
    BY <1>c, <2>2 DEF Calm
  <2> QED BY <2>1, <2>3 DEF config
<1> QED BY <1>0, <1>1, <1>2, <1>3, <1>4, <1>5, <1>6, <1>7, <1>8, Cases

\* An installation comes to apply a plan by making it.
LEMMA ApplyComes ==
  ASSUME IInv, [Next]_vars, NEW i \in Insts, pc[i] # "apply", pc'[i] = "apply"
  PROVE  /\ pc[i] = "plan" /\ todo'[i] = Planned(i) /\ cmd'[i] = cmd[i]
         /\ UNCHANGED <<rows, file, config>>
<1>0. TypeOK
  BY DEF IInv
<1>1. ASSUME NEW j \in Insts,
             \/ Begins(j) \/ List(j) \/ Choose(j) \/ WriteTask(j) \/ SetRef(j)
             \/ (\E u \in Tasks : Apply(j, u) \/ ApplyFails(j, u)) \/ End(j) \/ Crash(j) \/ Vanish(j)
             \/ \E b \in BundlesOf[j] : Toggle(j, b) \/ RemoveBundle(j, b)
      PROVE FALSE
  <2>1. After(j) # "apply"
    BY DEF After
  <2> QED BY <1>0, <1>1, <2>1 DEF Begins, Begin, List, Choose, WriteTask, SetRef, Apply, ApplyFails, End, Crash, Vanish,
            Toggle, RemoveBundle, Finish, Goto, TypeOK, process
<1>2. ASSUME NEW s \in Sources, EditFile(s) PROVE FALSE
  BY <1>2 DEF EditFile, process
<1>3. ~UNCHANGED vars
  BY DEF vars, process
<1>4. ASSUME NEW j \in Insts, Setup(j) PROVE FALSE
  BY <1>4, SetupAround DEF process
<1>5. PICK j \in Insts : Plan(j)
  BY <1>0, <1>1, <1>2, <1>3, <1>4, Cases
<1>6. j = i
  BY <1>0, <1>5 DEF Plan, Finish, Goto, TypeOK
<1> QED BY <1>0, <1>5, <1>6 DEF Plan, Finish, Goto, TypeOK

\* Every change that is applied brings the rows to where the plan has them.
LEMMA OnCourseStep ==
  ASSUME IsFiniteSet(Bundles), IInv, OnCourse, [Next]_vars, CalmUnderLock
  PROVE  OnCourse'
<1> SUFFICES ASSUME NEW i \in Insts, pc'[i] = "apply", Syncing(i)', NEW t \in Tasks
             PROVE  Settles(i, t, Outcome(i, t))'
  BY DEF OnCourse
<1>0. TypeOK /\ (\A j \in Insts : Good(j))
  BY AllGood DEF IInv
<1>1. PICK row : row = Outcome(i, t)'
  OBVIOUS
<1>2. Settles(i, t, row)' => Settles(i, t, Outcome(i, t))'
  BY <1>1 DEF Settles
<1>3. CASE pc[i] = "apply"
  <2>1. CASE UNCHANGED <<rows, file, config, process>>
    <3>1. Settles(i, t, Outcome(i, t))
      BY <1>3, <2>1 DEF OnCourse, Syncing, process
    <3>2. row = Outcome(i, t)
      BY <1>1, <2>1 DEF Outcome, process
    <3> QED BY <1>2, <2>1, <3>1, <3>2, SettlesKept DEF config
  <2>2. ASSUME NEW u \in Tasks, Apply(i, u) PROVE Settles(i, t, Outcome(i, t))'
    <3>1. Settles(i, t, Outcome(i, t))
      BY <1>3, <2>2 DEF OnCourse, Syncing, Apply
    <3>2. todo[i][u].op # "none"
      BY <2>2 DEF Apply, NextOps, Pending
    <3>3. row = Outcome(i, t)
      BY <1>0, <1>1, <2>2, <3>2 DEF Outcome, Apply, Nothing, TypeOK
    <3>4. file' = file /\ bundle' = bundle /\ enabled' = enabled
      BY <2>2 DEF Apply, config
    <3> QED BY <1>2, <3>1, <3>3, <3>4, SettlesKept
  <2> QED BY <1>3, <2>1, <2>2, ApplyCalm
<1>4. CASE pc[i] # "apply"
  <2>1. /\ pc[i] = "plan" /\ todo'[i] = Planned(i) /\ cmd'[i] = cmd[i]
        /\ rows' = rows /\ file' = file /\ bundle' = bundle /\ enabled' = enabled
    BY <1>4, ApplyComes DEF config
  <2>2. seen[i] = rows /\ Syncing(i) /\ enabled[i] # None
    BY <1>0, <2>1 DEF Good, Syncing
  <2>3. row = IF Planned(i)[t].op = "none" THEN rows[t] ELSE Planned(i)[t].row
    BY <1>1, <2>1 DEF Outcome
  <2>4. Settles(i, t, row)
    BY <1>0, <2>2, <2>3, PlanSettles
  <2> QED BY <1>2, <2>1, <2>4, SettlesKept
<1> QED BY <1>3, <1>4

\* From any moment when no command is under way: if from then on nothing changes
\* in the middle of a command and nothing fails, every unscoped `akm task sync'
\* that comes to its end leaves of every task what the config of its host wants,
\* whatever was edited, crashed or failed before.
THEOREM SyncReflects ==
  ASSUME IsFiniteSet(Bundles)
  PROVE  Spec => [](lock = None /\ [][CalmUnderLock]_vars =>
                      [][\A i \in Insts : End(i) /\ Syncing(i) => \A t \in Tasks : Reflects(i, t)]_vars)
<1> DEFINE Leaves == \A i \in Insts : End(i) /\ Syncing(i) => \A t \in Tasks : Reflects(i, t)
<1>1. IInv /\ lock = None => OnCourse
  BY HostAssumption DEF IInv, Holding, OnCourse
<1>2. IInv /\ OnCourse /\ [Next]_vars /\ [CalmUnderLock]_vars => OnCourse'
  <2>1. ASSUME IInv, OnCourse, UNCHANGED vars PROVE OnCourse'
    <3>1. CalmUnderLock
      BY <2>1 DEF CalmUnderLock, Calm, vars, config
    <3> QED BY <2>1, <3>1, OnCourseStep
  <2> QED BY <2>1, OnCourseStep
<1>3. IInv /\ OnCourse => Leaves
  <2> SUFFICES ASSUME IInv, OnCourse, NEW i \in Insts, End(i), Syncing(i), NEW t \in Tasks
               PROVE  Reflects(i, t)
    OBVIOUS
  <2>1. pc[i] = "apply" /\ todo[i][t].op \notin {"remove", "write"}
    BY DEF End, NextOps, Pending
  <2>2. Settles(i, t, Outcome(i, t))
    BY <2>1 DEF OnCourse
  <2>3. todo[i][t].op = "none"
    BY <2>1 DEF IInv, TypeOK
  <2> QED BY <2>2, <2>3 DEF Settles, Outcome, Reflects
<1> HIDE DEF Leaves
<1>4. Spec => [](lock = None /\ [][CalmUnderLock]_vars => [][Leaves]_vars)
  BY <1>1, <1>2, <1>3, Always, PTL DEF Spec
<1> QED BY <1>4 DEF Leaves
===============================================================================
