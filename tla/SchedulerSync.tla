---------------------------- MODULE SchedulerSync ----------------------------
(***************************************************************************)
(* The host's native scheduler (one crontab) and the akm installations     *)
(* that keep rows in it.  Each installation has its own config and its own *)
(* working stash, the primary bundle; `akm task sync', `enable', `disable',*)
(* `add' and `prune --yes' read the rows, plan and apply one change at a   *)
(* time, all under one lock file.  Native ids are task ids, and are shared *)
(* by every bundle of every installation.                                  *)
(*                                                                         *)
(* `akm setup' reviews the tasks that akm ships with: it reads the rows and *)
(* writes task files and the config without that lock, and ends in a sync.  *)
(*                                                                         *)
(* A step is one read or write of the crontab, the config or a task file.  *)
(* Files and configs are edited at any time.                               *)
(***************************************************************************)
EXTENDS Naturals, FiniteSets

CONSTANTS
  Insts, Tasks,
  Templates,    \* the tasks akm ships with
  Bundles,      \* bundle names: two installations may use the same one
  BundlesOf,    \* the bundles each installation has in its config
  Primary,      \* the name of its working stash
  Versions,     \* what a task file that compiles may say
  Files0, Rows0, Enabled0,   \* what the host starts with
  None,
  MaxEdits,     \* bound: changes of files and configs, `enable', `disable', `add', `setup'
  MaxFaults,    \* bound: crashes and failing backend calls
  SetupOn       \* bound: the installations on which `setup' is run

Refs == Bundles \X Tasks
Sources == {s \in Insts \X Bundles \X Tasks : s[2] \in BundlesOf[s[1]]}
Contents == Versions \cup {"absent", "broken"}
Row == [inst : Insts, bundle : Bundles, ver : Versions]

ASSUME HostAssumption ==
  /\ Templates \subseteq Tasks /\ BundlesOf \in [Insts -> SUBSET Bundles]
  /\ Primary \in [Insts -> Bundles] /\ \A i \in Insts : Primary[i] \in BundlesOf[i]
  /\ Versions \cap {"absent", "broken"} = {}
  /\ None \notin Insts \cup Row /\ \A s \in SUBSET Refs : s # None
  /\ Files0 \in [Sources -> Contents] /\ Rows0 \in [Tasks -> Row \cup {None}]
  /\ Enabled0 \in [Insts -> {None} \cup SUBSET Refs]
  /\ MaxEdits \in Nat /\ MaxFaults \in Nat /\ SetupOn \subseteq Insts

VARIABLES
  rows,     \* the akm blocks of the crontab: whose AKM_BUNDLE_DIR they carry, the bundle
  file,     \* the task files
  enabled,  \* scheduler.enabled of each config; None if the host has never chosen
  bundle,   \* each configured bundle: active, disabled, or removed from the config
  gone,     \* installations whose working stash was deleted
  lock, pc,
  cmd,      \* the command of each installation, and the ref it is about
  seen,     \* the rows it has listed
  todo,     \* the operations it has still to apply
  setup,    \* where the `akm setup' of each installation is, and the rows it has listed
  edits, faults

config == <<enabled, bundle>>
process == <<pc, cmd, seen, todo>>
vars == <<rows, file, config, gone, lock, process, setup, edits, faults>>

NoCmd == [kind |-> "none", bundle |-> None, task |-> None]
Nothing == [t \in Tasks |-> [op |-> "none", row |-> None]]
NoRows == [t \in Tasks |-> None]
NoSetup == [at |-> "idle", found |-> NoRows]

Init ==
  /\ rows = Rows0 /\ file = Files0 /\ enabled = Enabled0
  /\ bundle = [i \in Insts |-> [b \in BundlesOf[i] |-> "active"]]
  /\ gone = {} /\ lock = None
  /\ pc = [i \in Insts |-> "idle"] /\ cmd = [i \in Insts |-> NoCmd]
  /\ seen = [i \in Insts |-> NoRows] /\ todo = [i \in Insts |-> Nothing]
  /\ setup = [i \in Insts |-> NoSetup] /\ edits = 0 /\ faults = 0

Edit == edits < MaxEdits /\ edits' = edits + 1
Fault == faults < MaxFaults /\ faults' = faults + 1
Goto(i, label) == pc' = [pc EXCEPT ![i] = label]
In(i, state) == {b \in BundlesOf[i] : bundle[i][b] = state}
Content(i, r) == file[<<i, r[1], r[2]>>]

-----------------------------------------------------------------------------
(* The plan.                                                               *)

\* The bundles a sync covers: the one it names, or every active one.
Selected(i) == IF cmd[i].bundle = None THEN In(i, "active") ELSE {cmd[i].bundle}

\* Enabled refs of those bundles whose file compiles, or fails to.
Desired_present(i) == {r \in enabled[i] : r[1] \in Selected(i) /\ Content(i, r) # "absent"}
                                     \* faulty: it need not compile
Desired(i) == {r \in enabled[i] : r[1] \in Selected(i) /\ Content(i, r) \in Versions}
KeepRefs_none(i) == {}   \* faulty: a file that fails to compile counts as gone
KeepRefs(i) == {r \in enabled[i] : r[1] \in Selected(i) /\ Content(i, r) = "broken"}
DesiredTasks(i) == {r[2] : r \in Desired(i)}
Render(i, r) == [inst |-> i, bundle |-> r[1], ver |-> Content(i, r)]

\* installedRowScope: the primary bundle proves a row by its path, any other
\* bundle by its name.
InScope_byName(i, row) == row.bundle \in Selected(i)   \* faulty: the name is enough
InScope(i, row) ==
  /\ row.bundle \in Selected(i)
  /\ row.bundle = Primary[i] => row.inst = i

\* Two refs claim the task, or a row of another scope holds it.
Skipped(i) == {t \in DesiredTasks(i) :
  \/ \E r, s \in Desired(i) : r # s /\ r[2] = t /\ s[2] = t
  \/ seen[i][t] # None /\ ~(InScope(i, seen[i][t]) /\ <<seen[i][t].bundle, t>> \in Desired(i))}

Writes_missing(i) ==   \* faulty: a row that is there is not compared
  {r \in Desired(i) : r[2] \notin Skipped(i) /\ seen[i][r[2]] = None}
Writes(i) == {r \in Desired(i) : r[2] \notin Skipped(i) /\ seen[i][r[2]] # Render(i, r)}

\* Rows in scope that nothing wants; an unscoped sync also removes the rows of
\* the bundles that are disabled, by name.
Removals(i) == {t \in Tasks \ DesiredTasks(i) :
  /\ seen[i][t] # None
  /\ \/ InScope(i, seen[i][t]) /\ <<seen[i][t].bundle, t>> \notin KeepRefs(i)
     \/ cmd[i].bundle = None /\ seen[i][t].bundle \in In(i, "disabled")}

\* `prune': the rows whose AKM_BUNDLE_DIR does not exist.
Orphans(i) == {t \in Tasks : seen[i][t] # None /\ seen[i][t].inst \in gone}

Planned(i) == [t \in Tasks |->
  IF t \in (IF cmd[i].kind = "prune" THEN Orphans(i) ELSE Removals(i))
  THEN [op |-> "remove", row |-> None]
  ELSE IF cmd[i].kind # "prune" /\ \E r \in Writes(i) : r[2] = t
       THEN [op |-> "write", row |-> Render(i, CHOOSE r \in Writes(i) : r[2] = t)]
       ELSE [op |-> "none", row |-> None]]

-----------------------------------------------------------------------------
(* The commands.                                                           *)

\* withSchedulerLock; a command refused with SCHEDULER_LOCK_HELD has done
\* nothing.
MayBegin_unlocked == TRUE   \* faulty: the commands take no lock
MayBegin == lock = None

Begin(i, c) ==
  /\ pc[i] = "idle" /\ i \notin gone /\ MayBegin
  /\ lock' = i /\ cmd' = [cmd EXCEPT ![i] = c] /\ Goto(i, "list")
  /\ UNCHANGED <<rows, file, config, gone, seen, todo, setup, faults>>

Sync(i) == Begin(i, [NoCmd EXCEPT !.kind = "sync"]) /\ UNCHANGED edits
SyncBundle(i, b) ==
  Begin(i, [kind |-> "sync", bundle |-> b, task |-> None]) /\ UNCHANGED edits
Prune(i) == Begin(i, [NoCmd EXCEPT !.kind = "prune"]) /\ UNCHANGED edits

\* resolveTaskActivation: before the lock, `enable' wants a file it can parse.
Activate(i, kind, r) ==
  /\ Edit /\ r[1] \in In(i, "active")
  /\ kind = "enable" => Content(i, r) \in Versions
  /\ Begin(i, [kind |-> kind, bundle |-> r[1], task |-> r[2]])

Finish(i) ==
  /\ lock' = IF lock = i THEN None ELSE lock
  /\ Goto(i, "idle") /\ cmd' = [cmd EXCEPT ![i] = NoCmd]
  /\ seen' = [seen EXCEPT ![i] = NoRows] /\ todo' = [todo EXCEPT ![i] = Nothing]

\* Where a command goes on once there is a list of enabled refs.
After(i) == CASE cmd[i].kind \in {"sync", "prune"} -> "plan" [] cmd[i].kind = "add" -> "write"
              [] OTHER -> "set"

\* listInstalledRows.  `add' refuses an id that another scope holds; a config that
\* has no list yet gets one, but for `prune'.
List(i) ==
  /\ pc[i] = "list"
  /\ LET held == rows[cmd[i].task]
     IN \/ /\ cmd[i].kind = "add" /\ held # None /\ ~InScope(i, held)
           /\ Finish(i)
        \/ /\ ~(cmd[i].kind = "add" /\ held # None /\ ~InScope(i, held))
           /\ seen' = [seen EXCEPT ![i] = rows]
           /\ Goto(i, IF enabled[i] = None /\ cmd[i].kind # "prune" THEN "choose" ELSE After(i))
           /\ UNCHANGED <<lock, cmd, todo>>
  /\ UNCHANGED <<rows, file, config, gone, setup, edits, faults>>

\* enabledRefsFromInstalled: rows of this config's active bundles whose file is
\* there.
Chosen_none(i, listed) == {}   \* faulty: one ref is added to a list that never existed
Chosen(i, listed) == {r \in Refs :
  /\ r[1] \in In(i, "active") /\ Content(i, r) # "absent"
  /\ listed[r[2]] # None /\ listed[r[2]].bundle = r[1]}

\* initializeSchedulerChoice, whatever the config has got meanwhile.
Choose(i) ==
  /\ pc[i] = "choose"
  /\ enabled' = [enabled EXCEPT ![i] = Chosen(i, seen[i])]
  /\ Goto(i, After(i))
  /\ UNCHANGED <<rows, file, bundle, gone, lock, cmd, seen, todo, setup, edits, faults>>

\* The task file that `add' renders.
WriteTask(i) ==
  /\ pc[i] = "write"
  /\ \E v \in Versions : file' = [file EXCEPT ![<<i, cmd[i].bundle, cmd[i].task>>] = v]
  /\ Goto(i, "set")
  /\ UNCHANGED <<rows, config, gone, lock, cmd, seen, todo, setup, edits, faults>>

\* setSchedulerRefEnabled, which refuses a bundle that is not active; then a
\* sync of the bundle.
SetRef(i) ==
  LET r == <<cmd[i].bundle, cmd[i].task>>
  IN /\ pc[i] = "set"
     /\ \/ /\ cmd[i].kind = "disable" \/ r[1] \in In(i, "active")
           /\ enabled' = [enabled EXCEPT ![i] = IF cmd[i].kind = "disable" THEN @ \ {r} ELSE @ \cup {r}]
           /\ cmd' = [cmd EXCEPT ![i].kind = "sync", ![i].task = None]
           /\ Goto(i, "list")
           /\ UNCHANGED <<lock, seen, todo>>
        \/ /\ cmd[i].kind # "disable" /\ r[1] \notin In(i, "active")
           /\ Finish(i) /\ UNCHANGED enabled
     /\ UNCHANGED <<rows, file, bundle, gone, setup, edits, faults>>

\* buildSchedulerSyncPlan; a scoped sync of a bundle that is not active throws.
Plan(i) ==
  /\ pc[i] = "plan"
  /\ \/ /\ cmd[i].bundle \in In(i, "active") \cup {None}
        /\ todo' = [todo EXCEPT ![i] = Planned(i)]
        /\ Goto(i, "apply")
        /\ UNCHANGED <<lock, cmd, seen>>
     \/ cmd[i].bundle \notin In(i, "active") \cup {None} /\ Finish(i)
  /\ UNCHANGED <<rows, file, config, gone, setup, edits, faults>>

\* Removals first.
Pending(i, op) == {t \in Tasks : todo[i][t].op = op}
NextOps(i) == IF Pending(i, "remove") # {} THEN Pending(i, "remove") ELSE Pending(i, "write")

\* One uninstall or install: read the crontab, replace one block, write it.
Apply(i, t) ==
  /\ pc[i] = "apply" /\ t \in NextOps(i)
  /\ rows' = [rows EXCEPT ![t] = todo[i][t].row]
  /\ todo' = [todo EXCEPT ![i][t] = Nothing[t]]
  /\ UNCHANGED <<file, config, gone, lock, pc, cmd, seen, setup, edits, faults>>

\* It fails: a sync reports it and goes on, a prune stops.
ApplyFails(i, t) ==
  /\ pc[i] = "apply" /\ t \in NextOps(i) /\ Fault
  /\ \/ /\ cmd[i].kind = "sync"
        /\ todo' = [todo EXCEPT ![i][t] = Nothing[t]]
        /\ UNCHANGED <<lock, pc, cmd, seen>>
     \/ cmd[i].kind = "prune" /\ Finish(i)
  /\ UNCHANGED <<rows, file, config, gone, setup, edits>>

End(i) ==
  /\ pc[i] = "apply" /\ NextOps(i) = {}
  /\ Finish(i)
  /\ UNCHANGED <<rows, file, config, gone, setup, edits, faults>>

\* The lock file of a dead process is reclaimed (FileLock).
Crash(i) ==
  /\ pc[i] # "idle" /\ Fault
  /\ Finish(i)
  /\ UNCHANGED <<rows, file, config, gone, setup, edits>>

-----------------------------------------------------------------------------
(* akm setup: stepScheduledTasks, which takes no lock.                     *)

SetupAt(i, place, found) == setup' = [setup EXCEPT ![i] = [at |-> place, found |-> found]]
Local(i, t) == <<Primary[i], t>>

\* listSetupTaskDefinitions, which wants an active working stash and parses every
\* task in it; then a person reviews them.
Reviewable(i) ==
  /\ Primary[i] \in In(i, "active") /\ \A t \in Tasks : Content(i, Local(i, t)) # "broken"
Review(i) == SetupAt(i, IF Reviewable(i) THEN "review" ELSE "idle", NoRows)

\* A config that has no list yet gets one from the rows; if they cannot be listed
\* setup only warns, and goes on.
SetupBegin(i) ==
  /\ setup[i].at = "idle" /\ i \in SetupOn \ gone /\ Edit
  /\ \/ enabled[i] = None /\ SetupAt(i, "listed", rows) /\ UNCHANGED faults
     \/ enabled[i] = None /\ Fault /\ Review(i)
     \/ enabled[i] # None /\ Review(i) /\ UNCHANGED faults
  /\ UNCHANGED <<rows, file, config, gone, lock, process>>

SetupChoose(i) ==
  /\ setup[i].at = "listed"
  /\ enabled' = [enabled EXCEPT ![i] = Chosen(i, setup[i].found)]
  /\ Review(i)
  /\ UNCHANGED <<rows, file, bundle, gone, lock, process, edits, faults>>

\* prepareSetupTaskDefinitions: the shipped tasks that have no file get one, ...
SetupPrepare(i) ==
  /\ setup[i].at = "review" /\ Primary[i] \in In(i, "active")
  /\ \A t \in Templates : Content(i, Local(i, t)) # "broken"
  /\ \E v \in Versions : file' = [s \in Sources |->
       IF s[1] = i /\ s[2] = Primary[i] /\ s[3] \in Templates /\ file[s] = "absent" THEN v ELSE file[s]]
  /\ SetupAt(i, "enlist", NoRows)
  /\ UNCHANGED <<rows, config, gone, lock, process, edits, faults>>

\* ... and the list gets those that were selected, and none of the others.  The
\* sync that follows is Sync(i).
SetupEnlist(i) ==
  /\ setup[i].at = "enlist"
  /\ \E selected \in SUBSET Templates :
       /\ selected # {} => Primary[i] \in In(i, "active")
       /\ enabled' = [enabled EXCEPT ![i] =
            {r \in (IF @ = None THEN {} ELSE @) : r[1] = Primary[i] => r[2] \notin Templates}
              \cup {Local(i, t) : t \in selected}]
  /\ SetupAt(i, "idle", NoRows)
  /\ UNCHANGED <<rows, file, bundle, gone, lock, process, edits, faults>>

\* It is declined or cancelled, it fails or its process dies.
SetupLeaves(i) ==
  /\ setup[i].at # "idle" /\ SetupAt(i, "idle", NoRows)
  /\ UNCHANGED <<rows, file, config, gone, lock, process, edits, faults>>

Setup(i) == SetupBegin(i) \/ SetupChoose(i) \/ SetupPrepare(i) \/ SetupEnlist(i) \/ SetupLeaves(i)

-----------------------------------------------------------------------------
(* What changes around the commands.                                       *)

EditFile(s) ==
  /\ Edit /\ s[1] \notin gone
  /\ \E c \in Contents \ {file[s]} : file' = [file EXCEPT ![s] = c]
  /\ UNCHANGED <<rows, config, gone, lock, process, setup, faults>>

\* A bundle is disabled or enabled again, which leaves the list alone.
Toggle(i, b) ==
  /\ Edit /\ i \notin gone
  /\ \/ bundle[i][b] = "active" /\ bundle' = [bundle EXCEPT ![i][b] = "disabled"]
     \/ bundle[i][b] = "disabled" /\ bundle' = [bundle EXCEPT ![i][b] = "active"]
  /\ UNCHANGED <<rows, file, enabled, gone, lock, process, setup, faults>>

\* revokeSchedulerActivationsForBundle, when a bundle leaves the config.
RemoveBundle(i, b) ==
  /\ Edit /\ i \notin gone /\ b # Primary[i] /\ bundle[i][b] # "removed"
  /\ bundle' = [bundle EXCEPT ![i][b] = "removed"]
  /\ enabled' = [enabled EXCEPT ![i] = IF @ = None THEN @ ELSE {r \in @ : r[1] # b}]
  /\ UNCHANGED <<rows, file, gone, lock, process, setup, faults>>

\* The working stash of an installation is deleted.
Vanish(i) ==
  /\ Edit /\ i \notin gone /\ pc[i] = "idle" /\ setup[i].at = "idle"
  /\ gone' = gone \cup {i}
  /\ UNCHANGED <<rows, file, config, lock, process, setup, faults>>

StepOf(i) ==
  \/ List(i) \/ Choose(i) \/ WriteTask(i) \/ SetRef(i) \/ Plan(i) \/ End(i)
  \/ \E t \in Tasks : Apply(i, t) \/ ApplyFails(i, t)

Next ==
  \/ \E i \in Insts : \/ StepOf(i) \/ Crash(i) \/ Setup(i) \/ Vanish(i) \/ Sync(i) \/ Prune(i)
                      \/ \E b \in BundlesOf[i] : SyncBundle(i, b) \/ Toggle(i, b) \/ RemoveBundle(i, b)
                      \/ \E kind \in {"enable", "disable", "add"}, b \in BundlesOf[i], t \in Tasks :
                           Activate(i, kind, <<b, t>>)
  \/ \E s \in Sources : EditFile(s)

Spec == Init /\ [][Next]_vars

\* A process runs its own code to the end, and `akm task sync', which a held
\* lock refuses, is tried again on every installation.
Fairness == \A i \in Insts : WF_vars(StepOf(i)) /\ SF_vars(Sync(i))
FairSpec == Spec /\ Fairness

-----------------------------------------------------------------------------
(* Correctness.                                                            *)

TypeOK ==
  /\ rows \in [Tasks -> Row \cup {None}] /\ file \in [Sources -> Contents]
  /\ enabled \in [Insts -> {None} \cup SUBSET Refs]
  /\ \A i \in Insts : bundle[i] \in [BundlesOf[i] -> {"active", "disabled", "removed"}]
  /\ gone \subseteq Insts /\ lock \in Insts \cup {None}
  /\ pc \in [Insts -> {"idle", "list", "choose", "write", "set", "plan", "apply"}]
  /\ cmd \in [Insts -> [kind : {"none", "sync", "prune", "enable", "disable", "add"},
                        bundle : Bundles \cup {None}, task : Tasks \cup {None}]]
  /\ seen \in [Insts -> [Tasks -> Row \cup {None}]]
  /\ todo \in [Insts -> [Tasks -> [op : {"none", "remove", "write"}, row : Row \cup {None}]]]
  /\ setup \in [Insts -> [at : {"idle", "listed", "review", "enlist"}, found : [Tasks -> Row \cup {None}]]]
  /\ edits \in 0..MaxEdits /\ faults \in 0..MaxFaults

\* "two akm processes never interleave their writes to the same crontab"
\* (scheduler-lock.ts): what a command is about to remove or overwrite is still
\* what it decided about, however long ago it listed the rows.
PlanIsCurrent == \A i \in Insts, t \in Tasks :
  todo[i][t].op # "none" => rows[t] = seen[i][t]

\* "rows another bundle or installation owns are never touched" (akmTasksSync): a
\* live installation's row changes only at its own hands, but for two ways to go by
\* a name alone: a row of a bundle that the command covers and that is not the
\* primary one proves no path, and an unscoped sync removes the rows of any bundle of
\* its config that it finds disabled.
Covered(i) == IF cmd[i].bundle = None THEN BundlesOf[i] ELSE {cmd[i].bundle}
ForeignRowsKept == [][\A t \in Tasks : rows[t] # None /\ rows'[t] # rows[t] =>
  \E i \in Insts :
    /\ todo[i][t].op # "none"
    /\ \/ rows[t].inst \in {i} \cup gone
       \/ rows[t].bundle \in Covered(i) \ {Primary[i]}
       \/ todo[i][t].op = "remove" /\ cmd[i].bundle = None /\ rows[t].bundle \in BundlesOf[i]]_vars

\* A row an installation still wants, one "whose source fails to compile" (broken
\* by an edit since it was installed) included, is in nobody's plan of removals
\* unless a namesake of its bundle is what the other installation removes.
Wants(j, r) == enabled[j] # None /\ r \in enabled[j] /\ r[1] \in In(j, "active") /\ Content(j, r) # "absent"
WantedRowsKept == [][\A i \in Insts, t \in Tasks :
  /\ rows[t] # None /\ pc[i] = "plan" /\ todo'[i][t].op = "remove"
  /\ rows[t].inst \notin gone /\ Wants(rows[t].inst, <<rows[t].bundle, t>>)
  => /\ rows[t].inst # i
     /\ rows[t].bundle # Primary[i] \/ rows[t].bundle \in In(i, "disabled")]_vars

\* "enabling or disabling a single task never silently drops the others"
\* (ensureSchedulerChoice), and "keep what is installed" (stepScheduledTasks, whose
\* listing no lock protects): whichever command or setup starts the list after an
\* upgrade, it has every row this host runs whose task is still there.  Not so a
\* setup that could not list the rows: it starts the list when it enters what was
\* selected, with nothing else in it.
FirstChoiceKeepsRows == [][\A i \in Insts :
  enabled[i] = None /\ enabled'[i] # None /\ ~SetupEnlist(i) =>
    \A t \in Tasks : LET row == rows[t] IN
      /\ row # None /\ row.inst = i /\ row.bundle \in In(i, "active")
      /\ Content(i, <<row.bundle, t>>) # "absent"
      => <<row.bundle, t>> \in enabled'[i]]_vars

\* What an unscoped sync leaves of one task when nothing else happens: the row of
\* the one ref that wants it, unless somebody else's row or another bundle's is in
\* the way; none, unless it is not this host's or its file does not compile.
Mine(i, row) == row.bundle \in In(i, "active") /\ (row.bundle = Primary[i] => row.inst = i)
Reflects(i, t) ==
  LET row == rows[t]
      wanting == {r \in Refs : r[2] = t /\ Wants(i, r) /\ Content(i, r) # "broken"}
  IN \/ Cardinality(wanting) > 1
     \/ \E r \in wanting : row = Render(i, r)
     \/ \E r \in wanting : row # None /\ ~(Mine(i, row) /\ row.bundle = r[1])
     \/ /\ wanting = {}
        /\ row # None => /\ row.bundle \notin In(i, "disabled")
                         /\ ~Mine(i, row) \/ Wants(i, <<row.bundle, t>>)

\* Once files and configs rest, the crontab is what every installation wants,
\* whatever failed, crashed or was refused before; unless two installations use
\* one bundle name and keep undoing each other's rows.
NoNamesakes == \A i, j \in Insts \ gone : i # j =>
  \A b \in In(j, "active") : b \notin In(i, "disabled") /\ (b \in In(i, "active") => b = Primary[i])
Converges == <>[]NoNamesakes => <>[](\A i \in Insts \ gone, t \in Tasks : Reflects(i, t))
=============================================================================
