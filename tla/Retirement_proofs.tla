-------------------------- MODULE Retirement_proofs --------------------------
(***************************************************************************)
(* That an accepted retirement has retired its asset, for any number of    *)
(* proposals, files, crashes and edits.                                    *)
(*                                                                         *)
(* A resumed accept takes the asset for archived when an earlier attempt   *)
(* moved it, and does not look at its place again.  So the proof has to    *)
(* show that what was moved does not come back while the accept is not     *)
(* recorded: neither by an edit, nor by accepting or reverting a content   *)
(* proposal, over all the rows that may hold a copy of it.                 *)
(***************************************************************************)
EXTENDS Proposal_proofs

\* Where a retirement moves files from, and that no two share the asset of one:
\* the second of two would bring back what the first has moved.
Places(r) == {Target[r], Twin[Target[r]]}
Apart == \A r, q \in Retires : Target[r] \in Places(q) => r = q

Within ==
  /\ \A r \in Retires : Dirs(r) \subseteq Places(r) /\ row[r].dirs \subseteq Places(r)
  /\ op.step \in {"archive", "move"} => op.f \in Places(op.p) \cup {None}
  /\ op.step = "restore" => op.todo \subseteq Places(op.p)
  /\ op.step \in {"intent", "edge"} => Dirs(op.p) = {}

\* A content that is there already: no later edit, stamp or proposal makes it again.
Made(c) == c # None =>
  /\ c.front <= clock /\ (c.body \in Nat => c.body <= clock)
  /\ c.body \in Writes => row[c.body].status # "none"
Records ==
  /\ \A f \in Files : Made(file[f]) /\ \A r \in Retires : Made(archive[r][f].bytes)
  /\ \A p \in Proposals : /\ Made(row[p].base) /\ Made(row[p].backup)
                          /\ Made(row[p].published) /\ Made(row[p].intent)
  /\ Made(op.backup) /\ Made(op.publish)
  /\ \A w \in Writes : row[w].status = "accepted" => row[w].published # None

\* What r was judged on is the text of a proposal that creates the file.
Anew(r) == \E w \in Writes :
  row[r].base.body = w /\ row[w].base = None /\ row[w].status # "none"

\* What was in the asset's place when it was moved, S, and the text it had are
\* there no more, and nothing that may be written there has either.
Elsewhere(r, S, c) == c # None => c \notin S /\ c.body # row[r].base.body
Accepting == op.step \in {"write", "record"}
Lost(r, S) ==
  /\ \A c \in S : Made(c)
  /\ Elsewhere(r, S, file[Target[r]])
  /\ \A w \in Writes : Target[w] = Target[r] =>
       /\ row[w].status = "accepted" => Elsewhere(r, S, row[w].backup) \/ row[w].published \in S
       /\ row[r].base.body = w => row[w].base \in S
  /\ Accepting /\ Target[op.p] = Target[r] => Elsewhere(r, S, op.publish) /\ Elsewhere(r, S, op.backup)

Undecided(r) == row[r].status \notin Decisions
HasMoved(r) == archive[r][Target[r]].state \in {"kept", "purged"} /\ Undecided(r)
Gone == \A r \in Retires : HasMoved(r) => Anew(r) \/ \E S \in SUBSET Contents : Lost(r, S)

\* An accept that is past its asset has seen it go.
Away(r) == file[Target[r]] = None \/ archive[r][Target[r]].state = "tombstone" \/ Returned(r)
Passed == op.step \in {"archive", "move"} /\ op.f # Target[op.p] => Away(op.p)

RInv == Within /\ Records /\ Gone /\ Passed

-----------------------------------------------------------------------------
(* What a step makes of the holder of the lease and of the archives.       *)

\* How the holder of the lease gets to the steps this proof is about.
Going ==
  \/ op'.step \in {"idle", "unwrite", "unrecord", "undo", "forget", "unretired", "clear"}
  \/ op' = op
  \/ \E w \in Writes : AcceptWrite(w)
  \/ \E r \in Retires : AcceptRetire(r) \/ Unretire(r)
  \/ /\ op'.p = op.p /\ op'.backup = op.backup /\ op'.publish = op.publish
     /\ \/ op.step = "write" /\ op'.step = "record"
        \/ op.step \in {"intent", "edge"} /\ op'.step = "archive" /\ op'.f = Target[op.p]
        \/ op.step = "intent" /\ op'.step = "edge" /\ archive' = archive
        \/ WriteTombstone /\ op'.step = "move" /\ op'.f = op.f
        \/ (SkipArchived \/ MoveToArchive) /\ op'.step = "archive" /\ op'.f = After(op.f)
        \/ op.step = "restore" /\ op'.step = "restore" /\ op'.todo \subseteq op.todo

LEMMA GoingStep == ASSUME TypeOK, [Next]_vars PROVE Going
<1>t. op \in Ops /\ op.step \in Steps
  BY DEF TypeOK, Ops
<1>1. CASE Unleased \/ UNCHANGED vars
  BY <1>1 DEF Unleased, Mint, Judge, MintRetire, Purge, Defer, Sweep, vars, Going
<1>2. CASE Commands
  <2>1. ASSUME NEW w \in Writes, Revert(w) PROVE op'.step = "unwrite"
    BY <2>1 DEF Revert, Idle
  <2> QED BY <1>2, <2>1 DEF Commands, Edit, Reject, Reopen, DrainFindsStale, DrainReject, Going
<1>3. CASE Proceed \/ MoveFails \/ Crash
  <2>1. CASE WriteAsset
    BY <1>t, <2>1 DEF WriteAsset, Ops, Going
  <2>2. CASE RecordIntent
    BY <1>t, <2>2 DEF RecordIntent, Ops, Going
  <2>3. CASE WriteEdge
    BY <1>t, <2>3 DEF WriteEdge, Ops, Going
  <2>4. CASE WriteTombstone
    <3>1. op' = [op EXCEPT !.step = "move"]
      BY <2>4 DEF WriteTombstone
    <3> QED BY <1>t, <2>4, <3>1 DEF Ops, Going
  <2>5. CASE SkipArchived
    <3>1. op.step = "archive" /\ op' = [op EXCEPT !.f = After(op.f)]
      BY <2>5 DEF SkipArchived
    <3> QED BY <1>t, <2>5, <3>1 DEF Ops, Going
  <2>6. CASE MoveToArchive
    <3>1. op' = [op EXCEPT !.step = "archive", !.f = After(op.f),
                           !.mine = op.mine \/ op.f = Target[op.p]]
      BY <2>6 DEF MoveToArchive
    <3> QED BY <1>t, <2>6, <3>1 DEF Ops, Going
  <2>7. ASSUME NEW f \in Files, RestoreFile(f) PROVE Going
    <3>1. op.step = "restore" /\ (op' = [op EXCEPT !.todo = op.todo \ {f}] \/ op' = Idle)
      BY <2>7 DEF RestoreFile
    <3> QED BY <1>t, <3>1 DEF Ops, Idle, Going
  <2>8. CASE UndoMove \/ RestoreAsset \/ RecordRevert \/ RewriteAsset \/ MoveFails
    <3>1. op' = Idle \/ \E s \in {"forget", "unrecord", "clear", "unretired"} : op' = [op EXCEPT !.step = s]
          \/ \E f : op' = [op EXCEPT !.step = "undo", !.f = f]
      BY <2>8 DEF UndoMove, RestoreAsset, RecordRevert, RewriteAsset, MoveFails, Undo
    <3>2. ASSUME NEW s, op' = [op EXCEPT !.step = s] PROVE op'.step = s
      BY <1>t, <3>2 DEF Ops
    <3>3. ASSUME NEW f, op' = [op EXCEPT !.step = "undo", !.f = f] PROVE op'.step = "undo"
      BY <1>t, <3>3 DEF Ops
    <3>4. op' = Idle => op'.step = "idle"
      BY DEF Idle
    <3>5. op'.step \in {"idle", "undo", "forget", "unrecord", "clear", "unretired"}
      BY <3>1, <3>2, <3>3, <3>4, Zenon
    <3> QED BY <3>5 DEF Going
  <2>9. CASE RecordAccept \/ UndoTombstone \/ RecordRetire \/ ClearArchive \/ Crash
    BY <2>9 DEF RecordAccept, UndoTombstone, RecordRetire, ClearArchive, Crash, Idle, Going
  <2> QED BY <1>3, <2>1, <2>2, <2>3, <2>4, <2>5, <2>6, <2>7, <2>8, <2>9 DEF Proceed
<1> QED BY <1>1, <1>2, <1>3 DEF Next

\* A file that a person edits gets a new text, or a new front: neither was there.
LEMMA EditStep == ASSUME IInv, [Next]_vars, Free, NEW f \in Files, file'[f] # file[f], file'[f] # None
  PROVE /\ clock' = clock + 1 /\ file'[f].front <= clock + 1
        /\ \/ file'[f].body = clock + 1
           \/ file[f] # None /\ file'[f].body = file[f].body /\ file'[f].front = clock + 1
<1>t. TypeOK /\ FileType /\ clock \in Nat
  BY Types, ClockStep DEF IInv
<1>1. ASSUME NEW g \in Files, NEW c \in Contents \cup {None}, Edit(g, c)
      PROVE /\ clock' = clock + 1 /\ file'[f].front <= clock + 1
            /\ \/ file'[f].body = clock + 1
               \/ file[f] # None /\ file'[f].body = file[f].body /\ file'[f].front = clock + 1
  <2>1. f = g /\ file'[f] = c /\ c # None /\ clock' = clock + 1
    BY <1>t, <1>1 DEF Edit, FileType
  <2>2. \/ c = [body |-> clock + 1, front |-> 0, edge |-> FALSE]
        \/ c = [file[f] EXCEPT !.front = clock + 1] /\ file[f] # None
    BY <1>1, <2>1 DEF Edit
  <2>3. CASE c = [file[f] EXCEPT !.front = clock + 1] /\ file[f] # None
    <3>1. file[f] \in Contents
      BY <1>t, <2>3 DEF FileType
    <3> QED BY <1>t, <2>1, <2>3, <3>1 DEF Contents
  <2> QED BY <1>t, <2>1, <2>2, <2>3
<1>2. CASE Unleased
  BY <1>2 DEF Unleased, Mint, Judge, MintRetire, Purge, Defer, Sweep
<1>3. CASE Commands
  BY <1>1, <1>3 DEF Commands, Reject, Reopen, DrainFindsStale, AcceptWrite, Revert, AcceptRetire, Unretire,
                    DrainReject
<1>4. CASE Proceed \/ MoveFails \/ Crash
  BY <1>4 DEF Free, Proceed, WriteAsset, RecordAccept, RecordIntent, WriteEdge, WriteTombstone, SkipArchived,
     MoveToArchive, UndoMove, UndoTombstone, RecordRetire, RestoreAsset, RecordRevert, RestoreFile,
     RewriteAsset, ClearArchive, MoveFails, Crash, Written
<1>5. CASE UNCHANGED vars
  BY <1>5 DEF vars
<1> QED BY <1>2, <1>3, <1>4, <1>5 DEF Next

-----------------------------------------------------------------------------
(* Where files are moved from.                                             *)

LEMMA WithinStep == IInv /\ Within /\ [Next]_vars => Within'
<1> SUFFICES ASSUME IInv, Within, [Next]_vars PROVE Within'
  OBVIOUS
<1>t. TypeOK /\ Retirement /\ Restoration /\ (\A p \in Proposals : RowOK(p)) /\ op \in Ops
  BY Types DEF IInv, OpInv
<1>1. ASSUME NEW r \in Retires PROVE Dirs(r)' \subseteq Places(r)
  <2>1. ASSUME NEW f \in Files, archive'[r][f].state # "none" PROVE f \in Places(r)
    <3>1. CASE archive[r][f].state # "none"
      BY <3>1 DEF Within, Dirs
    <3>2. CASE archive[r][f].state = "none"
      <4>1. Handled(r, f)
        BY <2>1, <3>2, ArchiveStep
      <4>2. op.p = r /\ \/ op.step \in {"archive", "move"} /\ f = op.f
                        \/ op.step = "restore" /\ f \in op.todo
                        \/ op.step = "undo" /\ f = op.f
        BY <2>1, <3>2, <4>1 DEF Handled, NoArchive
      <4>3. op.step = "undo" => op.f = Target[op.p]
        BY <1>t DEF Retirement, Retiring
      <4> QED BY <4>2, <4>3, Kinds DEF Within, Places
    <3> QED BY <3>1, <3>2
  <2> QED BY <2>1 DEF Dirs
<1>2. ASSUME NEW r \in Retires PROVE row'[r].dirs \subseteq Places(r)
  <2>1. r \in Proposals
    BY Kinds
  <2>2. row'[r] = row[r] \/ Decides(r)
    BY <2>1, RowStep DEF Only
  <2>3. row'[r].dirs \in {row[r].dirs, Dirs(r)}
    BY <2>2, QueueAssumption DEF Decides, Minted, Moved, Intended, Accepted, Reverted, Saved
  <2> QED BY <2>3 DEF Within
<1>3. op'.step \in {"archive", "move"} => op'.f \in Places(op'.p) \cup {None}
  <2>1. ASSUME NEW r \in Retires, AcceptRetire(r), op'.step = "archive" PROVE op'.f \in Places(op'.p)
    BY <2>1 DEF AcceptRetire, Idle, Places
  <2>2. ASSUME NEW r \in Retires, Unretire(r) PROVE op'.step = "restore"
    BY <2>2 DEF Unretire, Idle
  <2>3. ASSUME NEW w \in Writes, AcceptWrite(w) PROVE op'.step = "write"
    BY <2>3 DEF AcceptWrite, Idle
  <2>4. ASSUME WriteTombstone \/ SkipArchived \/ MoveToArchive
        PROVE op.f \in Places(op.p) \cup {None} /\ After(op.f) \in Places(op.p) \cup {None}
    BY <2>4 DEF WriteTombstone, SkipArchived, MoveToArchive, Within, After, Places
  <2>5. CASE op' = op
    BY <2>5 DEF Within
  <2> QED BY <1>t, <2>1, <2>2, <2>3, <2>4, <2>5, GoingStep DEF Going, Places, AcceptRetire, Idle
<1>4. op'.step = "restore" => op'.todo \subseteq Places(op'.p)
  <2>1. ASSUME NEW r \in Retires, Unretire(r) PROVE op'.todo \subseteq Places(op'.p)
    <3>1. op'.p = r /\ op'.todo \subseteq row[r].dirs
      BY <2>1 DEF Unretire, Idle
    <3> QED BY <3>1 DEF Within
  <2>2. ASSUME NEW r \in Retires, AcceptRetire(r) PROVE op'.step # "restore"
    BY <2>2 DEF AcceptRetire, Idle
  <2>3. ASSUME NEW w \in Writes, AcceptWrite(w) PROVE op'.step = "write"
    BY <2>3 DEF AcceptWrite, Idle
  <2>4. CASE op' = op
    BY <2>4 DEF Within
  <2> QED BY <1>t, <2>1, <2>2, <2>3, <2>4, GoingStep DEF Going, Within
<1>5. op'.step \in {"intent", "edge"} => Dirs(op.p)' = {}
  <2>1. ASSUME NEW r \in Retires, AcceptRetire(r), op'.step \in {"intent", "edge"} PROVE Dirs(op.p)' = {}
    <3>1. op'.p = r /\ row[r].intent = None /\ row[r].status = "pending" /\ archive' = archive
      BY <2>1 DEF AcceptRetire, Resumes, Idle
    <3>2. Dirs(r) = {}
      BY <1>t, <3>1, Kinds DEF RowOK, Decisions
    <3> QED BY <3>1, <3>2 DEF Dirs
  <2>2. ASSUME NEW r \in Retires, Unretire(r) PROVE op'.step = "restore"
    BY <2>2 DEF Unretire, Idle
  <2>3. ASSUME NEW w \in Writes, AcceptWrite(w) PROVE op'.step = "write"
    BY <2>3 DEF AcceptWrite, Idle
  <2>4. CASE op.step \in {"intent", "edge"} /\ op'.p = op.p
    <3>1. op.p \in Retires /\ Dirs(op.p) = {}
      BY <1>t, <2>4 DEF Within, Retirement, Retiring
    <3>2. ASSUME NEW f \in Files PROVE archive'[op.p][f].state = "none"
      <4>1. archive[op.p][f].state = "none"
        BY <3>1 DEF Dirs
      <4>2. ~Handled(op.p, f)
        BY <1>t, <2>4, <4>1 DEF Handled
      <4> QED BY <3>1, <4>1, <4>2, ArchiveStep
    <3> QED BY <2>4, <3>2 DEF Dirs
  <2> QED BY <1>t, <2>1, <2>2, <2>3, <2>4, GoingStep DEF Going
<1> QED BY <1>1, <1>2, <1>3, <1>4, <1>5 DEF Within, Places

-----------------------------------------------------------------------------
(* What is there already.                                                  *)

\* Of what a variable holds now, that it is there after the step.
Stays(c) == c # None =>
  /\ c.front <= clock' /\ (c.body \in Nat => c.body <= clock')
  /\ c.body \in Writes => row'[c.body].status # "none"

LEMMA MadeStays == ASSUME IInv, [Next]_vars, NEW c \in Contents \cup {None}, Made(c) PROVE Stays(c)
<1>1. clock \in Nat /\ clock' \in {clock, clock + 1}
  BY ClockStep DEF IInv
<1>2. c # None => c.front \in Nat
  BY DEF Contents, Clock
<1>3. c # None /\ c.body \in Writes => row'[c.body].status # "none"
  BY JudgedOnce, Kinds DEF Made
<1> QED BY <1>1, <1>2, <1>3 DEF Made, Stays

LEMMA RecordsStep == IInv /\ Records /\ [Next]_vars => Records'
<1> SUFFICES ASSUME IInv, Records, [Next]_vars PROVE Records'
  OBVIOUS
<1>t. TypeOK /\ FileType /\ RowType /\ ArchiveOK /\ op \in Ops /\ clock \in Nat
      /\ clock' \in {clock, clock + 1} /\ Publishes
  BY Types, ClockStep DEF IInv, OpInv
<1>k. /\ op.step \in {"write", "record", "unwrite", "unrecord"} => op.p \in Writes
      /\ op.step \in Retiring \cup Restoring => op.p \in Retires
  BY OpOf DEF IInv
<1>o. op.backup \in Contents \cup {None} /\ op.publish \in Contents \cup {None}
      /\ Stays(op.backup) /\ Stays(op.publish)
  BY <1>t, MadeStays DEF Ops, Records
<1>f. \A f \in Files : file[f] \in Contents \cup {None} /\ Stays(file[f])
  BY <1>t, MadeStays DEF FileType, Records
<1>a. \A r \in Retires, f \in Files : Stays(archive[r][f].bytes)
  BY <1>t, MadeStays DEF ArchiveOK, Chest, Records
<1>r. \A p \in Proposals : /\ Stays(row[p].base) /\ Stays(row[p].backup)
                            /\ Stays(row[p].published) /\ Stays(row[p].intent)
  BY <1>t, MadeStays DEF RowType, Rows, Records
<1>1. ASSUME NEW f \in Files PROVE Stays(file'[f])
  <2>1. CASE Free /\ file'[f] # file[f] /\ file'[f] # None
    <3>1. CASE file'[f].body = clock + 1 /\ file'[f].front <= clock + 1 /\ clock' = clock + 1
      BY <1>t, <3>1, BodyAssumption DEF Stays
    <3>2. CASE /\ file[f] # None /\ file'[f].body = file[f].body
               /\ file'[f].front = clock + 1 /\ clock' = clock + 1
      BY <1>t, <1>f, <3>2 DEF Stays
    <3> QED BY <2>1, <3>1, <3>2, EditStep
  <2>2. CASE op.step = "edge" /\ f = Target[op.p] /\ file'[f] = [file[f] EXCEPT !.edge = TRUE]
    <3>1. file[f] \in Contents
      BY <1>f, <2>2 DEF IInv, OpInv, Retirement, Retiring
    <3>2. file[f] # None /\ file'[f].front = file[f].front /\ file'[f].body = file[f].body
      BY <2>2, <3>1, Kinds DEF Contents
    <3> QED BY <1>f, <3>2 DEF Stays
  <2>3. CASE file'[f] \in {file[f], None, op.publish}
    BY <1>f, <1>o, <2>3 DEF Stays
  <2>4. CASE op.step \in {"unwrite", "restore"} /\ file'[f] = row[op.p].backup
    BY <1>k, <1>r, <2>4, Kinds DEF Restoring
  <2>5. CASE op.step \in {"undo", "restore"} /\ file'[f] = archive[op.p][f].bytes
    BY <1>k, <1>a, <2>5 DEF Retiring, Restoring
  <2> QED BY <2>1, <2>2, <2>3, <2>4, <2>5, FileStep
<1>2. ASSUME NEW r \in Retires, NEW f \in Files PROVE Stays(archive'[r][f].bytes)
  <2>1. archive'[r][f].bytes \in {None, file[f], archive[r][f].bytes}
    BY BytesStep
  <2> QED BY <1>f, <1>a, <2>1 DEF Stays
<1>3. ASSUME NEW p \in Proposals
      PROVE /\ Stays(row'[p].base) /\ Stays(row'[p].backup)
            /\ Stays(row'[p].published) /\ Stays(row'[p].intent)
            /\ p \in Writes /\ row'[p].status = "accepted" => row'[p].published # None
  <2>1. row'[p] = row[p] \/ Decides(p)
    BY RowStep DEF Only
  <2>2. /\ row'[p].base \in {row[p].base, file[Target[p]]}
        /\ row'[p].backup \in {row[p].backup, op.backup}
        /\ row'[p].intent \in {row[p].intent, op.backup, None}
    BY <2>1 DEF Decides, Minted, Moved, Intended, Accepted, Reverted, Saved, Judged
  <2>3. row'[p].published = row[p].published \/ row'[p].published = op.publish
    BY <2>1 DEF Decides, Minted, Moved, Intended, Accepted, Reverted, Saved, Judged
  <2>4. p \in Writes /\ row'[p].status = "accepted" => row'[p].published # None
    BY <1>t, <2>1, QueueAssumption
    DEF Decides, Minted, Moved, Intended, Accepted, Reverted, Saved, Judged, Goes, Records, Publishes
  <2> QED BY <1>o, <1>f, <1>r, <2>2, <2>3, <2>4, Kinds DEF Stays
<1>4. Stays(op'.backup) /\ Stays(op'.publish)
  <2>1. ASSUME NEW w \in Writes, AcceptWrite(w) PROVE Stays(op'.backup) /\ Stays(op'.publish)
    <3>1. /\ op'.backup = file[Target[w]] /\ op'.publish = Stamped(w)
          /\ clock' = clock + 1 /\ row'[w].status = "pending"
      BY <2>1 DEF AcceptWrite, Idle
    <3>2. Stays(Stamped(w))
      BY <1>t, <3>1, BodyAssumption DEF Stamped, Stays
    <3> QED BY <1>f, <3>1, <3>2, Kinds
  <2>2. ASSUME NEW r \in Retires, AcceptRetire(r) PROVE Stays(op'.backup) /\ Stays(op'.publish)
    <3>1. op'.backup \in {row[r].intent, file[Target[r]]} /\ op'.publish = None
      BY <2>2 DEF AcceptRetire, Idle
    <3> QED BY <1>f, <1>r, <3>1, Kinds DEF Stays
  <2> QED BY <1>t, <1>o, <2>1, <2>2, HandsStep DEF Stays
<1>5. Records' <=>
        /\ \A f \in Files : Stays(file'[f]) /\ \A r \in Retires : Stays(archive'[r][f].bytes)
        /\ \A p \in Proposals : /\ Stays(row'[p].base) /\ Stays(row'[p].backup)
                                /\ Stays(row'[p].published) /\ Stays(row'[p].intent)
        /\ Stays(op'.backup) /\ Stays(op'.publish)
        /\ \A w \in Writes : row'[w].status = "accepted" => row'[w].published # None
  BY DEF Records, Made, Stays
<1> QED BY <1>1, <1>2, <1>3, <1>4, <1>5, Kinds

-----------------------------------------------------------------------------
(* What was moved does not come back.                                      *)

\* No other retirement has the asset of r in its hands.
LEMMA Alone == ASSUME Apart, OpInv, Within, NEW r \in Retires
  PROVE /\ op.step \in {"intent", "edge", "undo", "forget"} /\ Target[op.p] = Target[r] => op.p = r
        /\ op.step \in {"archive", "move"} /\ op.f = Target[r] => op.p = r
        /\ op.step = "restore" /\ (Target[r] \in op.todo \/ Target[r] = Target[op.p]) => op.p = r
<1>1. op.step \in Retiring \cup Restoring => op.p \in Retires
  BY OpOf
<1>2. Target[r] \in Files /\ Target[r] # None
  BY Kinds
<1> QED BY <1>1, <1>2 DEF Apart, Within, Places, Retiring, Restoring

\* Neither an edit nor the steps of an accept or revert bring it back.
LEMMA FileLost == ASSUME Apart, IInv, Within, Records, [Next]_vars, NEW r \in Retires, HasMoved(r), HasMoved(r)',
    NEW S \in SUBSET Contents, Lost(r, S)
  PROVE Elsewhere(r, S, file'[Target[r]])
<1> DEFINE T == Target[r]
<1>t. TypeOK /\ FileType /\ clock \in Nat /\ T \in Files /\ OpInv /\ r \in Proposals
  BY Types, ClockStep, Kinds DEF IInv
<1>k. /\ op.step \in {"write", "record", "unwrite", "unrecord"} => op.p \in Writes
      /\ op.step \in Retiring \cup Restoring => op.p \in Retires
  BY OpOf DEF IInv
<1>b. row[r].base # None /\ Made(row[r].base) /\ row[r].base \in Contents
  <2>1. Dirs(r) # {} /\ RowOK(r)
    BY <1>t DEF HasMoved, Dirs, IInv
  <2> QED BY <1>t, <2>1, Types DEF RowOK, Records, RowType, Rows, IInv
<1>s. \A c \in S : c # None /\ c \in Contents /\ Made(c)
  BY Kinds DEF Lost
<1>1. CASE Free /\ file'[T] # file[T] /\ file'[T] # None
  <2>1. CASE file'[T].body = clock + 1
    <3>1. row[r].base.body \in Nat => row[r].base.body <= clock
      BY <1>b DEF Made
    <3>2. file'[T].body # row[r].base.body
      BY <1>t, <2>1, <3>1
    <3>3. \A c \in S : c.body \in Nat => c.body <= clock
      BY <1>s DEF Made
    <3>4. file'[T] \notin S
      BY <1>t, <2>1, <3>3
    <3> QED BY <3>2, <3>4 DEF Elsewhere
  <2>2. CASE file[T] # None /\ file'[T].body = file[T].body /\ file'[T].front = clock + 1
    <3>1. file'[T].body # row[r].base.body
      BY <2>2 DEF Lost, Elsewhere
    <3>2. \A c \in S : c.front <= clock
      BY <1>s DEF Made
    <3>3. file'[T] \notin S
      BY <1>t, <2>2, <3>2
    <3> QED BY <3>1, <3>3 DEF Elsewhere
  <2> QED BY <1>t, <1>1, <2>1, <2>2, EditStep
<1>2. CASE file'[T] \in {file[T], None}
  BY <1>2 DEF Lost, Elsewhere
<1>3. CASE op.step = "write" /\ T = Target[op.p] /\ file'[T] = op.publish
  BY <1>3 DEF Lost, Accepting
<1>4. ~(op.step = "edge" /\ T = Target[op.p])
  BY <1>t, Alone DEF Within, HasMoved, Dirs
<1>5. ~(op.step = "undo" /\ T = op.f /\ archive'[op.p][T].state = "tombstone")
  <2>1. op.step = "undo" => op.f = Target[op.p]
    BY <1>t DEF OpInv, Retirement, Retiring
  <2> QED BY <1>t, <2>1, Alone DEF HasMoved
<1>6. CASE op.step = "unwrite" /\ T = Target[op.p] /\ file'[T] = row[op.p].backup
  <2>1. /\ op.p \in Writes /\ row[op.p].status = "accepted" /\ file[T] = row[op.p].published
    BY <1>t, <1>6 DEF OpInv, Unpublishes
  <2>2. file[T] \notin S
    BY <1>s DEF Lost, Elsewhere
  <2> QED BY <1>6, <2>1, <2>2 DEF Lost
<1>7. ~(op.step = "restore" /\ (T \in op.todo \/ T = Target[op.p]))
  <2>1. op.step = "restore" /\ op.p = r => row[r].status = "accepted"
    BY <1>t DEF OpInv, Restoration, Restoring
  <2> QED BY <1>t, <2>1, Alone DEF HasMoved, Undecided, Decisions
<1> QED BY <1>t, <1>1, <1>2, <1>3, <1>4, <1>5, <1>6, <1>7, FileStep

\* Nor does what the rows and the holder of the lease may yet write.
LEMMA LostStep == ASSUME Apart, IInv, Within, Records, [Next]_vars, NEW r \in Retires, HasMoved(r), HasMoved(r)',
    NEW S \in SUBSET Contents, Lost(r, S)
  PROVE Lost(r, S)'
<1> DEFINE T == Target[r]
<1>t. TypeOK /\ clock \in Nat /\ T \in Files /\ OpInv /\ r \in Proposals /\ r \notin Writes
  BY ClockStep, Kinds, QueueAssumption DEF IInv
<1>b. row[r].status # "none" /\ row'[r].base = row[r].base
  <2>1. Dirs(r) # {} /\ RowOK(r)
    BY <1>t DEF HasMoved, Dirs, IInv
  <2>2. row[r].status # "none"
    BY <2>1 DEF RowOK
  <2> QED BY <1>t, <2>2, JudgedOnce DEF Judged
<1>m. Made(row[r].base) /\ row[r].base # None
  <2>1. RowOK(r)
    BY <1>t DEF IInv
  <2> QED BY <1>t, <1>b, <2>1 DEF Records, RowOK
<1>s. \A c \in S : c # None /\ c \in Contents /\ Made(c)
  BY Kinds DEF Lost
<1>1. \A c \in S : Stays(c)
  BY <1>s, MadeStays
<1>2. Elsewhere(r, S, file'[T])
  BY FileLost
<1>3. ASSUME NEW w \in Writes, Target[w] = T
      PROVE /\ row'[w].status = "accepted" => Elsewhere(r, S, row'[w].backup) \/ row'[w].published \in S
            /\ row[r].base.body = w => row'[w].base \in S
  <2>1. w \in Proposals /\ (row'[w] = row[w] \/ Decides(w))
    BY Kinds, RowStep DEF Only
  <2>2. ASSUME row'[w].status = "accepted"
        PROVE Elsewhere(r, S, row'[w].backup) \/ row'[w].published \in S
    <3>1. CASE Accepted(w)
      <4>1. op.step \in {"write", "record"} /\ op.p = w /\ row'[w].backup = op.backup
        BY <3>1, QueueAssumption DEF Accepted
      <4> QED BY <1>3, <4>1 DEF Lost, Accepting
    <3>2. CASE ~Accepted(w)
      <4>1. /\ row[w].status = "accepted" /\ row'[w].backup = row[w].backup
            /\ row'[w].published = row[w].published
        BY <2>1, <2>2, <3>2 DEF Decides, Minted, Moved, Intended, Reverted, Goes, Saved
      <4> QED BY <1>3, <4>1 DEF Lost
    <3> QED BY <3>1, <3>2
  <2>3. ASSUME row[r].base.body = w PROVE row'[w].base \in S
    <3>1. row[w].status # "none"
      BY <1>m, <2>3 DEF Made
    <3>2. row'[w].base = row[w].base
      BY <2>1, <3>1, JudgedOnce DEF Judged
    <3> QED BY <1>3, <2>3, <3>2 DEF Lost
  <2> QED BY <2>2, <2>3
<1>4. ASSUME op'.step \in {"write", "record"}, Target[op'.p] = T
      PROVE Elsewhere(r, S, op'.publish) /\ Elsewhere(r, S, op'.backup)
  <2>1. ASSUME NEW w \in Writes, AcceptWrite(w)
        PROVE Elsewhere(r, S, op'.publish) /\ Elsewhere(r, S, op'.backup)
    <3>1. /\ op'.p = w /\ op'.backup = file[T] /\ op'.publish = Stamped(w)
          /\ FreshWrite(w, Stamped(w)) /\ Target[w] = T
      BY <1>4, <2>1 DEF AcceptWrite, Idle
    <3>2. Elsewhere(r, S, file[T])
      BY DEF Lost
    <3>3. Stamped(w) \notin S
      <4>1. Stamped(w).front = clock + 1
        BY DEF Stamped
      <4>2. \A c \in S : c.front <= clock
        BY <1>s DEF Made
      <4> QED BY <1>t, <4>1, <4>2
    <3>4. row[r].base.body # w
      <4>1. SUFFICES ASSUME row[r].base.body = w PROVE FALSE
        OBVIOUS
      <4>2. row[w].base \in S /\ row[w].base # None
        BY <1>s, <3>1, <4>1 DEF Lost
      <4>3. file[T] # None /\ file[T] \in {row[w].base, Stamped(w)}
        BY <3>1, <4>2 DEF FreshWrite
      <4> QED BY <3>2, <4>1, <4>2, <4>3 DEF Elsewhere, Stamped
    <3> QED BY <3>1, <3>2, <3>3, <3>4 DEF Elsewhere, Stamped
  <2>2. ASSUME NEW q \in Retires, AcceptRetire(q) \/ Unretire(q)
        PROVE op'.step \notin {"write", "record"}
    BY <2>2 DEF AcceptRetire, Unretire, Idle
  <2>3. CASE op'.p = op.p /\ op'.backup = op.backup /\ op'.publish = op.publish /\ Accepting
    BY <1>4, <2>3 DEF Lost
  <2> QED BY <1>t, <1>4, <2>1, <2>2, <2>3, GoingStep DEF Going, Accepting
<1> QED BY <1>b, <1>1, <1>2, <1>3, <1>4 DEF Lost, Elsewhere, Accepting, Made, Stays

LEMMA GoneStep == Apart /\ IInv /\ RInv /\ [Next]_vars => Gone'
<1> SUFFICES ASSUME Apart, IInv, Within, Records, Gone, [Next]_vars, NEW r \in Retires, HasMoved(r)'
             PROVE (Anew(r) \/ \E S \in SUBSET Contents : Lost(r, S))'
  BY DEF RInv, Gone
<1> DEFINE T == Target[r]
<1>t. TypeOK /\ RowType /\ T \in Files /\ OpInv /\ r \in Proposals /\ r \notin Writes /\ RowOK(r)
  BY Types, Kinds, QueueAssumption DEF IInv
<1>r. row'[r] = row[r] \/ Decides(r)
  BY <1>t, RowStep DEF Only
<1>u. Undecided(r)
  BY <1>r DEF HasMoved, Undecided, Decisions, Decides, Minted, Moved, Intended, Accepted, Reverted, Goes
<1>1. CASE HasMoved(r)
  <2>1. CASE Anew(r)
    <3>1. PICK w \in Writes : row[r].base.body = w /\ row[w].base = None /\ row[w].status # "none"
      BY <2>1 DEF Anew
    <3>2. row[r].status # "none"
      BY <1>t, <1>1 DEF HasMoved, Dirs, RowOK
    <3>3. row'[r].base = row[r].base /\ row'[w].base = row[w].base /\ row'[w].status # "none"
      BY <1>t, <3>1, <3>2, JudgedOnce, Kinds DEF Judged
    <3> QED BY <3>1, <3>3 DEF Anew
  <2>2. ASSUME NEW S \in SUBSET Contents, Lost(r, S) PROVE Lost(r, S)'
    BY <1>1, <2>2, LostStep
  <2> QED BY <1>1, <2>1, <2>2 DEF Gone
<1>2. CASE ~HasMoved(r)
  <2>1. archive'[r][T] # archive[r][T]
    BY <1>2, <1>u DEF HasMoved
  <2>2. row' = row /\ Handled(r, T)
    BY <1>t, <2>1, ArchiveStep
  <2>3. op.p = r /\ op.step = "move" /\ op.f = T
    BY <1>2, <1>u, <2>2 DEF HasMoved, Handled, Emptied, NoArchive
  <2>4. file'[T] = None
    BY <2>1, <2>2, <2>3 DEF Handled, Restoring
  <2>5. op'.step \notin {"write", "record"}
    <3>1. ASSUME NEW q \in Retires, AcceptRetire(q) \/ Unretire(q) PROVE FALSE
      BY <2>3, <3>1 DEF AcceptRetire, Unretire, Free
    <3>2. ASSUME NEW w \in Writes, AcceptWrite(w) PROVE FALSE
      BY <2>3, <3>2 DEF AcceptWrite, Free
    <3> QED BY <1>t, <2>3, <3>1, <3>2, GoingStep DEF Going
  <2>6. CASE Anew(r)
    BY <2>2, <2>6 DEF Anew
  <2>7. CASE ~Anew(r)
    <3>0. PICK S \in SUBSET Contents : S = {c \in Contents : Stays(c)}
      OBVIOUS
    <3>1. ASSUME NEW c \in Contents \cup {None}, Made(c), c # None PROVE c \in S
      BY <3>0, <3>1, MadeStays
    <3>2. ASSUME NEW w \in Writes, row[w].status = "accepted" PROVE row[w].published \in S
      BY <1>t, <3>1, <3>2, Kinds DEF Records, RowType, Rows
    <3>3. ASSUME NEW w \in Writes, row[r].base.body = w PROVE row[w].base \in S
      <4>1. row[r].status # "none"
        BY <1>t, <2>3 DEF OpInv, Retirement, Retiring
      <4>2. Made(row[r].base) /\ row[r].base # None
        BY <1>t, <4>1 DEF Records, RowOK
      <4>3. row[w].base # None
        BY <2>7, <3>3, <4>2 DEF Anew, Made
      <4> QED BY <1>t, <3>1, <4>3, Kinds DEF Records, RowType, Rows
    <3>4. \A c \in S : Made(c)'
      BY <3>0 DEF Made, Stays
    <3>5. Lost(r, S)'
      BY <2>2, <2>4, <2>5, <3>2, <3>3, <3>4, Zenon DEF Lost, Elsewhere, Accepting
    <3> QED BY <3>5
  <2> QED BY <2>6, <2>7
<1> QED BY <1>1, <1>2

-----------------------------------------------------------------------------
(* An accept that is past its asset.                                       *)

LEMMA AwayStays == ASSUME Apart, IInv, Within, Records, [Next]_vars, NEW r \in Retires, op.p = r,
    op.step \in {"archive", "move"}, op.f # Target[r], Away(r)
  PROVE Away(r)'
<1>t. TypeOK /\ Target[r] \in Files /\ Target[r] # None
  BY Kinds DEF IInv
<1>1. file'[Target[r]] = file[Target[r]]
  BY <1>t, FileStep DEF Free
<1>2. CASE file[Target[r]] = None
  BY <1>1, <1>2 DEF Away
<1>3. CASE archive[r][Target[r]].state = "tombstone"
  <2>1. ~Handled(r, Target[r])
    BY <1>3 DEF Handled
  <2> QED BY <1>t, <1>3, <2>1, ArchiveStep DEF Away
<1>4. CASE file[Target[r]] # None /\ Returned(r)
  <2>1. PICK w \in Writes : file[Target[r]].body = w /\ row[w].base = None
    BY <1>4 DEF Returned
  <2>2. row[w].status # "none"
    BY <1>t, <1>4, <2>1 DEF Records, Made
  <2>3. row'[w].base = None
    BY <2>1, <2>2, JudgedOnce, Kinds DEF Judged
  <2> QED BY <1>1, <2>1, <2>3 DEF Away, Returned
<1> QED BY <1>2, <1>3, <1>4 DEF Away

LEMMA PassedStep == Apart /\ IInv /\ RInv /\ [Next]_vars => Passed'
<1> SUFFICES ASSUME Apart, IInv, Within, Records, Gone, Passed, [Next]_vars,
                    op'.step \in {"archive", "move"}, op'.f # Target[op'.p]
             PROVE Away(op.p)'
  BY DEF RInv, Passed
<1>t. TypeOK /\ Retirement
  BY DEF IInv, OpInv
<1>1. CASE op'.p = op.p /\ op.step \in {"archive", "move"} /\ op.f # Target[op.p]
  BY <1>t, <1>1, AwayStays DEF Passed, Away, Returned, Retirement, Retiring
<1>2. CASE SkipArchived /\ op'.p = op.p /\ op.f = Target[op.p]
  <2>1. /\ op.p \in Retires /\ Undecided(op.p) /\ AsJudged(op.p, file[Target[op.p]])
        /\ file' = file /\ row' = row /\ archive' = archive
    BY <1>t, <1>2 DEF SkipArchived, Retirement, Retiring, Undecided, Decisions
  <2>2. file[Target[op.p]] = None \/ archive[op.p][Target[op.p]].state # "none"
    BY <1>2 DEF SkipArchived, ToArchive
  <2>3. archive[op.p][Target[op.p]].state \in {"none", "tombstone", "kept", "purged"}
    BY <1>t, <2>1, Kinds DEF TypeOK
  <2>4. CASE HasMoved(op.p) /\ file[Target[op.p]] # None
    <3>1. CASE Anew(op.p)
      BY <1>2, <2>1, <2>4, <3>1 DEF Anew, AsJudged, Returned, Away
    <3>2. ASSUME NEW S \in SUBSET Contents, Lost(op.p, S) PROVE FALSE
      BY <2>1, <2>4, <3>2 DEF Lost, Elsewhere, AsJudged
    <3> QED BY <2>1, <2>4, <3>1, <3>2 DEF Gone
  <2> QED BY <1>2, <2>1, <2>2, <2>3, <2>4 DEF HasMoved, Away
<1>3. CASE MoveToArchive /\ op'.p = op.p /\ op.f = Target[op.p]
  <2>1. op.f \in Files
    BY <1>t, <1>3 DEF MoveToArchive, Retirement, Retiring
  <2>2. file'[op.f] = None
    BY <1>t, <1>3, <2>1 DEF MoveToArchive, TypeOK
  <2> QED BY <1>3, <2>2 DEF Away
<1>4. ASSUME NEW r \in Retires, AcceptRetire(r) \/ Unretire(r) PROVE FALSE
  BY <1>4 DEF AcceptRetire, Unretire, Idle
<1>5. ASSUME NEW w \in Writes, AcceptWrite(w) PROVE FALSE
  BY <1>5 DEF AcceptWrite, Idle
<1>6. (WriteTombstone => op.step = "archive") /\ (SkipArchived => op.step = "archive")
      /\ (MoveToArchive => op.step = "move")
  BY DEF WriteTombstone, SkipArchived, MoveToArchive
<1> QED BY <1>t, <1>1, <1>2, <1>3, <1>4, <1>5, <1>6, GoingStep DEF Going

LEMMA AlwaysRetires == ASSUME Apart PROVE Spec => []RInv
<1>1. Init => RInv
  <2> SUFFICES ASSUME Init PROVE RInv
    OBVIOUS
  <2>1. Within
    BY Kinds DEF Init, NoRow, NoArchive, Idle, Within, Dirs
  <2>2. Records
    BY Kinds, BodyAssumption DEF Init, NoRow, NoArchive, Idle, Records, Made
  <2>3. Gone /\ Passed
    BY Kinds DEF Init, NoArchive, Idle, Gone, HasMoved, Passed
  <2> QED BY <2>1, <2>2, <2>3 DEF RInv
<1>2. IInv /\ RInv /\ [Next]_vars => RInv'
  BY WithinStep, RecordsStep, GoneStep, PassedStep DEF RInv
<1> QED BY Always, <1>1, <1>2, PTL DEF Spec

\* If no other retirement moves the same file: an accept, however often it died
\* and was resumed, is recorded only when its asset has gone, but for the two ways
\* the property names.
THEOREM AcceptedIsRetired == ASSUME Apart PROVE Spec => AcceptRetires
<1>1. ASSUME IInv, RInv, [Next]_vars, NEW r \in Retires, row[r].status = "pending", row'[r].status = "accepted"
      PROVE Away(r)
  <2>1. Decides(r)
    BY <1>1, RowStep, Kinds DEF Only
  <2>2. op.p = r /\ op.step = "archive" /\ op.f = None
    BY <1>1, <2>1, QueueAssumption DEF Decides, Minted, Moved, Intended, Accepted, Reverted, Goes
  <2> QED BY <1>1, <2>2, Kinds DEF RInv, Passed
<1>2. ASSUME IInv, RInv, [Next]_vars
      PROVE [\A r \in Retires :
               row[r].status = "pending" /\ row'[r].status = "accepted" =>
                 \/ file[Target[r]] = None
                 \/ archive[r][Target[r]].state = "tombstone"
                 \/ Returned(r)]_vars
  BY <1>1, <1>2 DEF Away
<1> QED BY Always, AlwaysRetires, <1>2, PTL DEF Spec, AcceptRetires
=============================================================================
