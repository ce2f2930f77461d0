--------------------------- MODULE Proposal_proofs ---------------------------
(***************************************************************************)
(* Theorems about Proposal, for any number of proposals, files, crashes    *)
(* and edits, and whatever the proposals have in common: two may change    *)
(* the same file, and one may retire what another keeps or writes.         *)
(*                                                                         *)
(* What accept and revert do to a file rests on what they read before they *)
(* began, or on what an attempt that died has left in the row and in the   *)
(* archive.  The invariant says what of it still holds at each of their    *)
(* steps, and that no content bears a stamp that is yet to come.           *)
(***************************************************************************)
EXTENDS Proposal, TLAPS

Decisions == {"accepted", "reverted"}
Retiring == {"intent", "edge", "archive", "move", "undo", "forget"}
Restoring == {"restore", "unretired", "clear"}

Stands(r) == file[Successor[r]] # None /\ file[Successor[r]].body = row[r].successor
AsJudged(r, c) == c # None => c.body = row[r].base.body

\* An accept or revert of a content proposal knows what its file holds.
Publishes == op.step \in {"write", "record"} =>
  /\ op.p \in Writes /\ row[op.p].status \in {"pending", "rejected"}
  /\ op.backup = row[op.p].base /\ op.publish # None
  /\ file[Target[op.p]] = IF op.step = "write" THEN row[op.p].base ELSE op.publish
Unpublishes == op.step \in {"unwrite", "unrecord"} =>
  /\ op.p \in Writes /\ row[op.p].status = "accepted" /\ row[op.p].backup # None
  /\ file[Target[op.p]] = IF op.step = "unwrite" THEN row[op.p].published ELSE row[op.p].backup

\* An accept of a retire proposal: nobody decides on it, its files and its archive
\* but this accept; until its asset has moved the successor stands.
Retirement == op.step \in Retiring =>
  /\ op.p \in Retires /\ row[op.p].status \in {"pending", "rejected"}
  /\ op.backup # None /\ AsJudged(op.p, op.backup)
  /\ IF op.step = "intent" THEN row[op.p].intent = None /\ op.backup = file[Target[op.p]]
                           ELSE row[op.p].intent # None
  /\ op.step \in {"intent", "edge"} => file[Target[op.p]] # None /\ ~op.mine
  /\ op.step \in {"intent", "edge"} \/ (op.step \in {"archive", "move"} /\ op.f = Target[op.p])
     => Stands(op.p) /\ AsJudged(op.p, file[Target[op.p]])
  /\ op.mine /\ op.step # "forget" => file[Target[op.p]] = None
  /\ op.step = "move" => /\ op.f \in Files /\ file[op.f] # None
                         /\ archive[op.p][op.f].state = "tombstone"
  /\ op.step \in {"undo", "forget"} => op.f = Target[op.p] /\ op.mine
  /\ op.step = "forget" => archive[op.p][op.f].bytes = None

\* A revert of one: what is not left to move is no longer in the archive.
Restoration == op.step \in Restoring =>
  /\ op.p \in Retires /\ row[op.p].status = IF op.step = "clear" THEN "reverted" ELSE "accepted"
  /\ \A f \in row[op.p].dirs :
       archive[op.p][f].bytes = None \/ (op.step = "restore" /\ f \in op.todo)
  /\ op.step = "restore" => /\ \A f \in op.todo : file[f] = None
                            /\ Target[op.p] \in row[op.p].dirs =>
                                 AsJudged(op.p, file[Target[op.p]])
  /\ op.step = "unretired" /\ Target[op.p] \in row[op.p].dirs =>
       file[Target[op.p]] = row[op.p].backup

OpInv == Publishes /\ Unpublishes /\ Retirement /\ Restoration

\* What a row says of itself, and of its archive.
RowOK(p) ==
  /\ row[p].status = "none" => row[p].intent = None
  /\ p \in Writes /\ row[p].status \in Decisions => row[p].backup = row[p].base
  /\ p \in Retires =>
       /\ row[p].status = "none" => Dirs(p) = {}
       /\ row[p].status # "none" => row[p].base # None /\ row[p].successor # None
       /\ AsJudged(p, row[p].intent) /\ AsJudged(p, archive[p][Target[p]].bytes)
       /\ row[p].status \in Decisions => row[p].backup # None /\ AsJudged(p, row[p].backup)
       /\ Dirs(p) # {} => row[p].intent # None \/ row[p].status \in Decisions
       /\ row[p].status = "accepted" => row[p].dirs # {} /\ row[p].dirs \subseteq Dirs(p)

\* Nothing that can be written to a file has a stamp that is yet to come.
Past(c) == c # None => c.front <= clock
Dated == /\ \A f \in Files : Past(file[f]) /\ \A r \in Retires : Past(archive[r][f].bytes)
         /\ \A p \in Proposals : Past(row[p].backup) /\ Past(row[p].intent)
         /\ Past(op.backup) /\ Past(op.publish)

IInv == TypeOK /\ OpInv /\ (\A p \in Proposals : RowOK(p)) /\ LedgerFollowsStatus /\ Dated

-----------------------------------------------------------------------------
(* Types.                                                                  *)

LEMMA Kinds == /\ \A p \in Proposals : Target[p] \in Files
               /\ Writes \subseteq Proposals /\ Retires \subseteq Proposals
               /\ \A r \in Retires : Successor[r] \in Files /\ Successor[r] # Target[r]
               /\ \A f \in Files : Twin[f] \in Files \cup {None}
               /\ None \notin Contents /\ None \notin Proposals /\ None \notin Files
BY QueueAssumption, PairAssumption DEF Proposals

Entry == [id : Proposals \cup {None}, outcome : Outcomes]
Entries == [Keys -> Entry]

LEMMA KeyOf == \A p \in Proposals : <<Source(p), Target[p]>> \in Keys
BY Kinds DEF Source, Keys

LEMMA DecidedType == ASSUME TypeOK, NEW p \in Proposals, NEW o \in Outcomes
  PROVE Decided(ledger, p, o) \in Entries
<1>1. ledger \in Entries
  BY DEF TypeOK, Entries, Entry
<1>2. [id |-> p, outcome |-> o] \in Entry
  BY DEF Entry
<1>3. [k \in Keys |-> IF ledger[k].id = p THEN [id |-> p, outcome |-> o] ELSE ledger[k]] \in Entries
  BY <1>1, <1>2 DEF Entries
<1>4. [ledger EXCEPT ![<<Source(p), Target[p]>>] = [id |-> p, outcome |-> o]] \in Entries
  BY <1>1, <1>2, KeyOf DEF Entries
<1> QED BY <1>3, <1>4 DEF Decided, Attempted

LEMMA ArchiveType == ASSUME TypeOK, NEW p \in Proposals, NEW o \in {"rejected", "expired", "failed"},
    Archive(p, o)
  PROVE row' \in [Proposals -> Rows] /\ ledger' \in Entries
<1>1. row' \in [Proposals -> Rows]
  <2>1. row' = [row EXCEPT ![p].status = "rejected"] /\ row \in [Proposals -> Rows]
    BY DEF TypeOK, Archive
  <2> QED BY <2>1 DEF Rows, Statuses
<1>2. Decided(ledger, p, o) \in Entries
  BY DecidedType DEF Outcomes
<1>3. p \in Retires => Released(Decided(ledger, p, o), p) \in Entries
  <2>1. [id |-> None, outcome |-> "failed"] \in Entry
    BY DEF Entry, Outcomes
  <2> HIDE DEF Entry
  <2> QED BY <1>2, <2>1 DEF Released, Entries
<1> QED BY <1>1, <1>2, <1>3 DEF Archive

\* The types of all, a variable for itself.
FileType == file \in [Files -> Contents \cup {None}]
RowType == row \in [Proposals -> Rows]
Chest == [state : {"none", "tombstone", "purged"}, bytes : {None}] \cup [state : {"kept"}, bytes : Contents]
ArchiveOK == archive \in [Retires -> [Files -> Chest]]
LEMMA Types == TypeOK <=> /\ FileType /\ RowType /\ ledger \in Entries /\ ArchiveOK /\ op \in Ops
                          /\ stale \in Proposals \cup {None} /\ clock \in Clock /\ crashes \in 0..MaxCrashes
BY DEF TypeOK, FileType, RowType, Entries, Entry, ArchiveOK, Chest

LEMMA UnleasedType == ASSUME TypeOK, Unleased PROVE TypeOK'
<1>t. FileType /\ RowType /\ ledger \in Entries /\ ArchiveOK /\ op \in Ops
  BY Types
<1>1. ASSUME NEW w \in Writes, Mint(w) PROVE TypeOK'
  <2>1. row' \in [Proposals -> Rows]
    BY <1>t, <1>1, Kinds DEF Mint, RowType, FileType, Rows, Statuses
  <2>2. ledger' \in Entries
    <3>1. [id |-> w, outcome |-> "proposed"] \in Entry /\ <<"content", Target[w]>> \in Keys
      BY Kinds DEF Entry, Outcomes, Keys
    <3> QED BY <1>t, <1>1, <3>1 DEF Mint, Attempted, Entries
  <2> QED BY <1>1, <2>1, <2>2 DEF Mint, TypeOK, Entries, Entry
<1>2. ASSUME NEW r \in Retires, Judge(r) PROVE TypeOK'
  <2>1. file[Target[r]] \in Contents /\ file[Successor[r]].body \in Bodies
    BY <1>t, <1>2, Kinds DEF Judge, FileType, Contents
  <2>2. row' \in [Proposals -> Rows]
    BY <1>t, <1>2, <2>1, Kinds DEF Judge, RowType, Rows, Statuses
  <2> QED BY <1>2, <2>2 DEF Judge, TypeOK
<1>3. ASSUME NEW r \in Retires, MintRetire(r) PROVE TypeOK'
  <2>1. row' \in [Proposals -> Rows]
    BY <1>t, <1>3, Kinds DEF MintRetire, RowType, Rows, Statuses
  <2> QED BY <1>3, <2>1 DEF MintRetire, TypeOK
<1>4. ASSUME NEW r \in Retires, NEW f \in Files, Purge(r, f) PROVE TypeOK'
  <2>1. archive' \in [Retires -> [Files -> Chest]]
    BY <1>t, <1>4 DEF Purge, ArchiveOK, Chest
  <2> QED BY <1>4, <2>1 DEF Purge, TypeOK, Chest
<1>5. ASSUME NEW p \in Proposals, Defer(p) PROVE TypeOK'
  <2>1. ledger' \in Entries
    BY <1>5, DecidedType DEF Defer, Outcomes
  <2> QED BY <1>5, <2>1 DEF Defer, TypeOK, Entries, Entry
<1>6. ASSUME NEW p \in Proposals, NEW why \in {"expired", "failed"}, Sweep(p, why) PROVE TypeOK'
  <2>1. row' \in [Proposals -> Rows] /\ ledger' \in Entries
    BY <1>6, ArchiveType DEF Sweep
  <2> QED BY <1>6, <2>1 DEF Sweep, TypeOK, Entries, Entry
<1> QED BY <1>1, <1>2, <1>3, <1>4, <1>5, <1>6 DEF Unleased

LEMMA CommandsType == ASSUME IInv, Commands PROVE TypeOK'
<1>t. TypeOK /\ FileType /\ RowType /\ ledger \in Entries /\ ArchiveOK /\ op \in Ops
  BY Types DEF IInv
<1>c. clock \in Nat /\ clock <= MaxClock /\ MaxClock \in Nat
  BY <1>t, QueueAssumption DEF TypeOK, Clock
<1>1. ASSUME NEW f \in Files, NEW c \in Contents \cup {None}, Edit(f, c) PROVE TypeOK'
  <2>1. file' \in [Files -> Contents \cup {None}] /\ clock' \in Clock
    BY <1>t, <1>c, <1>1 DEF Edit, FileType, Clock
  <2> QED BY <1>t, <1>1, <2>1 DEF Edit, TypeOK
<1>2. ASSUME NEW p \in Proposals, Reject(p) PROVE TypeOK'
  <2>1. row' \in [Proposals -> Rows] /\ ledger' \in Entries
    BY <1>t, <1>2, ArchiveType DEF Reject
  <2> QED BY <1>t, <1>2, <2>1 DEF Reject, TypeOK, Entries, Entry
<1>3. ASSUME NEW p \in Proposals, Reopen(p) PROVE TypeOK'
  <2>1. row' \in [Proposals -> Rows]
    BY <1>t, <1>3 DEF Reopen, RowType, Rows, Statuses
  <2>2. ledger' \in Entries
    <3>1. [id |-> p, outcome |-> "proposed"] \in Entry /\ NoEntry \in Entry
      BY DEF Entry, Outcomes, NoEntry
    <3> QED BY <1>t, <1>3, <3>1 DEF Reopen, Reopened, Entries
  <2> QED BY <1>t, <1>3, <2>1, <2>2 DEF Reopen, TypeOK, Entries, Entry
<1>4. ASSUME NEW p \in Proposals, DrainFindsStale(p) PROVE TypeOK'
  BY <1>t, <1>4 DEF DrainFindsStale, TypeOK
<1>5. ASSUME NEW w \in Writes, AcceptWrite(w) PROVE TypeOK'
  <2>1. Stamped(w) \in Contents
    BY <1>c, <1>5 DEF AcceptWrite, Stamped, Contents, Bodies, Clock
  <2>2. file[Target[w]] \in Contents \cup {None} /\ w \in Proposals
    BY <1>t, Kinds DEF FileType
  <2>3. op' \in Ops
    BY <1>5, <2>1, <2>2 DEF AcceptWrite, Idle, Ops, Steps
  <2>4. clock' \in Clock
    BY <1>c, <1>5 DEF AcceptWrite, Clock
  <2> QED BY <1>t, <1>5, <2>3, <2>4 DEF AcceptWrite, TypeOK
<1>6. ASSUME NEW w \in Writes, Revert(w) PROVE TypeOK'
  <2>1. op' \in Ops
    BY <1>6, Kinds DEF Revert, Idle, Ops, Steps
  <2> QED BY <1>t, <1>6, <2>1 DEF Revert, TypeOK
<1>7. ASSUME NEW r \in Retires, AcceptRetire(r) PROVE TypeOK'
  <2>1. file[Target[r]] \in Contents \cup {None} /\ row[r].intent \in Contents \cup {None}
    BY <1>t, Kinds DEF FileType, RowType, Rows
  <2>2. op' \in Ops
    BY <1>7, <2>1, Kinds DEF AcceptRetire, Idle, Ops, Steps
  <2> QED BY <1>t, <1>7, <2>2 DEF AcceptRetire, TypeOK
<1>8. ASSUME NEW r \in Retires, Unretire(r) PROVE TypeOK'
  <2>1. row[r].dirs \subseteq Files
    BY <1>t, Kinds DEF RowType, Rows
  <2>2. op' \in Ops
    BY <1>8, <2>1, Kinds DEF Unretire, Idle, Ops, Steps
  <2> QED BY <1>t, <1>8, <2>2 DEF Unretire, TypeOK
<1>9. CASE DrainReject
  <2>1. row' \in [Proposals -> Rows] /\ ledger' \in Entries
    <3>1. CASE UNCHANGED <<row, ledger>>
      BY <1>t, <3>1 DEF RowType
    <3>2. CASE Archive(stale, "failed")
      <4>1. stale \in Proposals
        BY <1>t, <1>9 DEF DrainReject, TypeOK
      <4> QED BY <1>t, <3>2, <4>1, ArchiveType
    <3> QED BY <1>9, <3>1, <3>2 DEF DrainReject
  <2> QED BY <1>t, <1>9, <2>1 DEF DrainReject, TypeOK, Entries, Entry
<1> QED BY <1>1, <1>2, <1>3, <1>4, <1>5, <1>6, <1>7, <1>8, <1>9 DEF Commands

\* The holder of the lease has a proposal of the kind of its step.
LEMMA OpOf == ASSUME OpInv
  PROVE /\ op.step \in {"write", "record", "unwrite", "unrecord"} => op.p \in Writes
        /\ op.step \in Retiring \cup Restoring => op.p \in Retires
BY DEF OpInv, Publishes, Unpublishes, Retirement, Restoration

LEMMA ProceedType == ASSUME IInv, Proceed \/ MoveFails \/ Crash PROVE TypeOK'
<1>t. TypeOK /\ FileType /\ RowType /\ ledger \in Entries /\ ArchiveOK /\ op \in Ops
  BY Types DEF IInv
<1>k. /\ op.step \in {"write", "record", "unwrite", "unrecord"} => op.p \in Writes
      /\ op.step \in Retiring \cup Restoring => op.p \in Retires
  BY OpOf DEF IInv
<1>r. op.p \in Proposals => /\ row[op.p].backup \in Contents \cup {None}
                            /\ row[op.p].dirs \subseteq Files /\ Target[op.p] \in Files
  BY <1>t, Kinds DEF RowType, Rows
<1>o. /\ op.backup \in Contents \cup {None} /\ op.publish \in Contents \cup {None}
      /\ op.f \in Files \cup {None} /\ op.todo \subseteq Files /\ op.mine \in BOOLEAN
      /\ op.p \in Proposals \cup {None} /\ op.step \in Steps
  BY <1>t DEF Ops
<1>i. Idle \in Ops
  BY DEF Idle, Ops, Steps
<1>1. CASE WriteAsset
  <2>1. file' \in [Files -> Contents \cup {None}] /\ op' \in Ops
    BY <1>t, <1>o, <1>1 DEF WriteAsset, FileType, Ops, Steps
  <2> QED BY <1>t, <1>1, <2>1 DEF WriteAsset, TypeOK
<1>2. CASE RecordAccept
  <2>1. op.p \in Proposals
    BY <1>k, <1>2, Kinds DEF RecordAccept, Written
  <2>2. row' \in [Proposals -> Rows]
    BY <1>t, <1>o, <1>2, <2>1 DEF RecordAccept, RowType, Rows, Statuses
  <2>3. ledger' \in Entries
    BY <1>t, <1>2, <2>1, DecidedType DEF RecordAccept, Outcomes
  <2> QED BY <1>t, <1>i, <1>2, <2>2, <2>3 DEF RecordAccept, TypeOK, Entries, Entry
<1>3. CASE RecordIntent
  <2>1. op.p \in Proposals
    BY <1>k, <1>3, Kinds DEF RecordIntent, Retiring
  <2>2. row' \in [Proposals -> Rows]
    <3>1. \E c \in Contents \cup {None} : row' = [row EXCEPT ![op.p].intent = c]
      BY <1>t, <1>o, <1>3, <2>1 DEF RecordIntent, RowType, Rows
    <3> QED BY <1>t, <2>1, <3>1 DEF RowType, Rows
  <2>3. op' \in Ops
    BY <1>t, <1>r, <1>3, <2>1 DEF RecordIntent, Ops, Steps
  <2> QED BY <1>t, <1>3, <2>2, <2>3 DEF RecordIntent, TypeOK
<1>4. CASE WriteEdge
  <2>1. op.p \in Retires /\ op.p \in Proposals /\ file[Target[op.p]] \in Contents
    BY <1>t, <1>k, <1>4, Kinds DEF WriteEdge, Retiring, IInv, OpInv, Retirement, FileType
  <2>2. file' \in [Files -> Contents \cup {None}]
    <3>1. [file[Target[op.p]] EXCEPT !.edge = TRUE] \in Contents
      BY <2>1 DEF Contents
    <3> QED BY <1>t, <1>r, <1>4, <2>1, <3>1 DEF WriteEdge, FileType
  <2>3. op' \in Ops
    BY <1>t, <1>r, <1>4, <2>1 DEF WriteEdge, Ops, Steps
  <2> QED BY <1>t, <1>4, <2>2, <2>3 DEF WriteEdge, TypeOK
<1>5. CASE WriteTombstone
  <2>1. op.p \in Retires /\ op.f \in Files /\ archive[op.p][op.f].state = "none"
    BY <1>k, <1>o, <1>5 DEF WriteTombstone, ToArchive, Retiring
  <2>2. [archive[op.p][op.f] EXCEPT !.state = "tombstone"] \in Chest
    BY <1>t, <2>1 DEF ArchiveOK, Chest
  <2>3. archive' \in [Retires -> [Files -> Chest]]
    BY <1>t, <1>5, <2>1, <2>2 DEF WriteTombstone, ArchiveOK
  <2>4. op' \in Ops
    BY <1>t, <1>5 DEF WriteTombstone, Ops, Steps
  <2> QED BY <1>t, <1>5, <2>3, <2>4 DEF WriteTombstone, TypeOK, Chest
<1>6. CASE SkipArchived
  <2>1. After(op.f) \in Files \cup {None}
    BY <1>o, <1>6, Kinds DEF SkipArchived, After
  <2>2. op' \in Ops
    BY <1>t, <1>6, <2>1 DEF SkipArchived, Ops
  <2> QED BY <1>t, <1>6, <2>2 DEF SkipArchived, TypeOK
<1>7. CASE MoveToArchive
  <2>1. op.p \in Retires /\ op.f \in Files /\ file[op.f] \in Contents
    BY <1>t, <1>k, <1>7 DEF MoveToArchive, IInv, OpInv, Retirement, Retiring, FileType
  <2>2. After(op.f) \in Files \cup {None}
    BY <2>1, Kinds DEF After
  <2>3. archive' \in [Retires -> [Files -> Chest]]
    <3>1. [state |-> "kept", bytes |-> file[op.f]] \in Chest
      BY <2>1 DEF Chest
    <3> QED BY <1>t, <1>7, <2>1, <3>1 DEF MoveToArchive, ArchiveOK
  <2>4. file' \in [Files -> Contents \cup {None}]
    BY <1>t, <1>7 DEF MoveToArchive, FileType
  <2>5. op' \in Ops
    BY <1>t, <1>7, <2>2 DEF MoveToArchive, Ops, Steps
  <2> QED BY <1>t, <1>7, <2>3, <2>4, <2>5 DEF MoveToArchive, TypeOK, Chest
<1>8. CASE MoveFails
  <2>1. op.p \in Proposals
    BY <1>k, <1>8, Kinds DEF MoveFails, Retiring
  <2>2. op' \in Ops
    BY <1>t, <1>r, <1>i, <1>8, <2>1 DEF MoveFails, Undo, Ops, Steps
  <2>3. crashes' \in 0..MaxCrashes
    BY <1>t, <1>8, QueueAssumption DEF MoveFails, TypeOK
  <2> QED BY <1>t, <1>8, <2>2, <2>3 DEF MoveFails, TypeOK
<1>9. CASE UndoMove
  <2>1. op.p \in Retires /\ op.f \in Files
    BY <1>t, <1>k, <1>9, Kinds DEF UndoMove, IInv, OpInv, Retirement, Retiring
  <2>2. archive[op.p][op.f].bytes \in Contents \cup {None}
    BY <1>t, <2>1 DEF ArchiveOK, Chest
  <2>3. file' \in [Files -> Contents \cup {None}]
    BY <1>t, <1>9, <2>2 DEF UndoMove, FileType
  <2>4. archive' \in [Retires -> [Files -> Chest]]
    <3>1. Emptied \in Chest
      BY DEF Emptied, Chest
    <3> QED BY <1>t, <1>9, <2>1, <3>1 DEF UndoMove, ArchiveOK
  <2>5. op' \in Ops
    BY <1>t, <1>9 DEF UndoMove, Ops, Steps
  <2> QED BY <1>t, <1>9, <2>3, <2>4, <2>5 DEF UndoMove, TypeOK, Chest
<1>10. CASE UndoTombstone
  <2>1. archive' \in [Retires -> [Files -> Chest]]
    <3>1. NoArchive \in Chest
      BY DEF NoArchive, Chest
    <3> QED BY <1>t, <1>10, <3>1 DEF UndoTombstone, ArchiveOK
  <2> QED BY <1>t, <1>i, <1>10, <2>1 DEF UndoTombstone, TypeOK, Chest
<1>11. CASE RecordRetire
  <2>1. op.p \in Proposals
    BY <1>k, <1>11, Kinds DEF RecordRetire, Retiring
  <2>2. row' \in [Proposals -> Rows]
    BY <1>t, <1>o, <1>11, <2>1 DEF RecordRetire, RowType, Rows, Statuses, Dirs
  <2>3. ledger' \in Entries
    BY <1>t, <1>11, <2>1, DecidedType DEF RecordRetire, Outcomes
  <2>4. stale' \in Proposals \cup {None}
    BY <1>t, <1>11, <2>1 DEF RecordRetire, TypeOK
  <2> QED BY <1>t, <1>i, <1>11, <2>2, <2>3, <2>4 DEF RecordRetire, TypeOK, Entries, Entry
<1>12. CASE RestoreAsset
  <2>1. op.p \in Proposals
    BY <1>k, <1>12, Kinds DEF RestoreAsset
  <2>2. file' \in [Files -> Contents \cup {None}] /\ op' \in Ops
    BY <1>t, <1>r, <1>12, <2>1 DEF RestoreAsset, FileType, Ops, Steps
  <2> QED BY <1>t, <1>12, <2>2 DEF RestoreAsset, TypeOK
<1>13. CASE RecordRevert
  <2>1. op.p \in Proposals
    BY <1>k, <1>13, Kinds DEF RecordRevert, Restoring
  <2>2. row' \in [Proposals -> Rows]
    BY <1>t, <1>13, <2>1 DEF RecordRevert, RowType, Rows, Statuses
  <2>3. ledger' \in Entries
    BY <1>t, <1>13, <2>1, DecidedType DEF RecordRevert, Outcomes
  <2>4. op' \in Ops
    BY <1>t, <1>i, <1>13 DEF RecordRevert, Ops, Steps
  <2> QED BY <1>t, <1>13, <2>2, <2>3, <2>4 DEF RecordRevert, TypeOK, Entries, Entry
<1>14. ASSUME NEW f \in Files, RestoreFile(f) PROVE TypeOK'
  <2>1. op.p \in Retires
    BY <1>k, <1>14 DEF RestoreFile, Restoring
  <2>2. archive[op.p][f].bytes \in Contents \cup {None}
    BY <1>t, <2>1 DEF ArchiveOK, Chest
  <2>3. file' \in [Files -> Contents \cup {None}]
    BY <1>t, <1>14, <2>2 DEF RestoreFile, FileType
  <2>4. archive' \in [Retires -> [Files -> Chest]]
    <3>1. Emptied \in Chest
      BY DEF Emptied, Chest
    <3> QED BY <1>t, <1>14, <2>1, <3>1 DEF RestoreFile, ArchiveOK
  <2>5. op' \in Ops
    BY <1>t, <1>i, <1>14 DEF RestoreFile, Ops
  <2> QED BY <1>t, <1>14, <2>3, <2>4, <2>5 DEF RestoreFile, TypeOK, Chest
<1>15. CASE RewriteAsset
  <2>1. op.p \in Proposals
    BY <1>k, <1>15, Kinds DEF RewriteAsset, Restoring
  <2>2. file' \in [Files -> Contents \cup {None}]
    BY <1>t, <1>r, <1>15, <2>1 DEF RewriteAsset, Rewritten, FileType
  <2>3. op' \in Ops
    BY <1>t, <1>15 DEF RewriteAsset, Ops, Steps
  <2> QED BY <1>t, <1>15, <2>2, <2>3 DEF RewriteAsset, TypeOK
<1>16. CASE ClearArchive
  <2>1. archive' \in [Retires -> [Files -> Chest]]
    <3>1. NoArchive \in Chest
      BY DEF NoArchive, Chest
    <3> QED BY <1>t, <1>16, <3>1 DEF ClearArchive, ArchiveOK
  <2> QED BY <1>t, <1>i, <1>16, <2>1 DEF ClearArchive, TypeOK, Chest
<1>17. CASE Crash
  <2>1. crashes' \in 0..MaxCrashes
    BY <1>t, <1>17, QueueAssumption DEF Crash, TypeOK
  <2> QED BY <1>t, <1>i, <1>17, <2>1 DEF Crash, TypeOK
<1> QED BY <1>1, <1>2, <1>3, <1>4, <1>5, <1>6, <1>7, <1>8, <1>9, <1>10, <1>11, <1>12, <1>13, <1>14,
           <1>15, <1>16, <1>17 DEF Proceed

LEMMA TypeStep == IInv /\ [Next]_vars => TypeOK'
<1> SUFFICES ASSUME IInv, [Next]_vars PROVE TypeOK'
  OBVIOUS
<1>1. CASE UNCHANGED vars
  BY <1>1 DEF IInv, vars, TypeOK
<1>2. TypeOK
  BY DEF IInv
<1> QED BY <1>1, <1>2, UnleasedType, CommandsType, ProceedType DEF Next

-----------------------------------------------------------------------------
(* What a step makes of a row.                                             *)

Judged(p) == row'[p].base = row[p].base /\ row'[p].successor = row[p].successor
Saved(p) == /\ row'[p].backup = row[p].backup /\ row'[p].published = row[p].published
            /\ row'[p].dirs = row[p].dirs
Goes(p, from, to) == row[p].status = from /\ row'[p].status = to

Minted(p) ==
  /\ \/ p \in Writes /\ Goes(p, "none", "pending")
     \/ p \in Retires /\ Goes(p, "none", "judged") /\ row'[p].base # None /\ row'[p].successor # None
  /\ Saved(p) /\ row'[p].base = file[Target[p]] /\ row'[p].intent = row[p].intent
Moved(p) ==
  /\ \/ p \in Retires /\ Goes(p, "judged", "pending")
     \/ Goes(p, "pending", "rejected")
     \/ Goes(p, "rejected", "pending") /\ Free
  /\ Judged(p) /\ Saved(p) /\ row'[p].intent = row[p].intent
Intended(p) ==
  /\ op.step = "intent" /\ op.p = p /\ op' # op /\ row'[p].status = row[p].status
  /\ Judged(p) /\ Saved(p) /\ row'[p].intent = op.backup
Accepted(p) ==
  /\ Goes(p, "pending", "accepted") /\ op.p = p /\ op' # op /\ Judged(p) /\ row'[p].backup = op.backup
  /\ \/ op.step = "record" /\ p \in Writes /\ row'[p].published = op.publish
        /\ row'[p].intent = row[p].intent
     \/ op.step = "archive" /\ op.f = None /\ p \in Retires
        /\ Dirs(p) # {} /\ row'[p].dirs = Dirs(p) /\ row'[p].intent = None
        /\ row'[p].published = row[p].published
Reverted(p) ==
  /\ Goes(p, "accepted", "reverted") /\ op.step \in {"unrecord", "unretired"} /\ op.p = p
  /\ op' # op /\ Judged(p) /\ Saved(p) /\ row'[p].intent = row[p].intent
Decides(p) == Minted(p) \/ Moved(p) \/ Intended(p) \/ Accepted(p) \/ Reverted(p)

Only(p) == \A q \in Proposals \ {p} : row'[q] = row[q]

LEMMA RowStep == ASSUME IInv, [Next]_vars
  PROVE row' = row \/ \E p \in Proposals : Only(p) /\ Decides(p)
<1>t. TypeOK /\ FileType /\ RowType
  BY Types DEF IInv
<1>k. /\ op.step \in {"write", "record", "unwrite", "unrecord"} => op.p \in Writes
      /\ op.step \in Retiring \cup Restoring => op.p \in Retires
  BY OpOf DEF IInv
<1>1. ASSUME NEW w \in Writes, Mint(w) PROVE Only(w) /\ Minted(w)
  BY <1>t, <1>1, Kinds DEF Mint, RowType, Rows, Only, Minted, Goes, Saved
<1>2. ASSUME NEW r \in Retires, Judge(r) PROVE Only(r) /\ Minted(r)
  <2>1. file[Successor[r]].body # None
    BY <1>t, <1>2, Kinds, QueueAssumption DEF Judge, FileType, Contents
  <2> QED BY <1>t, <1>2, <2>1, Kinds DEF Judge, RowType, Rows, Only, Minted, Goes, Saved
<1>3. ASSUME NEW r \in Retires, MintRetire(r) PROVE Only(r) /\ Moved(r)
  BY <1>t, <1>3, Kinds DEF MintRetire, RowType, Rows, Only, Moved, Goes, Judged, Saved
<1>4. ASSUME NEW p \in Proposals, NEW o, Archive(p, o) PROVE Only(p) /\ Moved(p)
  <2>1. row' = [row EXCEPT ![p].status = "rejected"] /\ row[p].status = "pending"
    BY <1>4 DEF Archive
  <2> QED BY <1>t, <2>1 DEF RowType, Rows, Only, Moved, Goes, Judged, Saved
<1>5. ASSUME NEW p \in Proposals, Reopen(p) PROVE Only(p) /\ Moved(p)
  BY <1>t, <1>5 DEF Reopen, Reopenable, RowType, Rows, Only, Moved, Goes, Judged, Saved
<1>6. CASE RecordAccept
  <2>1. op.p \in Writes /\ op.p \in Proposals
    BY <1>k, <1>6, Kinds DEF RecordAccept, Written
  <2>2. CASE row[op.p].status = "pending"
    <3>1. row' = [row EXCEPT ![op.p].status = "accepted",
                             ![op.p].backup = op.backup, ![op.p].published = op.publish]
      BY <1>6, <2>2 DEF RecordAccept, StillPending
    <3>2. Only(op.p) /\ Judged(op.p) /\ Goes(op.p, "pending", "accepted")
      BY <1>t, <2>1, <2>2, <3>1 DEF RowType, Rows, Only, Judged, Goes
    <3>3. /\ row'[op.p].backup = op.backup /\ row'[op.p].published = op.publish
          /\ row'[op.p].intent = row[op.p].intent
      BY <1>t, <2>1, <3>1 DEF RowType, Rows
    <3> QED BY <1>6, <2>1, <3>2, <3>3 DEF RecordAccept, Written, Idle, Accepted, Decides
  <2>3. CASE row[op.p].status # "pending"
    BY <1>6, <2>3 DEF RecordAccept, StillPending
  <2> QED BY <2>2, <2>3
<1>7. CASE RecordIntent
  <2>1. op.p \in Retires /\ op.p \in Proposals /\ row[op.p].intent = None
    BY <1>7, Kinds DEF RecordIntent, IInv, OpInv, Retirement, Retiring
  <2>2. row' = [row EXCEPT ![op.p].intent = op.backup]
    <3>1. row' = [row EXCEPT ![op.p] = [row[op.p] EXCEPT !.intent =
                    IF row[op.p].intent = None THEN op.backup ELSE row[op.p].intent]]
      BY <1>7 DEF RecordIntent
    <3> QED BY <2>1, <3>1
  <2>3. Only(op.p) /\ Intended(op.p)
    <3>1. op' # op
      BY <1>t, <1>7 DEF RecordIntent, TypeOK, Ops
    <3> QED BY <1>t, <1>7, <2>1, <2>2, <3>1 DEF RecordIntent, RowType, Rows, Only, Intended, Judged, Saved
  <2> QED BY <2>1, <2>3 DEF Decides
<1>8. CASE RecordRetire
  <2>1. op.p \in Retires /\ op.p \in Proposals
    BY <1>k, <1>8, Kinds DEF RecordRetire, Retiring
  <2>2. CASE row' # row
    <3>1. /\ Dirs(op.p) # {} /\ row[op.p].status = "pending"
          /\ row' = [row EXCEPT ![op.p].status = "accepted", ![op.p].backup = op.backup,
                                ![op.p].intent = None, ![op.p].dirs = Dirs(op.p)]
      BY <1>8, <2>2 DEF RecordRetire, StillPending
    <3>2. Only(op.p) /\ Judged(op.p) /\ Goes(op.p, "pending", "accepted")
      BY <1>t, <2>1, <3>1 DEF RowType, Rows, Only, Judged, Goes
    <3>3. /\ row'[op.p].backup = op.backup /\ row'[op.p].dirs = Dirs(op.p)
          /\ row'[op.p].intent = None /\ row'[op.p].published = row[op.p].published
      BY <1>t, <2>1, <3>1 DEF RowType, Rows
    <3>4. op' # op /\ op.step = "archive" /\ op.f = None
      BY <1>8 DEF RecordRetire, Idle
    <3> QED BY <2>1, <3>1, <3>2, <3>3, <3>4 DEF Accepted, Decides
  <2> QED BY <2>2
<1>9. CASE RecordRevert
  <2>1. op.p \in Proposals /\ row[op.p].status = "accepted"
    BY <1>k, <1>9, Kinds DEF RecordRevert, Restoring, IInv, OpInv, Unpublishes, Restoration
  <2>2. Only(op.p) /\ Reverted(op.p)
    <3>1. op' # op
      BY <1>t, <1>9 DEF RecordRevert, TypeOK, Ops, Idle
    <3> QED BY <1>t, <1>9, <2>1, <3>1 DEF RecordRevert, RowType, Rows, Only, Reverted, Goes, Judged, Saved
  <2> QED BY <2>1, <2>2 DEF Decides
<1>10. CASE Unleased
  <2>1. row' = row \/ (\E w \in Writes : Mint(w)) \/ (\E r \in Retires : Judge(r) \/ MintRetire(r))
        \/ \E p \in Proposals, o \in {"expired", "failed"} : Archive(p, o)
    BY <1>10 DEF Unleased, Defer, Purge, Sweep
  <2> QED BY <1>1, <1>2, <1>3, <1>4, <2>1, Kinds DEF Decides
<1>11. CASE Commands
  <2>1. row' = row \/ (\E p \in Proposals : Reopen(p))
        \/ \E p \in Proposals, o \in {"rejected", "failed"} : Archive(p, o)
    <3>1. CASE DrainReject
      BY <1>t, <3>1 DEF DrainReject, TypeOK
    <3> QED BY <1>11, <3>1 DEF Commands, Edit, Reject, DrainFindsStale, AcceptWrite, Revert, AcceptRetire, Unretire
  <2> QED BY <1>4, <1>5, <2>1 DEF Decides
<1>12. CASE Proceed \/ MoveFails \/ Crash
  <2>1. row' = row \/ RecordAccept \/ RecordIntent \/ RecordRetire \/ RecordRevert
    BY <1>12 DEF Proceed, WriteAsset, WriteEdge, WriteTombstone, SkipArchived, MoveToArchive, MoveFails,
                 UndoMove, UndoTombstone, RestoreAsset, RestoreFile, RewriteAsset, ClearArchive, Crash
  <2> QED BY <1>6, <1>7, <1>8, <1>9, <2>1
<1>13. CASE UNCHANGED vars
  BY <1>13 DEF vars
<1> QED BY <1>10, <1>11, <1>12, <1>13 DEF Next

\* The base and successor of a proposal stand once there is one.
LEMMA JudgedOnce == ASSUME IInv, [Next]_vars, NEW p \in Proposals, row[p].status # "none"
  PROVE Judged(p) /\ row'[p].status # "none"
BY RowStep DEF Judged, Only, Decides, Minted, Moved, Intended, Accepted, Reverted, Goes

-----------------------------------------------------------------------------
(* What a step makes of a file and of an archive directory.                *)

\* A person changes the frontmatter only.
Reworded(f) == file[f] # None /\ file'[f].edge = file[f].edge

LEMMA FileStep == ASSUME IInv, [Next]_vars, NEW f \in Files
  PROVE \/ file'[f] = file[f]
        \/ /\ Free /\ clock' = clock + 1
           /\ file'[f] # None => file'[f].front <= clock' /\ (file'[f].edge = FALSE \/ Reworded(f))
        \/ op.step = "write" /\ f = Target[op.p] /\ file'[f] = op.publish
        \/ op.step = "edge" /\ f = Target[op.p] /\ file'[f] = [file[f] EXCEPT !.edge = TRUE]
        \/ op.step = "move" /\ f = op.f /\ file'[f] = None /\ archive'[op.p][f].bytes = file[f]
        \/ /\ op.step = "undo" /\ f = op.f /\ file'[f] = archive[op.p][f].bytes
           /\ archive'[op.p][f].state = "tombstone"
        \/ op.step = "unwrite" /\ f = Target[op.p] /\ file'[f] = row[op.p].backup
        \/ op.step = "restore" /\ f \in op.todo /\ file'[f] = archive[op.p][f].bytes /\ file'[f] # None
        \/ /\ op.step = "restore" /\ op.todo = {} /\ f = Target[op.p] /\ f \in row[op.p].dirs
           /\ file'[f] = row[op.p].backup
<1>t. TypeOK /\ FileType /\ ArchiveOK
  BY Types DEF IInv
<1>k. op.step \in Retiring \cup Restoring => op.p \in Retires
  BY OpOf DEF IInv
<1>1. ASSUME NEW g \in Files, NEW c \in Contents \cup {None}, Edit(g, c), file'[f] # file[f]
      PROVE /\ Free /\ clock' = clock + 1
            /\ file'[f] # None => file'[f].front <= clock' /\ (file'[f].edge = FALSE \/ Reworded(f))
  <2>1. f = g /\ file'[f] = c /\ Free /\ clock' = clock + 1 /\ clock \in Nat
    BY <1>t, <1>1 DEF Edit, FileType, TypeOK, Clock
  <2>2. \/ c = None
        \/ c.front \in {0, clock + 1} /\ (c.edge = FALSE \/ (file[g] # None /\ c.edge = file[g].edge))
    <3>1. CASE c \in {[file[g] EXCEPT !.front = clock + 1]} /\ file[g] # None
      <4>1. file[g] \in Contents
        BY <1>t, <3>1 DEF FileType
      <4> QED BY <3>1, <4>1 DEF Contents
    <3>2. CASE c = [body |-> clock + 1, front |-> 0, edge |-> FALSE]
      BY <3>2
    <3>3. c = None \/ c = [body |-> clock + 1, front |-> 0, edge |-> FALSE]
          \/ (c = [file[g] EXCEPT !.front = clock + 1] /\ file[g] # None)
      BY <1>1 DEF Edit
    <3> QED BY <3>1, <3>2, <3>3
  <2>3. c # None => c.front <= clock + 1
    BY <2>1, <2>2
  <2>4. c # None => c.edge = FALSE \/ Reworded(f)
    BY <2>1, <2>2 DEF Reworded
  <2> QED BY <2>1, <2>3, <2>4
<1>2. CASE WriteAsset
  BY <1>t, <1>2 DEF WriteAsset, FileType
<1>3. CASE WriteEdge
  BY <1>t, <1>3 DEF WriteEdge, FileType
<1>4. CASE MoveToArchive
  BY <1>t, <1>k, <1>4 DEF MoveToArchive, FileType, ArchiveOK, Retiring
<1>5. CASE UndoMove
  BY <1>t, <1>k, <1>5 DEF UndoMove, FileType, ArchiveOK, Emptied, Retiring
<1>6. CASE RestoreAsset
  BY <1>t, <1>6 DEF RestoreAsset, FileType
<1>7. ASSUME NEW g \in Files, RestoreFile(g), file'[f] # file[f]
      PROVE op.step = "restore" /\ f \in op.todo /\ file'[f] = archive[op.p][f].bytes /\ file'[f] # None
  BY <1>t, <1>7 DEF RestoreFile, FileType
<1>8. CASE RewriteAsset
  BY <1>t, <1>8 DEF RewriteAsset, Rewritten, FileType
<1>9. CASE Unleased
  BY <1>9 DEF Unleased, Mint, Judge, MintRetire, Purge, Defer, Sweep
<1>10. CASE Commands
  BY <1>1, <1>10 DEF Commands, Reject, Reopen, DrainFindsStale, AcceptWrite, Revert, AcceptRetire, Unretire,
                     DrainReject
<1>11. CASE Proceed \/ MoveFails \/ Crash
  BY <1>2, <1>3, <1>4, <1>5, <1>6, <1>7, <1>8, <1>11 DEF Proceed, RecordAccept, RecordIntent, WriteTombstone,
     SkipArchived, UndoTombstone, RecordRetire, RecordRevert, ClearArchive, MoveFails, Crash
<1>12. CASE UNCHANGED vars
  BY <1>12 DEF vars
<1> QED BY <1>9, <1>10, <1>11, <1>12 DEF Next

\* How an archive directory changes.
Handled(r, f) ==
  \/ /\ archive[r][f].state = "kept" /\ archive'[r][f] = [state |-> "purged", bytes |-> None]
     /\ op.p = r => op.step \in Restoring
     /\ UNCHANGED <<op, file>>
  \/ /\ op.p = r /\ op.step = "archive" /\ f = op.f /\ archive[r][f].bytes = None
     /\ archive'[r][f] = [state |-> "tombstone", bytes |-> None]
  \/ /\ op.p = r /\ op.step = "move" /\ f = op.f
     /\ archive'[r][f] = [state |-> "kept", bytes |-> file[f]] /\ file'[f] = None
  \/ /\ op.p = r /\ archive'[r][f] = Emptied /\ file'[f] = archive[r][f].bytes
     /\ (op.step = "undo" /\ f = op.f) \/ (op.step = "restore" /\ f \in op.todo)
  \/ /\ op.p = r /\ archive'[r][f] = NoArchive
     /\ (op.step = "forget" /\ f = op.f) \/ (op.step = "clear" /\ f \in row[r].dirs)

\* A step that changes an archive changes no row.
LEMMA ArchiveStep == ASSUME IInv, [Next]_vars, NEW r \in Retires, NEW f \in Files,
    archive'[r][f] # archive[r][f]
  PROVE row' = row /\ ledger' = ledger /\ Handled(r, f)
<1>t. TypeOK /\ FileType /\ ArchiveOK
  BY Types DEF IInv
<1>k. op.step \in Retiring \cup Restoring => op.p \in Retires
  BY OpOf DEF IInv
<1>1. ASSUME NEW q \in Retires, NEW g \in Files, Purge(q, g)
      PROVE row' = row /\ ledger' = ledger /\ Handled(r, f)
  BY <1>t, <1>1 DEF Purge, ArchiveOK, Restoring, Handled
<1>2. CASE WriteTombstone
  <2>1. archive[op.p][op.f] \in Chest /\ archive[op.p][op.f].state = "none"
    BY <1>t, <1>k, <1>2 DEF WriteTombstone, ToArchive, ArchiveOK, Retiring, TypeOK, Ops
  <2>2. [archive[op.p][op.f] EXCEPT !.state = "tombstone"] = [state |-> "tombstone", bytes |-> None]
    BY <2>1 DEF Chest
  <2>3. archive' = [archive EXCEPT ![op.p][op.f] = [state |-> "tombstone", bytes |-> None]]
    BY <1>2, <2>2 DEF WriteTombstone
  <2>4. archive[op.p][op.f].bytes = None
    BY <2>1 DEF Chest
  <2> QED BY <1>t, <1>2, <2>3, <2>4 DEF WriteTombstone, ArchiveOK, Handled
<1>3. CASE MoveToArchive
  BY <1>t, <1>k, <1>3 DEF MoveToArchive, FileType, ArchiveOK, Retiring, Handled
<1>4. CASE UndoMove
  BY <1>t, <1>4 DEF UndoMove, FileType, ArchiveOK, TypeOK, Ops, Handled
<1>5. CASE UndoTombstone
  BY <1>t, <1>5 DEF UndoTombstone, ArchiveOK, Handled
<1>6. ASSUME NEW g \in Files, RestoreFile(g)
      PROVE row' = row /\ ledger' = ledger /\ Handled(r, f)
  BY <1>t, <1>6 DEF RestoreFile, FileType, ArchiveOK, Handled
<1>7. CASE ClearArchive
  BY <1>t, <1>7 DEF ClearArchive, ArchiveOK, Handled
<1>8. CASE Unleased
  BY <1>1, <1>8 DEF Unleased, Mint, Judge, MintRetire, Defer, Sweep
<1>9. CASE Commands
  BY <1>9 DEF Commands, Edit, Reject, Reopen, DrainFindsStale, AcceptWrite, Revert, AcceptRetire, Unretire,
              DrainReject
<1>10. CASE Proceed \/ MoveFails \/ Crash
  BY <1>2, <1>3, <1>4, <1>5, <1>6, <1>7, <1>10 DEF Proceed, WriteAsset, WriteEdge, RecordAccept, RecordIntent,
     SkipArchived, RecordRetire, RestoreAsset, RecordRevert, RewriteAsset, MoveFails, Crash
<1>11. CASE UNCHANGED vars
  BY <1>11 DEF vars
<1> QED BY <1>8, <1>9, <1>10, <1>11 DEF Next

-----------------------------------------------------------------------------
(* The parts of the invariant.                                             *)

LEMMA BytesIn == ASSUME TypeOK, NEW r \in Retires, NEW f \in Files, archive[r][f].bytes # None
  PROVE archive[r][f].state = "kept"
BY DEF TypeOK

\* What a row says of itself stays true.
LEMMA RowsStep == ASSUME IInv, [Next]_vars, NEW p \in Proposals PROVE RowOK(p)'
<1>l. TypeOK /\ RowOK(p) /\ Publishes /\ Retirement /\ Target[p] \in Files
  BY Kinds DEF IInv, OpInv
<1>1. CASE p \in Retires /\ \E f \in Files : archive'[p][f] # archive[p][f]
  <2>1. row' = row
    BY <1>1, ArchiveStep
  <2>a. ASSUME NEW f \in Files, archive'[p][f] # archive[p][f]
        PROVE
        \/ /\ archive[p][f].state = "kept"
           /\ archive'[p][f].state = "purged" /\ archive'[p][f].bytes = None
        \/ /\ op.p = p /\ op.step \in {"archive", "undo", "restore"}
           /\ archive'[p][f].state = "tombstone" /\ archive'[p][f].bytes = None
        \/ /\ op.p = p /\ op.step = "move" /\ f = op.f
           /\ archive'[p][f].state = "kept" /\ archive'[p][f].bytes = file[f]
        \/ /\ op.p = p /\ op.step \in {"forget", "clear"}
           /\ archive'[p][f].state = "none" /\ archive'[p][f].bytes = None
    <3>1. Handled(p, f)
      BY <1>1, <2>a, ArchiveStep
    <3> QED BY <3>1 DEF Handled, Emptied, NoArchive
  <2>r. op.p = p /\ op.step \in {"archive", "move", "undo", "forget"} =>
          row[p].status \in {"pending", "rejected"} /\ row[p].intent # None
    BY <1>l DEF Retirement, Retiring
  <2>b. \A f \in Files : op.p = p /\ op.step = "move" /\ f = op.f => archive[p][f].state = "tombstone"
    BY <1>l DEF Retirement, Retiring
  <2>c. op.p = p /\ op.step \in {"restore", "clear"} =>
          row[p].status = IF op.step = "clear" THEN "reverted" ELSE "accepted"
    BY DEF IInv, OpInv, Restoration, Restoring
  <2>2. \A f \in Files : archive'[p][f].state # "none" /\ archive[p][f].state = "none" =>
          \/ row[p].status \in {"pending", "rejected"} /\ row[p].intent # None
          \/ row[p].status = "accepted"
    BY <2>a, <2>r, <2>c
  <2>3. \A f \in Files : archive'[p][f].state = "none" /\ archive[p][f].state # "none" =>
          row[p].status # "accepted"
    BY <2>a, <2>r, <2>c
  <2>4. AsJudged(p, archive'[p][Target[p]].bytes)
    <3>1. CASE archive'[p][Target[p]] = archive[p][Target[p]]
      BY <1>l, <1>1, <3>1 DEF RowOK, AsJudged
    <3>2. CASE archive'[p][Target[p]] # archive[p][Target[p]]
      <4>1. \/ archive'[p][Target[p]].bytes = None
            \/ /\ op.p = p /\ op.step = "move" /\ op.f = Target[p]
               /\ archive'[p][Target[p]].bytes = file[Target[p]]
        BY <1>l, <2>a, <3>2
      <4> QED BY <1>l, <4>1 DEF AsJudged, Retirement, Retiring
    <3> QED BY <3>1, <3>2
  <2>5. row[p].status = "none" => Dirs(p)' = {}
    BY <1>l, <1>1, <2>2 DEF RowOK, Dirs
  <2>6. Dirs(p)' # {} => row[p].intent # None \/ row[p].status \in Decisions
    BY <1>l, <1>1, <2>2 DEF RowOK, Dirs
  <2>7. row[p].status = "accepted" => row[p].dirs \subseteq Dirs(p)'
    BY <1>l, <1>1, <2>3 DEF RowOK, Dirs
  <2>8. /\ row[p].status = "none" => row[p].intent = None
        /\ p \notin Writes
        /\ row[p].status # "none" => row[p].base # None /\ row[p].successor # None
        /\ AsJudged(p, row[p].intent)
        /\ row[p].status \in Decisions => row[p].backup # None /\ AsJudged(p, row[p].backup)
        /\ row[p].status = "accepted" => row[p].dirs # {}
    BY <1>l, <1>1, QueueAssumption DEF RowOK
  <2> QED BY <1>1, <2>1, <2>4, <2>5, <2>6, <2>7, <2>8 DEF RowOK, AsJudged
<1>2. CASE ~(p \in Retires /\ \E f \in Files : archive'[p][f] # archive[p][f])
  <2>1. p \in Retires => Dirs(p)' = Dirs(p) /\ archive'[p][Target[p]] = archive[p][Target[p]]
    BY <1>l, <1>2 DEF Dirs
  <2>2. CASE row'[p] = row[p]
    BY <1>l, <2>1, <2>2 DEF RowOK, AsJudged
  <2>3. CASE Minted(p)
    <3>1. p \in Retires => archive[p][Target[p]].bytes = None
      BY <1>l, <2>3, BytesIn DEF Minted, Goes, RowOK, Dirs
    <3> QED BY <1>l, <2>1, <2>3, <3>1, QueueAssumption DEF Minted, Goes, RowOK, AsJudged, Decisions
  <2>4. CASE Moved(p)
    BY <1>l, <2>1, <2>4 DEF Moved, Goes, Judged, Saved, RowOK, AsJudged, Decisions
  <2>5. CASE Intended(p)
    BY <1>l, <2>1, <2>5, QueueAssumption DEF Intended, Judged, Saved, RowOK, AsJudged, Decisions,
       Retirement, Retiring
  <2>6. CASE Accepted(p)
    <3>1. CASE p \in Writes
      <4>1. op.backup = row[p].base
        BY <1>l, <2>6, <3>1, QueueAssumption DEF Accepted, Publishes
      <4> QED BY <1>l, <2>1, <2>6, <3>1, <4>1, QueueAssumption DEF Accepted, Goes, Judged, RowOK
    <3>2. CASE p \in Retires
      <4>1. op.backup # None /\ AsJudged(p, op.backup)
        BY <1>l, <2>6, <3>2, QueueAssumption DEF Accepted, Retirement, Retiring
      <4> QED BY <1>l, <2>1, <2>6, <3>2, <4>1, QueueAssumption
              DEF Accepted, Goes, Judged, RowOK, AsJudged, Decisions
    <3> QED BY <3>1, <3>2 DEF Proposals
  <2>7. CASE Reverted(p)
    BY <1>l, <2>1, <2>7 DEF Reverted, Goes, Judged, Saved, RowOK, AsJudged, Decisions
  <2> QED BY <2>2, <2>3, <2>4, <2>5, <2>6, <2>7, RowStep DEF Only, Decides
<1> QED BY <1>1, <1>2

\* The ledger: what a step writes is about one proposal.
LEMMA DecidedEntries == ASSUME TypeOK, NEW p \in Proposals, NEW o \in Outcomes, NEW k \in Keys
  PROVE \/ Decided(ledger, p, o)[k] = [id |-> p, outcome |-> o]
        \/ Decided(ledger, p, o)[k] = ledger[k] /\ ledger[k].id # p
<1>1. ledger = [j \in Keys |-> ledger[j]]
  BY DEF TypeOK
<1> QED BY <1>1, KeyOf DEF Decided, Attempted

LEMMA LedgerMoves == ASSUME TypeOK, LedgerFollowsStatus, NEW p \in Proposals, Only(p),
    \A k \in Keys : \/ ledger'[k].id = None
                    \/ ledger'[k] = ledger[k] /\ (ledger[k].id # p \/ row'[p].status = row[p].status)
                    \/ ledger'[k].id = p /\ ledger'[k].outcome \in Says(row'[p].status)
  PROVE LedgerFollowsStatus'
<1> SUFFICES ASSUME NEW k \in Keys, ledger'[k].id # None
             PROVE ledger'[k].outcome \in Says(row'[ledger'[k].id].status)
  BY DEF LedgerFollowsStatus, Says
<1>1. CASE ledger'[k].id = p /\ ledger'[k].outcome \in Says(row'[p].status)
  BY <1>1
<1>2. CASE ledger'[k] = ledger[k] /\ (ledger[k].id # p \/ row'[p].status = row[p].status)
  <2>1. ledger[k].id \in Proposals
    BY <1>2 DEF TypeOK
  <2>2. row'[ledger[k].id].status = row[ledger[k].id].status
    BY <1>2, <2>1 DEF Only
  <2> QED BY <1>2, <2>2 DEF LedgerFollowsStatus
<1> QED BY <1>1, <1>2

LEMMA LedgerDecided == ASSUME TypeOK, LedgerFollowsStatus, NEW p \in Proposals, NEW o \in Outcomes, Only(p),
    ledger' = Decided(ledger, p, o), o \in Says(row'[p].status)
  PROVE LedgerFollowsStatus'
<1>1. \A k \in Keys : \/ ledger'[k] = ledger[k] /\ ledger[k].id # p
                      \/ ledger'[k].id = p /\ ledger'[k].outcome \in Says(row'[p].status)
  <2>1. \A k \in Keys : \/ ledger'[k] = [id |-> p, outcome |-> o]
                        \/ ledger'[k] = ledger[k] /\ ledger[k].id # p
    BY DecidedEntries
  <2> QED BY <2>1
<1> QED BY <1>1, LedgerMoves

LEMMA ArchiveLedger == ASSUME TypeOK, LedgerFollowsStatus, NEW p \in Proposals,
    NEW o \in {"rejected", "expired", "failed"}, Archive(p, o)
  PROVE LedgerFollowsStatus'
<1>1. Only(p) /\ row'[p].status = "rejected"
  BY DEF Archive, TypeOK, Only, Rows
<1>2. o \in Says(row'[p].status)
  BY <1>1 DEF Says
<1>3. CASE ledger' = Decided(ledger, p, o)
  BY <1>1, <1>2, <1>3, LedgerDecided DEF Outcomes
<1>4. CASE ledger' = Released(Decided(ledger, p, o), p)
  <2>1. \A k \in Keys : ledger'[k].id = None \/ ledger'[k] = Decided(ledger, p, o)[k]
    BY <1>4 DEF Released
  <2>2. \A k \in Keys : \/ ledger'[k].id = None
                        \/ ledger'[k] = ledger[k] /\ ledger[k].id # p
                        \/ ledger'[k].id = p /\ ledger'[k].outcome \in Says(row'[p].status)
    <3>1. \A k \in Keys : \/ Decided(ledger, p, o)[k] = [id |-> p, outcome |-> o]
                          \/ Decided(ledger, p, o)[k] = ledger[k] /\ ledger[k].id # p
      <4>1. o \in Outcomes
        BY DEF Outcomes
      <4> QED BY <4>1, DecidedEntries
    <3> QED BY <1>2, <2>1, <3>1
  <2> QED BY <1>1, <2>2, LedgerMoves
<1> QED BY <1>3, <1>4 DEF Archive

LEMMA LedgerStep == ASSUME IInv, [Next]_vars PROVE LedgerFollowsStatus'
<1>t. TypeOK /\ LedgerFollowsStatus
  BY DEF IInv
<1>k. op.step \in Retiring \cup Restoring \cup {"record", "unrecord"} => op.p \in Proposals
  BY OpOf, Kinds DEF IInv
<1>0. ASSUME UNCHANGED ledger, \A q \in Proposals : row'[q].status = row[q].status
      PROVE LedgerFollowsStatus'
  BY <1>t, <1>0 DEF LedgerFollowsStatus, TypeOK
<1>1. ASSUME NEW w \in Writes, Mint(w) PROVE LedgerFollowsStatus'
  <2>1. Only(w) /\ row[w].status = "none" /\ row'[w].status = "pending" /\ w \in Proposals
    BY <1>t, <1>1, Kinds DEF Mint, TypeOK, Only, Rows
  <2>2. \A k \in Keys : ledger[k].id # w
    BY <1>t, <2>1, Kinds DEF LedgerFollowsStatus, Says
  <2>3. \A k \in Keys : ledger'[k] = ledger[k] \/ ledger'[k] = [id |-> w, outcome |-> "proposed"]
    BY <1>t, <1>1 DEF Mint, Attempted, TypeOK
  <2> QED BY <1>t, <2>1, <2>2, <2>3, LedgerMoves DEF Says
<1>2. ASSUME NEW r \in Retires, Judge(r) \/ MintRetire(r) PROVE LedgerFollowsStatus'
  <2>1. /\ Only(r) /\ row[r].status \in {"none", "judged"} /\ r \in Proposals /\ ledger' = ledger
        /\ row' # row
    <3>1. CASE Judge(r)
      BY <1>t, <3>1, Kinds DEF Judge, TypeOK, Only, Rows
    <3>2. CASE MintRetire(r)
      BY <1>t, <3>2, Kinds DEF MintRetire, TypeOK, Only, Rows
    <3> QED BY <1>2, <3>1, <3>2
  <2>2. \A k \in Keys : ledger[k].id # r
    BY <1>t, <2>1, Kinds DEF LedgerFollowsStatus, Says
  <2> QED BY <1>t, <2>1, <2>2, LedgerMoves
<1>3. ASSUME NEW p \in Proposals, Defer(p) PROVE LedgerFollowsStatus'
  <2>1. Only(p) /\ "review_needed" \in Says(row'[p].status)
    BY <1>3 DEF Defer, Only, Says
  <2> QED BY <1>t, <1>3, <2>1, LedgerDecided DEF Defer, Outcomes
<1>4. ASSUME NEW p \in Proposals, NEW o \in {"rejected", "expired", "failed"}, Archive(p, o)
      PROVE LedgerFollowsStatus'
  BY <1>t, <1>4, ArchiveLedger
<1>5. ASSUME NEW p \in Proposals, Reopen(p) PROVE LedgerFollowsStatus'
  <2>1. Only(p) /\ row'[p].status = "pending"
    BY <1>t, <1>5 DEF Reopen, TypeOK, Only, Rows
  <2>2. \A k \in Keys : \/ ledger'[k].id = None
                        \/ ledger'[k] = ledger[k] /\ ledger[k].id # p
                        \/ ledger'[k].id = p /\ ledger'[k].outcome = "proposed"
    BY <1>5 DEF Reopen, Reopened, NoEntry
  <2> QED BY <1>t, <2>1, <2>2, LedgerMoves DEF Says
<1>6. CASE RecordAccept \/ RecordRetire
  <2>1. op.p \in Proposals
    BY <1>k, <1>6 DEF RecordAccept, Written, RecordRetire, Retiring
  <2>2. \/ UNCHANGED <<row, ledger>>
        \/ Only(op.p) /\ row'[op.p].status = "accepted" /\ ledger' = Decided(ledger, op.p, "accepted")
    <3>1. CASE RecordAccept /\ ~UNCHANGED <<row, ledger>>
      <4>1. /\ row' = [row EXCEPT ![op.p].status = "accepted",
                                  ![op.p].backup = op.backup, ![op.p].published = op.publish]
            /\ ledger' = Decided(ledger, op.p, "accepted")
        BY <3>1 DEF RecordAccept
      <4> QED BY <1>t, <2>1, <4>1 DEF TypeOK, Only, Rows
    <3>2. CASE RecordRetire /\ ~UNCHANGED <<row, ledger>>
      <4>1. /\ row' = [row EXCEPT ![op.p].status = "accepted", ![op.p].backup = op.backup,
                                  ![op.p].intent = None, ![op.p].dirs = Dirs(op.p)]
            /\ ledger' = Decided(ledger, op.p, "accepted")
        BY <3>2 DEF RecordRetire
      <4> QED BY <1>t, <2>1, <4>1 DEF TypeOK, Only, Rows
    <3> QED BY <1>6, <3>1, <3>2
  <2> QED BY <1>t, <1>0, <2>1, <2>2, LedgerDecided DEF Says, Outcomes
<1>7. CASE RecordRevert
  <2>1. /\ op.p \in Proposals /\ Only(op.p) /\ row'[op.p].status = "reverted"
        /\ ledger' = Decided(ledger, op.p, "rejected")
    BY <1>t, <1>k, <1>7 DEF RecordRevert, Restoring, TypeOK, Only, Rows
  <2> QED BY <1>t, <2>1, LedgerDecided DEF Says, Outcomes
<1>8. CASE RecordIntent
  <2>1. op.p \in Proposals
    BY <1>k, <1>8 DEF RecordIntent, Retiring
  <2>2. \A q \in Proposals : row'[q].status = row[q].status
    BY <1>t, <1>8, <2>1 DEF RecordIntent, TypeOK, Rows
  <2> QED BY <1>0, <1>8, <2>2 DEF RecordIntent
<1>9. CASE Unleased
  BY <1>0, <1>1, <1>2, <1>3, <1>4, <1>9 DEF Unleased, Purge, Sweep
<1>10. CASE Commands
  <2>1. CASE DrainReject
    BY <1>t, <1>0, <1>4, <2>1 DEF DrainReject, TypeOK
  <2> QED BY <1>0, <1>4, <1>5, <1>10, <2>1 DEF Commands, Edit, Reject, DrainFindsStale, AcceptWrite, Revert,
                                              AcceptRetire, Unretire
<1>11. CASE Proceed \/ MoveFails \/ Crash
  BY <1>0, <1>6, <1>7, <1>8, <1>11 DEF Proceed, WriteAsset, WriteEdge, WriteTombstone, SkipArchived,
     MoveToArchive, UndoMove, UndoTombstone, RestoreAsset, RestoreFile, RewriteAsset, ClearArchive, MoveFails, Crash
<1>12. CASE UNCHANGED vars
  BY <1>0, <1>12 DEF vars
<1> QED BY <1>9, <1>10, <1>11, <1>12 DEF Next

LEMMA ClockStep == ASSUME TypeOK, [Next]_vars
  PROVE clock \in Nat /\ clock' \in {clock, clock + 1}
<1>1. clock \in Nat
  BY DEF TypeOK, Clock
<1>2. CASE Unleased
  BY <1>1, <1>2 DEF Unleased, Mint, Judge, MintRetire, Purge, Defer, Sweep
<1>3. CASE Commands
  BY <1>1, <1>3 DEF Commands, Edit, Reject, Reopen, DrainFindsStale, AcceptWrite, Revert, AcceptRetire,
                    Unretire, DrainReject
<1>4. CASE Proceed \/ MoveFails \/ Crash
  BY <1>1, <1>4 DEF Proceed, WriteAsset, RecordAccept, RecordIntent, WriteEdge, WriteTombstone,
     SkipArchived, MoveToArchive, UndoMove, UndoTombstone, RecordRetire, RestoreAsset, RecordRevert,
     RestoreFile, RewriteAsset, ClearArchive, MoveFails, Crash
<1>5. CASE UNCHANGED vars
  BY <1>1, <1>5 DEF vars
<1> QED BY <1>2, <1>3, <1>4, <1>5 DEF Next

\* What the holder of the lease has in its hands.
LEMMA HandsStep == ASSUME TypeOK, [Next]_vars
  PROVE \/ op'.p = op.p /\ op'.backup = op.backup /\ op'.publish = op.publish
        \/ op'.backup = None /\ op'.publish = None
        \/ \E w \in Writes : AcceptWrite(w)
        \/ \E r \in Retires : AcceptRetire(r)
<1>t. op \in Ops
  BY DEF TypeOK
<1>2. CASE Unleased
  BY <1>2 DEF Unleased, Mint, Judge, MintRetire, Purge, Defer, Sweep
<1>3. CASE Commands
  BY <1>3 DEF Commands, Edit, Reject, Reopen, DrainFindsStale, Revert, Unretire, DrainReject, Idle
<1>4. CASE Proceed \/ MoveFails \/ Crash
  <2>1. CASE WriteAsset \/ RecordIntent \/ WriteEdge \/ WriteTombstone \/ SkipArchived \/ RestoreAsset
    BY <1>t, <2>1 DEF WriteAsset, RecordIntent, WriteEdge, WriteTombstone, SkipArchived, RestoreAsset, Ops
  <2>2. CASE MoveToArchive \/ UndoMove \/ RewriteAsset
    BY <1>t, <2>2 DEF MoveToArchive, UndoMove, RewriteAsset, Ops
  <2>3. CASE MoveFails \/ RecordRevert \/ \E f \in Files : RestoreFile(f)
    <3>1. op' = Idle \/ (op'.p = op.p /\ op'.backup = op.backup /\ op'.publish = op.publish)
      BY <1>t, <2>3 DEF MoveFails, Undo, RecordRevert, RestoreFile, Ops
    <3> QED BY <3>1 DEF Idle
  <2>4. CASE RecordAccept \/ UndoTombstone \/ RecordRetire \/ ClearArchive \/ Crash
    BY <2>4 DEF RecordAccept, UndoTombstone, RecordRetire, ClearArchive, Crash, Idle
  <2> QED BY <1>4, <2>1, <2>2, <2>3, <2>4 DEF Proceed
<1>5. CASE UNCHANGED vars
  BY <1>5 DEF vars
<1> QED BY <1>2, <1>3, <1>4, <1>5 DEF Next

\* What comes into an archive was the file.
LEMMA BytesStep == ASSUME IInv, [Next]_vars, NEW r \in Retires, NEW f \in Files
  PROVE archive'[r][f].bytes \in {None, file[f], archive[r][f].bytes}
<1>1. CASE archive'[r][f] # archive[r][f]
  <2>1. Handled(r, f)
    BY <1>1, ArchiveStep
  <2> QED BY <2>1 DEF Handled, Emptied, NoArchive
<1> QED BY <1>1

LEMMA DatedStep == IInv /\ [Next]_vars => Dated'
<1> SUFFICES ASSUME IInv, [Next]_vars PROVE Dated'
  OBVIOUS
<1>t. TypeOK /\ Dated /\ FileType /\ RowType /\ ArchiveOK /\ op \in Ops /\ clock \in Nat
      /\ clock' \in {clock, clock + 1}
  BY Types, ClockStep DEF IInv
<1>p. ASSUME NEW c \in Contents \cup {None}, Past(c) PROVE c # None => c.front <= clock'
  BY <1>t, <1>p DEF Past, Contents, Clock
<1>k. /\ op.step \in {"write", "record", "unwrite", "unrecord"} => op.p \in Writes
      /\ op.step \in Retiring \cup Restoring => op.p \in Retires
  BY OpOf DEF IInv
<1>o. op.backup \in Contents \cup {None} /\ op.publish \in Contents \cup {None}
  BY <1>t DEF Ops
<1>1. ASSUME NEW f \in Files PROVE Past(file[f])'
  <2>1. /\ file[f] \in Contents \cup {None} /\ Past(file[f])
        /\ \A r \in Retires, g \in Files : archive[r][g].bytes \in Contents \cup {None} /\ Past(archive[r][g].bytes)
        /\ \A p \in Proposals : row[p].backup \in Contents \cup {None} /\ Past(row[p].backup)
        /\ Past(op.publish)
    BY <1>t DEF FileType, RowType, Rows, ArchiveOK, Chest, Dated
  <2>2. CASE op.step = "edge" /\ f = Target[op.p] /\ file'[f] = [file[f] EXCEPT !.edge = TRUE]
    <3>1. file[f] \in Contents
      BY <2>1, <2>2 DEF IInv, OpInv, Retirement, Retiring
    <3>2. file[f] # None /\ file'[f].front = file[f].front
      BY <2>2, <3>1, Kinds DEF Contents
    <3> QED BY <1>p, <2>1, <3>2 DEF Past
  <2>3. CASE op.step = "write" /\ f = Target[op.p] /\ file'[f] = op.publish
    BY <1>o, <1>p, <2>1, <2>3 DEF Past
  <2>4. CASE file'[f] = file[f] \/ file'[f] = None
    BY <1>p, <2>1, <2>4 DEF Past
  <2>5. CASE op.step = "unwrite" /\ f = Target[op.p] /\ file'[f] = row[op.p].backup
    BY <1>k, <1>p, <2>1, <2>5, Kinds DEF Past
  <2>6. CASE op.step \in {"undo", "restore"} /\ file'[f] = archive[op.p][f].bytes
    BY <1>k, <1>p, <2>1, <2>6 DEF Past, Retiring, Restoring
  <2>7. CASE op.step = "restore" /\ file'[f] = row[op.p].backup
    BY <1>k, <1>p, <2>1, <2>7, Kinds DEF Past, Restoring
  <2>8. CASE file'[f] # None => file'[f].front <= clock'
    BY <2>8 DEF Past
  <2> QED BY <2>2, <2>3, <2>4, <2>5, <2>6, <2>7, <2>8, FileStep
<1>2. ASSUME NEW r \in Retires, NEW f \in Files PROVE Past(archive[r][f].bytes)'
  <2>1. /\ file[f] \in Contents \cup {None} /\ Past(file[f])
        /\ archive[r][f].bytes \in Contents \cup {None} /\ Past(archive[r][f].bytes)
    BY <1>t DEF FileType, ArchiveOK, Chest, Dated
  <2>2. archive'[r][f].bytes \in {None, file[f], archive[r][f].bytes}
    BY BytesStep
  <2> QED BY <1>p, <2>1, <2>2 DEF Past
<1>3. ASSUME NEW p \in Proposals PROVE Past(row[p].backup)' /\ Past(row[p].intent)'
  <2>1. /\ row[p].backup \in Contents \cup {None} /\ Past(row[p].backup)
        /\ row[p].intent \in Contents \cup {None} /\ Past(row[p].intent) /\ Past(op.backup)
    BY <1>t DEF RowType, Rows, Dated
  <2>2. /\ row'[p].backup \in {op.backup, row[p].backup}
        /\ row'[p].intent \in {op.backup, row[p].intent, None}
    BY RowStep DEF Only, Decides, Minted, Moved, Intended, Accepted, Reverted, Saved
  <2> QED BY <1>o, <1>p, <2>1, <2>2 DEF Past
<1>4. Past(op.backup)' /\ Past(op.publish)'
  <2>1. Past(op.backup) /\ Past(op.publish)
    BY <1>t DEF Dated
  <2>2. ASSUME NEW w \in Writes, AcceptWrite(w) PROVE Past(op.backup)' /\ Past(op.publish)'
    <3>1. /\ op'.backup = file[Target[w]] /\ op'.publish = Stamped(w) /\ clock' = clock + 1
          /\ file[Target[w]] \in Contents \cup {None} /\ Past(file[Target[w]])
      BY <1>t, <2>2, Kinds DEF AcceptWrite, Idle, FileType, Dated
    <3> QED BY <1>t, <1>p, <3>1 DEF Past, Stamped
  <2>3. ASSUME NEW r \in Retires, AcceptRetire(r) PROVE Past(op.backup)' /\ Past(op.publish)'
    <3>1. /\ op'.backup \in {row[r].intent, file[Target[r]]} /\ op'.publish = None
          /\ file[Target[r]] \in Contents \cup {None} /\ Past(file[Target[r]])
          /\ row[r].intent \in Contents \cup {None} /\ Past(row[r].intent)
      BY <1>t, <2>3, Kinds DEF AcceptRetire, Idle, FileType, RowType, Rows, Dated
    <3> QED BY <1>p, <3>1 DEF Past
  <2>4. CASE op'.backup = op.backup /\ op'.publish = op.publish
    BY <1>o, <1>p, <2>1, <2>4 DEF Past
  <2>5. CASE op'.backup = None /\ op'.publish = None
    BY <2>5 DEF Past
  <2> QED BY <1>t, <2>2, <2>3, <2>4, <2>5, HandsStep
<1> QED BY <1>1, <1>2, <1>3, <1>4 DEF Dated

\* Without the lease: only a sweep and a deferral touch the proposal somebody
\* is at, and none the files; a purge keeps away from an accept.
LEMMA OpUnleased == ASSUME IInv, Unleased PROVE OpInv'
<1>l. TypeOK /\ Publishes /\ Unpublishes /\ Retirement /\ Restoration
  BY DEF IInv, OpInv
<1>1. op' = op /\ file' = file
  BY DEF Unleased, Mint, Judge, MintRetire, Defer, Sweep, Purge
<1>2. ASSUME NEW p \in Proposals, row[p].status # "none"
      PROVE /\ Judged(p) /\ Saved(p) /\ row'[p].intent = row[p].intent
            /\ row[p].status \in {"pending", "rejected"} => row'[p].status \in {"pending", "rejected"}
            /\ row[p].status \in Decisions => row'[p].status = row[p].status
  <2>1. row'[p] = row[p] \/ Decides(p)
    BY RowStep DEF Next, Only
  <2>2. row'[p] = row[p] \/ Moved(p)
    BY <1>1, <1>2, <2>1 DEF Decides, Minted, Intended, Accepted, Reverted, Goes
  <2> QED BY <1>2, <2>2 DEF Judged, Saved, Moved, Goes, Decisions
<1>3. ASSUME NEW r \in Retires, NEW f \in Files
      PROVE /\ op.p = r /\ op.step \in Retiring => archive'[r][f] = archive[r][f]
            /\ archive[r][f].bytes = None => archive'[r][f].bytes = None
  <2>1. CASE archive'[r][f] # archive[r][f]
    <3>1. archive' # archive /\ UNCHANGED op
      BY <1>1, <2>1
    <3>2. \E q \in Retires, g \in Files : Purge(q, g)
      BY <3>1 DEF Unleased, Mint, Judge, MintRetire, Defer, Sweep
    <3> QED BY <1>l, <2>1, <3>2 DEF Purge, Retiring, TypeOK
  <2> QED BY <2>1
<1>5. Publishes'
  <2>1. ASSUME op.step \in {"write", "record"}
        PROVE op.p \in Proposals /\ row[op.p].status # "none"
    BY <1>l, <2>1, Kinds DEF Publishes
  <2> QED BY <1>l, <1>1, <1>2, <2>1 DEF Publishes, Judged
<1>6. Unpublishes'
  <2>1. ASSUME op.step \in {"unwrite", "unrecord"}
        PROVE op.p \in Proposals /\ row[op.p].status # "none"
    BY <1>l, <2>1, Kinds DEF Unpublishes
  <2> QED BY <1>l, <1>1, <1>2, <2>1 DEF Unpublishes, Saved, Decisions
<1>7. Retirement'
  <2> SUFFICES ASSUME op.step \in Retiring PROVE Retirement'
    BY <1>1 DEF Retirement
  <2>1. op.p \in Retires /\ op.p \in Proposals /\ row[op.p].status \in {"pending", "rejected"}
    BY <1>l, Kinds DEF Retirement
  <2>2. /\ Judged(op.p) /\ row'[op.p].intent = row[op.p].intent
        /\ row'[op.p].status \in {"pending", "rejected"}
    BY <1>2, <2>1
  <2>3. op.f \in Files => archive'[op.p][op.f] = archive[op.p][op.f]
    BY <1>3, <2>1
  <2>4. op.step = "forget" => op.f \in Files
    BY <1>l, <2>1, Kinds DEF Retirement
  <2>5. Stands(op.p)' = Stands(op.p) /\ \A c : AsJudged(op.p, c)' = AsJudged(op.p, c)
    BY <1>1, <2>2 DEF Stands, AsJudged, Judged
  <2> QED BY <1>l, <1>1, <2>1, <2>2, <2>3, <2>4, <2>5 DEF Retirement, AsJudged, Judged, Stands
<1>8. Restoration'
  <2> SUFFICES ASSUME op.step \in Restoring PROVE Restoration'
    BY <1>1 DEF Restoration
  <2>1. op.p \in Retires /\ op.p \in Proposals /\ row[op.p].status \in Decisions
    BY <1>l, Kinds DEF Restoration, Decisions
  <2>2. Judged(op.p) /\ Saved(op.p) /\ row'[op.p].status = row[op.p].status
    BY <1>2, <2>1 DEF Decisions
  <2>3. row[op.p].dirs \subseteq Files
    BY <1>l, <2>1 DEF TypeOK, Rows
  <2>4. \A f \in row[op.p].dirs :
          archive'[op.p][f].bytes = None \/ (op.step = "restore" /\ f \in op.todo)
    BY <1>l, <1>3, <2>1, <2>3 DEF Restoration
  <2> QED BY <1>l, <1>1, <2>1, <2>2, <2>4 DEF Restoration, Judged, Saved, AsJudged
<1> QED BY <1>5, <1>6, <1>7, <1>8 DEF OpInv

\* Nobody at work.
LEMMA OpIdle == ASSUME op'.step = "idle" PROVE OpInv'
BY DEF OpInv, Publishes, Unpublishes, Retirement, Restoration, Retiring, Restoring

\* A command that begins: what it has read holds.
LEMMA OpCommands == ASSUME IInv, Commands PROVE OpInv'
<1>t. TypeOK /\ FileType /\ RowType /\ ArchiveOK /\ Dated
  BY Types DEF IInv
<1>1. ASSUME NEW w \in Writes, AcceptWrite(w) PROVE OpInv'
  <2>1. /\ op'.step = "write" /\ op'.p = w /\ op'.backup = file[Target[w]] /\ op'.publish = Stamped(w)
        /\ row' = row /\ file' = file /\ row[w].status = "pending" /\ FreshWrite(w, Stamped(w))
    BY <1>1 DEF AcceptWrite, Idle
  <2>2. clock \in Nat /\ clock + 1 \in Clock /\ Stamped(w) \in Contents
    BY <1>t, <1>1, QueueAssumption DEF AcceptWrite, Stamped, Contents, Bodies, Clock, TypeOK
  <2>3. Stamped(w) # None /\ Stamped(w).front = clock + 1
    BY <2>2, Kinds DEF Stamped
  <2>4. file[Target[w]] # Stamped(w)
    BY <1>t, <2>2, <2>3, Kinds DEF Dated, Past
  <2>5. file[Target[w]] = row[w].base
    BY <2>1, <2>4 DEF FreshWrite
  <2> QED BY <2>1, <2>3, <2>5 DEF OpInv, Publishes, Unpublishes, Retirement, Restoration, Retiring, Restoring
<1>2. ASSUME NEW r \in Retires, AcceptRetire(r) PROVE OpInv'
  <2>1. /\ row' = row /\ file' = file /\ row[r].status = "pending" /\ FreshRetire(r)
        /\ op'.p = r /\ ~op'.mine
        /\ IF row[r].intent # None
           THEN op'.step = "archive" /\ op'.backup = row[r].intent /\ op'.f = Target[r]
           ELSE op'.step = "intent" /\ op'.backup = file[Target[r]]
    BY <1>2 DEF AcceptRetire, Resumes, Idle
  <2>2. Stands(r) /\ AsJudged(r, file[Target[r]]) /\ (row[r].intent = None => file[Target[r]] # None)
    BY <2>1 DEF FreshRetire, FreshPair, Stands, AsJudged
  <2>3. AsJudged(r, row[r].intent)
    BY Kinds DEF IInv, RowOK
  <2>4. AsJudged(r, op'.backup) /\ op'.backup # None
    BY <2>1, <2>2, <2>3
  <2>5. Retirement'
    BY <2>1, <2>2, <2>4 DEF Retirement, Stands, AsJudged, Retiring
  <2> QED BY <2>1, <2>5 DEF OpInv, Publishes, Unpublishes, Restoration, Restoring
<1>3. ASSUME NEW w \in Writes, Revert(w) PROVE OpInv'
  BY <1>3 DEF Revert, Idle, OpInv, Publishes, Unpublishes, Retirement, Restoration, Retiring, Restoring
<1>4. ASSUME NEW r \in Retires, Unretire(r) PROVE OpInv'
  <2>1. /\ row' = row /\ file' = file /\ archive' = archive /\ row[r].status = "accepted"
        /\ \A f \in row[r].dirs : Restorable(r, f)
        /\ op'.step = "restore" /\ op'.p = r
        /\ op'.todo = {f \in row[r].dirs : archive[r][f].bytes # None}
    BY <1>4 DEF Unretire, Idle
  <2>2. \A f \in op'.todo : file[f] = None
    BY <2>1 DEF Restorable
  <2>3. Target[r] \in row[r].dirs => AsJudged(r, file[Target[r]])
    BY <2>1 DEF Restorable, AsJudged
  <2>4. Restoration'
    BY <2>1, <2>2, <2>3 DEF Restoration, AsJudged
  <2> QED BY <2>1, <2>4 DEF OpInv, Publishes, Unpublishes, Retirement, Retiring
<1>5. CASE op' = op
  <2>1. op.step = "idle"
    BY DEF Commands, Free, Edit, Reject, Reopen, DrainFindsStale, AcceptWrite, Revert, AcceptRetire,
           Unretire, DrainReject
  <2> QED BY <1>5, <2>1, OpIdle
<1> QED BY <1>1, <1>2, <1>3, <1>4, <1>5
        DEF Commands, Edit, Reject, Reopen, DrainFindsStale, DrainReject

LEMMA OpProceed == ASSUME IInv, Proceed \/ MoveFails \/ Crash PROVE OpInv'
<1>t. TypeOK /\ FileType /\ RowType /\ ArchiveOK /\ op \in Ops
  BY Types DEF IInv
<1>l. Publishes /\ Unpublishes /\ Retirement /\ Restoration
  BY DEF IInv, OpInv
<1>1. CASE WriteAsset
  <2>1. /\ row' = row /\ op'.step = "record" /\ op'.p = op.p /\ op'.backup = op.backup
        /\ op'.publish = op.publish /\ op.step = "write"
        /\ op.p \in Writes /\ Target[op.p] \in Files
    BY <1>t, <1>l, <1>1, Kinds DEF WriteAsset, Ops, Publishes
  <2>2. file'[Target[op.p]] = op.publish
    BY <1>t, <1>1, <2>1 DEF WriteAsset, FileType
  <2> QED BY <1>l, <2>1, <2>2 DEF OpInv, Publishes, Unpublishes, Retirement, Restoration, Retiring, Restoring
<1>2. CASE RecordAccept \/ UndoTombstone \/ RecordRetire \/ ClearArchive \/ Crash
  BY <1>2, OpIdle DEF RecordAccept, UndoTombstone, RecordRetire, ClearArchive, Crash, Idle
<1>3. CASE RecordIntent
  <2>1. /\ op.step = "intent" /\ op.p \in Retires /\ op.p \in Proposals
        /\ op'.p = op.p /\ op'.backup = op.backup /\ op'.mine = op.mine
        /\ op'.step = "edge" \/ (op'.step = "archive" /\ op'.f = Target[op.p])
        /\ file' = file /\ archive' = archive
    BY <1>t, <1>l, <1>3, Kinds DEF RecordIntent, Ops, Retirement, Retiring
  <2>2. Intended(op.p)
    <3>1. row[op.p].intent = None /\ op.backup # None
      BY <1>l, <2>1 DEF Retirement, Retiring
    <3>2. row'[op.p].intent = op.backup
      BY <1>t, <1>3, <2>1, <3>1 DEF RecordIntent, RowType, Rows
    <3>3. row'[op.p].status = row[op.p].status /\ Judged(op.p) /\ Saved(op.p)
      BY <1>t, <1>3, <2>1 DEF RecordIntent, RowType, Rows, Judged, Saved
    <3> QED BY <2>1, <3>2, <3>3 DEF Intended
  <2>3. Retirement'
    BY <1>l, <2>1, <2>2 DEF Intended, Retirement, Retiring, AsJudged, Judged, Stands
  <2> QED BY <2>1, <2>3 DEF OpInv, Publishes, Unpublishes, Restoration, Restoring
<1>4. CASE WriteEdge
  <2>1. /\ op.step = "edge" /\ op.p \in Retires /\ Target[op.p] \in Files
        /\ Successor[op.p] \in Files /\ Successor[op.p] # Target[op.p]
        /\ op'.p = op.p /\ op'.backup = op.backup /\ op'.mine = op.mine
        /\ op'.step = "archive" /\ op'.f = Target[op.p]
        /\ row' = row /\ archive' = archive
    BY <1>t, <1>l, <1>4, Kinds DEF WriteEdge, Ops, Retirement, Retiring
  <2>2. file[Target[op.p]] \in Contents
    BY <1>t, <1>l, <2>1 DEF Retirement, Retiring, FileType
  <2>3. /\ file'[Successor[op.p]] = file[Successor[op.p]]
        /\ file'[Target[op.p]].body = file[Target[op.p]].body
    BY <1>t, <1>4, <2>1, <2>2 DEF WriteEdge, FileType, Contents
  <2>4. file[Target[op.p]] # None
    BY <2>2, Kinds
  <2>5. Retirement'
    BY <1>l, <2>1, <2>3, <2>4 DEF Retirement, Retiring, AsJudged, Stands
  <2> QED BY <2>1, <2>5 DEF OpInv, Publishes, Unpublishes, Restoration, Restoring
<1>5. CASE WriteTombstone
  <2>1. /\ op.step = "archive" /\ op.p \in Retires /\ op.f \in Files /\ file[op.f] # None
        /\ op' = [op EXCEPT !.step = "move"] /\ row' = row /\ file' = file
    BY <1>t, <1>l, <1>5 DEF WriteTombstone, ToArchive, Ops, Retirement, Retiring
  <2>2. /\ op'.p = op.p /\ op'.backup = op.backup /\ op'.mine = op.mine /\ op'.f = op.f
        /\ op'.step = "move"
    BY <1>t, <2>1 DEF Ops
  <2>3. archive'[op.p][op.f].state = "tombstone"
    <3>1. archive[op.p][op.f] \in Chest
      BY <1>t, <2>1 DEF ArchiveOK
    <3> QED BY <1>t, <1>5, <2>1, <3>1 DEF WriteTombstone, ArchiveOK, Chest
  <2>4. Retirement'
    BY <1>l, <2>1, <2>2, <2>3 DEF Retirement, Retiring, AsJudged, Stands
  <2> QED BY <2>2, <2>4 DEF OpInv, Publishes, Unpublishes, Restoration, Restoring
<1>6. CASE SkipArchived
  <2>1. /\ op.step = "archive" /\ op.p \in Retires /\ op.f # None
        /\ op'.f = After(op.f) /\ op'.p = op.p /\ op'.backup = op.backup /\ op'.mine = op.mine
        /\ op'.step = "archive" /\ UNCHANGED <<row, file, archive>>
    BY <1>t, <1>l, <1>6 DEF SkipArchived, Ops, Retirement, Retiring
  <2>2. op'.f = Target[op.p] => op.f = Target[op.p]
    BY <2>1, Kinds DEF After
  <2>3. Retirement'
    BY <1>l, <2>1, <2>2 DEF Retirement, Retiring, AsJudged, Stands
  <2> QED BY <2>1, <2>3 DEF OpInv, Publishes, Unpublishes, Restoration, Restoring
<1>7. CASE MoveToArchive
  <2>1. /\ op.step = "move" /\ op.p \in Retires /\ op.f \in Files
        /\ Target[op.p] \in Files /\ Successor[op.p] \in Files /\ Successor[op.p] # Target[op.p]
        /\ op'.f = After(op.f) /\ op'.p = op.p /\ op'.backup = op.backup
        /\ op'.mine = (op.mine \/ op.f = Target[op.p])
        /\ op'.step = "archive" /\ row' = row /\ file' = [file EXCEPT ![op.f] = None]
    BY <1>t, <1>l, <1>7, Kinds DEF MoveToArchive, Ops, Retirement, Retiring
  <2>2. op'.f = Target[op.p] => op.f = Target[op.p]
    BY <2>1, Kinds DEF After
  <2>3. /\ op.f = Target[op.p] \/ op.mine => file'[Target[op.p]] = None
        /\ op.f = Target[op.p] => file'[Successor[op.p]] = file[Successor[op.p]]
    BY <1>t, <1>l, <2>1 DEF FileType, Retirement, Retiring
  <2>4. Retirement'
    BY <1>l, <2>1, <2>2, <2>3 DEF Retirement, Retiring, AsJudged, Stands
  <2> QED BY <2>1, <2>4 DEF OpInv, Publishes, Unpublishes, Restoration, Restoring
<1>8. CASE MoveFails
  <2>1. CASE ~op.mine
    BY <1>8, <2>1, OpIdle DEF MoveFails, Undo, Idle
  <2>2. CASE op.mine
    <3>1. /\ op.step = "move" /\ op.p \in Retires /\ UNCHANGED <<row, file, archive>>
          /\ op'.step = "undo" /\ op'.f = Target[op.p] /\ op'.p = op.p /\ op'.backup = op.backup
          /\ op'.mine = op.mine
      BY <1>t, <1>l, <1>8, <2>2 DEF MoveFails, Undo, Ops, Retirement, Retiring
    <3>2. Retirement'
      BY <1>l, <2>2, <3>1 DEF Retirement, Retiring, AsJudged, Stands
    <3> QED BY <3>1, <3>2 DEF OpInv, Publishes, Unpublishes, Restoration, Restoring
  <2> QED BY <2>1, <2>2
<1>9. CASE UndoMove
  <2>1. /\ op.step = "undo" /\ op.p \in Retires /\ op.f = Target[op.p] /\ op.f \in Files
        /\ op'.step = "forget" /\ op'.f = op.f /\ op'.p = op.p /\ op'.backup = op.backup
        /\ op'.mine = op.mine /\ row' = row
    BY <1>t, <1>l, <1>9, Kinds DEF UndoMove, Ops, Retirement, Retiring
  <2>2. archive'[op.p][op.f].bytes = None
    BY <1>t, <1>9, <2>1 DEF UndoMove, ArchiveOK, Emptied
  <2>3. Retirement'
    BY <1>l, <2>1, <2>2 DEF Retirement, Retiring, AsJudged, Stands
  <2> QED BY <2>1, <2>3 DEF OpInv, Publishes, Unpublishes, Restoration, Restoring
<1>10. CASE RestoreAsset
  <2>1. /\ op.step = "unwrite" /\ op.p \in Writes /\ Target[op.p] \in Files
        /\ op'.step = "unrecord" /\ op'.p = op.p /\ row' = row
    BY <1>t, <1>l, <1>10, Kinds DEF RestoreAsset, Ops, Unpublishes
  <2>2. file'[Target[op.p]] = row[op.p].backup
    BY <1>t, <1>10, <2>1 DEF RestoreAsset, FileType
  <2> QED BY <1>l, <2>1, <2>2 DEF OpInv, Publishes, Unpublishes, Retirement, Restoration, Retiring, Restoring
<1>11. CASE RecordRevert
  <2>1. CASE op.p \in Writes
    BY <1>11, <2>1, OpIdle DEF RecordRevert, Idle
  <2>2. CASE op.p \notin Writes
    <3>1. /\ op.step = "unretired" /\ op.p \in Retires /\ op.p \in Proposals
          /\ op'.step = "clear" /\ op'.p = op.p /\ UNCHANGED <<file, archive>>
      BY <1>t, <1>l, <1>11, <2>2, Kinds DEF RecordRevert, Ops, Unpublishes, Restoration, Restoring
    <3>2. row'[op.p].status = "reverted" /\ row'[op.p].dirs = row[op.p].dirs
      BY <1>t, <1>11, <3>1 DEF RecordRevert, RowType, Rows
    <3>3. Restoration'
      BY <1>l, <3>1, <3>2 DEF Restoration, Restoring
    <3> QED BY <3>1, <3>3 DEF OpInv, Publishes, Unpublishes, Retirement, Retiring
  <2> QED BY <2>1, <2>2
<1>12. ASSUME NEW f \in Files, RestoreFile(f) PROVE OpInv'
  <2>1. CASE archive[op.p][f].bytes = None
    BY <1>12, <2>1, OpIdle DEF RestoreFile, Idle
  <2>2. CASE archive[op.p][f].bytes # None
    <3>1. /\ op.step = "restore" /\ op.p \in Retires /\ op.p \in Proposals /\ Target[op.p] \in Files
          /\ f \in op.todo /\ op'.step = "restore" /\ op'.p = op.p /\ op'.todo = op.todo \ {f}
          /\ row' = row /\ row[op.p].dirs \subseteq Files /\ op.todo \subseteq Files
      BY <1>t, <1>l, <1>12, <2>2, Kinds DEF RestoreFile, Ops, Restoration, Restoring, RowType, Rows
    <3>2. /\ file'[f] = archive[op.p][f].bytes /\ archive'[op.p][f].bytes = None
          /\ \A g \in Files \ {f} : file'[g] = file[g] /\ archive'[op.p][g] = archive[op.p][g]
      BY <1>t, <1>12, <2>2, <3>1 DEF RestoreFile, FileType, ArchiveOK, Emptied
    <3>3. AsJudged(op.p, archive[op.p][Target[op.p]].bytes)
      BY <3>1 DEF IInv, RowOK
    <3>4. \A g \in row[op.p].dirs : archive'[op.p][g].bytes = None \/ g \in op'.todo
      BY <1>l, <3>1, <3>2 DEF Restoration, Restoring
    <3>5. \A g \in op'.todo : file'[g] = None
      BY <1>l, <3>1, <3>2 DEF Restoration, Restoring
    <3>6. Target[op.p] \in row[op.p].dirs => AsJudged(op.p, file'[Target[op.p]])
      BY <1>l, <3>1, <3>2, <3>3 DEF Restoration, Restoring
    <3>7. Restoration'
      BY <1>l, <3>1, <3>4, <3>5, <3>6 DEF Restoration, Restoring, AsJudged
    <3> QED BY <3>1, <3>7 DEF OpInv, Publishes, Unpublishes, Retirement, Retiring
  <2> QED BY <2>1, <2>2
<1>13. CASE RewriteAsset
  <2>1. /\ op.step = "restore" /\ op.todo = {} /\ op.p \in Retires /\ Target[op.p] \in Files
        /\ op'.step = "unretired" /\ op'.p = op.p /\ UNCHANGED <<row, archive>>
    BY <1>t, <1>l, <1>13, Kinds DEF RewriteAsset, Ops, Restoration, Restoring
  <2>2. Target[op.p] \in row[op.p].dirs => file'[Target[op.p]] = row[op.p].backup
    BY <1>t, <1>13, <2>1 DEF RewriteAsset, Rewritten, FileType
  <2>3. Restoration'
    BY <1>l, <2>1, <2>2 DEF Restoration, Restoring
  <2> QED BY <2>1, <2>3 DEF OpInv, Publishes, Unpublishes, Retirement, Retiring
<1> QED BY <1>1, <1>2, <1>3, <1>4, <1>5, <1>6, <1>7, <1>8, <1>9, <1>10, <1>11, <1>12, <1>13 DEF Proceed

LEMMA OpStep == IInv /\ [Next]_vars => OpInv'
<1> SUFFICES ASSUME IInv, [Next]_vars PROVE OpInv'
  OBVIOUS
<1>1. CASE UNCHANGED vars
  BY <1>1 DEF vars, IInv, OpInv, Publishes, Unpublishes, Retirement, Restoration, Stands, AsJudged
<1> QED BY <1>1, OpUnleased, OpCommands, OpProceed DEF Next

-----------------------------------------------------------------------------
(* The invariant, and what follows from it.                                *)

LEMMA Initially == Init => IInv
<1> SUFFICES ASSUME Init PROVE IInv
  OBVIOUS
<1>1. TypeOK
  <2>1. [body |-> 0, front |-> 0, edge |-> FALSE] \in Contents
    BY QueueAssumption DEF Contents, Bodies, Clock
  <2>2. NoRow \in Rows /\ NoArchive \in Chest /\ Idle \in Ops /\ NoEntry \in Entry
    BY DEF NoRow, Rows, Statuses, NoArchive, Chest, Idle, Ops, Steps, NoEntry, Entry, Outcomes
  <2>3. clock \in Clock /\ crashes \in 0..MaxCrashes
    BY QueueAssumption DEF Init, Clock
  <2>4. FileType /\ RowType /\ ledger \in Entries /\ ArchiveOK
    BY <2>1, <2>2 DEF Init, FileType, RowType, Entries, ArchiveOK
  <2> QED BY <2>2, <2>3, <2>4, Types DEF Init
<1>2. OpInv
  BY DEF Init, Idle, OpInv, Publishes, Unpublishes, Retirement, Restoration, Retiring, Restoring
<1>3. ASSUME NEW p \in Proposals PROVE RowOK(p)
  BY Kinds DEF Init, NoRow, NoArchive, RowOK, AsJudged, Decisions, Dirs
<1>4. LedgerFollowsStatus
  BY DEF Init, NoEntry, LedgerFollowsStatus
<1>5. Dated
  BY DEF Init, NoRow, NoArchive, Idle, Dated, Past
<1> QED BY <1>1, <1>2, <1>3, <1>4, <1>5 DEF IInv

LEMMA Inductive == IInv /\ [Next]_vars => IInv'
BY TypeStep, OpStep, RowsStep, LedgerStep, DatedStep DEF IInv

LEMMA Always == Spec => []IInv
BY Initially, Inductive, PTL DEF Spec

\* Every variable keeps its type, for any queue and files.
THEOREM TypeCorrect == Spec => []TypeOK
<1>1. IInv => TypeOK
  BY DEF IInv
<1> QED BY Always, <1>1, PTL

\* A ledger row that names a proposal agrees with its status, whoever decides and
\* however often it is reopened: Mint finds no row of its proposal, and every
\* decision updates the rows in the transaction that changes the status.
THEOREM LedgerAgrees == Spec => []LedgerFollowsStatus
<1>1. IInv => LedgerFollowsStatus
  BY DEF IInv
<1> QED BY Always, <1>1, PTL

\* An accepted retirement keeps the tombstone of every directory it names: what a
\* revert does to the archive before its decision is recorded removes none.
THEOREM RevertsResume == Spec => []RevertCanResume
<1>1. IInv => RevertCanResume
  BY Kinds DEF IInv, RowOK, RevertCanResume
<1> QED BY Always, <1>1, PTL

\* Accept and revert replace or move only what the proposal is about, after any
\* crash and retry: an accept that starts finds its base, never its own stamp,
\* as no content bears a stamp that is yet to come, and from then on the lease
\* keeps the file as it is.
THEOREM NothingNewer == Spec => NothingNewerOverwritten
<1>1. ASSUME IInv, [Next]_vars, ~Free, NEW f \in Files, file'[f] # file[f]
      PROVE IF op.p \in Writes THEN file[f] \in {row[op.p].base, row[op.p].published}
            ELSE \/ file[f] = None
                 \/ f = Target[op.p] /\ file[f].body = row[op.p].base.body
                 \/ f # Target[op.p] /\ file'[f] = None
  <2>l. Publishes /\ Unpublishes /\ Retirement /\ Restoration
    BY <1>1 DEF IInv, OpInv
  <2>1. CASE op.step \in {"write", "unwrite"} /\ f = Target[op.p]
    BY <2>l, <2>1 DEF Publishes, Unpublishes
  <2>2. CASE op.step = "edge" /\ f = Target[op.p]
    BY <2>l, <2>2, QueueAssumption DEF Retirement, Retiring, AsJudged
  <2>3. CASE op.step = "move" /\ f = op.f /\ file'[f] = None
    BY <2>l, <2>3, QueueAssumption DEF Retirement, Retiring, AsJudged
  <2>4. CASE op.step = "undo" /\ f = op.f
    BY <2>l, <2>4, QueueAssumption DEF Retirement, Retiring
  <2>5. CASE op.step = "restore" /\ f \in op.todo
    BY <2>l, <2>5, QueueAssumption DEF Restoration, Restoring
  <2>6. CASE op.step = "restore" /\ f = Target[op.p] /\ f \in row[op.p].dirs
    BY <2>l, <2>6, QueueAssumption DEF Restoration, Restoring, AsJudged
  <2> QED BY <1>1, <2>1, <2>2, <2>3, <2>4, <2>5, <2>6, FileStep
<1>2. ASSUME IInv, [Next]_vars
      PROVE [~Free => \A f \in Files : file'[f] # file[f] =>
               IF op.p \in Writes THEN file[f] \in {row[op.p].base, row[op.p].published}
               ELSE \/ file[f] = None
                    \/ f = Target[op.p] /\ file[f].body = row[op.p].base.body
                    \/ f # Target[op.p] /\ file'[f] = None]_vars
  BY <1>1, <1>2
<1> QED BY Always, <1>2, PTL DEF Spec, NothingNewerOverwritten

\* A content proposal becomes accepted over exactly the file its row describes.
THEOREM AcceptedOnDisk == Spec => AcceptedIsOnDisk
<1>1. ASSUME IInv, [Next]_vars
      PROVE [\A w \in Writes : row[w].status = "pending" /\ row'[w].status = "accepted" =>
               file[Target[w]] # None /\ file[Target[w]] = row'[w].published]_vars
  <2> SUFFICES ASSUME NEW w \in Writes, row[w].status = "pending", row'[w].status = "accepted"
               PROVE file[Target[w]] # None /\ file[Target[w]] = row'[w].published
    OBVIOUS
  <2>1. Decides(w)
    BY <1>1, RowStep, Kinds DEF Only
  <2>2. Accepted(w)
    BY <2>1 DEF Decides, Minted, Moved, Intended, Reverted, Goes
  <2> QED BY <1>1, <2>2, QueueAssumption DEF Accepted, IInv, OpInv, Publishes
<1> QED BY Always, <1>1, PTL DEF Spec, AcceptedIsOnDisk

\* An asset leaves for the archive only over a successor that stands, also when
\* it is moved by the retry of an accept that died.
THEOREM SuccessorKept == Spec => SuccessorStands
<1>1. ASSUME IInv, [Next]_vars
      PROVE [\A r \in Retires :
               op.p = r /\ op.step = "move" /\ op.f = Target[r] /\ file'[op.f] = None =>
                 /\ file[Successor[r]] # None
                 /\ file[Successor[r]].body = row[r].successor]_vars
  BY <1>1 DEF IInv, OpInv, Retirement, Retiring, Stands
<1> QED BY Always, <1>1, PTL DEF Spec, SuccessorStands

\* What accept takes from its place is in the archive; what leaves the archive is
\* back in its place, or was purged while nobody restored it.
THEOREM NothingLost == Spec => ArchivedNotLost
<1>1. ASSUME IInv, [Next]_vars, ~Free, NEW f \in Files, file[f] # None, file'[f] = None
      PROVE archive'[op.p][f].bytes = file[f]
  <2>l. /\ TypeOK /\ Publishes /\ Unpublishes /\ Retirement /\ Restoration
        /\ \A p \in Proposals : RowOK(p)
    BY <1>1 DEF IInv, OpInv
  <2>1. ~(op.step = "write" /\ file'[f] = op.publish)
    BY <1>1, <2>l DEF Publishes
  <2>2. ~(op.step = "edge" /\ file'[f] = [file[f] EXCEPT !.edge = TRUE])
    <3>1. file[f] \in Contents
      BY <1>1, <2>l DEF TypeOK
    <3>2. [file[f] EXCEPT !.edge = TRUE] \in Contents
      BY <3>1 DEF Contents
    <3> QED BY <1>1, <3>2, Kinds
  <2>3. ~(op.step = "undo" /\ f = op.f)
    BY <1>1, <2>l DEF Retirement, Retiring
  <2>4. ~(op.step = "unwrite" /\ file'[f] = row[op.p].backup)
    BY <1>1, <2>l DEF Unpublishes
  <2>5. ~(op.step = "restore" /\ file'[f] = row[op.p].backup)
    BY <1>1, <2>l, Kinds DEF Restoration, Restoring, RowOK, Decisions
  <2> QED BY <1>1, <2>1, <2>2, <2>3, <2>4, <2>5, FileStep
<1>2. ASSUME IInv, [Next]_vars, NEW r \in Retires, NEW f \in Files,
             archive[r][f].bytes # None, archive'[r][f].bytes # archive[r][f].bytes
      PROVE file'[f] = archive[r][f].bytes \/ archive'[r][f].state = "purged"
  <2>1. Handled(r, f)
    BY <1>2, ArchiveStep
  <2>2. archive[r][f].state = "kept"
    BY <1>2, BytesIn DEF IInv
  <2>3. Retirement /\ Restoration
    BY <1>2 DEF IInv, OpInv
  <2>4. ~(op.p = r /\ op.step = "move" /\ f = op.f)
    BY <2>2, <2>3 DEF Retirement, Retiring
  <2>5. ~(op.p = r /\ op.step = "forget" /\ f = op.f)
    BY <1>2, <2>3 DEF Retirement, Retiring
  <2>6. ~(op.p = r /\ op.step = "clear" /\ f \in row[r].dirs)
    BY <1>2, <2>3 DEF Restoration, Restoring
  <2> QED BY <1>2, <2>1, <2>4, <2>5, <2>6 DEF Handled
<1>3. ASSUME IInv, [Next]_vars
      PROVE [/\ ~Free => \A f \in Files :
                  file[f] # None /\ file'[f] = None => archive'[op.p][f].bytes = file[f]
             /\ \A r \in Retires, f \in Files :
                  LET bytes == archive[r][f].bytes
                  IN bytes # None /\ archive'[r][f].bytes # bytes =>
                       file'[f] = bytes \/ archive'[r][f].state = "purged"]_vars
  BY <1>1, <1>2, <1>3
<1> QED BY Always, <1>3, PTL DEF Spec, ArchivedNotLost

\* The queue implements its abstract life of a proposal: every step decides on at
\* most one proposal, and only from the status the decision starts at, however
\* many steps lie between an accept's reading and its record.
THEOREM DecisionsImplemented == Spec => ImplementsDecisions
<1> DEFINE S == [p \in Proposals |-> IF row[p].status = "judged" THEN "none" ELSE row[p].status]
<1>1. Init => Decision!Init
  BY DEF Init, NoRow, Decision!Init
<1>2. ASSUME IInv, [Next]_vars PROVE [Decision!Next]_S
  <2>1. CASE row' = row
    BY <2>1
  <2>2. ASSUME NEW p \in Proposals, Only(p), Decides(p) PROVE [Decision!Next]_S
    <3>1. S' = [S EXCEPT ![p] = S'[p]]
      BY <2>2 DEF Only
    <3>2. S[p] = (IF row[p].status = "judged" THEN "none" ELSE row[p].status)
          /\ S'[p] = (IF row'[p].status = "judged" THEN "none" ELSE row'[p].status)
      OBVIOUS
    <3> HIDE DEF S
    <3>3. \/ S'[p] = S[p]
          \/ S[p] = "none" /\ S'[p] = "pending"
          \/ S[p] = "pending" /\ S'[p] \in {"accepted", "rejected"}
          \/ S[p] = "rejected" /\ S'[p] = "pending"
          \/ S[p] = "accepted" /\ S'[p] = "reverted"
      BY <2>2, <3>2 DEF Decides, Minted, Moved, Intended, Accepted, Reverted, Goes
    <3>4. S'[p] = S[p] => S' = S
      BY <3>1 DEF S
    <3> QED BY <3>1, <3>3, <3>4 DEF Decision!Next, Decision!Decide, S
  <2> QED BY <1>2, <2>1, <2>2, RowStep
<1> QED BY Always, <1>1, <1>2, PTL DEF Spec, ImplementsDecisions, Decision!Spec

-----------------------------------------------------------------------------
(* The edge.  An accept that supersedes writes an edge into its target     *)
(* after it has recorded the original, and a revert brings the original    *)
(* back.  This needs that no two retire proposals have the same target:    *)
(* of two pairs judged before either is minted, the second would take the  *)
(* first one's edge for part of its original.                              *)

Distinct == \A r, q \in Retires : Target[r] = Target[q] => r = q
Plain(c) == c # None => c.edge = FALSE

\* Nothing that is or may become the target's content has an edge...
Unedged(r) ==
  /\ Plain(file[Target[r]]) /\ \A q \in Retires : Plain(archive[q][Target[r]].bytes)
  /\ \A w \in Writes : Target[w] = Target[r] => Plain(row[w].backup)
  /\ op.p \in Writes /\ Target[op.p] = Target[r] => Plain(op.backup)

\* ...until a retirement of it holds the original.
Original(r) ==
  /\ Plain(row[r].base) /\ Plain(row[r].intent) /\ Plain(row[r].backup)
  /\ op.p = r => Plain(op.backup)
  /\ row[r].intent = None /\ row[r].status \notin Decisions => Unedged(r)

Edges == Plain(op.publish) /\ \A r \in Retires : Original(r)

LEMMA EdgesStep == ASSUME Distinct, IInv, Edges, [Next]_vars PROVE Edges'
<1>t. TypeOK /\ FileType /\ RowType /\ ArchiveOK
  BY Types DEF IInv
<1>1. Plain(op.publish)'
  <2>1. \/ op'.publish \in {op.publish, None}
        \/ \E w \in Writes : op'.publish = Stamped(w)
    BY <1>t, HandsStep DEF AcceptWrite, AcceptRetire, Idle
  <2>2. \A w \in Writes : Stamped(w).edge = FALSE
    BY DEF Stamped
  <2> QED BY <2>1, <2>2 DEF Edges, Plain
<1>2. ASSUME NEW r \in Retires PROVE Original(r)'
  <2>o. Original(r) /\ r \in Proposals /\ r \notin Writes /\ RowOK(r) /\ Target[r] \in Files
    BY Kinds, QueueAssumption DEF Edges, IInv
  <2>1. row'[r] = row[r] \/ Decides(r)
    BY <2>o, RowStep DEF Only
  <2>2. Plain(row[r].base)'
    <3>1. row'[r].base = row[r].base \/ (row[r].status = "none" /\ row'[r].base = file[Target[r]])
      BY <2>1 DEF Decides, Minted, Moved, Intended, Accepted, Reverted, Goes, Judged
    <3> QED BY <2>o, <3>1 DEF Original, Unedged, RowOK, Decisions, Plain
  <2>3. Plain(row[r].intent)' /\ Plain(row[r].backup)'
    <3>1. /\ row'[r].intent \in {row[r].intent, None} \/ (op.p = r /\ row'[r].intent = op.backup)
          /\ row'[r].backup = row[r].backup \/ (op.p = r /\ row'[r].backup = op.backup)
      BY <2>1 DEF Decides, Minted, Moved, Intended, Accepted, Reverted, Saved
    <3> QED BY <2>o, <3>1 DEF Original, Plain
  <2>4. op'.p = r => Plain(op'.backup)
    <3>1. ASSUME NEW q \in Retires, AcceptRetire(q), op'.p = r PROVE Plain(op'.backup)
      <4>1. /\ q = r /\ row[r].status = "pending"
            /\ op'.backup = IF row[r].intent # None THEN row[r].intent ELSE file[Target[r]]
        BY <3>1 DEF AcceptRetire, Resumes, Idle
      <4> QED BY <2>o, <4>1 DEF Original, Unedged, Decisions, Plain
    <3>2. ASSUME NEW w \in Writes, AcceptWrite(w) PROVE op'.p # r
      BY <2>o, <3>2 DEF AcceptWrite, Idle
    <3> QED BY <1>t, <2>o, <3>1, <3>2, HandsStep DEF Original, Plain
  <2>5. ASSUME row'[r].intent = None, row'[r].status \notin Decisions PROVE Unedged(r)'
    <3>1. row[r].intent = None /\ row[r].status \notin Decisions
      <4>1. op.step = "intent" => op.backup # None
        BY DEF IInv, OpInv, Retirement, Retiring
      <4> QED BY <2>1, <2>5, <4>1 DEF Decides, Minted, Moved, Intended, Accepted, Reverted, Goes, Decisions
    <3>2. Unedged(r)
      BY <2>o, <3>1 DEF Original
    <3>k. /\ op.step \in {"write", "record", "unwrite", "unrecord"} => op.p \in Writes
          /\ op.step \in Retiring \cup Restoring => op.p \in Retires
      BY OpOf DEF IInv
    <3>3. Plain(file[Target[r]])'
      <4>1. ~(op.step = "edge" /\ Target[r] = Target[op.p])
        BY <3>1, <3>k DEF Distinct, Retiring, IInv, OpInv, Retirement
      <4>2. CASE op.step = "unwrite" /\ Target[r] = Target[op.p] /\ file'[Target[r]] = row[op.p].backup
        BY <3>2, <3>k, <4>2 DEF Unedged, Plain
      <4>3. CASE op.step \in {"undo", "restore"} /\ file'[Target[r]] = archive[op.p][Target[r]].bytes
        BY <3>2, <3>k, <4>3 DEF Unedged, Plain, Retiring, Restoring
      <4>4. CASE op.step = "restore" /\ Target[r] = Target[op.p] /\ file'[Target[r]] = row[op.p].backup
        BY <2>o, <3>k, <4>4 DEF Distinct, Original, Plain, Restoring
      <4>5. CASE op.step = "write" /\ file'[Target[r]] = op.publish
        BY <4>5 DEF Edges, Plain
      <4>6. CASE file'[Target[r]] \in {None, file[Target[r]]}
        BY <3>2, <4>6 DEF Unedged, Plain
      <4>7. CASE file'[Target[r]] # None => file'[Target[r]].edge = FALSE \/ Reworded(Target[r])
        BY <3>2, <4>7 DEF Unedged, Plain, Reworded
      <4> QED BY <2>o, <4>1, <4>2, <4>3, <4>4, <4>5, <4>6, <4>7, FileStep
    <3>4. ASSUME NEW q \in Retires PROVE Plain(archive[q][Target[r]].bytes)'
      BY <2>o, <3>2, BytesStep DEF Unedged, Plain
    <3>5. ASSUME NEW w \in Writes, Target[w] = Target[r] PROVE Plain(row[w].backup)'
      <4>1. row'[w] = row[w] \/ Decides(w)
        BY RowStep, Kinds DEF Only
      <4>2. row'[w].backup = row[w].backup \/ (op.p = w /\ row'[w].backup = op.backup)
        BY <4>1 DEF Decides, Minted, Moved, Intended, Accepted, Reverted, Saved
      <4> QED BY <3>2, <3>5, <4>2 DEF Unedged, Plain
    <3>6. ASSUME op'.p \in Writes, Target[op'.p] = Target[r] PROVE Plain(op'.backup)
      <4>1. ASSUME NEW w \in Writes, AcceptWrite(w) PROVE Plain(op'.backup)
        <5>1. op'.p = w /\ op'.backup = file[Target[w]]
          BY <4>1 DEF AcceptWrite, Idle
        <5> QED BY <3>2, <3>6, <5>1 DEF Unedged
      <4>2. ASSUME NEW q \in Retires, AcceptRetire(q) PROVE FALSE
        BY <3>6, <4>2, QueueAssumption DEF AcceptRetire, Idle
      <4> QED BY <1>t, <3>2, <3>6, <4>1, <4>2, HandsStep DEF Unedged, Plain
    <3> QED BY <3>3, <3>4, <3>5, <3>6 DEF Unedged
  <2> QED BY <2>2, <2>3, <2>4, <2>5 DEF Original
<1> QED BY <1>1, <1>2 DEF Edges

LEMMA AlwaysEdges == ASSUME Distinct PROVE Spec => []Edges
<1>1. Init => Edges
  BY Kinds DEF Init, NoRow, NoArchive, Idle, Edges, Original, Unedged, Plain
<1>2. IInv /\ Edges /\ [Next]_vars => Edges'
  BY EdgesStep
<1> QED BY Always, <1>1, <1>2, PTL DEF Spec

\* If no two retire proposals have the same target: before anything on disk
\* changes the row of a retirement holds its original, which no retry replaces.
THEOREM OriginalHeld == ASSUME Distinct PROVE Spec => []IntentHoldsOriginal
<1>1. IInv /\ Edges => IntentHoldsOriginal
  <2> SUFFICES ASSUME IInv, Edges, NEW r \in Retires,
                      NEW c, c = IF row[r].status \in {"accepted", "reverted"} THEN row[r].backup
                                 ELSE row[r].intent
               PROVE /\ c # None => c.body = row[r].base.body /\ c.edge = row[r].base.edge
                     /\ Dirs(r) # {} => c # None
    BY DEF IntentHoldsOriginal
  <2>1. RowOK(r) /\ Original(r)
    BY Kinds DEF IInv, Edges
  <2> QED BY <2>1 DEF RowOK, Original, AsJudged, Plain, Decisions
<1> QED BY Always, AlwaysEdges, <1>1, PTL

LEMMA RevertStep ==
  ASSUME IInv, [Next]_vars, NEW p \in Proposals, row[p].status = "accepted", row'[p].status = "reverted"
  PROVE  IF p \in Writes THEN file[Target[p]] = row[p].base
         ELSE p \in Retires /\ (Target[p] \in row[p].dirs =>
                /\ file[Target[p]] = row[p].backup
                /\ file[Target[p]].body = row[p].base.body)
<1>1. Decides(p)
  BY RowStep DEF Only
<1>2. op.step \in {"unrecord", "unretired"} /\ op.p = p
  BY <1>1 DEF Decides, Minted, Moved, Intended, Accepted, Reverted, Goes
<1>3. RowOK(p) /\ Unpublishes /\ Restoration
  BY DEF IInv, OpInv
<1>4. CASE p \in Writes
  BY <1>2, <1>3, <1>4, QueueAssumption DEF RowOK, Unpublishes, Restoration, Restoring, Decisions
<1>5. CASE p \notin Writes
  <2>1. op.step = "unretired" /\ p \in Retires
    BY <1>2, <1>3, <1>5 DEF Unpublishes, Restoration, Restoring
  <2> QED BY <1>2, <1>3, <1>5, <2>1 DEF RowOK, Restoration, Restoring, AsJudged, Decisions
<1> QED BY <1>4, <1>5

\* Whatever the proposals have in common: a recorded revert has brought back what
\* its row holds of the original, which of a content proposal is exactly what it
\* was minted against and of a retirement has the text that was judged.
THEOREM RevertBringsBack ==
  Spec => [][\A p \in Proposals :
               row[p].status = "accepted" /\ row'[p].status = "reverted" =>
                 IF p \in Writes THEN file[Target[p]] = row[p].base
                 ELSE Target[p] \in row[p].dirs =>
                        /\ file[Target[p]] = row[p].backup
                        /\ file[Target[p]].body = row[p].base.body]_vars
<1>1. ASSUME IInv, [Next]_vars
      PROVE \A p \in Proposals :
              row[p].status = "accepted" /\ row'[p].status = "reverted" =>
                IF p \in Writes THEN file[Target[p]] = row[p].base
                ELSE Target[p] \in row[p].dirs =>
                       /\ file[Target[p]] = row[p].backup
                       /\ file[Target[p]].body = row[p].base.body
  BY <1>1, RevertStep
<1> QED BY Always, <1>1, PTL DEF Spec

\* If no two retire proposals have the same target: a recorded revert has brought
\* back what the proposal was about, without the edge that its accept wrote.
THEOREM RevertRestores == ASSUME Distinct PROVE Spec => RevertRestoresBase
<1>1. ASSUME IInv, Edges, [Next]_vars, NEW p \in Proposals,
             row[p].status = "accepted", row'[p].status = "reverted"
      PROVE IF p \in Writes THEN file[Target[p]] = row[p].base
            ELSE Target[p] \in row[p].dirs =>
                   /\ file[Target[p]] = row[p].backup
                   /\ file[Target[p]].body = row[p].base.body
                   /\ file[Target[p]].edge = row[p].base.edge
  <2>1. CASE p \in Writes
    BY <1>1, <2>1, RevertStep
  <2>2. CASE p \notin Writes
    <3>1. p \in Retires /\ (Target[p] \in row[p].dirs =>
            /\ file[Target[p]] = row[p].backup /\ file[Target[p]].body = row[p].base.body)
      BY <1>1, <2>2, RevertStep
    <3>2. Original(p) /\ RowOK(p)
      BY <1>1, <3>1 DEF Edges, IInv
    <3> QED BY <1>1, <2>2, <3>1, <3>2 DEF RowOK, Original, AsJudged, Plain, Decisions
  <2> QED BY <2>1, <2>2
<1>2. ASSUME IInv, Edges, [Next]_vars
      PROVE [\A p \in Proposals :
               row[p].status = "accepted" /\ row'[p].status = "reverted" =>
                 IF p \in Writes THEN file[Target[p]] = row[p].base
                 ELSE Target[p] \in row[p].dirs =>
                        /\ file[Target[p]] = row[p].backup
                        /\ file[Target[p]].body = row[p].base.body
                        /\ file[Target[p]].edge = row[p].base.edge]_vars
  BY <1>1, <1>2
<1> QED BY Always, AlwaysEdges, <1>2, PTL DEF Spec, RevertRestoresBase
=============================================================================
