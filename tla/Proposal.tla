----------------------------- MODULE Proposal -----------------------------
(***************************************************************************)
(* The proposal queue of akm over the files it changes.  A `write'         *)
(* proposal publishes a new content for its target; a `retire' proposal,   *)
(* minted by the pair judge, moves its target (and the target's .derived   *)
(* twin) into an archive because a successor says the same.                *)
(*                                                                         *)
(* A step is one state.db transaction or one file-system call that changes *)
(* something; the reads that lead to it go with the step before.  Accept,  *)
(* reject, revert, reopen and the edits made through akm hold the          *)
(* asset-mutation lease, so at most one of them is under way (op).  Mints, *)
(* deferrals, the retention sweep and the archive purge take no lease and  *)
(* run between any two of its steps.  A crash ends the holder of the lease; *)
(* a later command reclaims its lock (FileLock).                           *)
(*                                                                         *)
(* A content is its body and its frontmatter, each known by a number or by *)
(* the proposal that wrote it: contentHash compares all of it, the         *)
(* pair judge's hash the body alone.                                       *)
(***************************************************************************)
EXTENDS Naturals, FiniteSets

CONSTANTS
  Writes,      \* proposals that create or update a file
  Retires,     \* proposals of the pair judge that delete one
  Files,       \* the assets of the bundle
  Target,      \* what each proposal changes
  Successor,   \* what each retire proposal keeps instead
  Twin,        \* the .derived twin of a memory, or None
  Supersedes,  \* retire proposals whose label is `supersedes'
  Created,     \* files that do not exist at first
  None,        \* no content, no proposal, no file
  MaxClock,    \* bound: edits by people and stamps by accepts
  MaxCrashes   \* bound: crashes and failed renames

Proposals == Writes \cup Retires
Clock == 0..MaxClock
Bodies == Writes \cup Clock
Contents == [body : Bodies, front : Clock, edge : BOOLEAN]
Statuses == {"none", "judged", "pending", "accepted", "rejected", "reverted"}
Outcomes == {"none", "proposed", "review_needed", "accepted", "rejected", "expired", "failed"}
Steps == {"idle", "write", "record", "unwrite", "unrecord",
          "intent", "edge", "archive", "move", "undo", "forget",
          "restore", "unretired", "clear"}
Keys == {"content", "pair"} \X Files

ASSUME QueueAssumption ==
  /\ Writes \cap Retires = {} /\ Created \subseteq Files /\ Supersedes \subseteq Retires
  /\ Target \in [Proposals -> Files] /\ Successor \in [Retires -> Files]
  /\ Twin \in [Files -> Files \cup {None}]
  /\ None \notin Contents /\ None \notin Proposals /\ None \notin Files /\ None \notin Bodies
  /\ MaxClock \in Nat /\ MaxCrashes \in Nat
ASSUME PairAssumption == \A r \in Retires : Successor[r] # Target[r]
ASSUME BodyAssumption == Writes \cap Nat = {}

VARIABLES
  file,     \* what is on disk under each asset's path
  row,      \* proposals: one row each
  ledger,   \* improve_ledger: one row for each source and ref
  archive,  \* the archive directory of each retire proposal and file
  op,       \* what the holder of the lease is doing
  stale,    \* a proposal the drain has found stale and is about to reject
  clock, crashes

vars == <<file, row, ledger, archive, op, stale, clock, crashes>>

NoRow == [status |-> "none", base |-> None, successor |-> None,
          backup |-> None, published |-> None, intent |-> None, dirs |-> {}]
Idle == [step |-> "idle", p |-> None, backup |-> None, publish |-> None,
         f |-> None, mine |-> FALSE, todo |-> {}]
NoEntry == [id |-> None, outcome |-> "none"]
NoArchive == [state |-> "none", bytes |-> None]

Init ==
  /\ file = [f \in Files |-> IF f \in Created THEN None
                             ELSE [body |-> 0, front |-> 0, edge |-> FALSE]]
  /\ row = [p \in Proposals |-> NoRow]
  /\ ledger = [k \in Keys |-> NoEntry]
  /\ archive = [r \in Retires |-> [f \in Files |-> NoArchive]]
  /\ op = Idle
  /\ stale = None
  /\ clock = 0 /\ crashes = 0

-----------------------------------------------------------------------------
(* The ledger.                                                             *)

Source(p) == IF p \in Writes THEN "content" ELSE "pair"

\* recordImproveLedger: the row of (source, ref) is replaced.
Attempted(l, key, id, outcome) == [l EXCEPT ![key] = [id |-> id, outcome |-> outcome]]

\* recordImproveLedgerDecision: every row that carries the proposal's id is
\* updated; if there is none, the row under the proposal's own ref is replaced.
Decided(l, p, outcome) ==
  IF \E k \in Keys : l[k].id = p
  THEN [k \in Keys |-> IF l[k].id = p THEN [id |-> p, outcome |-> outcome] ELSE l[k]]
  ELSE Attempted(l, <<Source(p), Target[p]>>, p, outcome)

\* reopenProposals: a content proposal's rows go back to `proposed', a retire
\* proposal's are dropped, since its mint writes none.
Reopened_kept(l, p) == l   \* faulty: the rejection's row stays
Reopened(l, p) ==
  [k \in Keys |-> IF l[k].id # p THEN l[k]
                  ELSE IF p \in Writes THEN [id |-> p, outcome |-> "proposed"] ELSE NoEntry]

\* archiveProposal settles both sides of a stale pair, so that it is judged again.
Released(l, r) ==
  [k \in Keys |-> IF k \in {<<"pair", Target[r]>>, <<"pair", Successor[r]>>}
                  THEN [id |-> None, outcome |-> "failed"] ELSE l[k]]

(* archiveProposal: reject a pending proposal, in one transaction.         *)
Archive(p, outcome) ==
  /\ row[p].status = "pending"
  /\ row' = [row EXCEPT ![p].status = "rejected"]
  /\ ledger' = LET l == Decided(ledger, p, outcome)
               IN IF outcome = "failed" /\ p \in Retires THEN Released(l, p) ELSE l

-----------------------------------------------------------------------------
(* Freshness.                                                              *)

\* readFreshProposalTarget: the target is what the proposal was minted
\* against, or already what this accept would publish.
FreshWrite(w, stamped) ==
  IF row[w].base # None THEN file[Target[w]] \in {row[w].base, stamped} \ {None}
                        ELSE file[Target[w]] = None

\* assertRetirementStillFresh, on the bytes given for the retired side.
FreshPair(r, retired) ==
  LET successor == file[Successor[r]]
  IN /\ successor # None /\ successor.body = row[r].successor
     /\ retired.body = row[r].base.body

\* What an accept starting now would publish: stamped with the time.
Stamped(w) == [body |-> w, front |-> clock + 1, edge |-> FALSE]

\* retireProposalWithLease, up to its first write: the recorded intent stands
\* in for a retired side that has already moved.
FreshRetire_trusted(r) ==   \* faulty: a resumed accept looks at nothing
  row[r].intent = None => file[Target[r]] # None /\ FreshPair(r, file[Target[r]])
FreshRetire(r) ==
  LET now == file[Target[r]]
  IN IF row[r].intent = None THEN now # None /\ FreshPair(r, now)
     ELSE FreshPair(r, IF now # None THEN now ELSE row[r].intent)

Fresh(p) == IF p \in Writes THEN FreshWrite(p, Stamped(p)) ELSE FreshRetire(p)

-----------------------------------------------------------------------------
(* Without the lease.                                                      *)

Free == op.step = "idle"

\* createProposal: the target's content at mint is what accept compares with.
Mint(w) ==
  /\ row[w].status = "none"
  /\ row' = [row EXCEPT ![w].status = "pending", ![w].base = file[Target[w]]]
  /\ ledger' = Attempted(ledger, <<"content", Target[w]>>, w, "proposed")
  /\ UNCHANGED <<file, archive, op, stale, clock, crashes>>

\* The pair pass reads both sides of a pair no pending retire proposal holds...
Held == UNION {{Target[r], Successor[r]} : r \in {q \in Retires : row[q].status = "pending"}}
Judge(r) ==
  /\ row[r].status = "none"
  /\ file[Target[r]] # None /\ file[Successor[r]] # None
  /\ {Target[r], Successor[r]} \cap Held = {}
  /\ row' = [row EXCEPT ![r].status = "judged", ![r].base = file[Target[r]],
                        ![r].successor = file[Successor[r]].body]
  /\ UNCHANGED <<file, ledger, archive, op, stale, clock, crashes>>

\* ...and createRetireProposal mints what the judge then said of them.
MintRetire(r) ==
  /\ row[r].status = "judged" /\ file[Target[r]] # None
  /\ row' = [row EXCEPT ![r].status = "pending"]
  /\ UNCHANGED <<file, ledger, archive, op, stale, clock, crashes>>

\* recordGateDecision: a proposal is left to a person.  (The other verdicts
\* only choose what a drain takes up: see Accept.)
Defer(p) ==
  /\ row[p].status = "pending"
  /\ ledger' = Decided(ledger, p, "review_needed")
  /\ UNCHANGED <<file, row, archive, op, stale, clock, crashes>>

\* expireStaleProposals and purgeOrphanProposals list the queue and then come to
\* one proposal after the other, whatever else has happened since: a list that
\* is old allows what a new one allows, as the transaction looks at the status
\* again.  An orphan's missing file is looked for right before.
Sweep(p, why) ==
  /\ why = "failed" => p \in Writes /\ file[Target[p]] = None
  /\ Archive(p, why)
  /\ UNCHANGED <<file, archive, op, stale, clock, crashes>>

\* purgeGracedArchive: bytes archived 30 days ago and committed to git go, the
\* tombstone stays.  An accept that is still moving files is not that old.
Purge(r, f) ==
  /\ archive[r][f].state = "kept"
  /\ op.p = r => op.step \in {"restore", "unretired", "clear"}
  /\ archive' = [archive EXCEPT ![r][f] = [state |-> "purged", bytes |-> None]]
  /\ UNCHANGED <<file, row, ledger, op, stale, clock, crashes>>

-----------------------------------------------------------------------------
(* Under the lease: single transactions and edits.                         *)

\* withWriteTargetMutation: a person changes, creates or removes an asset.
Edit(f, c) ==
  /\ Free /\ clock < MaxClock /\ clock' = clock + 1
  /\ c \in {[body |-> clock + 1, front |-> 0, edge |-> FALSE], None}
           \cup IF file[f] = None THEN {} ELSE {[file[f] EXCEPT !.front = clock + 1]}
  /\ c # file[f]
  /\ file' = [file EXCEPT ![f] = c]
  /\ UNCHANGED <<row, ledger, archive, op, stale, crashes>>

\* akmProposalReject.
Reject(p) ==
  /\ Free /\ Archive(p, "rejected")
  /\ UNCHANGED <<file, archive, op, stale, clock, crashes>>

\* acceptProposal of drain.ts: a target found stale under the lease...
DrainFindsStale(p) ==
  /\ Free /\ stale = None /\ stale' = p
  /\ row[p].status = "pending" /\ ~Fresh(p)
  /\ UNCHANGED <<file, row, ledger, archive, op, clock, crashes>>

\* ...has the proposal rejected in a lease of its own, if it is still pending.
DrainReject ==
  /\ Free /\ stale # None /\ stale' = None
  /\ \/ Archive(stale, "failed")
     \/ row[stale].status # "pending" /\ UNCHANGED <<row, ledger>>
  /\ UNCHANGED <<file, archive, op, clock, crashes>>

\* reopenRefusal looks at the files as they are: a retired one must be there,
\* and a content proposal is compared as proposed, before any stamp.
Reopenable(p) ==
  /\ row[p].status = "rejected"
  /\ p \in Writes => FreshWrite(p, None)
  /\ p \in Retires => /\ file[Target[p]] # None /\ FreshPair(p, file[Target[p]])
                      /\ {Target[p], Successor[p]} \cap Held = {}

\* reopenProposals; an intent the row carries stays.
Reopen(p) ==
  /\ Free /\ Reopenable(p)
  /\ row' = [row EXCEPT ![p].status = "pending"]
  /\ ledger' = Reopened(ledger, p)
  /\ UNCHANGED <<file, archive, op, stale, clock, crashes>>

-----------------------------------------------------------------------------
(* Under the lease: accept.                                                *)

\* promoteProposalWithLease, up to its first write; the command of a person, or
\* of a drain that took the proposal up because a judge had staged it.
AcceptWrite(w) ==
  /\ Free /\ row[w].status = "pending" /\ FreshWrite(w, Stamped(w))
  /\ clock < MaxClock /\ clock' = clock + 1
  /\ op' = [Idle EXCEPT !.step = "write", !.p = w,
                        !.backup = file[Target[w]], !.publish = Stamped(w)]
  /\ UNCHANGED <<file, row, ledger, archive, stale, crashes>>

\* retireProposalWithLease: afresh, or from the intent an earlier accept left.
Resumes_gone(r) ==   \* faulty: the backup is read from disk while the file is there
  row[r].intent # None /\ file[Target[r]] = None
Resumes(r) == row[r].intent # None
AcceptRetire(r) ==
  /\ Free /\ row[r].status = "pending" /\ FreshRetire(r)
  /\ op' = LET start == [Idle EXCEPT !.p = r]
           IN IF Resumes(r)
              THEN [start EXCEPT !.step = "archive", !.backup = row[r].intent,
                                 !.f = Target[r]]
              ELSE [start EXCEPT !.step = "intent", !.backup = file[Target[r]]]
  /\ UNCHANGED <<file, row, ledger, archive, stale, clock, crashes>>

\* writeProposalAssetFile: a temporary file and a rename.
WriteAsset ==
  /\ op.step = "write"
  /\ file' = [file EXCEPT ![Target[op.p]] = op.publish]
  /\ op' = [op EXCEPT !.step = "record"]
  /\ UNCHANGED <<row, ledger, archive, stale, clock, crashes>>

StillPending_unchecked(p) == TRUE   \* faulty: what was read before is trusted
StillPending(p) == row[p].status = "pending"
Written_early == op.step \in {"write", "record"}   \* faulty: recorded before written
Written == op.step = "record"

\* persistProposalDecision: the row of the accept's own reading is written back,
\* provided the proposal is still pending; otherwise the accept throws.
RecordAccept ==
  /\ Written
  /\ \/ /\ StillPending(op.p)
        /\ row' = [row EXCEPT ![op.p].status = "accepted",
                              ![op.p].backup = op.backup, ![op.p].published = op.publish]
        /\ ledger' = Decided(ledger, op.p, "accepted")
     \/ ~StillPending(op.p) /\ UNCHANGED <<row, ledger>>
  /\ op' = Idle
  /\ UNCHANGED <<file, archive, stale, clock, crashes>>

\* recordRetireAcceptIntent: the bytes about to move, before anything moves.
\* The transaction does not look at the status.
RecordIntent ==
  /\ op.step = "intent"
  /\ row' = [row EXCEPT ![op.p].intent = IF @ = None THEN op.backup ELSE @]
  /\ op' = IF op.p \in Supersedes THEN [op EXCEPT !.step = "edge"]
           ELSE [op EXCEPT !.step = "archive", !.f = Target[op.p]]
  /\ UNCHANGED <<file, ledger, archive, stale, clock, crashes>>

\* writeSupersededEdge; a failure only warns.
WriteEdge ==
  /\ op.step = "edge"
  /\ op' = [op EXCEPT !.step = "archive", !.f = Target[op.p]]
  /\ file' \in {file, [file EXCEPT ![Target[op.p]].edge = TRUE]}
  /\ UNCHANGED <<row, ledger, archive, stale, clock, crashes>>

\* The files a retire moves: the asset, then its twin.
After(f) == IF f = Target[op.p] THEN Twin[f] ELSE None
\* One whose tombstone is there is taken as archived, one that is gone is skipped.
ToArchive_gone(f) == f # None /\ archive[op.p][f].state = "none"   \* faulty: moves nothing
ToArchive_judged(f) ==   \* faulty: leaves a file that was edited after the intent
  f # None /\ archive[op.p][f].state = "none" /\ file[f] = op.backup
ToArchive(f) == f # None /\ archive[op.p][f].state = "none" /\ file[f] # None

\* archiveCleanupCandidate writes the tombstone first.
WriteTombstone ==
  /\ op.step = "archive" /\ ToArchive(op.f)
  /\ archive' = [archive EXCEPT ![op.p][op.f].state = "tombstone"]
  /\ op' = [op EXCEPT !.step = "move"]
  /\ UNCHANGED <<file, row, ledger, stale, clock, crashes>>

SkipArchived ==
  /\ op.step = "archive" /\ op.f # None /\ ~ToArchive(op.f)
  /\ op' = [op EXCEPT !.f = After(op.f)]
  /\ UNCHANGED <<file, row, ledger, archive, stale, clock, crashes>>

\* Then it renames the file.
MoveToArchive ==
  /\ op.step = "move"
  /\ archive' = [archive EXCEPT ![op.p][op.f] = [state |-> "kept", bytes |-> file[op.f]]]
  /\ file' = [file EXCEPT ![op.f] = None]
  /\ op' = [op EXCEPT !.step = "archive", !.f = After(op.f),
                      !.mine = @ \/ op.f = Target[op.p]]
  /\ UNCHANGED <<row, ledger, stale, clock, crashes>>

\* A rename that fails undoes what this call has moved, and its error ends the accept.
Undo_forgets ==   \* faulty: the directory is removed with the bytes in it
  IF op.mine THEN [op EXCEPT !.step = "forget", !.f = Target[op.p]] ELSE Idle
Undo == IF op.mine THEN [op EXCEPT !.step = "undo", !.f = Target[op.p]] ELSE Idle
MoveFails ==
  /\ op.step = "move" /\ crashes < MaxCrashes /\ crashes' = crashes + 1
  /\ op' = Undo
  /\ UNCHANGED <<file, row, ledger, archive, stale, clock>>

\* What is left of an archive directory whose bytes have been moved back.
Emptied_gone == NoArchive   \* faulty: the tombstone goes with the bytes
Emptied == [state |-> "tombstone", bytes |-> None]

UndoMove ==
  /\ op.step = "undo"
  /\ file' = [file EXCEPT ![op.f] = archive[op.p][op.f].bytes]
  /\ archive' = [archive EXCEPT ![op.p][op.f] = Emptied]
  /\ op' = [op EXCEPT !.step = "forget"]
  /\ UNCHANGED <<row, ledger, stale, clock, crashes>>

UndoTombstone ==
  /\ op.step = "forget"
  /\ archive' = [archive EXCEPT ![op.p][op.f] = NoArchive]
  /\ op' = Idle
  /\ UNCHANGED <<file, row, ledger, stale, clock, crashes>>

\* The archive directories a tombstone claims for this proposal.
Dirs(r) == {f \in Files : archive[r][f].state # "none"}

\* persistRetireAcceptance.  With no directory at all the accept is refused as
\* stale (and rejected, if it was the drain's); a proposal no longer pending
\* makes it throw.
RecordRetire ==
  /\ op.step = "archive" /\ op.f = None
  /\ \/ /\ Dirs(op.p) # {} /\ StillPending(op.p)
        /\ row' = [row EXCEPT ![op.p].status = "accepted",
                              ![op.p].backup = op.backup, ![op.p].intent = None,
                              ![op.p].dirs = Dirs(op.p)]
        /\ ledger' = Decided(ledger, op.p, "accepted")
        /\ UNCHANGED stale
     \/ /\ Dirs(op.p) # {} /\ ~StillPending(op.p)
        /\ UNCHANGED <<row, ledger, stale>>
     \/ /\ Dirs(op.p) = {} /\ stale' \in {stale, op.p}
        /\ UNCHANGED <<row, ledger>>
  /\ op' = Idle
  /\ UNCHANGED <<file, archive, clock, crashes>>

-----------------------------------------------------------------------------
(* Under the lease: revert.                                                *)

\* revertProposalWithLease: the target still holds what was published.
Revert(w) ==
  /\ Free /\ row[w].status = "accepted" /\ row[w].backup # None
  /\ file[Target[w]] = row[w].published
  /\ op' = [Idle EXCEPT !.step = "unwrite", !.p = w]
  /\ UNCHANGED <<file, row, ledger, archive, stale, clock, crashes>>

RestoreAsset ==
  /\ op.step = "unwrite"
  /\ file' = [file EXCEPT ![Target[op.p]] = row[op.p].backup]
  /\ op' = [op EXCEPT !.step = "unrecord"]
  /\ UNCHANGED <<row, ledger, archive, stale, clock, crashes>>

\* The decision of either revert, in one transaction; after it a retire
\* proposal still has its archive to remove.
RecordRevert ==
  /\ op.step \in {"unrecord", "unretired"}
  /\ row' = [row EXCEPT ![op.p].status = "reverted"]
  /\ ledger' = Decided(ledger, op.p, "rejected")
  /\ op' = IF op.p \in Writes THEN Idle ELSE [op EXCEPT !.step = "clear"]
  /\ UNCHANGED <<file, archive, stale, clock, crashes>>

\* unretireProposalWithLease validates every archive directory before it moves
\* any file: each holds the only copy; or was moved back by an earlier attempt
\* (for the asset itself its body must be what was retired); or, for the asset
\* itself, was purged and is restored from the row.
Restorable_reused(r, f) ==   \* faulty: any file at the place counts as moved back
  /\ archive[r][f].state # "none" /\ ~(file[f] # None /\ archive[r][f].bytes # None)
  /\ file[f] # None \/ archive[r][f].bytes # None \/ f = Target[r]
Restorable(r, f) ==
  LET here == file[f] # None
      kept == archive[r][f].bytes # None
  IN /\ archive[r][f].state # "none" /\ ~(here /\ kept)
     /\ here \/ kept \/ f = Target[r]
     /\ here /\ f = Target[r] => file[f].body = row[r].base.body

Unretire(r) ==
  /\ Free /\ row[r].status = "accepted"
  /\ row[r].dirs # {} /\ \A f \in row[r].dirs : Restorable(r, f)
  /\ op' = [Idle EXCEPT !.step = "restore", !.p = r,
                        !.todo = {f \in row[r].dirs : archive[r][f].bytes # None}]
  /\ UNCHANGED <<file, row, ledger, archive, stale, clock, crashes>>

\* One file is moved back; if a purge was faster the rename fails and ends the revert.
RestoreFile(f) ==
  /\ op.step = "restore" /\ f \in op.todo
  /\ LET bytes == archive[op.p][f].bytes
     IN IF bytes # None
        THEN /\ file' = [file EXCEPT ![f] = bytes]
             /\ archive' = [archive EXCEPT ![op.p][f] = Emptied]
             /\ op' = [op EXCEPT !.todo = @ \ {f}]
        ELSE op' = Idle /\ UNCHANGED <<file, archive>>
  /\ UNCHANGED <<row, ledger, stale, clock, crashes>>

\* The asset itself gets the bytes the accept recorded, without the edge.
Rewritten_kept == file   \* faulty: the archived copy is good enough
Rewritten == IF Target[op.p] \in row[op.p].dirs
             THEN [file EXCEPT ![Target[op.p]] = row[op.p].backup] ELSE file
RewriteAsset ==
  /\ op.step = "restore" /\ op.todo = {}
  /\ file' = Rewritten
  /\ op' = [op EXCEPT !.step = "unretired"]
  /\ UNCHANGED <<row, ledger, archive, stale, clock, crashes>>

\* The archive directories go only after the decision is recorded.
ClearArchive ==
  /\ op.step = "clear"
  /\ archive' = [archive EXCEPT ![op.p] =
                   [f \in Files |-> IF f \in row[op.p].dirs THEN NoArchive ELSE @[f]]]
  /\ op' = Idle
  /\ UNCHANGED <<file, row, ledger, stale, clock, crashes>>

-----------------------------------------------------------------------------
\* The holder of the lease dies.
Crash ==
  /\ ~Free /\ crashes < MaxCrashes /\ crashes' = crashes + 1
  /\ op' = Idle
  /\ UNCHANGED <<file, row, ledger, archive, stale, clock>>

Unleased ==
  \/ \E w \in Writes : Mint(w)
  \/ \E r \in Retires : Judge(r) \/ MintRetire(r) \/ \E f \in Files : Purge(r, f)
  \/ \E p \in Proposals : Defer(p) \/ \E why \in {"expired", "failed"} : Sweep(p, why)

Commands ==
  \/ \E f \in Files, c \in Contents \cup {None} : Edit(f, c)
  \/ \E p \in Proposals : Reject(p) \/ Reopen(p) \/ DrainFindsStale(p)
  \/ \E w \in Writes : AcceptWrite(w) \/ Revert(w)
  \/ \E r \in Retires : AcceptRetire(r) \/ Unretire(r)
  \/ DrainReject

Proceed ==
  \/ WriteAsset \/ RecordAccept
  \/ RecordIntent \/ WriteEdge \/ WriteTombstone \/ SkipArchived \/ MoveToArchive
  \/ UndoMove \/ UndoTombstone \/ RecordRetire
  \/ RestoreAsset \/ RecordRevert \/ (\E f \in Files : RestoreFile(f)) \/ RewriteAsset
  \/ ClearArchive

Next == Unleased \/ Commands \/ Proceed \/ MoveFails \/ Crash

Spec == Init /\ [][Next]_vars
-----------------------------------------------------------------------------
(* Correctness.                                                            *)

Rows == [status : Statuses, base : Contents \cup {None}, successor : Bodies \cup {None},
         backup : Contents \cup {None}, published : Contents \cup {None},
         intent : Contents \cup {None}, dirs : SUBSET Files]
Ops == [step : Steps, p : Proposals \cup {None}, backup : Contents \cup {None},
        publish : Contents \cup {None}, f : Files \cup {None}, mine : BOOLEAN,
        todo : SUBSET Files]

\* The type of every variable.
TypeOK ==
  /\ file \in [Files -> Contents \cup {None}]
  /\ row \in [Proposals -> Rows]
  /\ ledger \in [Keys -> [id : Proposals \cup {None}, outcome : Outcomes]]
  /\ archive \in [Retires -> [Files -> [state : {"none", "tombstone", "purged"}, bytes : {None}]
                                         \cup [state : {"kept"}, bytes : Contents]]]
  /\ op \in Ops /\ stale \in Proposals \cup {None}
  /\ clock \in Clock /\ crashes \in 0..MaxCrashes

Says(status) ==
  CASE status = "pending" -> {"proposed", "review_needed"}
    [] status = "accepted" -> {"accepted"}
    [] status = "rejected" -> {"rejected", "expired", "failed"}
    [] status = "reverted" -> {"rejected"}
    [] OTHER -> {}

\* Whoever decides, and however often a proposal is reopened, a ledger row that
\* names a proposal agrees with that proposal's status: the ledger is what keeps
\* a stage from proposing again (recordImproveLedgerDecision).
LedgerFollowsStatus ==
  \A k \in Keys : ledger[k].id # None => ledger[k].outcome \in Says(row[ledger[k].id].status)

\* Before a retire changes anything on disk its row holds the original, and what
\* the row holds is never a later content or one with the accept's own edge,
\* however often the accept is interrupted (recordRetireAcceptIntent).
IntentHoldsOriginal == \A r \in Retires :
  LET original == IF row[r].status \in {"accepted", "reverted"} THEN row[r].backup
                  ELSE row[r].intent
  IN /\ original # None => original.body = row[r].base.body /\ original.edge = row[r].base.edge
     /\ Dirs(r) # {} => original # None

\* At any crash of a revert the proposal is still accepted and every archive
\* directory it names still has its tombstone, so that a retry can validate
\* what the first attempt did (unretireProposalWithLease).
RevertCanResume == \A r \in Retires :
  row[r].status = "accepted" => row[r].dirs # {} /\ row[r].dirs \subseteq Dirs(r)

\* Accept and revert replace or move a file only while it is what the proposal
\* was minted or judged against, or what it published itself: nothing newer,
\* after any crash and retry, is overwritten (readFreshProposalTarget,
\* assertRetirementStillFresh, unretireProposalWithLease).
NothingNewerOverwritten == [][
  ~Free => \A f \in Files : file'[f] # file[f] =>
    IF op.p \in Writes THEN file[f] \in {row[op.p].base, row[op.p].published}
    ELSE \/ file[f] = None
         \/ f = Target[op.p] /\ file[f].body = row[op.p].base.body
         \/ f # Target[op.p] /\ file'[f] = None ]_vars

\* When a revert is recorded the asset is back: a content proposal's is exactly
\* what it was minted against, a retired one has the body that was judged and
\* not the edge the accept wrote (revertProposalWithLease, and the same for
\* retire proposals).
RevertRestoresBase == [][\A p \in Proposals :
  row[p].status = "accepted" /\ row'[p].status = "reverted" =>
    IF p \in Writes THEN file[Target[p]] = row[p].base
    ELSE Target[p] \in row[p].dirs =>
           /\ file[Target[p]] = row[p].backup
           /\ file[Target[p]].body = row[p].base.body
           /\ file[Target[p]].edge = row[p].base.edge ]_vars

\* A content proposal is recorded as accepted only while its file holds what the
\* row says was published, although sweeps and crashes come between the two
\* (promoteProposalWithLease).
AcceptedIsOnDisk == [][\A w \in Writes :
  row[w].status = "pending" /\ row'[w].status = "accepted" =>
    file[Target[w]] # None /\ file[Target[w]] = row'[w].published ]_vars

\* An asset leaves for the archive only while its successor stands as it was
\* judged, also when an interrupted accept is resumed after other decisions
\* and edits (assertRetirementStillFresh).
SuccessorStands == [][\A r \in Retires :
  op.p = r /\ op.step = "move" /\ op.f = Target[r] /\ file'[op.f] = None =>
    /\ file[Successor[r]] # None
    /\ file[Successor[r]].body = row[r].successor ]_vars

\* No file is lost on its way: what accept takes from its place is in the
\* archive, and what leaves the archive is back in its place or was purged
\* after the grace period (archiveCleanupCandidate and the undo and revert of it).
ArchivedNotLost == [][
  /\ ~Free => \A f \in Files :
       file[f] # None /\ file'[f] = None => archive'[op.p][f].bytes = file[f]
  /\ \A r \in Retires, f \in Files :
       LET bytes == archive[r][f].bytes
       IN bytes # None /\ archive'[r][f].bytes # bytes =>
            file'[f] = bytes \/ archive'[r][f].state = "purged" ]_vars

Decision == INSTANCE ProposalDecision WITH
  status <- [p \in Proposals |-> IF row[p].status = "judged" THEN "none" ELSE row[p].status]

\* The queue implements its abstract life of a proposal: a decision taken
\* between the steps of an accept is never overruled by it.
ImplementsDecisions == Decision!Spec

\* The file is there with the text of a content proposal that creates it.
Returned(r) == \E w \in Writes : file[Target[r]].body = w /\ row[w].base = None

\* An accepted retirement has retired its asset.  There are two ways around it.
\* The tombstone of an interrupted attempt, whose file never moved, is taken for
\* the move by the next one, although the comment of archiveCleanupCandidate
\* (memory-improve.ts:672) calls that the ordinary "nothing archived yet" state.
\* And what an interrupted attempt did move may be published again before it is
\* resumed, by a proposal that creates the file and died before it was recorded.
AcceptRetires == [][\A r \in Retires :
  row[r].status = "pending" /\ row'[r].status = "accepted" =>
    \/ file[Target[r]] = None
    \/ archive[r][Target[r]].state = "tombstone"
    \/ Returned(r) ]_vars
=============================================================================
