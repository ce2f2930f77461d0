-------------------------- MODULE FileLock_proofs --------------------------
(***************************************************************************)
(* Proofs about FileLock, for any set of processes, any number of locks    *)
(* and any number of crashes.                                              *)
(*                                                                         *)
(* The safety properties are not inductive by themselves.  Exclusion rests *)
(* on one fact about the path (Agreement: while nothing was displaced, the *)
(* file at the path is the file of the process that is linked), which      *)
(* rests on reclaimers only ever verifying files of dead owners            *)
(* (ProbedAreDead), and a reclaimed file stays away because a file is in   *)
(* one place at a time (OnePlace) and a new file is new (Known).           *)
(***************************************************************************)
EXTENDS FileLock, TLAPS

(* A file in use was linked by its owner: the next one is a new one.       *)
Known ==
  /\ path # NoFile => path[2] <= made[path[1]]
  /\ \A p \in Procs : quarantine[p] # NoFile =>
       quarantine[p][2] <= made[quarantine[p][1]]
  /\ \A f \in reclaimed : f[2] <= made[f[1]]

(* What a reclaimer verified has a dead owner, for good.                   *)
ProbedAreDead ==
  /\ \A p \in Procs : probed[p] # NoFile => ~Alive(Owner(probed[p]))
  /\ \A p \in Procs : pc[p] \in {"recheck", "rename", "purge"} => probed[p] # NoFile
  /\ \A p \in Procs : pc[p] = "purge" => quarantine[p] = probed[p]
  /\ \A f \in reclaimed : ~Alive(Owner(f))

(* A file is at the path, in one quarantine, or gone.                      *)
OnePlace ==
  /\ \A p \in Procs : quarantine[p] # NoFile =>
       pc[p] \in {"purge", "putback", "dead"}
  /\ \A p \in Procs : pc[p] = "putback" => quarantine[p] # NoFile
  /\ \A p \in Procs : quarantine[p] # NoFile =>
       quarantine[p] # path /\ quarantine[p] \notin reclaimed
  /\ \A p, q \in Procs : quarantine[p] # NoFile /\ quarantine[p] = quarantine[q] => p = q
  /\ path \notin reclaimed

(* Without a displaced file, the path and its user agree.                  *)
Agreement ==
  /\ \A p \in Procs : pc[p] = "held" => own[p] # NoFile
  /\ \A p \in Procs : own[p] # NoFile => pc[p] \in {"held", "unlink"}
  /\ \A p \in Procs : pc[p] = "putback" => displaced # {}
  /\ displaced = {} =>
       /\ \A p \in Procs : Linked(p) => path = MyFile(p)
       /\ \A p \in Procs : Holding(p) => own[p] = MyFile(p)
       /\ \A p \in Procs : pc[p] = "unlink" => own[p] # NoFile
       /\ path # NoFile /\ Alive(Owner(path)) => Linked(Owner(path)) /\ path = MyFile(Owner(path))

IInv == TypeOK /\ Known /\ ProbedAreDead /\ OnePlace /\ Agreement

-----------------------------------------------------------------------------
(* The types are kept.  Purge needs more than types: it reports the file in *)
(* quarantine, which is there because it is the verified one.              *)
LEMMA TypeStep == IInv /\ [Next]_vars => TypeOK'
<1> SUFFICES ASSUME IInv, [Next]_vars PROVE TypeOK'
  OBVIOUS
<1> USE ProcsAssumption, NoFileAssumption DEF TypeOK, Files, FileOrNone, Labels, Goto, IInv, ProbedAreDead, NextFile
<1>1. ASSUME NEW p \in Procs, Attempt(p) PROVE TypeOK'
  BY <1>1 DEF Attempt, LinkSucceeds, LinkFails
<1>2. ASSUME NEW p \in Procs, Relink(p) PROVE TypeOK'
  BY <1>2 DEF Relink, LinkSucceeds, LinkFails
<1>3. ASSUME NEW p \in Procs, Snapshot(p) PROVE TypeOK'
  BY <1>3 DEF Snapshot
<1>4. ASSUME NEW p \in Procs, ProbeAbsent(p) PROVE TypeOK'
  BY <1>4 DEF ProbeAbsent
<1>5. ASSUME NEW p \in Procs, ProbeHeld(p) PROVE TypeOK'
  BY <1>5 DEF ProbeHeld
<1>6. ASSUME NEW p \in Procs, ProbeStale(p) PROVE TypeOK'
  BY <1>6 DEF ProbeStale
<1>7. ASSUME NEW p \in Procs, Recheck(p) PROVE TypeOK'
  BY <1>7 DEF Recheck
<1>8. ASSUME NEW p \in Procs, Rename(p) PROVE TypeOK'
  BY <1>8 DEF Rename
<1>9. ASSUME NEW p \in Procs, RenameMisses(p) PROVE TypeOK'
  BY <1>9 DEF RenameMisses
<1>10. ASSUME NEW p \in Procs, PutBack(p) PROVE TypeOK'
  BY <1>10 DEF PutBack
<1>11. ASSUME NEW p \in Procs, Purge(p) PROVE TypeOK'
  BY <1>11 DEF Purge
<1>12. ASSUME NEW p \in Procs, Release(p) PROVE TypeOK'
  BY <1>12 DEF Release
<1>13. ASSUME NEW p \in Procs, Unlink(p) PROVE TypeOK'
  BY <1>13 DEF Unlink
<1>14. ASSUME NEW p \in Procs, Crash(p) PROVE TypeOK'
  BY <1>14 DEF Crash
<1>15. CASE UNCHANGED vars
  BY <1>15 DEF vars
<1> QED
  BY <1>1, <1>2, <1>3, <1>4, <1>5, <1>6, <1>7, <1>8, <1>9, <1>10, <1>11, <1>12, <1>13, <1>14, <1>15 DEF Next, Step, Acquisition, Reclaim

(* Only a link brings a new file, and it raises its owner's count.         *)
LEMMA KnownStep == IInv /\ [Next]_vars => Known'
<1> SUFFICES ASSUME IInv, [Next]_vars PROVE Known'
  OBVIOUS
<1> USE ProcsAssumption, NoFileAssumption DEF TypeOK, Files, FileOrNone, Labels, Goto, IInv, Known, ProbedAreDead, OnePlace, NextFile
<1>1. ASSUME NEW p \in Procs, Attempt(p) PROVE Known'
  BY <1>1 DEF Attempt, LinkSucceeds, LinkFails
<1>2. ASSUME NEW p \in Procs, Relink(p) PROVE Known'
  BY <1>2 DEF Relink, LinkSucceeds, LinkFails
<1>3. ASSUME NEW p \in Procs, Snapshot(p) PROVE Known'
  BY <1>3 DEF Snapshot
<1>4. ASSUME NEW p \in Procs, ProbeAbsent(p) PROVE Known'
  BY <1>4 DEF ProbeAbsent
<1>5. ASSUME NEW p \in Procs, ProbeHeld(p) PROVE Known'
  BY <1>5 DEF ProbeHeld
<1>6. ASSUME NEW p \in Procs, ProbeStale(p) PROVE Known'
  BY <1>6 DEF ProbeStale
<1>7. ASSUME NEW p \in Procs, Recheck(p) PROVE Known'
  BY <1>7 DEF Recheck
<1>8. ASSUME NEW p \in Procs, Rename(p) PROVE Known'
  BY <1>8 DEF Rename
<1>9. ASSUME NEW p \in Procs, RenameMisses(p) PROVE Known'
  BY <1>9 DEF RenameMisses
<1>10. ASSUME NEW p \in Procs, PutBack(p) PROVE Known'
  BY <1>10 DEF PutBack
<1>11. ASSUME NEW p \in Procs, Purge(p) PROVE Known'
  BY <1>11 DEF Purge
<1>12. ASSUME NEW p \in Procs, Release(p) PROVE Known'
  BY <1>12 DEF Release
<1>13. ASSUME NEW p \in Procs, Unlink(p) PROVE Known'
  BY <1>13 DEF Unlink
<1>14. ASSUME NEW p \in Procs, Crash(p) PROVE Known'
  BY <1>14 DEF Crash
<1>15. CASE UNCHANGED vars
  BY <1>15 DEF vars
<1> QED
  BY <1>1, <1>2, <1>3, <1>4, <1>5, <1>6, <1>7, <1>8, <1>9, <1>10, <1>11, <1>12, <1>13, <1>14, <1>15 DEF Next, Step, Acquisition, Reclaim

(* A probe remembers a file as stale only when its owner is dead, and the  *)
(* dead stay dead.                                                         *)
LEMMA ProbedStep == IInv /\ [Next]_vars => ProbedAreDead'
<1> SUFFICES ASSUME IInv, [Next]_vars PROVE ProbedAreDead'
  OBVIOUS
<1> USE ProcsAssumption, NoFileAssumption DEF TypeOK, Files, FileOrNone, Labels, Goto, IInv, ProbedAreDead, OnePlace, Alive, Owner, NextFile
<1>1. ASSUME NEW p \in Procs, Attempt(p) PROVE ProbedAreDead'
  BY <1>1 DEF Attempt, LinkSucceeds, LinkFails
<1>2. ASSUME NEW p \in Procs, Relink(p) PROVE ProbedAreDead'
  BY <1>2 DEF Relink, LinkSucceeds, LinkFails
<1>3. ASSUME NEW p \in Procs, Snapshot(p) PROVE ProbedAreDead'
  BY <1>3 DEF Snapshot
<1>4. ASSUME NEW p \in Procs, ProbeAbsent(p) PROVE ProbedAreDead'
  BY <1>4 DEF ProbeAbsent
<1>5. ASSUME NEW p \in Procs, ProbeHeld(p) PROVE ProbedAreDead'
  BY <1>5 DEF ProbeHeld
<1>6. ASSUME NEW p \in Procs, ProbeStale(p) PROVE ProbedAreDead'
  BY <1>6 DEF ProbeStale
<1>7. ASSUME NEW p \in Procs, Recheck(p) PROVE ProbedAreDead'
  BY <1>7 DEF Recheck
<1>8. ASSUME NEW p \in Procs, Rename(p) PROVE ProbedAreDead'
  BY <1>8 DEF Rename
<1>9. ASSUME NEW p \in Procs, RenameMisses(p) PROVE ProbedAreDead'
  BY <1>9 DEF RenameMisses
<1>10. ASSUME NEW p \in Procs, PutBack(p) PROVE ProbedAreDead'
  BY <1>10 DEF PutBack
<1>11. ASSUME NEW p \in Procs, Purge(p) PROVE ProbedAreDead'
  BY <1>11 DEF Purge
<1>12. ASSUME NEW p \in Procs, Release(p) PROVE ProbedAreDead'
  BY <1>12 DEF Release
<1>13. ASSUME NEW p \in Procs, Unlink(p) PROVE ProbedAreDead'
  BY <1>13 DEF Unlink
<1>14. ASSUME NEW p \in Procs, Crash(p) PROVE ProbedAreDead'
  BY <1>14 DEF Crash
<1>15. CASE UNCHANGED vars
  BY <1>15 DEF vars
<1> QED
  BY <1>1, <1>2, <1>3, <1>4, <1>5, <1>6, <1>7, <1>8, <1>9, <1>10, <1>11, <1>12, <1>13, <1>14, <1>15 DEF Next, Step, Acquisition, Reclaim

(* Renames and put-backs move a file, a purge retires it, and the file a   *)
(* link creates is none of those in quarantine or retired (Known).         *)
LEMMA OnePlaceStep == IInv /\ [Next]_vars => OnePlace'
<1> SUFFICES ASSUME IInv, [Next]_vars PROVE OnePlace'
  OBVIOUS
<1> USE ProcsAssumption, NoFileAssumption DEF TypeOK, Files, FileOrNone, Labels, Goto, IInv, Known, ProbedAreDead, OnePlace, NextFile
<1>1. ASSUME NEW p \in Procs, Attempt(p) PROVE OnePlace'
  BY <1>1 DEF Attempt, LinkSucceeds, LinkFails
<1>2. ASSUME NEW p \in Procs, Relink(p) PROVE OnePlace'
  BY <1>2 DEF Relink, LinkSucceeds, LinkFails
<1>3. ASSUME NEW p \in Procs, Snapshot(p) PROVE OnePlace'
  BY <1>3 DEF Snapshot
<1>4. ASSUME NEW p \in Procs, ProbeAbsent(p) PROVE OnePlace'
  BY <1>4 DEF ProbeAbsent
<1>5. ASSUME NEW p \in Procs, ProbeHeld(p) PROVE OnePlace'
  BY <1>5 DEF ProbeHeld
<1>6. ASSUME NEW p \in Procs, ProbeStale(p) PROVE OnePlace'
  BY <1>6 DEF ProbeStale
<1>7. ASSUME NEW p \in Procs, Recheck(p) PROVE OnePlace'
  BY <1>7 DEF Recheck
<1>8. ASSUME NEW p \in Procs, Rename(p) PROVE OnePlace'
  BY <1>8 DEF Rename
<1>9. ASSUME NEW p \in Procs, RenameMisses(p) PROVE OnePlace'
  BY <1>9 DEF RenameMisses
<1>10. ASSUME NEW p \in Procs, PutBack(p) PROVE OnePlace'
  BY <1>10 DEF PutBack
<1>11. ASSUME NEW p \in Procs, Purge(p) PROVE OnePlace'
  BY <1>11 DEF Purge
<1>12. ASSUME NEW p \in Procs, Release(p) PROVE OnePlace'
  BY <1>12 DEF Release
<1>13. ASSUME NEW p \in Procs, Unlink(p) PROVE OnePlace'
  BY <1>13 DEF Unlink
<1>14. ASSUME NEW p \in Procs, Crash(p) PROVE OnePlace'
  BY <1>14 DEF Crash
<1>15. CASE UNCHANGED vars
  BY <1>15 DEF vars
<1> QED
  BY <1>1, <1>2, <1>3, <1>4, <1>5, <1>6, <1>7, <1>8, <1>9, <1>10, <1>11, <1>12, <1>13, <1>14, <1>15 DEF Next, Step, Acquisition, Reclaim

(* The step that matters is the rename: it takes the path away from nobody *)
(* when it takes the verified file, since no process that is linked owns a *)
(* dead process's file.                                                    *)
LEMMA AgreementStep == IInv /\ [Next]_vars => Agreement'
<1> SUFFICES ASSUME IInv, [Next]_vars PROVE Agreement'
  OBVIOUS
<1> USE ProcsAssumption, NoFileAssumption DEF TypeOK, Files, FileOrNone, Labels, Goto, IInv, ProbedAreDead, OnePlace, Agreement, Linked, Holding, MyFile, Alive, Owner, NextFile
<1>1. ASSUME NEW p \in Procs, Attempt(p) PROVE Agreement'
  BY <1>1 DEF Attempt, LinkSucceeds, LinkFails
<1>2. ASSUME NEW p \in Procs, Relink(p) PROVE Agreement'
  BY <1>2 DEF Relink, LinkSucceeds, LinkFails
<1>3. ASSUME NEW p \in Procs, Snapshot(p) PROVE Agreement'
  BY <1>3 DEF Snapshot
<1>4. ASSUME NEW p \in Procs, ProbeAbsent(p) PROVE Agreement'
  BY <1>4 DEF ProbeAbsent
<1>5. ASSUME NEW p \in Procs, ProbeHeld(p) PROVE Agreement'
  BY <1>5 DEF ProbeHeld
<1>6. ASSUME NEW p \in Procs, ProbeStale(p) PROVE Agreement'
  BY <1>6 DEF ProbeStale
<1>7. ASSUME NEW p \in Procs, Recheck(p) PROVE Agreement'
  BY <1>7 DEF Recheck
<1>8. ASSUME NEW p \in Procs, Rename(p) PROVE Agreement'
  <2>1. CASE path # probed[p]
    BY <1>8, <2>1 DEF Rename
  <2>2. CASE path = probed[p]
    <3>1. path # NoFile /\ pc[path[1]] = "dead" /\ displaced' = displaced /\ path' = NoFile
      BY <1>8, <2>2 DEF Rename
    <3>2. pc' = [pc EXCEPT ![p] = "purge"] /\ pc[p] = "rename" /\ UNCHANGED <<own, made>>
      BY <1>8, <2>2 DEF Rename
    <3>3. ASSUME displaced = {}, NEW q \in Procs PROVE ~Linked(q)
      <4>1. Linked(q) => path = <<q, made[q]>>
        BY <3>3
      <4>2. Linked(q) => pc[q] # "dead"
        OBVIOUS
      <4> QED
        BY <3>1, <4>1, <4>2
    <3>4. \A q \in Procs : (pc[q] = "held" <=> pc'[q] = "held") /\ (pc[q] = "unlink" <=> pc'[q] = "unlink")
      BY <3>2
    <3>5. \A q \in Procs : Linked(q)' => Linked(q)
      BY <3>2, <3>4
    <3>6. \A q \in Procs : pc'[q] = "putback" => pc[q] = "putback"
      BY <3>2
    <3> QED
      BY <3>1, <3>2, <3>3, <3>4, <3>5, <3>6
  <2> QED
    BY <2>1, <2>2
<1>9. ASSUME NEW p \in Procs, RenameMisses(p) PROVE Agreement'
  BY <1>9 DEF RenameMisses
<1>10. ASSUME NEW p \in Procs, PutBack(p) PROVE Agreement'
  BY <1>10 DEF PutBack
<1>11. ASSUME NEW p \in Procs, Purge(p) PROVE Agreement'
  BY <1>11 DEF Purge
<1>12. ASSUME NEW p \in Procs, Release(p) PROVE Agreement'
  <2>1. CASE path = own[p]
    BY <1>12, <2>1 DEF Release
  <2>2. CASE path # own[p]
    <3>1. Holding(p)
      BY <1>12 DEF Release
    <3>2. displaced # {}
      BY <2>2, <3>1
    <3>3. displaced' # {}
      BY <1>12, <3>2 DEF Release
    <3>4. /\ pc' = [pc EXCEPT ![p] = "idle"]
          /\ own' = [own EXCEPT ![p] = NoFile]
      BY <1>12, <2>2 DEF Release
    <3> HIDE DEF Linked, Holding
    <3> QED
      BY <3>3, <3>4
  <2> QED
    BY <2>1, <2>2
<1>13. ASSUME NEW p \in Procs, Unlink(p) PROVE Agreement'
  BY <1>13 DEF Unlink
<1>14. ASSUME NEW p \in Procs, Crash(p) PROVE Agreement'
  BY <1>14 DEF Crash
<1>15. CASE UNCHANGED vars
  BY <1>15 DEF vars
<1> QED
  BY <1>1, <1>2, <1>3, <1>4, <1>5, <1>6, <1>7, <1>8, <1>9, <1>10, <1>11, <1>12, <1>13, <1>14, <1>15 DEF Next, Step, Acquisition, Reclaim

(* The two halves of the inductive argument, and the invariant itself.     *)
LEMMA InitIInv == Init => IInv
  BY ProcsAssumption, NoFileAssumption
  DEF Init, IInv, TypeOK, Known, ProbedAreDead, OnePlace, Agreement, Files, FileOrNone,
      Labels, Linked, Holding, MyFile, Alive, Owner

LEMMA NextIInv == IInv /\ [Next]_vars => IInv'
  BY TypeStep, KnownStep, ProbedStep, OnePlaceStep, AgreementStep DEF IInv

THEOREM Inductive == Spec => []IInv
  BY InitIInv, NextIInv, PTL DEF Spec

-----------------------------------------------------------------------------
(* The state of the lock file keeps its shape.                             *)
THEOREM TypeCorrect == Spec => []TypeOK
<1>1. IInv => TypeOK
  BY DEF IInv
<1> QED
  BY <1>1, Inductive, PTL

(* As long as no reclaimer's rename took a file it had not verified, two   *)
(* processes never hold the lock, the file at the path is the holder's,    *)
(* and a release unlinks that file only.                                   *)
THEOREM Exclusive == Spec => []ExclusiveUnlessDisplaced
<1>1. IInv => ExclusiveUnlessDisplaced
  <2> SUFFICES ASSUME IInv, displaced = {} PROVE
        /\ MutualExclusion
        /\ \A p \in Procs : Holding(p) => path = own[p] /\ own[p] = MyFile(p)
    BY DEF ExclusiveUnlessDisplaced
  <2>1. \A p \in Procs : Holding(p) => path = MyFile(p) /\ own[p] = MyFile(p)
    BY DEF IInv, Agreement, Linked
  <2>2. MutualExclusion
    BY <2>1 DEF MutualExclusion, MyFile
  <2> QED
    BY <2>1, <2>2
<1> QED
  BY <1>1, Inductive, PTL

(* ... and a live process's file is at the path only while that process    *)
(* uses it.                                                                *)
THEOREM NoOrphan == Spec => []NoOrphanUnlessDisplaced
<1>1. IInv => NoOrphanUnlessDisplaced
  BY DEF IInv, Agreement, NoOrphanUnlessDisplaced
<1> QED
  BY <1>1, Inductive, PTL

(* Only a dead holder's file is reported as reclaimed, once, and for good, *)
(* whether or not another file was displaced.                              *)
THEOREM Reclaimed == Spec => []ReclaimedOnce
<1>1. IInv => ReclaimedOnce
  BY DEF IInv, OnePlace, ProbedAreDead, ReclaimedOnce
<1> QED
  BY <1>1, Inductive, PTL

-----------------------------------------------------------------------------
(* When the promise itself holds *)

(* One reclaimer at a time between its second read and its rename: what    *)
(* the quarantine dance has instead of a lock of its own.                  *)
OneReclaims == \A p, q \in Procs : pc[p] = "rename" /\ pc[q] = "rename" => p = q

(* Then the file that was verified is still there to be renamed.           *)
Undisturbed ==
  /\ displaced = {}
  /\ \A p \in Procs : pc[p] = "rename" => path = probed[p]

(* A verified file has a dead owner, so no release unlinks it (a release   *)
(* unlinks the file of the process that is linked), nobody links over it,  *)
(* and only a reclaimer at its own rename can take it.                     *)
LEMMA UndisturbedStep ==
  IInv /\ OneReclaims /\ OneReclaims' /\ Undisturbed /\ [Next]_vars => Undisturbed'
<1> SUFFICES ASSUME IInv, OneReclaims, OneReclaims', Undisturbed, [Next]_vars PROVE Undisturbed'
  OBVIOUS
<1> USE ProcsAssumption, NoFileAssumption DEF TypeOK, Files, FileOrNone, Labels, Goto, IInv, Undisturbed
<1>1. ASSUME NEW p \in Procs, Attempt(p) \/ Relink(p) PROVE Undisturbed'
  BY <1>1 DEF Attempt, Relink, LinkSucceeds, LinkFails, ProbedAreDead
<1>2. ASSUME NEW p \in Procs, Snapshot(p) \/ ProbeAbsent(p) \/ ProbeHeld(p) \/ ProbeStale(p)
      PROVE Undisturbed'
  BY <1>2 DEF Snapshot, ProbeAbsent, ProbeHeld, ProbeStale
<1>3. ASSUME NEW p \in Procs, Recheck(p) PROVE Undisturbed'
  BY <1>3 DEF Recheck
<1>4. ASSUME NEW p \in Procs, Rename(p) \/ RenameMisses(p) PROVE Undisturbed'
  BY <1>4 DEF Rename, RenameMisses, OneReclaims
<1>5. ASSUME NEW p \in Procs, PutBack(p) PROVE Undisturbed'
  BY <1>5 DEF PutBack, Agreement
<1>6. ASSUME NEW p \in Procs, Purge(p) PROVE Undisturbed'
  BY <1>6 DEF Purge
<1>7. ASSUME NEW p \in Procs, Release(p) PROVE Undisturbed'
  BY <1>7 DEF Release
<1>8. ASSUME NEW p \in Procs, Unlink(p) PROVE Undisturbed'
  <2>1. path = <<p, made[p]>> /\ pc[p] # "dead"
    BY <1>8 DEF Unlink, Agreement, Linked, Holding, MyFile
  <2>2. \A q \in Procs : pc[q] = "rename" => pc[probed[q][1]] = "dead"
    BY DEF ProbedAreDead, Alive, Owner
  <2>3. \A q \in Procs : pc[q] # "rename"
    BY <2>1, <2>2
  <2> QED
    BY <1>8, <2>3 DEF Unlink
<1>9. ASSUME NEW p \in Procs, Crash(p) PROVE Undisturbed'
  BY <1>9 DEF Crash
<1>10. CASE UNCHANGED vars
  BY <1>10 DEF vars
<1> QED
  BY <1>1, <1>2, <1>3, <1>4, <1>5, <1>6, <1>7, <1>8, <1>9, <1>10 DEF Next, Step, Acquisition, Reclaim

(* The promise of file-lock.ts's header, under the condition it needs: if  *)
(* no two processes are ever both past the second read of a reclaim, two   *)
(* processes never hold the lock at once, whoever dies and whenever.       *)
THEOREM ExclusiveIfOneReclaims == Spec /\ []OneReclaims => []MutualExclusion
<1>1. Init => Undisturbed
  BY ProcsAssumption DEF Init, Undisturbed
<1>2. IInv /\ Undisturbed => MutualExclusion
  BY DEF IInv, Undisturbed, Agreement, Linked, MutualExclusion, MyFile
<1> QED
  BY <1>1, <1>2, UndisturbedStep, Inductive, PTL DEF Spec

(* ... and with nobody dead before or during the behaviour, there is       *)
(* nothing to reclaim and the promise holds as it stands.                  *)
THEOREM ExclusiveIfNobodyDies ==
  ASSUME Gone = {}, MaxCrashes = 0
  PROVE  Spec => []MutualExclusion
<1> DEFINE Living == crashes = 0 /\ \A p \in Procs : pc[p] # "dead"
<1>1. Init => Living
  BY DEF Init
<1>2. ASSUME IInv, Living, [Next]_vars PROVE Living'
  <2> USE ProcsAssumption DEF IInv, TypeOK, Labels, Goto
  <2>1. ASSUME NEW p \in Procs, Acquisition(p) PROVE Living'
    BY <1>2, <2>1 DEF Acquisition, Attempt, Relink, LinkSucceeds, LinkFails, Snapshot,
                      ProbeAbsent, ProbeHeld, ProbeStale
  <2>2. ASSUME NEW p \in Procs, Reclaim(p) PROVE Living'
    BY <1>2, <2>2 DEF Reclaim, Recheck, Rename, RenameMisses, PutBack, Purge
  <2>3. ASSUME NEW p \in Procs, Release(p) \/ Unlink(p) PROVE Living'
    BY <1>2, <2>3 DEF Release, Unlink
  <2>4. ASSUME NEW p \in Procs, Crash(p) PROVE FALSE
    BY <1>2, <2>4 DEF Crash
  <2>5. CASE UNCHANGED vars
    BY <1>2, <2>5 DEF vars
  <2> QED
    BY <1>2, <2>1, <2>2, <2>3, <2>4, <2>5 DEF Next, Step
<1>3. IInv /\ Living => OneReclaims
  BY NoFileAssumption DEF IInv, TypeOK, FileOrNone, Files, ProbedAreDead, Alive, Owner, OneReclaims
<1> HIDE DEF Living
<1>4. Spec => []OneReclaims
  BY <1>1, <1>2, <1>3, Inductive, PTL DEF Spec
<1> QED
  BY <1>4, ExclusiveIfOneReclaims, PTL

-----------------------------------------------------------------------------
(* Refinement *)

(* The holders change only where a process takes or gives up the lock.     *)
LEMMA HoldersStep ==
  ASSUME NEW p \in Procs, TypeOK, pc' \in [Procs -> Labels], own' \in [Procs -> FileOrNone],
         \A q \in Procs \ {p} : pc'[q] = pc[q] /\ own'[q] = own[q]
  PROVE  /\ Holding(p)' /\ ~Holding(p) => holders' = holders \cup {p}
         /\ ~Holding(p)' /\ Holding(p) => holders' = holders \ {p}
         /\ (Holding(p)' <=> Holding(p)) => holders' = holders
<1>1. \A q \in Procs \ {p} : Holding(q)' <=> Holding(q)
  BY DEF Holding
<1> QED
  BY <1>1 DEF holders

(* Only p's program counter and ownership change in a step of p, and only  *)
(* its rename, which leaves the holders alone, displaces a file.           *)
LEMMA OthersKeep ==
  ASSUME IInv, NEW p \in Procs, Step(p) \/ Crash(p)
  PROVE  /\ \A q \in Procs \ {p} : pc'[q] = pc[q] /\ own'[q] = own[q]
         /\ displaced' # displaced => displaced' # {} /\ pc[p] = "rename" /\ pc'[p] \notin {"held", "unlink"}
         /\ pc'[p] = "held" => pc[p] = "snapshot"
         /\ pc'[p] = "unlink" /\ own'[p] # NoFile => pc[p] = "held" /\ own[p] = own'[p]
<1> USE ProcsAssumption, NoFileAssumption
    DEF IInv, TypeOK, ProbedAreDead, Agreement, Linked, MyFile, Goto, Files, FileOrNone, Labels
<1>1. CASE Acquisition(p)
  BY <1>1 DEF Acquisition, Attempt, Relink, LinkSucceeds, LinkFails, Snapshot,
              ProbeAbsent, ProbeHeld, ProbeStale
<1>2. CASE Reclaim(p)
  BY <1>2 DEF Reclaim, Recheck, Rename, RenameMisses, PutBack, Purge
<1>3. CASE Release(p) \/ Unlink(p) \/ Crash(p)
  BY <1>3 DEF Release, Unlink, Crash
<1> QED
  BY <1>1, <1>2, <1>3 DEF Step

(* A step of FileLock is a step of RunLock or a stutter of it.             *)
LEMMA StepRefines == IInv /\ [Next]_vars => [Promise!Next]_(Promise!vars)
<1>1. ASSUME IInv, NEW p \in Procs, Step(p) \/ Crash(p) PROVE [Promise!Next]_(Promise!vars)
  <2>1. TypeOK /\ pc' \in [Procs -> Labels] /\ own' \in [Procs -> FileOrNone]
    BY <1>1, TypeStep DEF IInv, TypeOK, Next
  <2>2. /\ \A q \in Procs \ {p} : pc'[q] = pc[q] /\ own'[q] = own[q]
        /\ displaced' # displaced => displaced' # {} /\ pc[p] = "rename" /\ pc'[p] \notin {"held", "unlink"}
        /\ pc'[p] = "held" => pc[p] = "snapshot"
        /\ pc'[p] = "unlink" /\ own'[p] # NoFile => pc[p] = "held" /\ own[p] = own'[p]
    BY <1>1, OthersKeep
  <2>3. CASE displaced' # displaced
    <3>1. ~Holding(p) /\ ~Holding(p)'
      BY <2>2, <2>3 DEF Holding
    <3>2. holders' = holders
      BY <2>1, <2>2, <3>1, HoldersStep
    <3> QED
      BY <2>2, <2>3, <3>2 DEF Promise!Next, Promise!Compromise
  <2>4. CASE displaced' = displaced /\ (Holding(p)' <=> Holding(p))
    BY <2>1, <2>2, <2>4, HoldersStep DEF Promise!vars
  <2>5. CASE displaced' = displaced /\ Holding(p)' /\ ~Holding(p)
    <3>1. pc[p] = "snapshot"
      BY <2>2, <2>5 DEF Holding
    <3>2. displaced = {} => \A q \in Procs : Linked(q) => path = MyFile(q)
      BY <1>1 DEF IInv, Agreement
    <3>3. ASSUME displaced = {}, NEW q \in Procs PROVE ~Holding(q)
      BY <2>5, <3>1, <3>2, <3>3 DEF Linked, MyFile
    <3>4. displaced # {} \/ holders = {}
      BY <3>3 DEF holders
    <3>5. holders' = holders \cup {p} /\ p \notin holders
      BY <2>1, <2>2, <2>5, HoldersStep DEF holders
    <3> QED
      BY <2>5, <3>4, <3>5 DEF Promise!Next, Promise!Acquire
  <2>6. CASE displaced' = displaced /\ ~Holding(p)' /\ Holding(p)
    <3>1. holders' = holders \ {p} /\ p \in holders
      BY <2>1, <2>2, <2>6, HoldersStep DEF holders
    <3> QED
      BY <2>6, <3>1 DEF Promise!Next, Promise!Relinquish
  <2> QED
    BY <2>3, <2>4, <2>5, <2>6
<1>2. ASSUME UNCHANGED vars PROVE UNCHANGED Promise!vars
  BY <1>2 DEF vars, Promise!vars, holders, Holding
<1> QED
  BY <1>1, <1>2 DEF Next

(* The lock file implements the lock its callers assume: exclusive, and    *)
(* free again when the holder releases it or dies, until a reclaimer       *)
(* displaces a file it had not verified.                                   *)
THEOREM Refinement == Spec => ImplementsRunLock
<1>1. Init => Promise!Init
  BY DEF Init, Promise!Init, holders, Holding
<1> QED
  BY <1>1, StepRefines, Inductive, PTL DEF Spec, ImplementsRunLock, Promise!Spec
=============================================================================
