------------------------------ MODULE FileLock ------------------------------
(***************************************************************************)
(* PID-stamped lock files: core/file-lock.ts at the grain of its file      *)
(* system calls, driven by the two acquisition policies built on it,       *)
(* tryAcquireRunLock (core/run-lock.ts) and the waiting asset-mutation     *)
(* lease (indexer/index-writer-lock.ts).                                   *)
(*                                                                         *)
(* A file is <<owner, n>>: the n-th lock file its owner linked into place. *)
(* The random lockId in the payload makes every such file distinct, so the *)
(* code's comparison of content and identity is equality here.  A private  *)
(* name (the .tmp- file, the .stale- quarantine) is seen by its owner only *)
(* and two calls that touch nothing but private names are one step.        *)
(***************************************************************************)
EXTENDS Naturals, FiniteSets

CONSTANTS
  Procs,        \* the processes that use the lock, the dead ones included
  Waiters,      \* those that acquire through the waiting lease loop
  Gone,         \* processes that had died before the behaviour starts
  NoFile,       \* "no such file"
  MaxLocks,     \* bound: lock files one process may create
  MaxCrashes    \* bound: processes that die during the behaviour

ASSUME ProcsAssumption == Waiters \subseteq Procs /\ Gone \subseteq Procs
ASSUME NoFileAssumption == NoFile \notin Procs \X Nat
ASSUME BoundsAssumption == MaxLocks \in Nat /\ MaxCrashes \in Nat

VARIABLES
  path,        \* the file at the lock path
  quarantine,  \* the file each process holds under its private .stale- name
  probed,      \* the snapshot reclaimStaleLock compares against
  own,         \* the LockOwnership each process was handed
  made,        \* how many lock files each process has linked
  pc,          \* where each process is
  crashes,
  displaced,   \* history: files a rename took though they were not the probed one
  reclaimed    \* history: stale files reported as reclaimed

vars == <<path, quarantine, probed, own, made, pc, crashes, displaced, reclaimed>>

Files == Procs \X Nat
FileOrNone == Files \cup {NoFile}
Owner(f) == f[1]

Labels == {"idle", "snapshot", "held", "probe", "recheck", "rename", "purge",
           "putback", "relink", "unlink", "dead"}

TypeOK ==
  /\ path \in FileOrNone
  /\ quarantine \in [Procs -> FileOrNone]
  /\ probed \in [Procs -> FileOrNone]
  /\ own \in [Procs -> FileOrNone]
  /\ made \in [Procs -> Nat]
  /\ pc \in [Procs -> Labels]
  /\ crashes \in Nat
  /\ displaced \subseteq Files
  /\ reclaimed \subseteq Files

(* isProcessAlive: signal 0 reaches the pid.  A pid is not reused.         *)
Alive(p) == pc[p] # "dead"

(* The file p would link next, and the last one it did link.               *)
NextFile(p) == <<p, made[p] + 1>>
MyFile(p) == <<p, made[p]>>

Goto(p, label) == pc' = [pc EXCEPT ![p] = label]

(* A dead process may have left its lock file behind.                      *)
Init ==
  /\ path \in {NoFile} \cup {<<q, 0>> : q \in Gone}
  /\ quarantine = [p \in Procs |-> NoFile]
  /\ probed = [p \in Procs |-> NoFile]
  /\ own = [p \in Procs |-> NoFile]
  /\ made = [p \in Procs |-> 0]
  /\ pc = [p \in Procs |-> IF p \in Gone THEN "dead" ELSE "idle"]
  /\ crashes = 0
  /\ displaced = {}
  /\ reclaimed = {}

-----------------------------------------------------------------------------
(* tryAcquireLockSync *)

(* Faulty: the new file replaces whatever is at the path.                  *)
LinkSucceeds_overwrites(p) ==
  /\ path' = NextFile(p)
  /\ made' = [made EXCEPT ![p] = @ + 1]
  /\ Goto(p, "snapshot")
  /\ UNCHANGED <<quarantine, probed, own, crashes, displaced, reclaimed>>

(* linkSync(tmp, lockPath): the exclusive step.                            *)
LinkSucceeds(p) ==
  /\ path = NoFile
  /\ path' = NextFile(p)
  /\ made' = [made EXCEPT ![p] = @ + 1]
  /\ Goto(p, "snapshot")
  /\ UNCHANGED <<quarantine, probed, own, crashes, displaced, reclaimed>>

(* EEXIST: the caller decides what to do next.                             *)
LinkFails(p, next) ==
  /\ path # NoFile
  /\ Goto(p, next)
  /\ UNCHANGED <<path, quarantine, probed, own, made, crashes, displaced, reclaimed>>

(* The first attempt of an acquisition.                                    *)
Attempt(p) ==
  /\ pc[p] = "idle"
  /\ made[p] < MaxLocks
  /\ LinkSucceeds(p) \/ LinkFails(p, "probe")

(* The attempt after an absent probe or a successful reclaim.  The lease   *)
(* loop probes again when it loses the race; the run lock reports "held".  *)
Relink(p) ==
  /\ pc[p] = "relink"
  /\ LinkSucceeds(p) \/ LinkFails(p, IF p \in Waiters THEN "probe" ELSE "idle")

(* readLockSnapshot(lockPath) after the link: whatever file is there now   *)
(* becomes the ownership record; no file at all is an error.               *)
Snapshot(p) ==
  /\ pc[p] = "snapshot"
  /\ \/ /\ path # NoFile
        /\ own' = [own EXCEPT ![p] = path]
        /\ Goto(p, "held")
     \/ /\ path = NoFile
        /\ Goto(p, "unlink")
        /\ UNCHANGED own
  /\ UNCHANGED <<path, quarantine, probed, made, crashes, displaced, reclaimed>>

-----------------------------------------------------------------------------
(* probeLock *)

ProbeAbsent(p) ==
  /\ pc[p] = "probe"
  /\ path = NoFile
  /\ Goto(p, IF p \in Waiters THEN "idle" ELSE "relink")
  /\ UNCHANGED <<path, quarantine, probed, own, made, crashes, displaced, reclaimed>>

ProbeHeld(p) ==
  /\ pc[p] = "probe"
  /\ path # NoFile
  /\ Alive(Owner(path))
  /\ Goto(p, "idle")
  /\ UNCHANGED <<path, quarantine, probed, own, made, crashes, displaced, reclaimed>>

(* Faulty: a live holder's lock expires.                                   *)
ProbeStale_expired(p) ==
  /\ pc[p] = "probe"
  /\ path # NoFile
  /\ probed' = [probed EXCEPT ![p] = path]
  /\ Goto(p, "recheck")
  /\ UNCHANGED <<path, quarantine, own, made, crashes, displaced, reclaimed>>

ProbeStale(p) ==
  /\ pc[p] = "probe"
  /\ path # NoFile
  /\ ~Alive(Owner(path))
  /\ probed' = [probed EXCEPT ![p] = path]
  /\ Goto(p, "recheck")
  /\ UNCHANGED <<path, quarantine, own, made, crashes, displaced, reclaimed>>

-----------------------------------------------------------------------------
(* reclaimStaleLock *)

(* Faulty: the second read never matches.                                  *)
Recheck_gives_up(p) ==
  /\ pc[p] = "recheck"
  /\ Goto(p, "idle")
  /\ probed' = [probed EXCEPT ![p] = NoFile]
  /\ UNCHANGED <<path, quarantine, own, made, crashes, displaced, reclaimed>>

(* The second read, which must still find the probed file.                 *)
Recheck(p) ==
  /\ pc[p] = "recheck"
  /\ \/ path = probed[p] /\ Goto(p, "rename") /\ UNCHANGED probed
     \/ path # probed[p] /\ Goto(p, "idle") /\ probed' = [probed EXCEPT ![p] = NoFile]
  /\ UNCHANGED <<path, quarantine, own, made, crashes, displaced, reclaimed>>

(* Faulty: the file is copied aside, or taken without being quarantined.   *)
Rename_copies(p) ==
  /\ pc[p] = "rename"
  /\ path # NoFile
  /\ quarantine' = [quarantine EXCEPT ![p] = path]
  /\ Goto(p, IF path = probed[p] THEN "purge" ELSE "putback")
  /\ UNCHANGED <<path, probed, own, made, crashes, displaced, reclaimed>>
Rename_drops(p) ==
  /\ pc[p] = "rename"
  /\ path # NoFile
  /\ path' = NoFile
  /\ Goto(p, "purge")
  /\ UNCHANGED <<quarantine, probed, own, made, crashes, displaced, reclaimed>>

(* renameSync takes whatever file is at the path by now; the quarantined   *)
(* file is then compared with the probed one.                              *)
Rename(p) ==
  /\ pc[p] = "rename"
  /\ path # NoFile
  /\ quarantine' = [quarantine EXCEPT ![p] = path]
  /\ path' = NoFile
  /\ Goto(p, IF path = probed[p] THEN "purge" ELSE "putback")
  /\ displaced' = IF path = probed[p] THEN displaced ELSE displaced \cup {path}
  /\ UNCHANGED <<probed, own, made, crashes, reclaimed>>

(* ENOENT: somebody else reclaimed it.                                     *)
RenameMisses(p) ==
  /\ pc[p] = "rename"
  /\ path = NoFile
  /\ probed' = [probed EXCEPT ![p] = NoFile]
  /\ Goto(p, "idle")
  /\ UNCHANGED <<path, quarantine, own, made, crashes, displaced, reclaimed>>

(* Not the probed file: link it back.  EEXIST is swallowed, and the        *)
(* quarantined file is dropped in either case.                             *)
PutBack(p) ==
  /\ pc[p] = "putback"
  /\ path' = IF path = NoFile THEN quarantine[p] ELSE path
  /\ quarantine' = [quarantine EXCEPT ![p] = NoFile]
  /\ probed' = [probed EXCEPT ![p] = NoFile]
  /\ Goto(p, "idle")
  /\ UNCHANGED <<own, made, crashes, displaced, reclaimed>>

(* The verified stale file is unlinked and the reclaim is reported.        *)
Purge(p) ==
  /\ pc[p] = "purge"
  /\ reclaimed' = reclaimed \cup {quarantine[p]}
  /\ quarantine' = [quarantine EXCEPT ![p] = NoFile]
  /\ probed' = [probed EXCEPT ![p] = NoFile]
  /\ Goto(p, "relink")
  /\ UNCHANGED <<path, own, made, crashes, displaced>>

-----------------------------------------------------------------------------
(* releaseLock, and the death of a process *)

(* The read that decides whether the file is still the owner's.            *)
Release(p) ==
  /\ pc[p] = "held"
  /\ \/ path = own[p] /\ Goto(p, "unlink") /\ UNCHANGED own
     \/ path # own[p] /\ Goto(p, "idle") /\ own' = [own EXCEPT ![p] = NoFile]
  /\ UNCHANGED <<path, quarantine, probed, made, crashes, displaced, reclaimed>>

(* Faulty: the release forgets the file.                                   *)
Unlink_keeps(p) ==
  /\ pc[p] = "unlink"
  /\ own' = [own EXCEPT ![p] = NoFile]
  /\ Goto(p, "idle")
  /\ UNCHANGED <<path, quarantine, probed, made, crashes, displaced, reclaimed>>

(* unlinkSync(lockPath): by name, whatever file that is.                   *)
Unlink(p) ==
  /\ pc[p] = "unlink"
  /\ path' = NoFile
  /\ own' = [own EXCEPT ![p] = NoFile]
  /\ Goto(p, "idle")
  /\ UNCHANGED <<quarantine, probed, made, crashes, displaced, reclaimed>>

(* Any step of any process may be its last; its files stay.                *)
Crash(p) ==
  /\ Alive(p)
  /\ crashes < MaxCrashes
  /\ crashes' = crashes + 1
  /\ own' = [own EXCEPT ![p] = NoFile]
  /\ Goto(p, "dead")
  /\ UNCHANGED <<path, quarantine, probed, made, displaced, reclaimed>>

Acquisition(p) ==
  \/ Attempt(p) \/ Relink(p) \/ Snapshot(p)
  \/ ProbeAbsent(p) \/ ProbeHeld(p) \/ ProbeStale(p)
Reclaim(p) == Recheck(p) \/ Rename(p) \/ RenameMisses(p) \/ PutBack(p) \/ Purge(p)
Step(p) == Acquisition(p) \/ Reclaim(p) \/ Release(p) \/ Unlink(p)

Next == \E p \in Procs : Step(p) \/ Crash(p)

Spec == Init /\ [][Next]_vars

(* Every call is synchronous: a process that is alive keeps executing its  *)
(* call, and the schedulers and waiters that use the lock keep trying.     *)
Fairness == \A p \in Procs : WF_vars(Step(p))
FairSpec == Spec /\ Fairness

-----------------------------------------------------------------------------
(* Properties *)

(* Between the snapshot and the unlink p acts as the owner of the lock.    *)
Holding(p) == pc[p] \in {"held", "unlink"} /\ own[p] # NoFile
(* p's link succeeded and its release has not unlinked the file yet.       *)
Linked(p) == pc[p] = "snapshot" \/ Holding(p)

(* The promise of the module header (file-lock.ts:4-14) and of the test    *)
(* "a stale probe cannot displace a newer owner while a third process      *)
(* contends": two processes never hold the lock at once.                   *)
MutualExclusion == \A p, q \in Procs : Holding(p) /\ Holding(q) => p = q

(* What the code guarantees of it: as long as no rename took a file other  *)
(* than the one its reclaimer had verified, there is one holder, the file  *)
(* at the path is the holder's own, and a release about to unlink will     *)
(* unlink that file and not another process's.                             *)
ExclusiveUnlessDisplaced ==
  displaced = {} =>
    /\ MutualExclusion
    /\ \A p \in Procs : Holding(p) => path = own[p] /\ own[p] = MyFile(p)

(* A live process's file is at the path only while that process is using   *)
(* it: nobody is refused for a lock that no one will ever release          *)
(* (a dead owner's file is reclaimable, a live owner's never is).          *)
NoOrphanUnlessDisplaced ==
  displaced = {} /\ path # NoFile /\ Alive(Owner(path)) =>
    Linked(Owner(path)) /\ path = MyFile(Owner(path))

(* "only a verifiably dead holder is ever reclaimed", and "two reclaimers  *)
(* cannot both win the same stale lock": a reported file had a dead owner, *)
(* is not about to be reported again, and never returns to the path.       *)
ReclaimedOnce ==
  /\ \A f \in reclaimed : ~Alive(Owner(f)) /\ path # f
  /\ \A p \in Procs : pc[p] = "purge" =>
       /\ quarantine[p] \notin reclaimed
       /\ ~Alive(Owner(quarantine[p]))
       /\ \A q \in Procs : quarantine[q] = quarantine[p] => q = p

(* Every behaviour of the lock file is one of the lock its callers assume. *)
holders == {p \in Procs : Holding(p)}
Promise == INSTANCE RunLock WITH holders <- holders, compromised <- displaced # {}
ImplementsRunLock == Promise!Spec

(* "a crashed engine never wedges a run": a dead owner's file does not     *)
(* stay at the path while some process is alive to try for the lock.       *)
Exhausted == \A p \in Procs : Alive(p) => made[p] >= MaxLocks
DeadLockRecovered ==
  \A p \in Procs :
    (path # NoFile /\ Owner(path) = p /\ ~Alive(p))
      ~> (path = NoFile \/ Alive(Owner(path)) \/ Exhausted)
=============================================================================
