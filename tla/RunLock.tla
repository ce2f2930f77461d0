------------------------------ MODULE RunLock ------------------------------
(***************************************************************************)
(* What akm's lock files promise to their callers: the run lock of         *)
(* `akm workflow run`, the improve lock, the index rebuild lock, the       *)
(* scheduler lock and the asset-mutation lease all rely on this and on     *)
(* nothing else.                                                           *)
(*                                                                         *)
(* `holders' are the processes that believe they own the lock.  The lock   *)
(* is exclusive until it is `compromised': FileLock shows that the only    *)
(* way to get there is a reclaimer whose rename lands on a file other than *)
(* the one it verified.                                                    *)
(***************************************************************************)
EXTENDS Naturals

CONSTANT Procs

VARIABLES holders, compromised

vars == <<holders, compromised>>

Init == holders = {} /\ compromised = FALSE

(* A process may enter only an empty lock, unless exclusion is already     *)
(* broken.                                                                 *)
Acquire(p) ==
  /\ p \notin holders
  /\ compromised \/ holders = {}
  /\ holders' = holders \cup {p}
  /\ UNCHANGED compromised

(* The holder releases, or its process dies: the lock is free again.       *)
Relinquish(p) ==
  /\ p \in holders
  /\ holders' = holders \ {p}
  /\ UNCHANGED compromised

(* A reclaimer moved aside a lock file it had not probed.                  *)
Compromise ==
  /\ compromised' = TRUE
  /\ UNCHANGED holders

Next == Compromise \/ \E p \in Procs : Acquire(p) \/ Relinquish(p)

Spec == Init /\ [][Next]_vars
=============================================================================
