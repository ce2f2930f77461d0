--------------------------- MODULE MCSchedulerSync ---------------------------
(* Instances of SchedulerSync: two installations whose working stashes have   *)
(* one name.  The first one predates scheduler.enabled, and has another       *)
(* bundle with a task of the same name.                                       *)
EXTENDS SchedulerSync, TLC
CONSTANTS a, b, home, team, t, u
MCBundlesOf == (a :> {home, team}) @@ (b :> {home})
MCPrimary == (a :> home) @@ (b :> home)
MCFiles == [s \in Sources |-> IF s \in {<<a, home, u>>} \cup (Insts \X Bundles \X {t}) THEN "v1" ELSE "absent"]
MCRows == [n \in {t, u} |-> [inst |-> a, bundle |-> home, ver |-> "v1"]]
MCEnabled == (a :> None) @@ (b :> {})
=============================================================================
