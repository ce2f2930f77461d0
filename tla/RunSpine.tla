------------------------------ MODULE RunSpine ------------------------------
(***************************************************************************)
(* What a workflow run promises to whoever watches it (`akm workflow       *)
(* status', a scheduled task, a parent run): a cursor that only moves      *)
(* forward over the frozen steps, one step at a time and only while the    *)
(* run is active, that a stop keeps where it is and a resume picks up from *)
(* there, until the run completes for good.                                *)
(***************************************************************************)
EXTENDS Naturals

CONSTANT N   \* the number of steps of the frozen plan

VARIABLES status, done

vars == <<status, done>>

Init == status = "active" /\ done = 0

(* The current step completes; after the last one the run is completed.    *)
Advance ==
  /\ status = "active"
  /\ done < N
  /\ done' = done + 1
  /\ status' = IF done' = N THEN "completed" ELSE "active"

(* The current step fails or is blocked, or the run is abandoned.          *)
Stop ==
  /\ status \in {"active", "blocked"}
  /\ status' \in {"blocked", "failed"} \ {status}
  /\ UNCHANGED done

(* akm workflow resume                                                     *)
Reopen ==
  /\ status \in {"blocked", "failed"}
  /\ status' = "active"
  /\ UNCHANGED done

Next == Advance \/ Stop \/ Reopen

Spec == Init /\ [][Next]_vars
=============================================================================
