-------------------------- MODULE ProposalDecision --------------------------
(***************************************************************************)
(* What the proposal queue promises about decisions, whatever happens to   *)
(* the files they are about: a proposal is minted pending; a pending one   *)
(* is accepted or rejected; only a rejected one returns to the queue; only *)
(* an accepted one is reverted, and that is final.  One decision concerns  *)
(* one proposal.                                                           *)
(***************************************************************************)
CONSTANT Proposals

VARIABLE status

Init == status = [p \in Proposals |-> "none"]

Decide(p, from, to) == status[p] = from /\ status' = [status EXCEPT ![p] = to]

Next == \E p \in Proposals :
  \/ Decide(p, "none", "pending")
  \/ Decide(p, "pending", "accepted")
  \/ Decide(p, "pending", "rejected")
  \/ Decide(p, "rejected", "pending")
  \/ Decide(p, "accepted", "reverted")

Spec == Init /\ [][Next]_status
=============================================================================
