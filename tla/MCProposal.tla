----------------------------- MODULE MCProposal -----------------------------
(* Instances of Proposal: a memory with its .derived twin and the note that *)
(* may replace it.                                                          *)
EXTENDS Proposal, TLC
CONSTANTS w, r, old, twin, note
MCTarget == (w :> old) @@ (r :> old)
MCSuccessor == r :> note
MCTwin == (old :> twin) @@ (twin :> None) @@ (note :> None)
=============================================================================
