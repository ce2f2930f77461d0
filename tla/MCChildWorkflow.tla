---------------------------- MODULE MCChildWorkflow ----------------------------
(* Instances of ChildWorkflow: a root that composes a child, which composes a *)
(* grandchild.                                                                *)
EXTENDS ChildWorkflow, TLC
CONSTANTS p, q, root, child, grandchild
MCParent == (child :> root) @@ (grandchild :> child)
MCStep == (child :> 1) @@ (grandchild :> 1)
MCLen == (root :> 2) @@ (child :> 1) @@ (grandchild :> 1)
================================================================================
