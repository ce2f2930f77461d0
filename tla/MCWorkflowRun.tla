--------------------------- MODULE MCWorkflowRun ---------------------------
EXTENDS WorkflowRun, TLC

CONSTANTS u, v

FanOut == (1 :> {u, v}) @@ (2 :> {u})
OneLoop == (1 :> 1) @@ (2 :> 1)
TwoLoops == (1 :> 1) @@ (2 :> 2)
=============================================================================
