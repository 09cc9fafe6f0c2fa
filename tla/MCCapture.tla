------------------------------ MODULE MCCapture ------------------------------
EXTENDS Capture, TLC

CONSTANTS p1, p2, h1, h2, t1

\* An executed file goes before one the baseline found.
MCPriority == (p1 :> 1) @@ (p2 :> 5)
MCPriorityOne == p1 :> 1
=============================================================================
