---------------------------- MODULE MCThreadLife ----------------------------
(* A thread of each kind beside the idle thread: a dynamic and a static one  *)
(* that are deleted, and one that sleeps.  One is not started at first.      *)
EXTENDS ThreadLife

CONSTANTS high, mid, low, idle, gate

MCPrio == (high :> 0) @@ (mid :> 1) @@ (low :> 1) @@ (idle :> 2)
MCReady == (0 :> <<high>>) @@ (1 :> <<low>>) @@ (2 :> <<idle>>)
=============================================================================
