----------------------------- MODULE MCMemPool -----------------------------
(* Three threads, two of them of one priority, beside the idle thread.      *)
EXTENDS MemPool

CONSTANTS high, mid, low, idle, mp

MCPrio == (high :> 0) @@ (mid :> 1) @@ (low :> 1) @@ (idle :> 2)
MCReady == (0 :> <<high>>) @@ (1 :> <<low, mid>>) @@ (2 :> <<idle>>)
Forever == {-1}
=============================================================================
