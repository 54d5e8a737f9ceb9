------------------------------ MODULE MCMutex ------------------------------
(* Three threads on three priorities beside the idle thread, one or two     *)
(* mutexes.                                                                 *)
EXTENDS Mutex

CONSTANTS high, mid, low, idle, mx, my

MCPrio == (high :> 0) @@ (mid :> 1) @@ (low :> 2) @@ (idle :> 3)
MCReady == (0 :> <<high>>) @@ (1 :> <<mid>>) @@ (2 :> <<low>>) @@ (3 :> <<idle>>)
MCTimes == {-1, 0, 2}
=============================================================================
