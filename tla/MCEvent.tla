------------------------------ MODULE MCEvent ------------------------------
(* Two bits; one receiver may want both, others any of them or one of them   *)
(* without clearing it.  FIFO, as every event of the firmware.               *)
EXTENDS Event

CONSTANTS high, low, idle, ev, rx, done

MCPrio == (high :> 0) @@ (low :> 1) @@ (idle :> 2)
MCReady == (0 :> <<high>>) @@ (1 :> <<low>>) @@ (2 :> <<idle>>)
MCTimes == {-1, 1}
MCRequests == {[set |-> {rx, done}, mode |-> "AND", clear |-> TRUE],
               [set |-> {rx, done}, mode |-> "OR",  clear |-> TRUE],
               [set |-> {done},     mode |-> "OR",  clear |-> FALSE]}
=============================================================================
