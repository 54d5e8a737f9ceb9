--------------------------- MODULE MCMessageQueue ---------------------------
(* A queue of two slots and two threads that send, receive and reset, beside *)
(* the idle thread and interrupt handlers that send: a resumed receiver can  *)
(* be overtaken by the other one in more than one round of its loop, and the *)
(* pool can be empty while both slots are on their way.                      *)
EXTENDS MessageQueue

CONSTANTS high, low, idle, mq, s1, s2

MCPrio == (high :> 0) @@ (low :> 1) @@ (idle :> 2)
MCReady == (0 :> <<high>>) @@ (1 :> <<low>>) @@ (2 :> <<idle>>)
MCTimes == {-1, 3}
=============================================================================
