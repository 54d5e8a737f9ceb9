----------------------------- MODULE MCMailbox ------------------------------
(* A mailbox of two words and two threads of different priority that send,   *)
(* receive and reset, beside the idle thread and handlers that send.         *)
EXTENDS Mailbox

CONSTANTS high, low, idle, rl, sl

MCPrio == (high :> 0) @@ (low :> 1) @@ (idle :> 2)
MCReady == (0 :> <<high>>) @@ (1 :> <<low>>) @@ (2 :> <<idle>>)
MCTimes == {-1, 3}
=============================================================================
