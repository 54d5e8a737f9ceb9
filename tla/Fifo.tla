-------------------------------- MODULE Fifo --------------------------------
(***************************************************************************)
(* What a mailbox and a message queue of src/rt-thread/src/ipc.c promise   *)
(* whoever looks at their content only: a bounded queue that gives every   *)
(* message out once, in the order in which the messages went in, with      *)
(* urgent messages ahead of all others.                                    *)
(***************************************************************************)
EXTENDS Naturals, Sequences

CONSTANTS
    Normal, Urgent,   \* the messages sent, and those sent urgently
    Capacity

VARIABLE q

Init == q = << >>

Put ==
    /\ Len(q) < Capacity
    /\ \E m \in Normal : q' = Append(q, m)

PutFirst ==
    /\ Len(q) < Capacity
    /\ \E m \in Urgent : q' = <<m>> \o q

Get == q # << >> /\ q' = Tail(q)

Clear == q' = << >>

Next == Put \/ PutFirst \/ Get \/ Clear

Spec == Init /\ [][Next]_q
=============================================================================
