------------------------------ MODULE MCConsole -----------------------------
(* A mailbox that one message fills, two packets, and a ring of two characters *)
(* (one of its three places is never filled), which may share an interrupt.    *)
EXTENDS Console
=============================================================================
