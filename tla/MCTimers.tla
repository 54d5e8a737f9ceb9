------------------------------ MODULE MCTimers ------------------------------
(* A one-shot timer of a thread, and a periodic and a one-shot timer of the  *)
(* timeout function of the first.                                            *)
EXTENDS Timers

CONSTANTS once, every, inner

\* The timeout function of the one-shot timer operates on all the others.
MCInner == [t \in Timer |-> IF t = once THEN Timer \ {once} ELSE {}]
=============================================================================
