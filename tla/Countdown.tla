----------------------------- MODULE Countdown -----------------------------
(***************************************************************************)
(* What the timers of RT-Thread promise, without tick counters that wrap   *)
(* or a sorted list: a timer is set to a number of ticks and armed, every  *)
(* tick interrupt counts every timer down, and before the interrupt ends   *)
(* exactly the armed timers that have come to 0 have fired.                *)
(***************************************************************************)
EXTENDS Integers

CONSTANTS Timer, Times

VARIABLES
    left,     \* ticks that are left; 0 for a timer that is not set
    armed,    \* the timers that can fire
    ticking   \* a tick interrupt is checking the timers

Init ==
    /\ left = [t \in Timer |-> 0]
    /\ armed = {}
    /\ ticking = FALSE

Set(t) ==
    /\ t \notin armed
    /\ \E time \in Times : left' = [left EXCEPT ![t] = time]
    /\ UNCHANGED <<armed, ticking>>

Arm(t) ==
    /\ armed' = armed \cup {t}
    /\ UNCHANGED <<left, ticking>>

Disarm(t) ==
    /\ armed' = armed \ {t}
    /\ left' = [left EXCEPT ![t] = 0]
    /\ UNCHANGED ticking

Tick ==
    /\ ~ ticking /\ ticking' = TRUE
    /\ left' = [t \in Timer |-> IF left[t] > 0 THEN left[t] - 1 ELSE 0]
    /\ UNCHANGED armed

\* The timeout function of t may stop and start timers, and t is armed again
\* when it is periodic.
Fire(t) ==
    /\ ticking /\ t \in armed /\ left[t] = 0
    /\ \E off, on \in SUBSET Timer :
          /\ armed' = (armed \ ({t} \cup off)) \cup on
          /\ \A u \in Timer :
                CASE u \in on            -> left'[u] \in Times
                  [] u \in off \ on      -> left'[u] = 0
                  [] u \notin on \cup off -> left'[u] = left[u]
    /\ UNCHANGED ticking

EndTick ==
    /\ ticking /\ ticking' = FALSE
    /\ \A t \in armed : left[t] > 0
    /\ UNCHANGED <<left, armed>>

Next ==
    \/ \E t \in Timer : Set(t) \/ Arm(t) \/ Disarm(t) \/ Fire(t)
    \/ Tick
    \/ EndTick

Spec == Init /\ [][Next]_<<left, armed, ticking>>
=============================================================================
