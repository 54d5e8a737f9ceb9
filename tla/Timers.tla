------------------------------- MODULE Timers -------------------------------
(***************************************************************************)
(* The timer list of src/rt-thread/src/timer.c: one list of running timers *)
(* in the order of their timeout_tick, on a tick counter that wraps.       *)
(* rt_timer_start and rt_timer_stop test the flags, and rt_timer_start     *)
(* computes the timeout, before they disable interrupts; rt_timer_stop     *)
(* clears the flag after it has enabled them again.  rt_timer_control does *)
(* not disable them at all: it loads the flags, changes one bit and stores *)
(* them, in steps between which the tick may come.  The timeout functions  *)
(* run in the tick interrupt and may start and stop timers themselves.     *)
(*                                                                         *)
(* The flags of a timer are bits: RT_TIMER_FLAG_ACTIVATED, _PERIODIC and   *)
(* _SOFT_TIMER, the last of which means nothing as RT_USING_TIMER_SOFT is  *)
(* off.  No two threads operate on one timer at the same time, and no      *)
(* timeout function operates on a timer of the threads or on its own one;  *)
(* so nobody else changes the flags of an unlinked timer whose ACTIVATED   *)
(* rt_timer_stop is clearing, which stays one step.                        *)
(*                                                                         *)
(* rt_timer_start asserts that init_tick is below RT_TICK_MAX/2.  That is  *)
(* enough between two timers started at one tick; a timer linked late, by  *)
(* an interrupted rt_timer_start, lies in the past until the next tick and *)
(* the distance to the latest timer is larger by as much, so the           *)
(* assumption on Times leaves room for MaxDelay.                           *)
(***************************************************************************)
EXTENDS Integers, Sequences, SequencesExt

CONSTANTS
    Timer,      \* the timers
    TickMod,    \* the tick counter is rt_tick_t: 2^32 values
    Times,      \* the values init_tick gets
    Periodic,   \* the timers that rt_timer_init makes periodic
    Client,     \* the timers threads operate on
    Controlled, \* those of them that threads make periodic or one-shot
    Inner,      \* the timers the timeout function of each timer operates on
    MaxDelay    \* bound on the ticks a thread can lose within rt_timer_start

RT_TICK_MAX == TickMod - 1

ASSUME TimersAssumption ==
    /\ TickMod \in Nat \ {0}
    /\ Times \subseteq Nat
    /\ Periodic \subseteq Timer /\ Client \subseteq Timer /\ Controlled \subseteq Client
    /\ Inner \in [Timer -> SUBSET Timer]
    /\ \A t \in Timer : Inner[t] \cap (Client \cup {t}) = {}
    /\ MaxDelay \in Nat
    /\ \A time \in Times : time + MaxDelay + 1 < RT_TICK_MAX \div 2

VARIABLES
    m,         \* the timers: tick, list, flags, init_tick, timeout_tick
    op,        \* where the thread operating on each timer is
    loaded,    \* the flags that thread has loaded in rt_timer_control
    checking   \* rt_timer_check is running

vars == <<m, op, loaded, checking>>

Flags == {"ACTIVATED", "PERIODIC", "SOFT"}

\* rt_timer_init
Init ==
    /\ \E init_tick \in [Timer -> Times] :
          m = [tick |-> 0,
               list |-> << >>,
               flags |-> [t \in Timer |-> IF t \in Periodic THEN {"PERIODIC"} ELSE {}],
               init_tick |-> init_tick,
               timeout_tick |-> [t \in Timer |-> 0]]
    /\ op = [t \in Timer |-> "none"]
    /\ loaded = [t \in Timer |-> {}]
    /\ checking = FALSE

-----------------------------------------------------------------------------
(* rt_timer_start and rt_timer_stop *)

\* Tick a is not before tick b, by the comparison of the code.
NotBefore(a, b) == (a - b) % TickMod < RT_TICK_MAX \div 2

Active(s, t) == "ACTIVATED" \in s.flags[t]

\* What rt_timer_start does before it disables interrupts.
Timeout(s, t) ==
    [s EXCEPT !.timeout_tick[t] = (s.tick + s.init_tick[t]) % TickMod]

\* Mutant of Place: timeouts are compared as numbers.
PlaceUnwrapped(s, t) ==
    LET later == {i \in DOMAIN s.list : s.timeout_tick[s.list[i]] >= s.timeout_tick[t]}
    IN  IF later # {} THEN Min(later) ELSE Len(s.list) + 1

\* The place of t in the list: before the first timer that is not earlier.
Place(s, t) ==
    LET later == {i \in DOMAIN s.list : NotBefore(s.timeout_tick[s.list[i]], s.timeout_tick[t])}
    IN  IF later # {} THEN Min(later) ELSE Len(s.list) + 1

\* What rt_timer_start does with interrupts disabled.
Link(s, t) ==
    [s EXCEPT !.list = InsertAt(@, Place(s, t), t),
              !.flags[t] = @ \cup {"ACTIVATED"}]

\* Both at once, in the tick interrupt.
StartNow(s, t) == IF Active(s, t) THEN s ELSE Link(Timeout(s, t), t)

\* rt_list_remove leaves a node that is in no list as it is.
StopNow(s, t) ==
    IF Active(s, t)
    THEN [s EXCEPT !.list = RemoveFirst(@, t), !.flags[t] = @ \ {"ACTIVATED"}]
    ELSE s

Goto(t, l) == op' = [op EXCEPT ![t] = l]

StartBegin(t) ==
    /\ op[t] = "none" /\ ~ checking /\ ~ Active(m, t)
    /\ m' = Timeout(m, t)
    /\ Goto(t, "starting")
    /\ UNCHANGED <<loaded, checking>>

StartEnd(t) ==
    /\ op[t] = "starting" /\ ~ checking
    /\ m' = Link(m, t)
    /\ Goto(t, "none")
    /\ UNCHANGED <<loaded, checking>>

StopBegin(t) ==
    /\ op[t] = "none" /\ ~ checking /\ Active(m, t)
    /\ Goto(t, "stopping")
    /\ UNCHANGED <<m, loaded, checking>>

StopUnlink(t) ==
    /\ op[t] = "stopping" /\ ~ checking
    /\ m' = [m EXCEPT !.list = RemoveFirst(@, t)]
    /\ Goto(t, "stopped")
    /\ UNCHANGED <<loaded, checking>>

StopEnd(t) ==
    /\ op[t] = "stopped" /\ ~ checking
    /\ m' = [m EXCEPT !.flags[t] = @ \ {"ACTIVATED"}]
    /\ Goto(t, "none")
    /\ UNCHANGED <<loaded, checking>>

-----------------------------------------------------------------------------
(* rt_timer_control *)

SetTime(t) ==
    /\ op[t] = "none" /\ ~ checking
    /\ \E time \in Times : m' = [m EXCEPT !.init_tick[t] = time]
    /\ UNCHANGED <<op, loaded, checking>>

\* The load of timer->parent.flag for RT_TIMER_CTRL_SET_PERIODIC or _SET_ONESHOT.
LoadFlags(t) ==
    /\ op[t] = "none" /\ ~ checking
    /\ loaded' = [loaded EXCEPT ![t] = m.flags[t]]
    /\ Goto(t, "setting")
    /\ UNCHANGED <<m, checking>>

\* The store: what the tick has changed since the load is overwritten.
StoreFlags(t, flags) ==
    /\ op[t] = "setting" /\ ~ checking
    /\ m' = [m EXCEPT !.flags[t] = flags]
    /\ loaded' = [loaded EXCEPT ![t] = {}]
    /\ Goto(t, "none")
    /\ UNCHANGED checking

\* Both shift by RT_TIMER_FLAG_PERIODIC, which is 2: the bit they set and clear
\* is that of RT_TIMER_FLAG_SOFT_TIMER.
SetPeriodic(t) == StoreFlags(t, loaded[t] \cup {"SOFT"})

SetOneShot(t) == StoreFlags(t, loaded[t] \ {"SOFT"})

-----------------------------------------------------------------------------
(* The tick interrupt: rt_tick_increase counts, then rt_timer_check. *)

\* Ticks since the interrupted rt_timer_start of t has read the counter.
Delay(t) == (m.tick + m.init_tick[t] - m.timeout_tick[t]) % TickMod

Tick ==
    /\ ~ checking
    /\ \A t \in Timer : op[t] = "starting" => Delay(t) < MaxDelay
    /\ m' = [m EXCEPT !.tick = (@ + 1) % TickMod]
    /\ checking' = TRUE
    /\ UNCHANGED <<op, loaded>>

\* What the timeout function of t may do to the timers.
Callbacks(s, t) ==
    {s} \cup UNION {{StartNow(s, u), StopNow(s, u), StartNow(StopNow(s, u), u)} : u \in Inner[t]}

\* Mutant of Rearmed: a one-shot timer stays active.
RearmedOnly(s, t) ==
    IF {"PERIODIC", "ACTIVATED"} \subseteq s.flags[t]
    THEN StartNow([s EXCEPT !.flags[t] = @ \ {"ACTIVATED"}], t)
    ELSE s

\* Mutant of Rearmed: a periodic timer keeps the timeout it had.
RearmedSameTick(s, t) ==
    LET off == [s EXCEPT !.flags[t] = @ \ {"ACTIVATED"}]
    IN  IF {"PERIODIC", "ACTIVATED"} \subseteq s.flags[t] THEN Link(off, t) ELSE off

\* The timer after its timeout function: started again or not active.
Rearmed(s, t) ==
    LET off == [s EXCEPT !.flags[t] = @ \ {"ACTIVATED"}]
    IN  IF {"PERIODIC", "ACTIVATED"} \subseteq s.flags[t] THEN StartNow(off, t) ELSE off

Expired(s) == s.list # << >> /\ NotBefore(s.tick, s.timeout_tick[Head(s.list)])

\* One turn of the loop of rt_timer_check.
Fire ==
    /\ checking /\ Expired(m)
    /\ LET t == Head(m.list)
       IN  \E s \in Callbacks([m EXCEPT !.list = Tail(@)], t) : m' = Rearmed(s, t)
    /\ UNCHANGED <<op, loaded, checking>>

\* Mutant of CheckEnd: one timer is handled per tick.
CheckEndAtOnce ==
    /\ checking
    /\ checking' = FALSE
    /\ UNCHANGED <<m, op, loaded>>

CheckEnd ==
    /\ checking /\ ~ Expired(m)
    /\ checking' = FALSE
    /\ UNCHANGED <<m, op, loaded>>

Next ==
    \/ \E t \in Client :
          \/ StartBegin(t) \/ StartEnd(t)
          \/ StopBegin(t) \/ StopUnlink(t) \/ StopEnd(t)
          \/ SetTime(t)
    \/ \E t \in Controlled : LoadFlags(t) \/ SetPeriodic(t) \/ SetOneShot(t)
    \/ Tick
    \/ Fire
    \/ CheckEnd

Spec == Init /\ [][Next]_vars

\* The tick interrupt, once it runs, is not held up by any thread.
FairSpec == Spec /\ WF_vars(Fire) /\ WF_vars(CheckEnd)
-----------------------------------------------------------------------------
Linked(t) == t \in Range(m.list)

\* rt_timer_check looks at the head of the list only: at any moment the list
\* holds each timer once and in the order of the timeouts, across the wrap of
\* the counter and whatever rt_timer_start had computed before it was delayed.
ListInOrder ==
    /\ IsInjective(m.list)
    /\ \A i, j \in DOMAIN m.list :
          i < j => NotBefore(m.timeout_tick[m.list[j]], m.timeout_tick[m.list[i]])

\* rt_timer_start and rt_timer_stop refuse their work by the flag alone.  A
\* timer in the list has RT_TIMER_FLAG_ACTIVATED whatever is going on, and one
\* that has it is in the list but for two windows: a rt_timer_stop that has not
\* cleared it yet, and a one-shot timer on which a thread uses rt_timer_control.
ActiveIsLinked ==
    \A t \in Timer :
        /\ Linked(t) => Active(m, t)
        /\ Active(m, t) /\ op[t] # "stopped" /\ t \notin Controlled \ Periodic => Linked(t)

\* The loop of rt_timer_check ends when no periodic timer has the time 0: one
\* that it starts again does not expire in the same tick, however the counter
\* stands, and one-shot timers of time 0 that it starts do not keep it going.
TickEnds ==
    checking /\ (\A t \in Timer : "PERIODIC" \in m.flags[t] => m.init_tick[t] > 0)
        ~> ~ checking

\* Ticks until t fires, across the wrap of the counter.
Left(t) ==
    LET d == (m.timeout_tick[t] - m.tick) % TickMod
    IN  IF (Linked(t) \/ op[t] = "starting") /\ d < RT_TICK_MAX \div 2 THEN d ELSE 0

C == INSTANCE Countdown WITH
        left    <- [t \in Timer |-> Left(t)],
        armed   <- Range(m.list),
        ticking <- checking

\* Every timer fires in the tick in which its time is up, neither earlier nor
\* later, and no tick interrupt ends before all of those have fired.
ImplementsCountdown == C!Spec
=============================================================================
