----------------------------- MODULE ThreadLife -----------------------------
(***************************************************************************)
(* The end of threads: rt_thread_exit, rt_thread_detach and                *)
(* rt_thread_delete of src/rt-thread/src/thread.c and the idle thread of   *)
(* idle.c, which frees what the list of defunct threads holds.             *)
(*                                                                         *)
(* rt_thread_exit is one section with interrupts disabled.  A delete or    *)
(* detach is four steps with interrupts enabled in between: off the        *)
(* scheduler's lists, off the timer list, stat set to CLOSE, onto the      *)
(* defunct list.  The state of the thread does not change before the       *)
(* third, so the tick interrupt still takes it for a sleeping thread.      *)
(***************************************************************************)
EXTENDS Threads

CONSTANTS
    Gate,       \* the one element of WaitList, a list threads wait on
    Static,     \* threads that rt_thread_init made; they have no cleanup
    Sleepers,   \* the threads that sleep or wait with a timeout
    Victims,    \* the threads others delete or detach
    NONE

ASSUME ThreadLifeAssumption ==
    /\ WaitList = {Gate}
    /\ Static \subseteq Thread /\ Sleepers \subseteq Thread
    /\ Victims \subseteq Thread \ {Idle}
    /\ NONE \notin Thread

VARIABLES
    defunct,   \* rt_thread_defunct, from head to tail
    freed,     \* threads whose stack and object the idle thread has freed
    victim,    \* the thread each thread is deleting, or NONE
    stage      \* how far that call has come

lifeVars == <<defunct, freed, victim, stage>>
lifeSystem == <<k, pc, lifeVars>>

LifeInit ==
    /\ ThreadsInit
    /\ defunct = << >>
    /\ freed = {}
    /\ victim = [t \in Thread |-> NONE]
    /\ stage = [t \in Thread |-> "none"]

-----------------------------------------------------------------------------
\* rt_thread_startup of a thread that has been initialised and is not being
\* deleted: who starts a thread while another thread deletes it misuses both
Startup(t) ==
    /\ MayCall(t)
    /\ \E u \in Thread :
          /\ k.stat[u] = "INIT" /\ \A o \in Thread : victim[o] # u
          /\ k' = Resume([k EXCEPT !.prio[u] = InitPrio[u], !.stat[u] = "SUSPEND"], u)
    /\ Goto(t, "resched")
    /\ UNCHANGED lifeVars

\* The defunct list after thread t was linked into it, at its head.
Buried(t) == <<t>> \o defunct

\* Mutant of Exit: the thread stays on its ready list.
ExitStaysReady(t) ==
    /\ MayCall(t)
    /\ k' = [k EXCEPT !.stat[t] = "CLOSE", !.timer[t] = 0]
    /\ defunct' = IF t \in Static THEN defunct ELSE Buried(t)
    /\ Goto(t, "resched")
    /\ UNCHANGED <<freed, victim, stage>>

\* rt_thread_exit, which the entry function of a thread returns to
Exit(t) ==
    /\ MayCall(t)
    /\ k' = [RemoveThread(k, t) EXCEPT !.stat[t] = "CLOSE", !.timer[t] = 0]
    /\ defunct' = IF t \in Static THEN defunct ELSE Buried(t)
    /\ Goto(t, "resched")
    /\ UNCHANGED <<freed, victim, stage>>

-----------------------------------------------------------------------------
(* rt_thread_delete and rt_thread_detach of another thread.  No two callers *)
(* delete the same thread.                                                  *)

InDelete(t, s) == Running(k, t) /\ stage[t] = s

Step(t, s) == stage' = [stage EXCEPT ![t] = s]

\* Mutant of DeleteRemove: only a ready thread is taken off its list.
DeleteRemoveReady(t) ==
    /\ MayCall(t)
    /\ \E u \in Victims \ {t} :
          /\ k.stat[u] # "CLOSE" /\ \A o \in Thread : victim[o] # u
          /\ k' = IF k.stat[u] = "READY" THEN RemoveThread(k, u) ELSE k
          /\ victim' = [victim EXCEPT ![t] = u]
    /\ Goto(t, "copying") /\ Step(t, "removed")
    /\ UNCHANGED <<defunct, freed>>

DeleteRemove(t) ==
    /\ MayCall(t)
    /\ \E u \in Victims \ {t} :
          /\ k.stat[u] # "CLOSE" /\ \A o \in Thread : victim[o] # u
          /\ k' = RemoveThread(k, u)
          /\ victim' = [victim EXCEPT ![t] = u]
    /\ Goto(t, "copying") /\ Step(t, "removed")
    /\ UNCHANGED <<defunct, freed>>

DeleteTimer(t) ==
    /\ InDelete(t, "removed")
    /\ k' = [k EXCEPT !.timer[victim[t]] = 0]
    /\ Step(t, "untimed")
    /\ UNCHANGED <<pc, defunct, freed, victim>>

DeleteClose(t) ==
    /\ InDelete(t, "untimed")
    /\ k' = [k EXCEPT !.stat[victim[t]] = "CLOSE"]
    /\ Step(t, "closed")
    /\ UNCHANGED <<pc, defunct, freed, victim>>

DeleteEnd(t) ==
    /\ InDelete(t, "closed")
    /\ defunct' = IF victim[t] \in Static THEN defunct ELSE Buried(victim[t])
    /\ victim' = [victim EXCEPT ![t] = NONE]
    /\ Goto(t, "run") /\ Step(t, "none")
    /\ UNCHANGED <<k, freed>>

-----------------------------------------------------------------------------
\* rt_thread_idle_excute
Collect ==
    /\ Running(k, Idle) /\ defunct # << >>
    /\ defunct' = Tail(defunct)
    /\ freed' = freed \cup {Head(defunct)}
    /\ UNCHANGED <<k, pc, victim, stage>>

-----------------------------------------------------------------------------
(* What else threads do: they wait at the gate, with a timeout or without,  *)
(* open it for the first waiter, and sleep.                                 *)

WaitAtGate(t) ==
    /\ MayCall(t)
    /\ \E time \in IF t \in Sleepers THEN {-1, 2} ELSE {-1} : Wait(t, Gate, "FIFO", time)
    /\ UNCHANGED lifeVars

OpenGate(t) == MayCall(t) /\ Wake(t, Gate) /\ UNCHANGED lifeVars

Return(t) ==
    /\ Running(k, t) /\ pc[t] = "back"
    /\ Goto(t, "run")
    /\ UNCHANGED <<k, lifeVars>>

LifeNext ==
    \/ \E t \in Thread :
          \/ Startup(t) \/ Exit(t)
          \/ DeleteRemove(t) \/ DeleteTimer(t) \/ DeleteClose(t) \/ DeleteEnd(t)
          \/ WaitAtGate(t) \/ OpenGate(t) \/ Return(t)
          \/ t \in Sleepers /\ Sleep(t) /\ UNCHANGED lifeVars
          \/ (SleepReturn(t) \/ CallSchedule(t)) /\ UNCHANGED lifeVars
    \/ Collect
    \/ Tick /\ UNCHANGED lifeVars
    \/ TimerFires /\ UNCHANGED lifeVars

LifeSpec == LifeInit /\ [][LifeNext]_lifeSystem
-----------------------------------------------------------------------------
Linked(t) ==
    \/ \E p \in Prio : t \in Range(k.ready[p])
    \/ t \in Waiting

\* Between the steps of rt_thread_delete a ready thread is on no ready list;
\* when nobody deletes a thread, the lists, the bitmap, the timers and the
\* states agree again, whatever was deleted, exited or timed out before.
KernelSettled == (\A t \in Thread : victim[t] = NONE) => KernelOK(k)

\* A closed thread is off every list of the scheduler and has no timer: "The
\* thread object will be removed from thread queue" (thread.c:297).
ClosedOffQueues == \A t \in Thread : k.stat[t] = "CLOSE" => ~ Linked(t) /\ k.timer[t] = 0

\* Nothing leads to a thread whose stack rt_thread_idle_excute has freed: it
\* does not run, is on no list, and nobody is still in the middle of deleting
\* it; and the defunct list holds closed threads, each of them once.
FreedNotInUse ==
    /\ \A t \in freed :
          /\ k.cur # t /\ ~ Linked(t) /\ k.timer[t] = 0 /\ t \notin Range(defunct)
          /\ \A u \in Thread : victim[u] # t
    /\ IsInjective(defunct)
    /\ \A t \in Range(defunct) : k.stat[t] = "CLOSE"
=============================================================================
