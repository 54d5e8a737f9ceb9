----------------------------- MODULE Semaphore -----------------------------
(***************************************************************************)
(* One semaphore of src/rt-thread/src/ipc.c and the threads and interrupt  *)
(* handlers that use it.  rt_sem_release hands the unit over to the first  *)
(* waiter without going through value, so what keeps count of the units is *)
(* spread over value, the suspend list and the error code of every thread  *)
(* that has been resumed and has not run yet, while the tick interrupt     *)
(* times waiters out in between.                                           *)
(***************************************************************************)
EXTENDS Threads

CONSTANTS
    Sem,         \* the one element of WaitList
    Flag,        \* "FIFO" or "PRIO": the flag given to rt_sem_init
    InitValue,   \* the value given to rt_sem_init and to a reset
    ValueMod,    \* 2^16 in the code: value is an rt_uint16_t
    MaxCredit,   \* bound: no release once this many units are about
    Times        \* the waiting times callers use; negative is RT_WAITING_FOREVER

ASSUME SemaphoreAssumption ==
    /\ WaitList = {Sem}
    /\ Flag \in {"FIFO", "PRIO"}
    /\ ValueMod \in Nat \ {0}
    /\ InitValue \in 0 .. ValueMod - 1
    /\ MaxCredit \in Nat
    /\ Times \subseteq Int

VARIABLES
    value,   \* sem->value
    credit   \* units that have been put in and not been taken out (history)

vars == <<k, pc, value, credit>>

Waiters == k.wait[Sem]

Init ==
    /\ ThreadsInit
    /\ value = InitValue
    /\ credit = InitValue

-----------------------------------------------------------------------------
(* rt_sem_take *)

TakeAvailable(t) ==
    /\ value > 0
    /\ value' = value - 1
    /\ credit' = credit - 1
    /\ UNCHANGED <<k, pc>>

TakeSuspend(t, time) ==
    /\ value = 0 /\ time # 0
    /\ Wait(t, Sem, Flag, time)
    /\ UNCHANGED <<value, credit>>

Take(t) ==
    /\ MayCall(t)
    /\ TakeAvailable(t) \/ \E time \in Times : TakeSuspend(t, time)

\* Back from rt_schedule, the error code is the result of the call.
TakeReturn(t) ==
    /\ Running(k, t) /\ pc[t] = "back"
    /\ credit' = IF k.error[t] = "EOK" THEN credit - 1 ELSE credit
    /\ Goto(t, "run")
    /\ UNCHANGED <<k, value>>

-----------------------------------------------------------------------------
(* rt_sem_release, by a thread or by an interrupt handler *)

\* Mutant of PutUnit: value is increased for a waiter too.
PutUnitTwice ==
    /\ credit < MaxCredit
    /\ credit' = credit + 1
    /\ value' = (value + 1) % ValueMod

PutUnit ==
    /\ credit < MaxCredit
    /\ credit' = credit + 1
    /\ value' = IF Waiters = << >> THEN (value + 1) % ValueMod ELSE value

Release(t) == MayCall(t) /\ PutUnit /\ Wake(t, Sem)

IsrRelease == Interruptible(k) /\ PutUnit /\ IsrWake(Sem)

-----------------------------------------------------------------------------
(* rt_sem_control(RT_IPC_CMD_RESET): every waiter leaves with -RT_ERROR. *)

ResetBegin(t) ==
    /\ MayCall(t)
    /\ EnterSection(t)
    /\ UNCHANGED <<value, credit>>

ResetTurn(t) == ResumeAllTurn(t, Sem) /\ UNCHANGED <<value, credit>>

ResetEnd(t) ==
    /\ Running(k, t) /\ pc[t] = "section" /\ Waiters = << >>
    /\ LeaveSection(t)
    /\ value' = InitValue
    /\ credit' = InitValue + Cardinality(Woken)

-----------------------------------------------------------------------------
Continue(t) ==
    \/ TakeReturn(t) \/ ResetTurn(t) \/ ResetEnd(t)
    \/ (SleepReturn(t) \/ CallSchedule(t)) /\ UNCHANGED <<value, credit>>

Call(t) ==
    \/ Take(t) \/ Release(t) \/ ResetBegin(t)
    \/ Sleep(t) /\ UNCHANGED <<value, credit>>

TickStep == Tick /\ UNCHANGED <<value, credit>>
FireStep == TimerFires /\ UNCHANGED <<value, credit>>

Next ==
    \/ \E t \in Thread : Call(t) \/ Continue(t)
    \/ IsrRelease
    \/ TickStep
    \/ FireStep

Spec == Init /\ [][Next]_vars

\* The tick interrupt keeps coming, the processor runs the current thread,
\* and interrupt handlers end.  A thread may stay outside calls for ever.
Fairness ==
    /\ WF_vars(TickStep) /\ WF_vars(FireStep)
    /\ \A t \in Thread : WF_vars(Continue(t))

FairSpec == Spec /\ Fairness
-----------------------------------------------------------------------------
TypeOK ==
    /\ k \in KernelType
    /\ pc \in [Thread -> PC]
    /\ value \in 0 .. ValueMod - 1
    /\ credit \in Int

\* No lost wake-up: rt_sem_take never leaves a thread on the suspend list
\* while the semaphore has units in value (rt_sem_release gives the unit to
\* the list or to value, and a timeout leaves the list with neither).
NoLostWakeup == value > 0 => Waiters = << >>

\* Units are conserved: what was put in and not taken out is in value or on
\* its way to exactly one resumed thread.  A timeout that races the release
\* may neither swallow the unit nor let the thread return RT_EOK without one.
CreditConserved == credit = value + Cardinality(Woken)

\* A timed rt_sem_take of a thread that nothing outranks comes back, by grant
\* or by timeout.
TimedTakeReturns ==
    \A t \in Highest : (pc[t] = "suspended" /\ k.timer[t] > 0) ~> pc[t] = "run"
=============================================================================
