------------------------------- MODULE Kernel -------------------------------
(***************************************************************************)
(* The thread and scheduler core of the RT-Thread kernel the flight        *)
(* controller runs on: src/rt-thread/src/scheduler.c, thread.c, clock.c    *)
(* and the part of timer.c that serves the one timer of every thread.      *)
(*                                                                         *)
(* The kernel's data is one record k, and each kernel routine that runs    *)
(* with interrupts disabled is an operator from one value of k to the      *)
(* next.  A module of an IPC object keeps k in a variable and composes     *)
(* these operators the way the C code nests the calls; it breaks a handler *)
(* into several actions wherever the code enables interrupts in between.   *)
(*                                                                         *)
(*   k.ready[p]   rt_thread_priority_table[p], from head to tail           *)
(*   k.group      rt_thread_ready_priority_group, as the set of its bits   *)
(*   k.wait[w]    the suspend_thread list of the IPC object (or list) w    *)
(*   k.stat[t], k.prio[t], k.error[t]                                      *)
(*                stat, current_priority and error of thread t             *)
(*   k.timer[t]   ticks until the timer of t fires, 0 when it is stopped   *)
(*   k.due        threads whose timer the running tick interrupt has found *)
(*                expired and not handled yet                              *)
(*   k.cur        rt_current_thread                                        *)
(*   k.lock       rt_scheduler_lock_nest                                   *)
(*   k.irqOff     a thread is in a section with interrupts disabled that   *)
(*                the model takes in several steps                         *)
(*                                                                         *)
(* A thread has a single list node, tlist, so linking it somewhere never   *)
(* unlinks it from where it was, and rt_list_remove takes it out of        *)
(* whatever list holds it.                                                 *)
(***************************************************************************)
EXTENDS Integers, Sequences, FiniteSets, SequencesExt

CONSTANTS
    Thread,     \* the threads, the idle thread included
    Idle,       \* the idle thread of idle.c, which is always ready
    WaitList,   \* the suspend lists of the modelled IPC objects
    PrioMax,    \* RT_THREAD_PRIORITY_MAX; 0 is the highest priority
    InitPrio,   \* init_priority of every thread
    InitReady   \* the ready lists when the scheduler is started

Prio == 0 .. PrioMax - 1

ASSUME KernelAssumption ==
    /\ PrioMax \in Nat \ {0}
    /\ IsFiniteSet(Thread) /\ Idle \in Thread
    /\ InitPrio \in [Thread -> Prio]
    /\ InitPrio[Idle] = PrioMax - 1
    /\ InitReady \in [Prio -> Seq(Thread)]
    /\ \A p \in Prio : IsInjective(InitReady[p])
    /\ \A p \in Prio : \A t \in Range(InitReady[p]) : InitPrio[t] = p
    /\ Idle \in Range(InitReady[PrioMax - 1])

Stat  == {"INIT", "READY", "SUSPEND", "CLOSE"}
Error == {"EOK", "ETIMEOUT", "ERROR"}

KernelType ==
    [ready : [Prio -> Seq(Thread)],
     group : SUBSET Prio,
     wait  : [WaitList -> Seq(Thread)],
     stat  : [Thread -> Stat],
     prio  : [Thread -> Prio],
     error : [Thread -> Error],
     timer : [Thread -> Nat],
     due   : SUBSET Thread,
     cur   : Thread,
     lock  : Nat,
     irqOff : BOOLEAN]

-----------------------------------------------------------------------------
(* Lists and the scheduler. *)

\* rt_list_remove(&thread->tlist)
Unlink(k, t) ==
    [k EXCEPT !.ready = [p \in Prio |-> RemoveFirst(k.ready[p], t)],
              !.wait  = [w \in WaitList |-> RemoveFirst(k.wait[w], t)]]

\* rt_schedule_insert_thread
InsertThread(k, t) ==
    [k EXCEPT !.stat[t] = "READY",
              !.ready[k.prio[t]] = Append(@, t),
              !.group = @ \cup {k.prio[t]}]

\* rt_schedule_remove_thread: only the bit of the thread's own priority is
\* looked at, and only when its list became empty.
RemoveThread(k, t) ==
    LET u == Unlink(k, t)
    IN  [u EXCEPT !.group = IF u.ready[u.prio[t]] = << >>
                            THEN @ \ {u.prio[t]} ELSE @]

\* rt_schedule
Schedule(k) ==
    IF k.lock = 0
    THEN [k EXCEPT !.cur = Head(k.ready[Min(k.group)])]
    ELSE k

-----------------------------------------------------------------------------
(* Threads. *)

\* rt_thread_suspend
Suspend(k, t) ==
    IF k.stat[t] = "READY"
    THEN RemoveThread([k EXCEPT !.stat[t] = "SUSPEND"], t)
    ELSE k

\* Mutant of Resume: the timer of the thread is not stopped.
ResumeKeepsTimer(k, t) ==
    IF k.stat[t] = "SUSPEND" THEN InsertThread(Unlink(k, t), t) ELSE k

\* rt_thread_resume
Resume(k, t) ==
    IF k.stat[t] = "SUSPEND"
    THEN InsertThread([Unlink(k, t) EXCEPT !.timer[t] = 0], t)
    ELSE k

\* rt_thread_yield: the test on tlist.next and tlist.prev says that the list
\* of the thread holds another thread too.
Yield(k) ==
    LET t == k.cur
        p == k.prio[t]
    IN  IF k.stat[t] = "READY" /\ Len(k.ready[p]) > 1
        THEN Schedule([k EXCEPT !.ready[p] = Append(RemoveFirst(@, t), t)])
        ELSE k

\* rt_thread_control(RT_THREAD_CTRL_CHANGE_PRIORITY): no rt_schedule follows,
\* and a thread on a wait list keeps its place there.
ChangePriority(k, t, p) ==
    IF k.stat[t] = "READY"
    THEN InsertThread([RemoveThread(k, t) EXCEPT !.prio[t] = p], t)
    ELSE [k EXCEPT !.prio[t] = p]

\* rt_timer_control(SET_TIME) and rt_timer_start on the timer of a thread;
\* a timer started for 0 ticks fires at the next tick.
StartTimer(k, t, time) ==
    IF k.timer[t] = 0
    THEN [k EXCEPT !.timer[t] = IF time = 0 THEN 1 ELSE time]
    ELSE k

-----------------------------------------------------------------------------
(* The tick interrupt.  rt_tick_increase runs to its end before any thread *)
(* continues: TickBegin is its part up to rt_timer_check, and Fire one     *)
(* turn of the loop of rt_timer_check with rt_thread_timeout in it.  Equal *)
(* timeouts fire in any order.  sliceEnds says that remaining_tick of the  *)
(* running thread reached 0.                                               *)

\* Mutant of TickBegin: a tick that ends a slice does not check the timers.
TickBeginElse(k, sliceEnds) ==
    IF sliceEnds
    THEN Yield(k)
    ELSE [k EXCEPT !.due   = {t \in Thread : k.timer[t] = 1},
                   !.timer = [t \in Thread |->
                                IF k.timer[t] > 1 THEN k.timer[t] - 1 ELSE k.timer[t]]]

TickBegin(k, sliceEnds) ==
    LET y == IF sliceEnds THEN Yield(k) ELSE k
    IN  [y EXCEPT !.due   = {t \in Thread : k.timer[t] = 1},
                  !.timer = [t \in Thread |->
                               IF k.timer[t] > 1 THEN k.timer[t] - 1 ELSE k.timer[t]]]

\* Mutants of Fire: the thread stays on the suspend list, or is not told that
\* it timed out.
FireKeepsList(k, t) ==
    Schedule(InsertThread([k EXCEPT !.error[t] = "ETIMEOUT", !.timer[t] = 0,
                                    !.due = @ \ {t}], t))

FireKeepsError(k, t) ==
    Schedule(InsertThread(Unlink([k EXCEPT !.timer[t] = 0, !.due = @ \ {t}], t), t))

Fire(k, t) ==
    LET u == Unlink([k EXCEPT !.error[t] = "ETIMEOUT",
                              !.timer[t] = 0,
                              !.due = @ \ {t}], t)
    IN  Schedule(InsertThread(u, t))

-----------------------------------------------------------------------------
(* The suspend lists of IPC objects, from ipc.c. *)

\* Where rt_ipc_list_suspend inserts: at the tail for RT_IPC_FLAG_FIFO, and
\* before the first thread of lower priority for RT_IPC_FLAG_PRIO.
WaitPosition(k, w, t, flag) ==
    LET later == {i \in DOMAIN k.wait[w] : k.prio[t] < k.prio[k.wait[w][i]]}
    IN  IF flag = "PRIO" /\ later # {} THEN Min(later) ELSE Len(k.wait[w]) + 1

\* rt_ipc_list_suspend
ListSuspend(k, w, t, flag) ==
    LET s == Suspend(k, t)
    IN  [s EXCEPT !.wait[w] = InsertAt(@, WaitPosition(s, w, t, flag), t)]

\* rt_ipc_list_resume
ListResume(k, w) == Resume(k, Head(k.wait[w]))

\* One turn of the loop of rt_ipc_list_resume_all.
ListResumeError(k, w) ==
    LET t == Head(k.wait[w])
    IN  Resume([k EXCEPT !.error[t] = "ERROR"], t)

\* The middle of every blocking call: error reset, thread on the list, timer
\* started when the wait is bounded.  A negative time waits forever.
Block(k, w, t, flag, time) ==
    LET s == ListSuspend([k EXCEPT !.error[t] = "EOK"], w, t, flag)
    IN  IF time > 0 THEN StartTimer(s, t, time) ELSE s

-----------------------------------------------------------------------------
(* The state after rt_system_scheduler_start: the threads on the lists of   *)
(* InitReady have been started, the others are initialised only.            *)

KernelInit ==
    LET group   == {p \in Prio : InitReady[p] # << >>}
        started == UNION {Range(InitReady[p]) : p \in Prio}
    IN  [ready |-> InitReady,
         group |-> group,
         wait  |-> [w \in WaitList |-> << >>],
         stat  |-> [t \in Thread |-> IF t \in started THEN "READY" ELSE "INIT"],
         prio  |-> InitPrio,
         error |-> [t \in Thread |-> "EOK"],
         timer |-> [t \in Thread |-> 0],
         due   |-> {},
         cur   |-> Head(InitReady[Min(group)]),
         lock  |-> 0,
         irqOff |-> FALSE]

\* Thread t runs: it is the current thread and no interrupt handler is active.
Running(k, t) == k.cur = t /\ k.due = {}

\* No ready thread outranks the current one.
CurrentIsTop(k) == \A t \in Thread : k.stat[t] = "READY" => k.prio[k.cur] <= k.prio[t]

\* An interrupt handler may start.
Interruptible(k) == k.due = {} /\ ~ k.irqOff

-----------------------------------------------------------------------------
(* What every step of the kernel keeps true of its lists. *)

ReadyLists(k) ==
    /\ \A p \in Prio : IsInjective(k.ready[p])
    /\ \A t \in Thread, p \in Prio :
          t \in Range(k.ready[p]) <=> (k.stat[t] = "READY" /\ k.prio[t] = p)

GroupMatches(k) == \A p \in Prio : p \in k.group <=> k.ready[p] # << >>

WaitLists(k) ==
    /\ \A w \in WaitList : IsInjective(k.wait[w])
    /\ \A w \in WaitList : \A t \in Range(k.wait[w]) : k.stat[t] = "SUSPEND"
    /\ \A v, w \in WaitList : \A t \in Range(k.wait[v]) : t \in Range(k.wait[w]) => v = w

TimersOfSuspended(k) ==
    /\ \A t \in Thread : k.timer[t] # 0 => k.stat[t] = "SUSPEND"
    /\ \A t \in k.due : k.timer[t] = 1

KernelOK(k) ==
    /\ ReadyLists(k)
    /\ GroupMatches(k)
    /\ WaitLists(k)
    /\ TimersOfSuspended(k)
    /\ k.stat[Idle] = "READY"
=============================================================================
