------------------------------ MODULE Threads ------------------------------
(***************************************************************************)
(* The threads above the kernel routines: where each thread is in a call,  *)
(* and the steps every system of threads takes beside the operations of    *)
(* its IPC objects - rt_thread_sleep, rt_thread_yield, the rt_schedule at  *)
(* the end of a section, and the tick interrupt.                           *)
(*                                                                         *)
(* A call of ipc.c is a chain of sections with interrupts disabled; an     *)
(* interrupt, and with it any other thread, can come in between.  pc[t]    *)
(* names the point between two sections:                                   *)
(*   "run"        outside any call                                         *)
(*   "suspended"  on a suspend list, about to call rt_schedule             *)
(*   "back"       returned from that rt_schedule                           *)
(*   "copying"    between two sections of one call                         *)
(*   "section"    in a section that the model takes in several steps       *)
(*   "resched"    about to call rt_schedule as the last thing of a call    *)
(*   "asleep", "woke"  the points of rt_thread_sleep around rt_schedule    *)
(***************************************************************************)
EXTENDS Kernel

VARIABLES k, pc

PC == {"run", "suspended", "back", "copying", "section", "resched", "asleep", "woke"}

Goto(t, l) == pc' = [pc EXCEPT ![t] = l]

\* Thread t may start a call; the idle thread makes none that could block.
MayCall(t) == Running(k, t) /\ pc[t] = "run" /\ t # Idle

ThreadsInit ==
    /\ k = KernelInit
    /\ pc = [t \in Thread |-> "run"]

-----------------------------------------------------------------------------
\* rt_thread_sleep(1)
Sleep(t) ==
    /\ MayCall(t)
    /\ k' = StartTimer(Suspend(k, t), t, 1)
    /\ Goto(t, "asleep")

SleepReturn(t) ==
    /\ Running(k, t) /\ pc[t] = "woke"
    /\ k' = [k EXCEPT !.error[t] = IF @ = "ETIMEOUT" THEN "EOK" ELSE @]
    /\ Goto(t, "run")

\* The rt_schedule a thread calls with interrupts enabled.
CallSchedule(t) ==
    /\ Running(k, t) /\ pc[t] \in {"suspended", "resched", "asleep"}
    /\ k' = Schedule(k)
    /\ Goto(t, CASE pc[t] = "suspended" -> "back"
                 [] pc[t] = "resched"   -> "run"
                 [] pc[t] = "asleep"    -> "woke")

Tick ==
    /\ Interruptible(k)
    /\ \E sliceEnds \in BOOLEAN : k' = TickBegin(k, sliceEnds)
    /\ UNCHANGED pc

TimerFires ==
    /\ \E t \in k.due : k' = Fire(k, t)
    /\ UNCHANGED pc

ThreadStep(t) == Sleep(t) \/ SleepReturn(t) \/ CallSchedule(t)

-----------------------------------------------------------------------------
(* The parts of an operation of an IPC object. *)

\* A section that ends with the caller on list w.
Wait(t, w, flag, time) ==
    /\ k' = Block(k, w, t, flag, time)
    /\ Goto(t, "suspended")

\* Mutant of Wake: no rt_schedule follows.
WakeWithoutSchedule(t, w) ==
    /\ Goto(t, "run")
    /\ k' = IF k.wait[w] = << >> THEN k ELSE ListResume(k, w)

\* A section that ends with resuming the first thread of w, if there is one;
\* the rt_schedule follows after interrupts are enabled.
Wake(t, w) ==
    IF k.wait[w] = << >>
    THEN Goto(t, "run") /\ UNCHANGED k
    ELSE Goto(t, "resched") /\ k' = ListResume(k, w)

\* The same in an interrupt handler.
IsrWake(w) ==
    /\ k' = IF k.wait[w] = << >> THEN k ELSE Schedule(ListResume(k, w))
    /\ UNCHANGED pc

\* The first and the last step of a section taken in several steps, and one
\* turn of the loop of rt_ipc_list_resume_all in it.
EnterSection(t) ==
    /\ k' = [k EXCEPT !.irqOff = TRUE]
    /\ Goto(t, "section")

ResumeAllTurn(t, w) ==
    /\ Running(k, t) /\ pc[t] = "section" /\ k.wait[w] # << >>
    /\ k' = ListResumeError(k, w)
    /\ UNCHANGED pc

LeaveSection(t) ==
    /\ k' = [k EXCEPT !.irqOff = FALSE]
    /\ Goto(t, "resched")

-----------------------------------------------------------------------------
Waiting == UNION {Range(k.wait[w]) : w \in WaitList}

\* The threads some other party has resumed, which have not run since: the
\* tick and a reset leave an error code behind.
Woken == {t \in Thread : pc[t] \in {"suspended", "back"} /\ t \notin Waiting /\ k.error[t] = "EOK"}

\* The thread that outranks every other one, in systems that have one and in
\* which priorities do not change.
Highest == {t \in Thread : \A u \in Thread \ {t} : InitPrio[t] < InitPrio[u]}

\* The ready lists, the priority bitmap, the suspend lists and the thread
\* timers agree with each other and with the state of every thread after any
\* interleaving of sections and ticks: rt_schedule and rt_thread_resume trust
\* them blindly.
KernelConsistent == KernelOK(k)

\* Whenever a thread executes outside the kernel, no ready thread outranks it:
\* every section that makes a thread ready is followed by rt_schedule before
\* its caller goes on (scheduler.c: "select one thread with the highest
\* priority level, then switch to it").
HighestRuns == pc[k.cur] = "run" => CurrentIsTop(k)

\* The outcome of a wait is final: a thread that was resumed, timed out or was
\* thrown out of a list keeps the error code it left with, and stays off the
\* lists, until it has run again.
OutcomeFinal ==
    [][\A t \in Thread :
         (/\ pc[t] \in {"suspended", "back"} /\ t \notin Waiting
          /\ pc'[t] \in {pc[t], "back"})
         => k'.error[t] = k.error[t] /\ t \notin Waiting']_<<k, pc>>
=============================================================================
