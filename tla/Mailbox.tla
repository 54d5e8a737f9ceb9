------------------------------ MODULE Mailbox ------------------------------
(***************************************************************************)
(* One mailbox of src/rt-thread/src/ipc.c: a ring of words with two lists  *)
(* of suspended threads, the receivers of an empty mailbox and the senders *)
(* of a full one.  A resumed thread is not given the message or the room   *)
(* it was resumed for: it tests entry again, and waits again for the rest  *)
(* of its timeout when another thread was faster.                          *)
(***************************************************************************)
EXTENDS Threads

CONSTANTS
    RecvList,   \* mb->parent.suspend_thread
    SendList,   \* mb->suspend_sender_thread
    Size,       \* mb->size
    Msg,        \* the words sent
    Flag,       \* "FIFO" or "PRIO": the flag given to rt_mb_init
    Times,      \* the waiting times of callers; negative waits forever
    Senders,    \* the threads that send
    Receivers   \* the threads that receive and reset

ASSUME MailboxAssumption ==
    /\ WaitList = {RecvList, SendList} /\ RecvList # SendList
    /\ Size \in Nat \ {0} /\ Msg # {}
    /\ Flag \in {"FIFO", "PRIO"}
    /\ Times \subseteq Int
    /\ Senders \subseteq Thread /\ Receivers \subseteq Thread

VARIABLES
    pool,        \* mb->msg_pool
    in_offset, out_offset, entry,
    call,        \* the call a waiting thread is in
    value,       \* the argument of a waiting sender
    left,        \* the local variable timeout of a waiting thread, else 0
    since,       \* rt_tick_get() - tick_delta of a timed call: its round so far
    rest         \* history: what is left of the time the call was made with

boxVars == <<pool, in_offset, out_offset, entry>>
localVars == <<call, value, left, since, rest>>
vars == <<k, pc, boxVars, localVars>>

\* Where the threads in a call wait.
ListOf(c) == IF c = "recv" THEN RecvList ELSE SendList

Init ==
    /\ ThreadsInit
    /\ pool = [i \in 0 .. Size - 1 |-> CHOOSE m \in Msg : TRUE]
    /\ in_offset = 0 /\ out_offset = 0 /\ entry = 0
    /\ call = [t \in Thread |-> "none"]
    /\ value = [t \in Thread |-> CHOOSE m \in Msg : TRUE]
    /\ left = [t \in Thread |-> 0]
    /\ since = [t \in Thread |-> 0]
    /\ rest = [t \in Thread |-> 0]

NextOffset(i) == IF i + 1 >= Size THEN 0 ELSE i + 1

Store(m) ==
    /\ entry # Size
    /\ pool' = [pool EXCEPT ![in_offset] = m]
    /\ in_offset' = NextOffset(in_offset)
    /\ entry' = entry + 1
    /\ UNCHANGED out_offset

Fetch ==
    /\ entry # 0
    /\ out_offset' = NextOffset(out_offset)
    /\ entry' = entry - 1
    /\ UNCHANGED <<pool, in_offset>>

\* A caller's local variables are gone when its call has ended.
EndCall(t) ==
    /\ call' = [call EXCEPT ![t] = "none"]
    /\ value' = [value EXCEPT ![t] = CHOOSE m \in Msg : TRUE]
    /\ left' = [left EXCEPT ![t] = 0]
    /\ since' = [since EXCEPT ![t] = 0]
    /\ rest' = [rest EXCEPT ![t] = 0]

-----------------------------------------------------------------------------
(* rt_mb_send_wait and rt_mb_recv.  Each is one section when it does not    *)
(* have to wait; without a timeout a failed call changes nothing.           *)

\* Mutants of SendNow and RecvNow: the other side is not resumed.
SendNowSilent(t, m) == Store(m) /\ Goto(t, "run") /\ EndCall(t) /\ UNCHANGED k

RecvNowSilent(t) == Fetch /\ Goto(t, "run") /\ EndCall(t) /\ UNCHANGED k

SendNow(t, m) == Store(m) /\ Wake(t, RecvList) /\ EndCall(t)

RecvNow(t) == Fetch /\ Wake(t, SendList) /\ EndCall(t)

\* One round of the loops: it ends with the caller on its list, the timer running
\* for what is left of the timeout.
Suspended(t, c, m, time) ==
    /\ time # 0
    /\ Wait(t, ListOf(c), Flag, time)
    /\ call' = [call EXCEPT ![t] = c]
    /\ value' = [value EXCEPT ![t] = m]
    /\ left' = [left EXCEPT ![t] = time]
    /\ since' = [since EXCEPT ![t] = 0]
    /\ UNCHANGED boxVars

SendWait(t, m, time) == entry = Size /\ Suspended(t, "send", m, time)

RecvWait(t, time) == entry = 0 /\ Suspended(t, "recv", value[t], time)

CalledWith(t, time) == rest' = [rest EXCEPT ![t] = time]

Send(t) ==
    /\ MayCall(t)
    /\ \E m \in Msg :
          \/ SendNow(t, m)
          \/ \E time \in Times : SendWait(t, m, time) /\ CalledWith(t, time)

Recv(t) ==
    /\ MayCall(t)
    /\ \/ RecvNow(t)
       \/ \E time \in Times : RecvWait(t, time) /\ CalledWith(t, time)

\* rt_mb_send in an interrupt handler
IsrSend ==
    /\ Interruptible(k)
    /\ \E m \in Msg : Store(m)
    /\ IsrWake(RecvList)
    /\ UNCHANGED localVars

\* timeout -= rt_tick_get() - tick_delta, but not below 0
Remaining(t) == IF left[t] > since[t] THEN left[t] - since[t]
                ELSE IF left[t] > 0 THEN 0 ELSE left[t]

\* Back from rt_schedule: the loop tests entry again.
Resumed(t) == Running(k, t) /\ pc[t] = "back" /\ k.error[t] = "EOK"

\* Mutants of SendRetries and RecvRetries: each round waits for the whole timeout.
SendRetriesAnew(t) ==
    /\ Resumed(t) /\ call[t] = "send"
    /\ \/ SendNow(t, value[t])
       \/ SendWait(t, value[t], left[t]) /\ UNCHANGED rest

RecvRetriesAnew(t) ==
    /\ Resumed(t) /\ call[t] = "recv"
    /\ \/ RecvNow(t)
       \/ RecvWait(t, left[t]) /\ UNCHANGED rest

SendRetries(t) ==
    /\ Resumed(t) /\ call[t] = "send"
    /\ \/ SendNow(t, value[t])
       \/ SendWait(t, value[t], Remaining(t)) /\ UNCHANGED rest

RecvRetries(t) ==
    /\ Resumed(t) /\ call[t] = "recv"
    /\ \/ RecvNow(t)
       \/ RecvWait(t, Remaining(t)) /\ UNCHANGED rest

\* The wait ended with an error, or the rest of the timeout is used up; only
\* rt_mb_recv leaves its error code in the thread then.
CallFails(t) ==
    /\ \/ Running(k, t) /\ pc[t] = "back" /\ k.error[t] # "EOK" /\ UNCHANGED k
       \/ Resumed(t) /\ call[t] = "send" /\ entry = Size /\ Remaining(t) = 0 /\ UNCHANGED k
       \/ /\ Resumed(t) /\ call[t] = "recv" /\ entry = 0 /\ Remaining(t) = 0
          /\ k' = [k EXCEPT !.error[t] = "ETIMEOUT"]
    /\ Goto(t, "run")
    /\ EndCall(t)
    /\ UNCHANGED boxVars

-----------------------------------------------------------------------------
(* rt_mb_control(RT_IPC_CMD_RESET): first all receivers, then all senders. *)

ResetBegin(t) == MayCall(t) /\ EnterSection(t) /\ UNCHANGED <<boxVars, localVars>>

ResetTurn(t) ==
    /\ \/ ResumeAllTurn(t, RecvList)
       \/ k.wait[RecvList] = << >> /\ ResumeAllTurn(t, SendList)
    /\ UNCHANGED <<boxVars, localVars>>

\* Mutant of ResetEnd: in_offset is forgotten.
ResetEndKeepsIn(t) ==
    /\ Running(k, t) /\ pc[t] = "section"
    /\ k.wait[RecvList] = << >> /\ k.wait[SendList] = << >>
    /\ LeaveSection(t)
    /\ out_offset' = 0 /\ entry' = 0
    /\ UNCHANGED <<pool, in_offset, localVars>>

ResetEnd(t) ==
    /\ Running(k, t) /\ pc[t] = "section"
    /\ k.wait[RecvList] = << >> /\ k.wait[SendList] = << >>
    /\ LeaveSection(t)
    /\ in_offset' = 0 /\ out_offset' = 0 /\ entry' = 0
    /\ UNCHANGED <<pool, localVars>>

-----------------------------------------------------------------------------
\* The tick counter, which tick_delta was read from; what has passed beyond the
\* timeout is not told apart.
TickStep ==
    /\ Tick
    /\ since' = [t \in Thread |-> IF since[t] < left[t] THEN since[t] + 1 ELSE since[t]]
    /\ rest' = [t \in Thread |-> IF rest[t] > 0 THEN rest[t] - 1 ELSE rest[t]]
    /\ UNCHANGED <<boxVars, call, value, left>>

FireStep == TimerFires /\ UNCHANGED <<boxVars, localVars>>

Continue(t) ==
    \/ SendRetries(t) \/ RecvRetries(t) \/ CallFails(t)
    \/ ResetTurn(t) \/ ResetEnd(t)
    \/ (SleepReturn(t) \/ CallSchedule(t)) /\ UNCHANGED <<boxVars, localVars>>

Call(t) ==
    \/ t \in Senders /\ Send(t)
    \/ t \in Receivers /\ (Recv(t) \/ ResetBegin(t))
    \/ Sleep(t) /\ UNCHANGED <<boxVars, localVars>>

Next ==
    \/ \E t \in Thread : Call(t) \/ Continue(t)
    \/ IsrSend
    \/ TickStep
    \/ FireStep

Spec == Init /\ [][Next]_vars

\* A tick that comes while interrupts are disabled is pending until they are
\* enabled, and handlers end.  A thread that comes to run again and again gets on:
\* a time slice lasts ticks, and what is between two points of the model far less.
Fairness ==
    /\ SF_vars(TickStep) /\ WF_vars(FireStep)
    /\ \A t \in Thread : SF_vars(Continue(t))

FairSpec == Spec /\ Fairness
-----------------------------------------------------------------------------
WokenIn(c) == {t \in Woken : call[t] = c}

\* No message is stranded: while receivers wait, each message in the box has a
\* resumed receiver on its way to it.
NoStrandedMessage ==
    k.wait[RecvList] # << >> => entry <= Cardinality(WokenIn("recv"))

\* No room is stranded: while senders wait, each free word of the ring has a
\* resumed sender on its way to it.  With NoStrandedMessage, the two sides never
\* wait for each other.
NoStrandedRoom ==
    k.wait[SendList] # << >> => Size - entry <= Cardinality(WokenIn("send"))

\* The ring with its offsets that wrap around implements a bounded queue, also
\* across a reset that throws its content away.
Content == [i \in 1 .. entry |-> pool[(out_offset + i - 1) % Size]]
Queue == INSTANCE Fifo WITH
            q <- Content, Capacity <- Size, Normal <- Msg, Urgent <- {}
ImplementsFifo == Queue!Spec

\* Time until a thread is taken off its list by its timer.
TimeToFire(t) == IF t \in k.due THEN 0 ELSE k.timer[t]

\* However often a sender or receiver has been resumed, overtaken and put back on
\* its list, its timer fires when the time it was called with is over, counted
\* from the start of the call: no round loses time and none starts it anew.
DeadlineKept ==
    \A t \in Waiting :
        IF rest[t] < 0 THEN k.timer[t] = 0 ELSE k.timer[t] > 0 /\ TimeToFire(t) = rest[t]

\* Thread t is ready, and others have the processor.
Starved(t) == k.stat[t] = "READY" /\ k.cur # t

\* A timed call comes back, however often other threads or interrupt handlers
\* take the message or the room it was resumed for, unless from some time on the
\* thread is ready and the scheduler never comes to it.
TimedCallReturns ==
    \A t \in Senders \cup Receivers :
        [](pc[t] = "suspended" /\ rest[t] > 0 => <>(pc[t] = "run" \/ []Starved(t)))
=============================================================================
