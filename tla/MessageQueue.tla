---------------------------- MODULE MessageQueue ----------------------------
(***************************************************************************)
(* One message queue of src/rt-thread/src/ipc.c.  Its messages live in a   *)
(* pool of slots linked through their next pointers into the queue or into *)
(* the free list; a sender takes a slot in one section, copies the message *)
(* with interrupts enabled and links the slot in a second section, and a   *)
(* receiver does the reverse, so slots are also on their way while other   *)
(* threads and interrupt handlers work on both lists.                      *)
(***************************************************************************)
EXTENDS Threads

CONSTANTS
    Mq,       \* the one element of WaitList
    Slot,     \* the msg_pool: max_msgs slots
    NULL,
    Normal,   \* the messages rt_mq_send is called with
    Urgent,   \* the messages rt_mq_urgent is called with
    Flag,     \* "FIFO" or "PRIO": the flag given to rt_mq_init
    Times,    \* the waiting times of receivers; negative waits forever
    Senders,  \* the threads that send and reset
    Receivers \* the threads that receive

ASSUME MessageQueueAssumption ==
    /\ WaitList = {Mq}
    /\ IsFiniteSet(Slot) /\ Slot # {} /\ NULL \notin Slot
    /\ Flag \in {"FIFO", "PRIO"}
    /\ Times \subseteq Int
    /\ Normal \cup Urgent # {}
    /\ Senders \subseteq Thread /\ Receivers \subseteq Thread

Msg == Normal \cup Urgent

VARIABLES
    next,    \* msg->next of every slot
    body,    \* the message in every slot
    head,    \* mq->msg_queue_head
    tail,    \* mq->msg_queue_tail
    free,    \* mq->msg_queue_free
    entry,   \* mq->entry
    slot,    \* the local variable msg of each thread, NULL outside the calls
    op,      \* the call each thread is copying for
    left,    \* the local variable timeout of each receiver, 0 outside rt_mq_recv
    since,   \* rt_tick_get() - tick_delta of a timed receiver: its round so far
    rest     \* history: what is left of the time the receiver was called with

timeVars == <<left, since, rest>>
mqVars == <<next, body, head, tail, free, entry, slot, op, timeVars>>
vars == <<k, pc, mqVars>>

Waiters == k.wait[Mq]

\* The lists the slots can make up, and list c being the one from pointer p on.
Lists == {c \in SeqOf(Slot, Cardinality(Slot)) : IsInjective(c)}

Linked(c, p) ==
    /\ p = IF c = << >> THEN NULL ELSE c[1]
    /\ \A i \in 1 .. Len(c) : next[c[i]] = IF i = Len(c) THEN NULL ELSE c[i + 1]

\* The list that starts at p; pointers that run in a circle make up none.
Chain(p) ==
    IF \E c \in Lists : Linked(c, p) THEN CHOOSE c \in Lists : Linked(c, p) ELSE << >>

\* The slots in the order of their addresses.
PoolOrder == CHOOSE o \in [1 .. Cardinality(Slot) -> Slot] : IsInjective(o)

\* rt_mq_init: the free list holds the pool from the last slot to the first.
Init ==
    /\ ThreadsInit
    /\ next = [s \in Slot |-> IF s = PoolOrder[1] THEN NULL
                              ELSE PoolOrder[CHOOSE i \in 1 .. Cardinality(Slot) - 1 : PoolOrder[i + 1] = s]]
    /\ free = PoolOrder[Cardinality(Slot)]
    /\ body = [s \in Slot |-> CHOOSE m \in Msg : TRUE]
    /\ head = NULL /\ tail = NULL /\ entry = 0
    /\ slot = [t \in Thread |-> NULL]
    /\ op = [t \in Thread |-> "none"]
    /\ left = [t \in Thread |-> 0]
    /\ since = [t \in Thread |-> 0]
    /\ rest = [t \in Thread |-> 0]

-----------------------------------------------------------------------------
(* rt_mq_send and rt_mq_urgent *)

\* The first section: a full queue returns -RT_EFULL at once.
SendBegin(t, o) ==
    /\ MayCall(t) /\ free # NULL
    /\ slot' = [slot EXCEPT ![t] = free]
    /\ free' = next[free]
    /\ op' = [op EXCEPT ![t] = o]
    /\ Goto(t, "copying")
    /\ UNCHANGED <<k, next, body, head, tail, entry, timeVars>>

\* The copy, which nobody else can see, and the two ways to link slot s.
LinkLast(s, m) ==
    /\ body' = [body EXCEPT ![s] = m]
    /\ next' = IF tail = NULL THEN [next EXCEPT ![s] = NULL]
                              ELSE [next EXCEPT ![s] = NULL, ![tail] = s]
    /\ tail' = s
    /\ head' = IF head = NULL THEN s ELSE head
    /\ entry' = entry + 1

\* Mutant of LinkFirst: the slot does not point to the old head.
LinkFirstOnly(s, m) ==
    /\ body' = [body EXCEPT ![s] = m]
    /\ next' = [next EXCEPT ![s] = NULL]
    /\ head' = s
    /\ tail' = IF tail = NULL THEN s ELSE tail
    /\ entry' = entry + 1

LinkFirst(s, m) ==
    /\ body' = [body EXCEPT ![s] = m]
    /\ next' = [next EXCEPT ![s] = head]
    /\ head' = s
    /\ tail' = IF tail = NULL THEN s ELSE tail
    /\ entry' = entry + 1

Link(s, o) ==
    \/ o = "send" /\ \E m \in Normal : LinkLast(s, m)
    \/ o = "urgent" /\ \E m \in Urgent : LinkFirst(s, m)

\* The second section.
SendLink(t) ==
    /\ Running(k, t) /\ pc[t] = "copying" /\ op[t] \in {"send", "urgent"}
    /\ Link(slot[t], op[t])
    /\ slot' = [slot EXCEPT ![t] = NULL]
    /\ op' = [op EXCEPT ![t] = "none"]
    /\ Wake(t, Mq)
    /\ UNCHANGED <<free, timeVars>>

\* Mutant of IsrSend: a receiver is resumed for an empty queue only.
IsrSendWakesOnEmpty(o) ==
    /\ Interruptible(k) /\ free # NULL
    /\ free' = next[free]
    /\ Link(free, o)
    /\ IF entry = 0 THEN IsrWake(Mq) ELSE UNCHANGED <<k, pc>>
    /\ UNCHANGED <<slot, op, timeVars>>

\* An interrupt handler sends; no thread runs between its two sections.
IsrSend(o) ==
    /\ Interruptible(k) /\ free # NULL
    /\ free' = next[free]
    /\ Link(free, o)
    /\ IsrWake(Mq)
    /\ UNCHANGED <<slot, op, timeVars>>

-----------------------------------------------------------------------------
(* rt_mq_recv *)

\* The local variables of a call that does not wait any more.
EndWait(t) ==
    /\ left' = [left EXCEPT ![t] = 0]
    /\ since' = [since EXCEPT ![t] = 0]
    /\ rest' = [rest EXCEPT ![t] = 0]

\* Mutants of TakeFirst: the tail keeps pointing to the slot, or the slot is
\* freed before the message is copied out of it.
TakeFirstKeepsTail(t) ==
    /\ slot' = [slot EXCEPT ![t] = head]
    /\ head' = next[head]
    /\ entry' = entry - 1
    /\ op' = [op EXCEPT ![t] = "recv"]
    /\ EndWait(t)
    /\ Goto(t, "copying")
    /\ UNCHANGED <<k, next, body, free, tail>>

TakeFirstFrees(t) ==
    /\ slot' = [slot EXCEPT ![t] = head]
    /\ head' = next[head]
    /\ tail' = IF tail = head THEN NULL ELSE tail
    /\ next' = [next EXCEPT ![head] = free]
    /\ free' = head
    /\ entry' = entry - 1
    /\ op' = [op EXCEPT ![t] = "recv"]
    /\ EndWait(t)
    /\ Goto(t, "copying")
    /\ UNCHANGED <<k, body>>

TakeFirst(t) ==
    /\ slot' = [slot EXCEPT ![t] = head]
    /\ head' = next[head]
    /\ tail' = IF tail = head THEN NULL ELSE tail
    /\ entry' = entry - 1
    /\ op' = [op EXCEPT ![t] = "recv"]
    /\ EndWait(t)
    /\ Goto(t, "copying")
    /\ UNCHANGED <<k, next, body, free>>

\* One round of the loop: it ends with the caller on the suspend list, its timer
\* running for what is left of its timeout.
\* Mutant of RecvWait: tick_delta is taken in the first round only.
RecvWaitOneDelta(t, time) ==
    /\ entry = 0 /\ time # 0
    /\ Wait(t, Mq, Flag, time)
    /\ left' = [left EXCEPT ![t] = time]
    /\ UNCHANGED <<since, next, body, head, tail, free, entry, slot, op>>

RecvWait(t, time) ==
    /\ entry = 0 /\ time # 0
    /\ Wait(t, Mq, Flag, time)
    /\ left' = [left EXCEPT ![t] = time]
    /\ since' = [since EXCEPT ![t] = 0]
    /\ UNCHANGED <<next, body, head, tail, free, entry, slot, op>>

RecvBegin(t) ==
    /\ MayCall(t)
    /\ \/ entry > 0 /\ TakeFirst(t)
       \/ \E time \in Times : RecvWait(t, time) /\ rest' = [rest EXCEPT ![t] = time]

\* timeout -= rt_tick_get() - tick_delta, but not below 0
Remaining(t) == IF left[t] > since[t] THEN left[t] - since[t]
                ELSE IF left[t] > 0 THEN 0 ELSE left[t]

\* Back from rt_schedule: an error ends the call; otherwise the loop tests
\* entry again, since another receiver may have come first.
RecvFails(t) ==
    /\ Running(k, t) /\ pc[t] = "back"
    /\ \/ k.error[t] # "EOK" /\ UNCHANGED k
       \/ /\ k.error[t] = "EOK" /\ entry = 0 /\ Remaining(t) = 0
          /\ k' = [k EXCEPT !.error[t] = "ETIMEOUT"]
    /\ Goto(t, "run")
    /\ EndWait(t)
    /\ UNCHANGED <<next, body, head, tail, free, entry, slot, op>>

\* Mutant of RecvRetries: each round waits for the whole timeout.
RecvRetriesAnew(t) ==
    /\ Running(k, t) /\ pc[t] = "back" /\ k.error[t] = "EOK"
    /\ \/ entry > 0 /\ TakeFirst(t)
       \/ RecvWait(t, left[t]) /\ UNCHANGED rest

RecvRetries(t) ==
    /\ Running(k, t) /\ pc[t] = "back" /\ k.error[t] = "EOK"
    /\ \/ entry > 0 /\ TakeFirst(t)
       \/ RecvWait(t, Remaining(t)) /\ UNCHANGED rest

\* The last section puts the slot on the free list.
RecvFree(t) ==
    /\ Running(k, t) /\ pc[t] = "copying" /\ op[t] = "recv"
    /\ next' = [next EXCEPT ![slot[t]] = free]
    /\ free' = slot[t]
    /\ slot' = [slot EXCEPT ![t] = NULL]
    /\ op' = [op EXCEPT ![t] = "none"]
    /\ Goto(t, "run")
    /\ UNCHANGED <<k, body, head, tail, entry, timeVars>>

-----------------------------------------------------------------------------
(* rt_mq_control(RT_IPC_CMD_RESET) *)

ResetBegin(t) == MayCall(t) /\ EnterSection(t) /\ UNCHANGED mqVars

ResetTurn(t) == ResumeAllTurn(t, Mq) /\ UNCHANGED mqVars

\* Every queued slot goes to the front of the free list, first one first.
ResetEnd(t) ==
    /\ Running(k, t) /\ pc[t] = "section" /\ Waiters = << >>
    /\ LeaveSection(t)
    /\ LET c == Chain(head) IN
       /\ next' = [s \in Slot |-> IF s \notin Range(c) THEN next[s]
                                  ELSE IF s = c[1] THEN free
                                  ELSE c[CHOOSE i \in 1 .. Len(c) - 1 : c[i + 1] = s]]
       /\ free' = IF c = << >> THEN free ELSE c[Len(c)]
       /\ tail' = IF tail \in Range(c) THEN NULL ELSE tail
    /\ head' = NULL
    /\ entry' = 0
    /\ UNCHANGED <<body, slot, op, timeVars>>

-----------------------------------------------------------------------------
\* The tick counter, which tick_delta was read from; what has passed beyond the
\* timeout is not told apart.
TickStep ==
    /\ Tick
    /\ since' = [t \in Thread |-> IF since[t] < left[t] THEN since[t] + 1 ELSE since[t]]
    /\ rest' = [t \in Thread |-> IF rest[t] > 0 THEN rest[t] - 1 ELSE rest[t]]
    /\ UNCHANGED <<left, next, body, head, tail, free, entry, slot, op>>

FireStep == TimerFires /\ UNCHANGED mqVars

Continue(t) ==
    \/ SendLink(t) \/ RecvFails(t) \/ RecvRetries(t) \/ RecvFree(t)
    \/ ResetTurn(t) \/ ResetEnd(t)
    \/ (SleepReturn(t) \/ CallSchedule(t)) /\ UNCHANGED mqVars

Call(t) ==
    \/ t \in Senders /\ (SendBegin(t, "send") \/ SendBegin(t, "urgent") \/ ResetBegin(t))
    \/ t \in Receivers /\ RecvBegin(t)
    \/ Sleep(t) /\ UNCHANGED mqVars

Next ==
    \/ \E t \in Thread : Call(t) \/ Continue(t)
    \/ \E o \in {"send", "urgent"} : IsrSend(o)
    \/ TickStep
    \/ FireStep

Spec == Init /\ [][Next]_vars
-----------------------------------------------------------------------------
\* The slots never leak and are never in two places: the queue, the free list
\* and the slots threads hold between their two sections are disjoint and
\* make up the pool, the tail pointer is the end of the queue, and entry its
\* length, whatever ran between the two sections of a send or a receive.
SlotsAccounted ==
    LET queued == Chain(head)
        unused == Chain(free)
        held   == {t \in Thread : slot[t] # NULL}
    IN  /\ IsInjective(queued \o unused)
        /\ entry = Len(queued)
        /\ tail = IF queued = << >> THEN NULL ELSE queued[Len(queued)]
        /\ \A t \in held : slot[t] \notin Range(queued \o unused)
        /\ \A t, u \in held : slot[t] = slot[u] => t = u
        /\ Len(queued) + Len(unused) + Cardinality(held) = Cardinality(Slot)

\* No message is stranded: while receivers wait, every message in the queue has
\* a receiver of its own that has been resumed for it and is on its way.  A
\* receiver that comes first to the message may leave the resumed one to wait
\* again, never the other way round.
NoStrandedMessage == Waiters # << >> => entry <= Cardinality(Woken)

\* The message a receiver is copying with interrupts enabled is out of reach of
\* every sender.
CopyUndisturbed ==
    [][\A t \in Thread :
         (pc[t] = "copying" /\ op[t] = "recv" /\ pc'[t] = "copying") =>
            body'[slot[t]] = body[slot[t]] /\ slot'[t] = slot[t]]_vars

\* The pointers implement the queue that rt_mq_send, rt_mq_urgent and
\* rt_mq_recv promise: each linked message comes out once and in order.
Queue == INSTANCE Fifo WITH
            q        <- [i \in DOMAIN Chain(head) |-> body[Chain(head)[i]]],
            Capacity <- Cardinality(Slot)
ImplementsFifo == Queue!Spec

\* Time until a thread is taken off its list by its timer.
TimeToFire(t) == IF t \in k.due THEN 0 ELSE k.timer[t]

\* However often a receiver has been resumed, overtaken and put back on the
\* list, its timer fires when the time it was called with is over, counted from
\* the start of the call: no round loses time and none starts it anew.
DeadlineKept ==
    \A t \in Range(Waiters) :
        IF rest[t] < 0 THEN k.timer[t] = 0 ELSE k.timer[t] > 0 /\ TimeToFire(t) = rest[t]
=============================================================================
