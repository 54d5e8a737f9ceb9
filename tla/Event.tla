------------------------------- MODULE Event -------------------------------
(***************************************************************************)
(* One event object of src/rt-thread/src/ipc.c: a set of event bits that   *)
(* receivers wait on, each for all (AND) or for any (OR) of some bits, and *)
(* that a receiver may clear.  A send serves the whole suspend list in its *)
(* order, each waiter seeing what the ones before it have left; the bits a *)
(* waiter got are kept in its own event_set until it runs again.           *)
(***************************************************************************)
EXTENDS Threads

CONSTANTS
    Ev,         \* the one element of WaitList: the suspend list
    EventFlag,  \* RT_IPC_FLAG_FIFO or RT_IPC_FLAG_PRIO
    Bit,        \* the event bits in use
    Requests,   \* the sets and options receivers ask for
    RecvTimes,  \* the timeouts receivers use, in ticks; negative is for ever
    MaxSends    \* bound on the sends of one bit that are not cleared yet

Request == [set : SUBSET Bit, mode : {"AND", "OR"}, clear : BOOLEAN]

ASSUME EventAssumption ==
    /\ WaitList = {Ev}
    /\ EventFlag \in {"FIFO", "PRIO"}
    /\ IsFiniteSet(Bit)
    /\ Requests \subseteq {r \in Request : r.set # {}}
    /\ RecvTimes \subseteq Int
    /\ MaxSends \in Nat

VARIABLES
    set,         \* event->set
    event_set,   \* of every thread: what it waits for, then what it got
    event_info,  \* of every thread: the mode and the clear option
    asked,       \* the bits every suspended call has asked for (history)
    seen,        \* bits that were set while that call looked (history)
    sends        \* per bit: sends that no receiver has cleared (history)

eventVars == <<set, event_set, event_info, asked, seen, sends>>
eventSystem == <<k, pc, eventVars>>

EventWaiters == k.wait[Ev]

EventInit ==
    /\ ThreadsInit
    /\ set = {}
    /\ event_set = [t \in Thread |-> {}]
    /\ event_info = [t \in Thread |-> [mode |-> "OR", clear |-> FALSE]]
    /\ asked = [t \in Thread |-> {}]
    /\ seen = [t \in Thread |-> {}]
    /\ sends = [b \in Bit |-> 0]

-----------------------------------------------------------------------------
\* Whether the bits s satisfy a request.
Satisfied(s, mode, bits) ==
    IF mode = "AND" THEN bits \subseteq s ELSE s \cap bits # {}

\* The sends that are left when a receiver has cleared some bits.
Cleared(c, bits) == [b \in Bit |-> IF b \in bits THEN c[b] - 1 ELSE c[b]]

-----------------------------------------------------------------------------
(* rt_event_recv *)

\* The bits are there: the call reports set \cap r.set.
RecvNow(t, r) ==
    /\ Satisfied(set, r.mode, r.set)
    /\ set' = IF r.clear THEN set \ r.set ELSE set
    /\ sends' = IF r.clear THEN Cleared(sends, set \cap r.set) ELSE sends
    /\ UNCHANGED <<k, pc, event_set, event_info, asked, seen>>

RecvWait(t, r) ==
    /\ ~ Satisfied(set, r.mode, r.set)
    /\ \E time \in RecvTimes \ {0} : Wait(t, Ev, EventFlag, time)
    /\ event_set' = [event_set EXCEPT ![t] = r.set]
    /\ event_info' = [event_info EXCEPT ![t] = [mode |-> r.mode, clear |-> r.clear]]
    /\ asked' = [asked EXCEPT ![t] = r.set]
    /\ seen' = [seen EXCEPT ![t] = set]
    /\ UNCHANGED <<set, sends>>

\* With timeout 0 a call that finds nothing changes nothing but the error
\* code, which every later call resets.
Recv(t) == MayCall(t) /\ \E r \in Requests : RecvNow(t, r) \/ RecvWait(t, r)

\* Back from rt_schedule the call returns the error code of the thread; when
\* that is RT_EOK it reports the thread's own event_set.
RecvReturn(t) ==
    /\ Running(k, t) /\ pc[t] = "back"
    /\ asked' = [asked EXCEPT ![t] = {}]
    /\ seen' = [seen EXCEPT ![t] = {}]
    /\ Goto(t, "run")
    /\ UNCHANGED <<k, set, event_set, event_info, sends>>

-----------------------------------------------------------------------------
(* rt_event_send: one walk over the suspend list, on what the walk changes  *)

\* Mutant of Serve: the bits the waiter got are not cleared.
ServeWithoutClear(w, t) ==
    IF ~ Satisfied(w.set, event_info[t].mode, w.event_set[t])
    THEN w
    ELSE LET got == w.event_set[t] \cap w.set
         IN  [w EXCEPT !.event_set[t] = got,
                       !.sends = IF event_info[t].clear THEN Cleared(@, got) ELSE @,
                       !.k = Resume(@, t)]

\* Mutant of Serve: an OR waiter keeps all the bits it has asked for.
ServeWhatWasAsked(w, t) ==
    IF ~ Satisfied(w.set, event_info[t].mode, w.event_set[t])
    THEN w
    ELSE LET got == w.event_set[t]
         IN  [w EXCEPT !.set = IF event_info[t].clear THEN @ \ got ELSE @,
                       !.sends = IF event_info[t].clear THEN Cleared(@, got) ELSE @,
                       !.k = Resume(@, t)]

\* The walk at waiter t.  A thread that waits for all of its bits has got all
\* of them, so that event_set & event->set is what it got in both modes.
Serve(w, t) ==
    IF ~ Satisfied(w.set, event_info[t].mode, w.event_set[t])
    THEN w
    ELSE LET got == w.event_set[t] \cap w.set
         IN  [w EXCEPT !.event_set[t] = got,
                       !.set = IF event_info[t].clear THEN @ \ got ELSE @,
                       !.sends = IF event_info[t].clear THEN Cleared(@, got) ELSE @,
                       !.k = Resume(@, t)]

\* What a send of some bits starts the walk with.
Offered(bits) ==
    [k |-> k, set |-> set \cup bits, event_set |-> event_set,
     sends |-> [b \in Bit |-> IF b \in bits THEN sends[b] + 1 ELSE sends[b]]]

\* Mutant of ServeAll: the walk ends at the first waiter it has resumed.
ServeFirst(bits) ==
    LET hit == SelectSeq(EventWaiters, LAMBDA t :
                   Satisfied(set \cup bits, event_info[t].mode, event_set[t]))
    IN  IF hit = << >> THEN Offered(bits) ELSE Serve(Offered(bits), Head(hit))

ServeAll(bits) ==
    LET walk[n \in 0 .. Len(EventWaiters)] ==
          IF n = 0 THEN Offered(bits) ELSE Serve(walk[n - 1], EventWaiters[n])
    IN  walk[Len(EventWaiters)]

\* What both kinds of sender change; rt_schedule follows when the walk has
\* resumed a thread.
SendStep(bits) ==
    /\ \A b \in bits : sends[b] < MaxSends
    /\ LET w == ServeAll(bits)
       IN  set' = w.set /\ event_set' = w.event_set /\ sends' = w.sends
    /\ seen' = [t \in Thread |->
                  IF t \in Range(EventWaiters) THEN seen[t] \cup bits ELSE seen[t]]
    /\ UNCHANGED <<event_info, asked>>

Send(t) ==
    /\ MayCall(t)
    /\ \E bits \in SUBSET Bit \ {{}} :
          /\ SendStep(bits)
          /\ k' = ServeAll(bits).k
    /\ Goto(t, IF k' = k THEN "run" ELSE "resched")

IsrSend ==
    /\ Interruptible(k)
    /\ \E bits \in SUBSET Bit \ {{}} :
          LET s == ServeAll(bits).k
          IN  SendStep(bits) /\ k' = IF s = k THEN k ELSE Schedule(s)
    /\ UNCHANGED pc

-----------------------------------------------------------------------------
(* rt_event_control(RT_IPC_CMD_RESET) *)

EventResetBegin(t) == MayCall(t) /\ EnterSection(t) /\ UNCHANGED eventVars

EventResetTurn(t) == ResumeAllTurn(t, Ev) /\ UNCHANGED eventVars

EventResetEnd(t) ==
    /\ Running(k, t) /\ pc[t] = "section" /\ EventWaiters = << >>
    /\ LeaveSection(t)
    /\ set' = {}
    /\ sends' = [b \in Bit |-> 0]
    /\ UNCHANGED <<event_set, event_info, asked, seen>>

-----------------------------------------------------------------------------
EventCall(t) ==
    \/ Recv(t) \/ Send(t) \/ EventResetBegin(t)
    \/ Sleep(t) /\ UNCHANGED eventVars

EventContinue(t) ==
    \/ RecvReturn(t) \/ EventResetTurn(t) \/ EventResetEnd(t)
    \/ (SleepReturn(t) \/ CallSchedule(t)) /\ UNCHANGED eventVars

EventNext ==
    \/ \E t \in Thread : EventCall(t) \/ EventContinue(t)
    \/ IsrSend
    \/ Tick /\ UNCHANGED eventVars
    \/ TimerFires /\ UNCHANGED eventVars

EventSpec == EventInit /\ [][EventNext]_eventSystem
-----------------------------------------------------------------------------
\* Nobody is left on the suspend list of rt_event_send or rt_event_recv with a
\* request that the bits in event->set satisfy: one walk, in which waiters
\* clear bits under the later ones, leaves nobody behind.
NoSatisfiedWaiter ==
    \A t \in Range(EventWaiters) : ~ Satisfied(set, event_info[t].mode, event_set[t])

\* A receiver that will return RT_EOK from its wait will report bits it asked
\* for that were set while it looked or waited - at least one, and all of them
\* with RT_EVENT_FLAG_AND - however long after the send it runs, and whatever
\* other sends, timeouts and resets come in between.
ReceivedIsReal ==
    \A t \in Woken :
        /\ event_set[t] # {} /\ event_set[t] \subseteq asked[t] \cap seen[t]
        /\ event_info[t].mode = "AND" => event_set[t] = asked[t]

\* With RT_EVENT_FLAG_CLEAR a bit goes to one receiver per send at most: a bit
\* is in event->set only when a send of it has not been cleared yet, and no
\* receiver clears, and reports, a bit that an earlier one had cleared.
ClearedOnce == \A b \in Bit : sends[b] >= (IF b \in set THEN 1 ELSE 0)
=============================================================================
