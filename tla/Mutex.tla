------------------------------- MODULE Mutex -------------------------------
(***************************************************************************)
(* The mutexes of src/rt-thread/src/ipc.c: recursive, owned, and with      *)
(* priority inheritance.  A thread that finds the mutex taken raises the   *)
(* priority of its owner; the owner's release puts back the priority the   *)
(* owner had when it took that mutex, hands the mutex to the first waiter  *)
(* and resumes it.                                                         *)
(***************************************************************************)
EXTENDS Threads

CONSTANTS
    NONE,       \* RT_NULL as an owner, and 0xFF as an original priority
    Flag,       \* "FIFO" or "PRIO": the flag given to rt_mutex_init
    Times,      \* the waiting times of callers; negative waits forever
    MaxHold     \* bound: how often a thread takes a mutex it owns

\* One suspend list for each mutex, so that the lists stand for the mutexes.
Mutexes == WaitList

ASSUME MutexAssumption ==
    /\ NONE \notin Thread \cup Prio
    /\ Flag \in {"FIFO", "PRIO"}
    /\ Times \subseteq Int
    /\ MaxHold \in Nat \ {0}

VARIABLES
    value, owner, original_priority, hold,
    want,      \* the mutex a waiting thread is being given, else NONE
    inside     \* how often each thread is inside each mutex (history)

mutexVars == <<value, owner, original_priority, hold>>
callerVars == <<want, inside>>
vars == <<k, pc, mutexVars, callerVars>>

Init ==
    /\ ThreadsInit
    /\ value = [m \in Mutexes |-> 1]
    /\ owner = [m \in Mutexes |-> NONE]
    /\ original_priority = [m \in Mutexes |-> NONE]
    /\ hold = [m \in Mutexes |-> 0]
    /\ want = [t \in Thread |-> NONE]
    /\ inside = [t \in Thread |-> [m \in Mutexes |-> 0]]

Entered(t, m) == inside' = [inside EXCEPT ![t][m] = @ + 1]

SetError(t, e) == k' = [k EXCEPT !.error[t] = e]

-----------------------------------------------------------------------------
(* rt_mutex_take *)

TakeAgain(t, m) ==
    /\ owner[m] = t /\ hold[m] < MaxHold
    /\ hold' = [hold EXCEPT ![m] = @ + 1]
    /\ SetError(t, "EOK")
    /\ Entered(t, m)
    /\ UNCHANGED <<pc, value, owner, original_priority, want>>

TakeFree(t, m) ==
    /\ owner[m] # t /\ value[m] > 0
    /\ value' = [value EXCEPT ![m] = @ - 1]
    /\ owner' = [owner EXCEPT ![m] = t]
    /\ original_priority' = [original_priority EXCEPT ![m] = k.prio[t]]
    /\ hold' = [hold EXCEPT ![m] = @ + 1]
    /\ SetError(t, "EOK")
    /\ Entered(t, m)
    /\ UNCHANGED <<pc, want>>

\* Mutant of Inherit: the comparison is the wrong way round.
InheritReversed(kk, t, m) ==
    IF kk.prio[t] > kk.prio[owner[m]] THEN ChangePriority(kk, owner[m], kk.prio[t]) ELSE kk

\* The owner gets the caller's priority when the caller's is higher.
Inherit(kk, t, m) ==
    IF kk.prio[t] < kk.prio[owner[m]] THEN ChangePriority(kk, owner[m], kk.prio[t]) ELSE kk

TakeWait(t, m, time) ==
    /\ owner[m] # t /\ value[m] = 0 /\ time # 0
    /\ k' = Block(Inherit(k, t, m), m, t, Flag, time)
    /\ Goto(t, "suspended")
    /\ want' = [want EXCEPT ![t] = m]
    /\ UNCHANGED <<mutexVars, inside>>

TakeFails(t, m) ==
    /\ owner[m] # t /\ value[m] = 0 /\ 0 \in Times
    /\ SetError(t, "ETIMEOUT")
    /\ UNCHANGED <<pc, mutexVars, callerVars>>

Take(t) ==
    /\ MayCall(t)
    /\ \E m \in Mutexes :
          \/ TakeAgain(t, m) \/ TakeFree(t, m) \/ TakeFails(t, m)
          \/ \E time \in Times : TakeWait(t, m, time)

TakeReturn(t) ==
    /\ Running(k, t) /\ pc[t] = "back"
    /\ IF k.error[t] = "EOK" THEN Entered(t, want[t]) ELSE UNCHANGED inside
    /\ want' = [want EXCEPT ![t] = NONE]
    /\ Goto(t, "run")
    /\ UNCHANGED <<k, mutexVars>>

-----------------------------------------------------------------------------
(* rt_mutex_release *)

\* A thread that does not own the mutex gets -RT_ERROR.
ReleaseRefused(t, m) ==
    /\ owner[m] # t
    /\ SetError(t, "ERROR")
    /\ UNCHANGED <<pc, mutexVars, callerVars>>

ReleaseOnce(t, m) ==
    /\ owner[m] = t /\ hold[m] > 1
    /\ hold' = [hold EXCEPT ![m] = @ - 1]
    /\ inside' = [inside EXCEPT ![t][m] = @ - 1]
    /\ UNCHANGED <<k, pc, value, owner, original_priority, want>>

\* Mutant of Restored: the priority is put back only when that raises it.
RestoredUpwards(t, m) ==
    IF original_priority[m] < k.prio[t] THEN ChangePriority(k, t, original_priority[m]) ELSE k

Restored(t, m) ==
    IF original_priority[m] # k.prio[t] THEN ChangePriority(k, t, original_priority[m]) ELSE k

\* The hand-over to the first waiter, followed by rt_schedule.
HandOver(t, m) ==
    LET next == Head(k.wait[m])
        kk   == Restored(t, m)
    IN  /\ owner' = [owner EXCEPT ![m] = next]
        /\ original_priority' = [original_priority EXCEPT ![m] = kk.prio[next]]
        /\ hold' = [hold EXCEPT ![m] = 1]
        /\ k' = ListResume(kk, m)
        /\ Goto(t, "resched")
        /\ UNCHANGED value

\* Nobody waits: no rt_schedule follows, whatever became of the priority.
GiveBack(t, m) ==
    /\ value' = [value EXCEPT ![m] = @ + 1]
    /\ owner' = [owner EXCEPT ![m] = NONE]
    /\ original_priority' = [original_priority EXCEPT ![m] = NONE]
    /\ hold' = [hold EXCEPT ![m] = 0]
    /\ k' = Restored(t, m)
    /\ UNCHANGED pc

ReleaseLast(t, m) ==
    /\ owner[m] = t /\ hold[m] = 1
    /\ inside' = [inside EXCEPT ![t][m] = @ - 1]
    /\ IF k.wait[m] # << >> THEN HandOver(t, m) ELSE GiveBack(t, m)
    /\ UNCHANGED want

Release(t) ==
    /\ MayCall(t)
    /\ \E m \in Mutexes : ReleaseRefused(t, m) \/ ReleaseOnce(t, m) \/ ReleaseLast(t, m)

-----------------------------------------------------------------------------
TickStep == Tick /\ UNCHANGED <<mutexVars, callerVars>>
FireStep == TimerFires /\ UNCHANGED <<mutexVars, callerVars>>

Continue(t) ==
    \/ TakeReturn(t)
    \/ (SleepReturn(t) \/ CallSchedule(t)) /\ UNCHANGED <<mutexVars, callerVars>>

Call(t) ==
    \/ Take(t) \/ Release(t)
    \/ Sleep(t) /\ UNCHANGED <<mutexVars, callerVars>>

Next ==
    \/ \E t \in Thread : Call(t) \/ Continue(t)
    \/ TickStep
    \/ FireStep

Spec == Init /\ [][Next]_vars
-----------------------------------------------------------------------------
\* Mutual exclusion through hand-overs and timeouts: the threads that have
\* returned from rt_mutex_take with RT_EOK are the owner, as many times as
\* hold says, and an owner that is not inside yet is on its way in, resumed
\* for this mutex and never timed out.  A mutex without an owner is free, and
\* nobody waits for it.
OwnerIsInside ==
    \A m \in Mutexes :
        /\ \A t \in Thread :
              /\ inside[t][m] > 0 => owner[m] = t /\ hold[m] = inside[t][m]
              /\ owner[m] = t /\ inside[t][m] = 0 => t \in Woken /\ want[t] = m /\ hold[m] = 1
        /\ value[m] = 1 <=> owner[m] = NONE
        /\ k.wait[m] # << >> => owner[m] # NONE

\* The owner of a mutex is never outranked by a thread that waits for it (the
\* hand-over sets "new owner and priority", ipc.c:778).
OwnerNotOutranked ==
    \A m \in Mutexes : \A t \in Range(k.wait[m]) : k.prio[owner[m]] <= k.prio[t]

\* A thread that owns no mutex has its own priority (rt_mutex_release: "change
\* the owner thread to original priority", ipc.c:763).
PriorityRestored ==
    \A t \in Thread : (\A m \in Mutexes : owner[m] # t) => k.prio[t] = InitPrio[t]
=============================================================================
