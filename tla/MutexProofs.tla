---------------------------- MODULE MutexProofs ----------------------------
(***************************************************************************)
(* Mutual exclusion of the mutexes of module Mutex, and the consistency of *)
(* the kernel under their changes of priority, for every number of         *)
(* threads, mutexes and priorities, both flags, all waiting times and any  *)
(* nesting of calls.                                                       *)
(*                                                                         *)
(* OwnerIsInside looks at threads that have returned from rt_mutex_take.   *)
(* It is not inductive: a thread on the suspend list becomes the owner in  *)
(* the code of another thread, and enters only when it runs again, so what *)
(* it waits for has to be known while it waits (WaitersWant) and what it   *)
(* was given while it is on its way in (OwnersEnter).  TopRuns of          *)
(* ThreadsProofs does not hold here: rt_mutex_release lowers the priority  *)
(* of its caller and calls rt_schedule only when it resumes a thread.      *)
(*                                                                         *)
(* The second half is about priorities.  What it proves holds as long as   *)
(* no thread is engaged with two mutexes at once (NoNesting); with two,    *)
(* rt_mutex_take saves an inherited priority as the original one.          *)
(***************************************************************************)
EXTENDS Mutex, ThreadsProofs

MutexType ==
    /\ value \in [Mutexes -> {0, 1}]
    /\ owner \in [Mutexes -> Thread \cup {NONE}]
    /\ original_priority \in [Mutexes -> Prio \cup {NONE}]
    /\ hold \in [Mutexes -> Nat]
    /\ want \in [Thread -> Mutexes \cup {NONE}]
    /\ inside \in [Thread -> [Mutexes -> Nat]]

\* A mutex is free exactly when it has no owner; a free one is held by nobody
\* and waited for by nobody, and one with an owner knows a priority to put back.
FreeOrOwned ==
    \A m \in Mutexes :
        /\ value[m] = 1 <=> owner[m] = NONE
        /\ owner[m] = NONE => hold[m] = 0
        /\ owner[m] # NONE => original_priority[m] \in Prio
        /\ Range(k.wait[m]) # {} => owner[m] # NONE

\* A thread on the list of a mutex wants that mutex, and is not its owner.
WaitersWant ==
    \A m \in Mutexes : \A t \in Range(k.wait[m]) : want[t] = m /\ owner[m] # t

\* A thread inside a mutex owns it as many times as it entered.
InsidersOwn ==
    \A m \in Mutexes, t \in Thread :
        inside[t][m] > 0 => owner[m] = t /\ hold[m] = inside[t][m]

\* An owner that is not inside is on its way in, and the other way round.
OwnersEnter ==
    /\ \A m \in Mutexes, t \in Thread :
          owner[m] = t /\ inside[t][m] = 0 => t \in Woken /\ want[t] = m
    /\ \A t \in Woken :
          /\ want[t] \in Mutexes
          /\ owner[want[t]] = t /\ inside[t][want[t]] = 0 /\ hold[want[t]] = 1

IInv ==
    /\ ThreadsOK
    /\ MutexType
    /\ FreeOrOwned
    /\ WaitersWant
    /\ InsidersOwn
    /\ OwnersEnter

-----------------------------------------------------------------------------
LEMMA InitInv == Init => IInv
<1>. SUFFICES ASSUME Init PROVE IInv
  OBVIOUS
<1>1. ThreadsOK /\ Woken = {} /\ \A m \in Mutexes : Range(k.wait[m]) = {}
  <2>1. ThreadsOK /\ Woken = {} /\ \A w \in WaitList : k.wait[w] = << >>
    BY ThreadsInitInv DEF Init, ThreadInv
  <2>. QED
    BY <2>1, WaitingType DEF ThreadsOK, Mutexes
<1>2. /\ value = [m \in Mutexes |-> 1] /\ owner = [m \in Mutexes |-> NONE]
      /\ original_priority = [m \in Mutexes |-> NONE] /\ hold = [m \in Mutexes |-> 0]
      /\ want = [t \in Thread |-> NONE]
      /\ inside = [t \in Thread |-> [m \in Mutexes |-> 0]]
  BY DEF Init
<1>3. MutexType
  BY <1>2 DEF MutexType
<1>4. FreeOrOwned /\ WaitersWant
  BY <1>1, <1>2 DEF FreeOrOwned, WaitersWant
<1>5. InsidersOwn /\ OwnersEnter
  BY <1>1, <1>2, MutexAssumption DEF InsidersOwn, OwnersEnter
<1>. QED
  BY <1>1, <1>3, <1>4, <1>5 DEF IInv

\* A step of the threads that leaves the mutexes alone.
LEMMA FrameInv ==
  ASSUME IInv, UNCHANGED <<mutexVars, callerVars>>, ThreadsOK', Woken' = Woken,
         \A w \in WaitList : Range(k'.wait[w]) \subseteq Range(k.wait[w])
  PROVE  IInv'
<1>1. /\ value' = value /\ owner' = owner /\ original_priority' = original_priority
      /\ hold' = hold /\ want' = want /\ inside' = inside
  BY DEF mutexVars, callerVars
<1>2. MutexType' /\ InsidersOwn' /\ OwnersEnter'
  BY <1>1 DEF IInv, MutexType, InsidersOwn, OwnersEnter
<1>3. FreeOrOwned' /\ WaitersWant'
  BY <1>1 DEF IInv, FreeOrOwned, WaitersWant, Mutexes
<1>. QED
  BY <1>2, <1>3 DEF IInv

\* What a caller of the mutex operations can rely on.
LEMMA CallerFacts ==
  ASSUME IInv, NEW t \in Thread, MayCall(t)
  PROVE  /\ ThreadsOK /\ Running(k, t) /\ pc[t] = "run" /\ t \in Thread \ {Idle}
         /\ k \in KernelType /\ KernelOK(k) /\ k.stat[t] = "READY" /\ k.due = {}
         /\ t \notin Woken /\ \A m \in Mutexes : t \notin Range(k.wait[m])
         /\ \A m \in Mutexes : owner[m] = t => inside[t][m] > 0 /\ inside[t][m] = hold[m]
<1>1. ThreadsOK /\ Running(k, t) /\ pc[t] = "run" /\ t \in Thread \ {Idle}
  BY DEF IInv, MayCall
<1>2. k.stat[t] = "READY" /\ t \notin Waiting /\ k.due = {}
  BY <1>1, CallerReady
<1>3. t \notin Woken
  BY <1>1 DEF Woken
<1>4. \A m \in Mutexes : t \notin Range(k.wait[m])
  BY <1>2 DEF Waiting, Mutexes
<1>5. ASSUME NEW m \in Mutexes, owner[m] = t PROVE inside[t][m] > 0 /\ inside[t][m] = hold[m]
  <2>1. inside[t][m] \in Nat
    BY DEF IInv, MutexType
  <2>2. inside[t][m] # 0
    BY <1>3, <1>5 DEF IInv, OwnersEnter
  <2>3. inside[t][m] > 0
    BY <2>1, <2>2
  <2>. QED
    BY <2>3 DEF IInv, InsidersOwn
<1>. QED
  BY <1>1, <1>2, <1>3, <1>4, <1>5 DEF ThreadsOK

\* Only the error code of the caller changes in the kernel.
LEMMA ErrorStep ==
  ASSUME IInv, NEW t \in Thread, MayCall(t), NEW e \in Error, SetError(t, e), UNCHANGED pc
  PROVE  ThreadsOK' /\ Woken' = Woken /\ k'.wait = k.wait
<1>1. ThreadsOK /\ Running(k, t) /\ pc[t] = "run" /\ k \in KernelType /\ KernelOK(k)
  BY CallerFacts
<1>2. /\ k' \in KernelType /\ k'.ready = k.ready /\ k'.group = k.group /\ k'.wait = k.wait
      /\ k'.stat = k.stat /\ k'.prio = k.prio /\ k'.timer = k.timer /\ k'.due = k.due
      /\ k'.cur = k.cur /\ k'.lock = k.lock
      /\ \A u \in Thread \ {t} : k'.error[u] = k.error[u]
  BY <1>1 DEF SetError, KernelType
<1>3. KernelOK(k')
  BY <1>1, <1>2 DEF KernelOK, ReadyLists, GroupMatches, WaitLists, TimersOfSuspended
<1>. QED
  BY <1>1, <1>2, <1>3, CallerStep

-----------------------------------------------------------------------------
(* rt_mutex_take *)

LEMMA TakeAgainInv ==
  ASSUME IInv, NEW t \in Thread, NEW m \in Mutexes, MayCall(t), TakeAgain(t, m)
  PROVE  IInv'
<1>1. /\ owner[m] = t /\ SetError(t, "EOK")
      /\ hold' = [hold EXCEPT ![m] = @ + 1] /\ inside' = [inside EXCEPT ![t][m] = @ + 1]
      /\ pc' = pc /\ value' = value /\ owner' = owner
      /\ original_priority' = original_priority /\ want' = want
  BY DEF TakeAgain, Entered
<1>2. t \notin Woken /\ inside[t][m] > 0 /\ inside[t][m] = hold[m]
  BY <1>1, CallerFacts
<1>3. ThreadsOK' /\ Woken' = Woken /\ k'.wait = k.wait
  BY <1>1, ErrorStep DEF Error
<1>4. MutexType'
  BY <1>1 DEF IInv, MutexType
<1>5. /\ \A n \in Mutexes : hold'[n] = IF n = m THEN hold[m] + 1 ELSE hold[n]
      /\ \A u \in Thread, n \in Mutexes :
            inside'[u][n] = IF u = t /\ n = m THEN inside[t][m] + 1 ELSE inside[u][n]
      /\ \A u \in Thread, n \in Mutexes : inside[u][n] \in Nat /\ hold[n] \in Nat
  BY <1>1 DEF IInv, MutexType
<1>6. FreeOrOwned' /\ WaitersWant'
  BY <1>1, <1>3, <1>5, MutexAssumption DEF IInv, FreeOrOwned, WaitersWant
<1>7. InsidersOwn'
  BY <1>1, <1>2, <1>5 DEF IInv, InsidersOwn
<1>8. OwnersEnter'
  <2>1. \A u \in Woken : u \in Thread /\ u # t
    BY <1>2 DEF Woken
  <2>2. \A u \in Woken : want[u] \in Mutexes /\ want[u] # m
    BY <1>1, <2>1 DEF IInv, OwnersEnter
  <2>. QED
    BY <1>1, <1>2, <1>3, <1>5, <2>1, <2>2 DEF IInv, OwnersEnter
<1>. QED
  BY <1>3, <1>4, <1>6, <1>7, <1>8 DEF IInv

LEMMA TakeFreeInv ==
  ASSUME IInv, NEW t \in Thread, NEW m \in Mutexes, MayCall(t), TakeFree(t, m)
  PROVE  IInv'
<1>1. /\ value[m] > 0 /\ SetError(t, "EOK")
      /\ value' = [value EXCEPT ![m] = @ - 1] /\ owner' = [owner EXCEPT ![m] = t]
      /\ original_priority' = [original_priority EXCEPT ![m] = k.prio[t]]
      /\ hold' = [hold EXCEPT ![m] = @ + 1] /\ inside' = [inside EXCEPT ![t][m] = @ + 1]
      /\ pc' = pc /\ want' = want
  BY DEF TakeFree, Entered
<1>2. k \in KernelType /\ t \notin Woken
  BY CallerFacts
<1>3. ThreadsOK' /\ Woken' = Woken /\ k'.wait = k.wait
  BY <1>1, ErrorStep DEF Error
<1>4. /\ value[m] = 1 /\ owner[m] = NONE /\ hold[m] = 0 /\ Range(k.wait[m]) = {}
      /\ \A u \in Thread : inside[u][m] = 0
  <2>1. value[m] = 1
    BY <1>1 DEF IInv, MutexType
  <2>2. owner[m] = NONE /\ hold[m] = 0 /\ Range(k.wait[m]) = {}
    BY <2>1 DEF IInv, FreeOrOwned
  <2>3. ASSUME NEW u \in Thread PROVE inside[u][m] = 0
    <3>1. inside[u][m] \in Nat
      BY DEF IInv, MutexType
    <3>2. ~ (inside[u][m] > 0)
      BY <2>2, MutexAssumption DEF IInv, InsidersOwn
    <3>. QED
      BY <3>1, <3>2
  <2>. QED
    BY <2>1, <2>2, <2>3
<1>5. k.prio[t] \in Prio
  BY <1>2, KernelTypeFields
<1>6. MutexType'
  BY <1>1, <1>4, <1>5 DEF IInv, MutexType
<1>7. /\ \A n \in Mutexes : hold'[n] = IF n = m THEN 1 ELSE hold[n]
      /\ \A n \in Mutexes : value'[n] = IF n = m THEN 0 ELSE value[n]
      /\ \A n \in Mutexes : owner'[n] = IF n = m THEN t ELSE owner[n]
      /\ \A n \in Mutexes : original_priority'[n] = IF n = m THEN k.prio[t] ELSE original_priority[n]
      /\ \A u \in Thread, n \in Mutexes : inside'[u][n] = IF u = t /\ n = m THEN 1 ELSE inside[u][n]
  BY <1>1, <1>4 DEF IInv, MutexType
<1>8. FreeOrOwned' /\ WaitersWant'
  <2>1. FreeOrOwned'
    BY <1>3, <1>4, <1>5, <1>7, MutexAssumption DEF IInv, FreeOrOwned
  <2>2. ASSUME NEW n \in Mutexes, NEW u \in Range(k'.wait[n]) PROVE want'[u] = n /\ owner'[n] # u
    <3>1. n # m /\ u \in Range(k.wait[n])
      BY <1>3, <1>4, <2>2
    <3>. QED
      BY <1>1, <1>7, <3>1 DEF IInv, WaitersWant
  <2>. QED
    BY <2>1, <2>2 DEF WaitersWant
<1>9. InsidersOwn'
  BY <1>4, <1>7 DEF IInv, InsidersOwn
<1>10. OwnersEnter'
  <2>1. \A u \in Woken : u \in Thread /\ u # t
    BY <1>2 DEF Woken
  <2>2. \A u \in Woken : want[u] \in Mutexes /\ want[u] # m
    BY <1>4, <2>1, MutexAssumption DEF IInv, OwnersEnter
  <2>. QED
    BY <1>1, <1>3, <1>4, <1>7, <2>1, <2>2 DEF IInv, OwnersEnter
<1>. QED
  BY <1>3, <1>6, <1>8, <1>9, <1>10 DEF IInv

\* Raising the priority of the owner moves no thread to or from a wait list.
LEMMA InheritOK ==
  ASSUME IInv, NEW t \in Thread, NEW m \in Mutexes, owner[m] \in Thread
  PROVE  LET kk == Inherit(k, t, m) IN
         /\ kk \in KernelType /\ KernelOK(kk)
         /\ kk.stat = k.stat /\ kk.wait = k.wait /\ kk.error = k.error /\ kk.cur = k.cur
         /\ kk.lock = k.lock /\ kk.due = k.due
         /\ kk.prio = [k.prio EXCEPT ![owner[m]] = IF k.prio[t] < @ THEN k.prio[t] ELSE @]
<1>1. k \in KernelType /\ KernelOK(k)
  BY DEF IInv, ThreadsOK
<1>2. k.prio \in [Thread -> Prio] /\ k.prio[t] \in Prio
  BY <1>1, KernelTypeFields
<1>3. CASE k.prio[t] < k.prio[owner[m]]
  BY <1>1, <1>2, <1>3, ChangePriorityOK DEF Inherit
<1>4. CASE ~ (k.prio[t] < k.prio[owner[m]])
  BY <1>1, <1>2, <1>4 DEF Inherit
<1>. QED
  BY <1>3, <1>4

\* What rt_mutex_take has done to the threads when its caller t has to wait for
\* mutex m: kk is the kernel after the owner was raised.
Inherited(kk, t, m) ==
    /\ owner[m] \in Thread /\ owner[m] # t
    /\ kk \in KernelType /\ KernelOK(kk)
    /\ kk.stat = k.stat /\ kk.wait = k.wait /\ kk.error = k.error /\ kk.cur = k.cur
    /\ kk.lock = k.lock
    /\ kk.prio = [k.prio EXCEPT ![owner[m]] = IF k.prio[t] < @ THEN k.prio[t] ELSE @]
    /\ Blocked(kk, k', t, m, Flag)

LEMMA TakeWaitKernel ==
  ASSUME IInv, NEW t \in Thread, NEW m \in Mutexes, NEW time \in Times, MayCall(t),
         TakeWait(t, m, time)
  PROVE  Inherited(Inherit(k, t, m), t, m)
<1>. DEFINE kk == Inherit(k, t, m)
<1>1. owner[m] # t /\ value[m] = 0 /\ k' = Block(kk, m, t, Flag, time)
  BY DEF TakeWait
<1>2. t \in Thread \ {Idle} /\ k.stat[t] = "READY"
  BY CallerFacts
<1>3. owner[m] \in Thread
  BY <1>1 DEF IInv, MutexType, FreeOrOwned
<1>4. /\ kk \in KernelType /\ KernelOK(kk)
      /\ kk.stat = k.stat /\ kk.wait = k.wait /\ kk.error = k.error /\ kk.cur = k.cur
      /\ kk.lock = k.lock
      /\ kk.prio = [k.prio EXCEPT ![owner[m]] = IF k.prio[t] < @ THEN k.prio[t] ELSE @]
  BY <1>3, InheritOK
<1>. HIDE DEF kk
<1>5. Blocked(kk, k', t, m, Flag)
  <2>1. m \in WaitList /\ time \in Int
    BY MutexAssumption DEF Mutexes
  <2>2. kk.stat[t] = "READY"
    BY <1>2, <1>4
  <2>3. Blocked(kk, Block(kk, m, t, Flag, time), t, m, Flag)
    BY <1>2, <1>4, <2>1, <2>2, BlockOK
  <2>. QED
    BY <1>1, <2>3
<1>. QED
  BY <1>1, <1>3, <1>4, <1>5 DEF kk, Inherited

LEMMA TakeWaitInv ==
  ASSUME IInv, NEW t \in Thread, NEW m \in Mutexes, NEW time \in Times, MayCall(t),
         TakeWait(t, m, time)
  PROVE  IInv'
<1>. DEFINE kk == Inherit(k, t, m)
<1>1. /\ owner[m] # t /\ value[m] = 0
      /\ Goto(t, "suspended") /\ want' = [want EXCEPT ![t] = m]
      /\ value' = value /\ owner' = owner /\ original_priority' = original_priority
      /\ hold' = hold /\ inside' = inside
  BY DEF TakeWait, mutexVars
<1>2. /\ ThreadsOK /\ Running(k, t) /\ pc[t] = "run" /\ t \in Thread \ {Idle}
      /\ k.stat[t] = "READY" /\ t \notin Woken /\ \A n \in Mutexes : t \notin Range(k.wait[n])
  BY CallerFacts
<1>3. owner[m] \in Thread
  BY <1>1 DEF IInv, MutexType, FreeOrOwned
<1>4. /\ kk.stat = k.stat /\ kk.wait = k.wait /\ kk.error = k.error /\ kk.cur = k.cur
      /\ kk.lock = k.lock
      /\ Blocked(kk, k', t, m, Flag)
  <2>1. Inherited(kk, t, m)
    BY TakeWaitKernel
  <2>. QED
    BY <2>1 DEF Inherited
<1>. HIDE DEF kk
<1>6. \A n \in Mutexes : Range(k'.wait[n]) = IF n = m THEN Range(k.wait[n]) \cup {t}
                                                     ELSE Range(k.wait[n])
  BY <1>4 DEF Blocked, SuspendedOn, Mutexes
<1>7. ThreadsOK' /\ Woken' = Woken
  <2>1. /\ k' \in KernelType /\ KernelOK(k') /\ k'.cur = k.cur /\ k'.lock = k.lock
        /\ k'.error = [k.error EXCEPT ![t] = "EOK"]
        /\ k'.stat = [k.stat EXCEPT ![t] = "SUSPEND"]
    BY <1>4 DEF Blocked, SuspendedOn
  <2>2. m \in WaitList /\ \A v \in WaitList : Range(k'.wait[v]) =
            IF v = m THEN Range(k.wait[v]) \cup {t} ELSE Range(k.wait[v])
    BY <1>6 DEF Mutexes
  <2>3. ThreadsOK' /\ Woken' = Woken \ {t}
    BY <1>1, <1>2, <2>1, <2>2, SuspendStep
  <2>. QED
    BY <1>2, <2>3
<1>8. MutexType'
  BY <1>1 DEF IInv, MutexType
<1>9. \A u \in Thread : want'[u] = IF u = t THEN m ELSE want[u]
  BY <1>1 DEF IInv, MutexType
<1>10. FreeOrOwned'
  BY <1>1, <1>3, <1>6, MutexAssumption DEF IInv, FreeOrOwned
<1>11. WaitersWant'
  <2>1. \A n \in Mutexes : Range(k.wait[n]) \in SUBSET Thread
    BY <1>2, WaitingType DEF ThreadsOK, Mutexes
  <2>2. ASSUME NEW n \in Mutexes, NEW u \in Range(k'.wait[n]) PROVE want'[u] = n /\ owner'[n] # u
    <3>1. CASE u = t
      <4>1. n = m
        BY <1>2, <1>6, <2>2, <3>1
      <4>. QED
        BY <1>1, <1>9, <3>1, <4>1
    <3>2. CASE u # t
      <4>1. u \in Range(k.wait[n])
        BY <1>6, <2>2, <3>2
      <4>. QED
        BY <1>1, <1>9, <2>1, <3>2, <4>1 DEF IInv, WaitersWant
    <3>. QED
      BY <3>1, <3>2
  <2>. QED
    BY <2>2 DEF WaitersWant
<1>12. InsidersOwn'
  BY <1>1 DEF IInv, InsidersOwn
<1>13. OwnersEnter'
  <2>1. \A u \in Woken : u \in Thread /\ u # t
    BY <1>2 DEF Woken
  <2>. QED
    BY <1>1, <1>2, <1>7, <1>9, <2>1 DEF IInv, OwnersEnter
<1>. QED
  BY <1>7, <1>8, <1>10, <1>11, <1>12, <1>13 DEF IInv

LEMMA TakeInv ==
  ASSUME IInv, NEW t \in Thread, Take(t)
  PROVE  IInv'
<1>1. MayCall(t)
  BY DEF Take
<1>2. PICK m \in Mutexes :
         \/ TakeAgain(t, m) \/ TakeFree(t, m) \/ TakeFails(t, m)
         \/ \E time \in Times : TakeWait(t, m, time)
  BY DEF Take
<1>3. CASE TakeFails(t, m)
  <2>1. SetError(t, "ETIMEOUT") /\ pc' = pc /\ UNCHANGED <<mutexVars, callerVars>>
    BY <1>3 DEF TakeFails
  <2>2. ThreadsOK' /\ Woken' = Woken /\ k'.wait = k.wait
    BY <1>1, <2>1, ErrorStep DEF Error
  <2>. QED
    BY <2>1, <2>2, FrameInv
<1>. QED
  BY <1>1, <1>2, <1>3, TakeAgainInv, TakeFreeInv, TakeWaitInv

\* The caller comes back from its rt_schedule: with the mutex, or without.
LEMMA TakeReturnInv ==
  ASSUME IInv, NEW t \in Thread, TakeReturn(t)
  PROVE  IInv'
<1>1. /\ ThreadsOK /\ Running(k, t) /\ pc[t] = "back" /\ Goto(t, "run") /\ k' = k
      /\ want' = [want EXCEPT ![t] = NONE]
      /\ value' = value /\ owner' = owner /\ original_priority' = original_priority /\ hold' = hold
  BY DEF TakeReturn, IInv, mutexVars
<1>2. t \notin Waiting /\ ThreadsOK' /\ Woken' = Woken \ {t}
  BY <1>1, CallerReady, ReturnInv
<1>3. \A n \in Mutexes : t \notin Range(k.wait[n]) /\ Range(k.wait[n]) \in SUBSET Thread
  BY <1>1, <1>2, WaitingType DEF Waiting, Mutexes, ThreadsOK
<1>4. \A u \in Thread : want'[u] = IF u = t THEN NONE ELSE want[u]
  BY <1>1 DEF IInv, MutexType
<1>5. FreeOrOwned'
  BY <1>1 DEF IInv, FreeOrOwned
<1>6. WaitersWant'
  BY <1>1, <1>3, <1>4 DEF IInv, WaitersWant
<1>7. CASE k.error[t] = "EOK"
  <2>. DEFINE m == want[t]
  <2>1. t \in Woken
    BY <1>1, <1>2, <1>7 DEF Woken
  <2>2. m \in Mutexes /\ owner[m] = t /\ inside[t][m] = 0 /\ hold[m] = 1
    BY <2>1 DEF IInv, OwnersEnter
  <2>3. inside' = [inside EXCEPT ![t][m] = @ + 1]
    BY <1>7 DEF TakeReturn, Entered
  <2>. HIDE DEF m
  <2>4. \A u \in Thread, n \in Mutexes : inside'[u][n] = IF u = t /\ n = m THEN 1 ELSE inside[u][n]
    BY <2>2, <2>3 DEF IInv, MutexType
  <2>5. MutexType'
    BY <1>1, <2>2, <2>3 DEF IInv, MutexType
  <2>6. InsidersOwn'
    BY <1>1, <2>2, <2>4 DEF IInv, InsidersOwn
  <2>7. OwnersEnter'
    <3>1. ASSUME NEW n \in Mutexes, NEW u \in Thread, owner'[n] = u, inside'[u][n] = 0
          PROVE  u \in Woken' /\ want'[u] = n
      <4>1. inside[u][n] = 0 /\ owner[n] = u /\ ~ (u = t /\ n = m)
        BY <1>1, <2>4, <3>1
      <4>2. u \in Woken /\ want[u] = n
        BY <4>1 DEF IInv, OwnersEnter
      <4>3. u # t
        BY <4>1, <4>2 DEF m
      <4>. QED
        BY <1>2, <1>4, <4>2, <4>3
    <3>2. ASSUME NEW u \in Woken'
          PROVE  /\ want'[u] \in Mutexes /\ owner'[want'[u]] = u
                 /\ inside'[u][want'[u]] = 0 /\ hold'[want'[u]] = 1
      <4>1. u \in Woken /\ u \in Thread /\ u # t
        BY <1>2, <3>2 DEF Woken
      <4>. QED
        BY <1>1, <1>4, <2>4, <4>1 DEF IInv, OwnersEnter
    <3>. QED
      BY <3>1, <3>2 DEF OwnersEnter
  <2>. QED
    BY <1>2, <1>5, <1>6, <2>5, <2>6, <2>7 DEF IInv
<1>8. CASE k.error[t] # "EOK"
  <2>1. inside' = inside
    BY <1>8 DEF TakeReturn
  <2>2. t \notin Woken /\ Woken' = Woken
    BY <1>2, <1>8 DEF Woken
  <2>3. MutexType' /\ InsidersOwn'
    BY <1>1, <2>1 DEF IInv, MutexType, InsidersOwn
  <2>4. OwnersEnter'
    <3>1. \A u \in Woken : u \in Thread /\ u # t
      BY <2>2 DEF Woken
    <3>. QED
      BY <1>1, <1>4, <2>1, <2>2, <3>1 DEF IInv, OwnersEnter
  <2>. QED
    BY <1>2, <1>5, <1>6, <2>3, <2>4 DEF IInv
<1>. QED
  BY <1>7, <1>8

-----------------------------------------------------------------------------
(* rt_mutex_release *)

LEMMA ReleaseOnceInv ==
  ASSUME IInv, NEW t \in Thread, NEW m \in Mutexes, MayCall(t), ReleaseOnce(t, m)
  PROVE  IInv'
<1>1. /\ owner[m] = t /\ hold[m] > 1 /\ k' = k /\ pc' = pc
      /\ hold' = [hold EXCEPT ![m] = @ - 1] /\ inside' = [inside EXCEPT ![t][m] = @ - 1]
      /\ value' = value /\ owner' = owner
      /\ original_priority' = original_priority /\ want' = want
  BY DEF ReleaseOnce
<1>2. t \notin Woken /\ inside[t][m] = hold[m]
  BY <1>1, CallerFacts
<1>3. Woken' = Woken /\ ThreadsOK'
  BY <1>1 DEF IInv, Woken, Waiting, ThreadsOK, WaitersWait, CurrentReady
<1>4. /\ \A n \in Mutexes : hold'[n] = IF n = m THEN hold[m] - 1 ELSE hold[n]
      /\ \A u \in Thread, n \in Mutexes :
            inside'[u][n] = IF u = t /\ n = m THEN hold[m] - 1 ELSE inside[u][n]
      /\ \A u \in Thread, n \in Mutexes : inside[u][n] \in Nat /\ hold[n] \in Nat
  BY <1>1, <1>2 DEF IInv, MutexType
<1>5. MutexType'
  <2>1. hold[m] - 1 \in Nat
    BY <1>1, <1>4
  <2>. QED
    BY <1>1, <1>2, <2>1 DEF IInv, MutexType
<1>6. FreeOrOwned' /\ WaitersWant'
  BY <1>1, <1>4, MutexAssumption DEF IInv, FreeOrOwned, WaitersWant
<1>7. InsidersOwn'
  BY <1>1, <1>4 DEF IInv, InsidersOwn
<1>8. OwnersEnter'
  <2>1. \A u \in Woken : u \in Thread /\ u # t
    BY <1>2 DEF Woken
  <2>2. \A u \in Woken : want[u] \in Mutexes /\ want[u] # m
    BY <1>1, <2>1 DEF IInv, OwnersEnter
  <2>. QED
    BY <1>1, <1>3, <1>4, <2>1, <2>2 DEF IInv, OwnersEnter
<1>. QED
  BY <1>3, <1>5, <1>6, <1>7, <1>8 DEF IInv

LEMMA RestoredOK ==
  ASSUME IInv, NEW t \in Thread, NEW m \in Mutexes, owner[m] = t
  PROVE  LET kk == Restored(t, m) IN
         /\ kk \in KernelType /\ KernelOK(kk)
         /\ kk.stat = k.stat /\ kk.wait = k.wait /\ kk.error = k.error /\ kk.cur = k.cur
         /\ kk.lock = k.lock /\ kk.due = k.due
         /\ kk.prio = [k.prio EXCEPT ![t] = original_priority[m]]
<1>1. k \in KernelType /\ KernelOK(k)
  BY DEF IInv, ThreadsOK
<1>2. original_priority[m] \in Prio
  BY MutexAssumption DEF IInv, FreeOrOwned
<1>3. k.prio \in [Thread -> Prio]
  BY <1>1, KernelTypeFields
<1>4. CASE original_priority[m] = k.prio[t]
  BY <1>1, <1>3, <1>4 DEF Restored
<1>5. CASE original_priority[m] # k.prio[t]
  BY <1>1, <1>2, <1>5, ChangePriorityOK DEF Restored
<1>. QED
  BY <1>4, <1>5

\* What rt_mutex_release has done to the threads when it hands the mutex over.
LEMMA HandOverKernel ==
  ASSUME IInv, NEW t \in Thread, NEW m \in Mutexes, MayCall(t), ReleaseLast(t, m),
         k.wait[m] # << >>
  PROVE  LET kk   == Restored(t, m)
             next == Head(k.wait[m]) IN
         /\ kk \in KernelType /\ kk.prio = [k.prio EXCEPT ![t] = original_priority[m]]
         /\ k' \in KernelType /\ KernelOK(k')
         /\ next \in Range(k.wait[m]) /\ next \in Thread
         /\ k'.error = k.error /\ k'.cur = k.cur /\ k'.lock = k.lock
         /\ k'.stat = [k.stat EXCEPT ![next] = "READY"]
         /\ k'.prio = kk.prio /\ k'.wait = Without(k.wait, next)
         /\ \A v \in WaitList : Range(k'.wait[v]) = Range(k.wait[v]) \ {next}
<1>. DEFINE kk == Restored(t, m)
            next == Head(k.wait[m])
            j == ListResume(kk, m)
            h == Head(kk.wait[m])
<1>1. owner[m] = t /\ k' = j
  BY DEF ReleaseLast, HandOver
<1>2. k.due = {} /\ m \in WaitList
  BY CallerFacts DEF Mutexes
<1>3. /\ kk \in KernelType /\ KernelOK(kk)
      /\ kk.stat = k.stat /\ kk.wait = k.wait /\ kk.error = k.error /\ kk.cur = k.cur
      /\ kk.lock = k.lock /\ kk.due = k.due
      /\ kk.prio = [k.prio EXCEPT ![t] = original_priority[m]]
  BY <1>1, RestoredOK
<1>. HIDE DEF kk
<1>4. kk.wait[m] # << >> /\ kk.due = {} /\ next = h
  BY <1>2, <1>3
<1>5. /\ j \in KernelType /\ KernelOK(j)
      /\ h \in Range(kk.wait[m]) /\ h \in Thread
      /\ j.error = kk.error /\ j.cur = kk.cur /\ j.lock = kk.lock
      /\ j.stat = [kk.stat EXCEPT ![h] = "READY"]
      /\ j.prio = kk.prio /\ j.wait = Without(kk.wait, h)
      /\ \A v \in WaitList : Range(j.wait[v]) = Range(kk.wait[v]) \ {h}
  BY <1>2, <1>3, <1>4, ListResumeOK
<1>. HIDE DEF next, j, h
<1>6. /\ kk \in KernelType /\ kk.prio = [k.prio EXCEPT ![t] = original_priority[m]]
      /\ k' \in KernelType /\ KernelOK(k')
      /\ next \in Range(k.wait[m]) /\ next \in Thread
      /\ k'.error = k.error /\ k'.cur = k.cur /\ k'.lock = k.lock
      /\ k'.stat = [k.stat EXCEPT ![next] = "READY"]
      /\ k'.prio = kk.prio /\ k'.wait = Without(k.wait, next)
      /\ \A v \in WaitList : Range(k'.wait[v]) = Range(k.wait[v]) \ {next}
  BY <1>1, <1>3, <1>4, <1>5
<1>. QED
  BY <1>6 DEF kk, next

\* The mutex goes to the first waiter, which is on its way in from now on.
LEMMA HandOverInv ==
  ASSUME IInv, NEW t \in Thread, NEW m \in Mutexes, MayCall(t), ReleaseLast(t, m),
         k.wait[m] # << >>
  PROVE  IInv'
<1>. DEFINE kk == Restored(t, m)
            next == Head(k.wait[m])
<1>1. /\ owner[m] = t /\ hold[m] = 1 /\ inside' = [inside EXCEPT ![t][m] = @ - 1] /\ want' = want
      /\ owner' = [owner EXCEPT ![m] = next]
      /\ original_priority' = [original_priority EXCEPT ![m] = kk.prio[next]]
      /\ hold' = [hold EXCEPT ![m] = 1] /\ value' = value
      /\ Goto(t, "resched")
  BY DEF ReleaseLast, HandOver
<1>2. /\ ThreadsOK /\ Running(k, t) /\ pc[t] = "run" /\ t \notin Woken /\ k.due = {}
      /\ inside[t][m] = 1
  BY <1>1, CallerFacts
<1>4. /\ kk \in KernelType
      /\ k' \in KernelType /\ KernelOK(k')
      /\ next \in Range(k.wait[m]) /\ next \in Thread
      /\ k'.error = k.error /\ k'.cur = k.cur /\ k'.lock = k.lock
      /\ k'.stat = [k.stat EXCEPT ![next] = "READY"]
      /\ \A v \in WaitList : Range(k'.wait[v]) = Range(k.wait[v]) \ {next}
  BY HandOverKernel
<1>. HIDE DEF kk, next
<1>5. /\ ThreadsOK' /\ next # t /\ next \notin Woken /\ Woken' = Woken \cup {next}
  <2>1. next \in Waiting
    BY <1>4 DEF Waiting, Mutexes
  <2>2. ThreadsOK' /\ next # t /\ next \notin Woken /\ Woken' = (Woken \ {t}) \cup {next}
    BY <1>1, <1>2, <1>4, <2>1, WakeStep
  <2>. QED
    BY <1>2, <2>2
<1>6. want[next] = m /\ inside[next][m] = 0
  <2>1. want[next] = m
    BY <1>4 DEF IInv, WaitersWant
  <2>2. inside[next][m] \in Nat /\ ~ (inside[next][m] > 0)
    BY <1>1, <1>4, <1>5 DEF IInv, MutexType, InsidersOwn
  <2>. QED
    BY <2>1, <2>2
<1>7. kk.prio[next] \in Prio
  BY <1>4, KernelTypeFields
<1>8. MutexType'
  BY <1>1, <1>2, <1>4, <1>7 DEF IInv, MutexType
<1>9. /\ \A n \in Mutexes : hold'[n] = IF n = m THEN 1 ELSE hold[n]
      /\ \A n \in Mutexes : owner'[n] = IF n = m THEN next ELSE owner[n]
      /\ \A n \in Mutexes :
            original_priority'[n] = IF n = m THEN kk.prio[next] ELSE original_priority[n]
      /\ \A u \in Thread, n \in Mutexes : inside'[u][n] = IF u = t /\ n = m THEN 0 ELSE inside[u][n]
  BY <1>1, <1>2 DEF IInv, MutexType
<1>10. \A n \in Mutexes : Range(k'.wait[n]) = Range(k.wait[n]) \ {next}
  BY <1>4 DEF Mutexes
<1>11. owner[m] # NONE /\ next # NONE
  BY <1>1, <1>4, MutexAssumption
<1>12. FreeOrOwned'
  <2>. SUFFICES ASSUME NEW n \in Mutexes
                PROVE  /\ value'[n] = 1 <=> owner'[n] = NONE
                       /\ owner'[n] = NONE => hold'[n] = 0
                       /\ owner'[n] # NONE => original_priority'[n] \in Prio
                       /\ Range(k'.wait[n]) # {} => owner'[n] # NONE
    BY DEF FreeOrOwned
  <2>1. /\ value[n] = 1 <=> owner[n] = NONE
        /\ owner[n] = NONE => hold[n] = 0
        /\ owner[n] # NONE => original_priority[n] \in Prio
        /\ Range(k.wait[n]) # {} => owner[n] # NONE
    BY DEF IInv, FreeOrOwned
  <2>2. CASE n = m
    <3>1. owner'[n] = next /\ original_priority'[n] = kk.prio[next]
      BY <1>9, <2>2
    <3>2. value'[n] # 1
      BY <1>1, <1>11, <2>1, <2>2
    <3>. QED
      BY <1>7, <1>11, <3>1, <3>2
  <2>3. CASE n # m
    <3>1. /\ value'[n] = value[n] /\ owner'[n] = owner[n] /\ hold'[n] = hold[n]
          /\ original_priority'[n] = original_priority[n]
      BY <1>1, <1>9, <2>3
    <3>2. Range(k'.wait[n]) # {} => Range(k.wait[n]) # {}
      BY <1>10
    <3>. QED
      BY <2>1, <3>1, <3>2
  <2>. QED
    BY <2>2, <2>3
<1>13. WaitersWant'
  <2>1. ASSUME NEW n \in Mutexes, NEW u \in Range(k'.wait[n]) PROVE want'[u] = n /\ owner'[n] # u
    <3>1. u \in Range(k.wait[n]) /\ u # next
      BY <1>10, <2>1
    <3>. QED
      BY <1>1, <1>9, <3>1 DEF IInv, WaitersWant
  <2>. QED
    BY <2>1 DEF WaitersWant
<1>14. InsidersOwn'
  BY <1>1, <1>4, <1>5, <1>6, <1>9 DEF IInv, InsidersOwn
<1>15. OwnersEnter'
  <2>1. \A u \in Woken : u \in Thread /\ u # t
    BY <1>2 DEF Woken
  <2>2. \A u \in Woken : want[u] \in Mutexes /\ want[u] # m
    BY <1>1, <2>1 DEF IInv, OwnersEnter
  <2>3. ASSUME NEW n \in Mutexes, NEW u \in Thread, owner'[n] = u, inside'[u][n] = 0
        PROVE  u \in Woken' /\ want'[u] = n
    BY <1>1, <1>5, <1>6, <1>9, <2>3 DEF IInv, OwnersEnter
  <2>4. ASSUME NEW u \in Woken'
        PROVE  /\ want'[u] \in Mutexes /\ owner'[want'[u]] = u
               /\ inside'[u][want'[u]] = 0 /\ hold'[want'[u]] = 1
    <3>1. CASE u = next
      BY <1>1, <1>4, <1>5, <1>6, <1>9, <3>1
    <3>2. CASE u # next
      <4>1. u \in Woken
        BY <1>5, <2>4, <3>2
      <4>. QED
        BY <1>1, <1>9, <2>1, <2>2, <4>1 DEF IInv, OwnersEnter
    <3>. QED
      BY <3>1, <3>2
  <2>. QED
    BY <2>3, <2>4 DEF OwnersEnter
<1>. QED
  BY <1>5, <1>8, <1>12, <1>13, <1>14, <1>15 DEF IInv

LEMMA GiveBackInv ==
  ASSUME IInv, NEW t \in Thread, NEW m \in Mutexes, MayCall(t), ReleaseLast(t, m),
         k.wait[m] = << >>
  PROVE  IInv'
<1>1. /\ owner[m] = t /\ hold[m] = 1 /\ inside' = [inside EXCEPT ![t][m] = @ - 1] /\ want' = want
      /\ value' = [value EXCEPT ![m] = @ + 1] /\ owner' = [owner EXCEPT ![m] = NONE]
      /\ original_priority' = [original_priority EXCEPT ![m] = NONE]
      /\ hold' = [hold EXCEPT ![m] = 0] /\ k' = Restored(t, m) /\ pc' = pc
  BY DEF ReleaseLast, GiveBack
<1>2. /\ ThreadsOK /\ Running(k, t) /\ pc[t] = "run" /\ t \notin Woken /\ inside[t][m] = 1
  BY <1>1, CallerFacts
<1>3. /\ k' \in KernelType /\ KernelOK(k')
      /\ k'.stat = k.stat /\ k'.wait = k.wait /\ k'.error = k.error /\ k'.cur = k.cur
      /\ k'.lock = k.lock
  BY <1>1, RestoredOK
<1>4. ThreadsOK' /\ Woken' = Woken
  BY <1>1, <1>2, <1>3, CallerStep
<1>5. owner[m] # NONE /\ value[m] = 0 /\ Range(k.wait[m]) = {}
  <2>1. owner[m] # NONE
    BY <1>1, MutexAssumption
  <2>2. value[m] = 0
    BY <2>1 DEF IInv, MutexType, FreeOrOwned
  <2>3. Range(k.wait[m]) = {}
    BY <1>2, WaitingType DEF ThreadsOK, Mutexes
  <2>. QED
    BY <2>1, <2>2, <2>3
<1>6. MutexType'
  BY <1>1, <1>2, <1>5 DEF IInv, MutexType
<1>7. /\ \A n \in Mutexes : hold'[n] = IF n = m THEN 0 ELSE hold[n]
      /\ \A n \in Mutexes : value'[n] = IF n = m THEN 1 ELSE value[n]
      /\ \A n \in Mutexes : owner'[n] = IF n = m THEN NONE ELSE owner[n]
      /\ \A n \in Mutexes : original_priority'[n] = IF n = m THEN NONE ELSE original_priority[n]
      /\ \A u \in Thread, n \in Mutexes : inside'[u][n] = IF u = t /\ n = m THEN 0 ELSE inside[u][n]
  BY <1>1, <1>2, <1>5 DEF IInv, MutexType
<1>8. FreeOrOwned' /\ WaitersWant'
  <2>1. FreeOrOwned'
    BY <1>3, <1>5, <1>7 DEF IInv, FreeOrOwned
  <2>2. ASSUME NEW n \in Mutexes, NEW u \in Range(k'.wait[n]) PROVE want'[u] = n /\ owner'[n] # u
    <3>1. n # m /\ u \in Range(k.wait[n])
      BY <1>3, <1>5, <2>2
    <3>. QED
      BY <1>1, <1>7, <3>1 DEF IInv, WaitersWant
  <2>. QED
    BY <2>1, <2>2 DEF WaitersWant
<1>9. InsidersOwn'
  BY <1>1, <1>7 DEF IInv, InsidersOwn
<1>10. OwnersEnter'
  <2>1. \A u \in Woken : u \in Thread /\ u # t
    BY <1>2 DEF Woken
  <2>2. \A u \in Woken : want[u] \in Mutexes /\ want[u] # m
    BY <1>1, <2>1 DEF IInv, OwnersEnter
  <2>. QED
    BY <1>1, <1>4, <1>7, <2>1, <2>2, MutexAssumption DEF IInv, OwnersEnter
<1>. QED
  BY <1>4, <1>6, <1>8, <1>9, <1>10 DEF IInv

LEMMA ReleaseInv ==
  ASSUME IInv, NEW t \in Thread, Release(t)
  PROVE  IInv'
<1>1. MayCall(t)
  BY DEF Release
<1>2. PICK m \in Mutexes : ReleaseRefused(t, m) \/ ReleaseOnce(t, m) \/ ReleaseLast(t, m)
  BY DEF Release
<1>3. CASE ReleaseRefused(t, m)
  <2>1. SetError(t, "ERROR") /\ pc' = pc /\ UNCHANGED <<mutexVars, callerVars>>
    BY <1>3 DEF ReleaseRefused
  <2>2. ThreadsOK' /\ Woken' = Woken /\ k'.wait = k.wait
    BY <1>1, <2>1, ErrorStep DEF Error
  <2>. QED
    BY <2>1, <2>2, FrameInv
<1>. QED
  BY <1>1, <1>2, <1>3, ReleaseOnceInv, HandOverInv, GiveBackInv

-----------------------------------------------------------------------------
\* Every step of every thread and of the tick keeps the invariant.
LEMMA NextInv ==
  ASSUME IInv, [Next]_vars
  PROVE  IInv'
<1>1. ASSUME (\E t \in Thread : ThreadStep(t)) \/ Tick \/ TimerFires,
             UNCHANGED <<mutexVars, callerVars>>
      PROVE  IInv'
  <2>1. ThreadsOK
    BY DEF IInv
  <2>2. /\ ThreadsOK' /\ Woken' = Woken
        /\ \A w \in WaitList : Range(k'.wait[w]) \subseteq Range(k.wait[w])
    BY <1>1, <2>1, SystemStepInv
  <2>. QED
    BY <1>1, <2>2, FrameInv
<1>2. CASE UNCHANGED vars
  <2>1. k' = k /\ pc' = pc /\ UNCHANGED <<mutexVars, callerVars>>
    BY <1>2 DEF vars
  <2>2. ThreadsOK' /\ Woken' = Woken
    BY <2>1 DEF IInv, ThreadsOK, WaitersWait, CurrentReady, Waiting, Woken
  <2>. QED
    BY <2>1, <2>2, FrameInv
<1>3. CASE Next
  <2>1. ASSUME NEW t \in Thread, Call(t) \/ Continue(t) PROVE IInv'
    <3>1. CASE Take(t) \/ Release(t) \/ TakeReturn(t)
      BY <3>1, TakeInv, ReleaseInv, TakeReturnInv
    <3>2. CASE ThreadStep(t) /\ UNCHANGED <<mutexVars, callerVars>>
      BY <1>1, <3>2
    <3>. QED
      BY <2>1, <3>1, <3>2 DEF Call, Continue, ThreadStep
  <2>. QED
    BY <1>1, <1>3, <2>1 DEF Next, TickStep, FireStep
<1>. QED
  BY <1>2, <1>3

\* The inductive invariant holds in every behaviour of the mutexes.
THEOREM InductiveInvariant == Spec => []IInv
<1>1. Init => IInv
  BY InitInv
<1>2. IInv /\ [Next]_vars => IInv'
  BY NextInv
<1>. QED
  BY <1>1, <1>2, PTL DEF Spec

\* Mutual exclusion: rt_mutex_take lets a thread in only as the owner, through
\* hand-overs, timeouts and changes of priority in any order.
THEOREM OwnerIsInsideHolds == Spec => []OwnerIsInside
<1>1. IInv => OwnerIsInside
  <2>. SUFFICES ASSUME IInv PROVE OwnerIsInside
    OBVIOUS
  <2>1. ASSUME NEW m \in Mutexes, NEW t \in Thread, owner[m] = t, inside[t][m] = 0
        PROVE  t \in Woken /\ want[t] = m /\ hold[m] = 1
    BY <2>1 DEF IInv, OwnersEnter
  <2>2. \A m \in Mutexes : k.wait[m] # << >> => owner[m] # NONE
    BY WaitingType DEF IInv, FreeOrOwned, ThreadsOK, Mutexes
  <2>. QED
    BY <2>1, <2>2 DEF IInv, InsidersOwn, FreeOrOwned, OwnerIsInside
<1>. QED
  BY <1>1, InductiveInvariant, PTL

\* rt_mutex_take and rt_mutex_release keep the ready lists, the bitmap and the
\* suspend lists consistent, although they change priorities of threads that
\* are on them.
THEOREM KernelConsistentHolds == Spec => []KernelConsistent
<1>1. IInv => KernelConsistent
  BY DEF IInv, ThreadsOK, KernelConsistent
<1>. QED
  BY <1>1, InductiveInvariant, PTL

-----------------------------------------------------------------------------
(* Priorities.  rt_mutex_release puts back the priority its caller had when *)
(* it took that mutex, whatever the caller still owns, so PriorityRestored  *)
(* and OwnerNotOutranked hold only for callers that keep to one mutex at a  *)
(* time (the run mutex_nested shows what happens to others).                *)

Engaged(t, m) == owner[m] = t \/ t \in Range(k.wait[m])

\* No thread owns or waits for two mutexes at once.
NoNesting == \A t \in Thread, m, n \in Mutexes : Engaged(t, m) /\ Engaged(t, n) => m = n

InOrder(list, prio) == \A i, j \in 1 .. Len(list) : i < j => prio[list[i]] <= prio[list[j]]

\* The priority a release will put back is the owner's own.
OriginalIsOwn ==
    \A m \in Mutexes, t \in Thread : owner[m] = t => original_priority[m] = InitPrio[t]

\* The first waiter, which the hand-over makes the owner, outranks the others.
WaitersInOrder == \A m \in Mutexes : InOrder(k.wait[m], k.prio)

PInv ==
    /\ PriorityRestored
    /\ OriginalIsOwn
    /\ Flag = "PRIO" => OwnerNotOutranked /\ WaitersInOrder

LEMMA RemoveKeepsOrder ==
  ASSUME NEW list \in Seq(Thread), NEW e, NEW prio \in [Thread -> Prio], InOrder(list, prio)
  PROVE  InOrder(RemoveFirst(list, e), prio)
<1>. DEFINE r == RemoveFirst(list, e)
<1>1. CASE r = list
  BY <1>1
<1>2. ASSUME NEW i \in 1 .. Len(list), Len(r) = Len(list) - 1,
             \A j \in 1 .. Len(list) - 1 : r[j] = IF j < i THEN list[j] ELSE list[j+1]
      PROVE  InOrder(r, prio)
  <2>. HIDE DEF r
  <2>. SUFFICES ASSUME NEW a \in 1 .. Len(r), NEW b \in 1 .. Len(r), a < b
                PROVE  prio[r[a]] <= prio[r[b]]
    BY DEF InOrder
  <2>. DEFINE f(j) == IF j < i THEN j ELSE j + 1
  <2>1. r[a] = list[f(a)] /\ r[b] = list[f(b)]
    BY <1>2
  <2>2. f(a) \in 1 .. Len(list) /\ f(b) \in 1 .. Len(list) /\ f(a) < f(b)
    BY <1>2
  <2>. QED
    BY <2>1, <2>2 DEF InOrder
<1>3. \/ r = list
      \/ \E i \in 1 .. Len(list) :
            /\ Len(r) = Len(list) - 1
            /\ \A j \in 1 .. Len(list) - 1 : r[j] = IF j < i THEN list[j] ELSE list[j+1]
  BY RemoveFirstElements
<1>. QED
  BY <1>1, <1>2, <1>3

\* rt_ipc_list_suspend with RT_IPC_FLAG_PRIO
LEMMA InsertKeepsOrder ==
  ASSUME NEW K \in KernelType, NEW w \in WaitList, NEW t \in Thread, InOrder(K.wait[w], K.prio)
  PROVE  InOrder(InsertAt(K.wait[w], WaitPosition(K, w, t, "PRIO"), t), K.prio)
<1>. DEFINE list == K.wait[w]
            later == {i \in DOMAIN list : K.prio[t] < K.prio[list[i]]}
            n == WaitPosition(K, w, t, "PRIO")
            r == InsertAt(list, n, t)
<1>1. list \in Seq(Thread) /\ \A x \in Thread : K.prio[x] \in Int
  <2>1. K.prio \in [Thread -> Prio] /\ \A p \in Prio : p \in Int
    BY KernelTypeFields, KernelAssumption DEF Prio
  <2>. QED
    BY <2>1, KernelTypeFields
<1>2. n = IF later # {} THEN Min(later) ELSE Len(list) + 1
  BY DEF WaitPosition
<1>3. later # {} => Min(later) \in later /\ \A x \in later : Min(later) <= x
  <2>1. Len(list) \in Nat /\ later \in SUBSET (0 .. Len(list))
    BY <1>1
  <2>. HIDE DEF later
  <2>. QED
    BY <2>1, MinOfRange
<1>4. /\ n \in 1 .. Len(list) + 1
      /\ \A i \in 1 .. Len(list) : i < n => K.prio[list[i]] <= K.prio[t]
      /\ \A i \in 1 .. Len(list) : i >= n => K.prio[t] <= K.prio[list[i]]
  <2>0. \A i \in 1 .. Len(list) : K.prio[list[i]] \in Int
    BY <1>1
  <2>1. K.prio[t] \in Int
    BY <1>1
  <2>2. CASE later = {}
    <3>1. n = Len(list) + 1
      BY <1>2, <2>2
    <3>2. \A i \in 1 .. Len(list) : ~ (K.prio[t] < K.prio[list[i]])
      BY <1>1, <2>2
    <3>. QED
      BY <1>1, <2>0, <2>1, <3>1, <3>2
  <2>3. CASE later # {}
    <3>1. n \in later /\ \A x \in later : n <= x
      BY <1>2, <1>3, <2>3
    <3>. HIDE DEF n
    <3>2. n \in 1 .. Len(list) /\ K.prio[t] < K.prio[list[n]]
      BY <1>1, <3>1
    <3>3. \A i \in 1 .. Len(list) : i < n => ~ (K.prio[t] < K.prio[list[i]])
      BY <1>1, <3>1, <3>2
    <3>4. \A i \in 1 .. Len(list) : i > n => K.prio[list[n]] <= K.prio[list[i]]
      BY <3>2 DEF InOrder
    <3>5. \A i \in 1 .. Len(list) : i < n => K.prio[list[i]] <= K.prio[t]
      BY <2>0, <2>1, <3>3
    <3>6. ASSUME NEW i \in 1 .. Len(list), i >= n PROVE K.prio[t] <= K.prio[list[i]]
      <4>1. K.prio[list[n]] \in Int /\ K.prio[list[i]] \in Int
        BY <2>0, <3>2
      <4>2. i = n \/ K.prio[list[n]] <= K.prio[list[i]]
        BY <1>1, <3>2, <3>4, <3>6
      <4>. QED
        BY <2>1, <3>2, <4>1, <4>2
    <3>7. n \in 1 .. Len(list) + 1
      BY <1>1, <3>2
    <3>. QED
      BY <3>5, <3>6, <3>7
  <2>. QED
    BY <2>2, <2>3
<1>. HIDE DEF n, list
<1>5. /\ Len(r) = Len(list) + 1
      /\ \A j \in 1 .. Len(list) + 1 :
            r[j] = IF j < n THEN list[j] ELSE IF j = n THEN t ELSE list[j-1]
  <2>1. list \in Seq(Thread) /\ n \in 1 .. Len(list) + 1
    BY <1>1, <1>4
  <2>. QED
    BY <2>1, InsertAtElements
<1>6. \A i, j \in 1 .. Len(list) : i < j => K.prio[list[i]] <= K.prio[list[j]]
  BY DEF InOrder, list
<1>. HIDE DEF r
<1>7. ASSUME NEW a \in 1 .. Len(r), NEW b \in 1 .. Len(r), a < b
      PROVE  K.prio[r[a]] <= K.prio[r[b]]
  <2>1. Len(list) \in Nat /\ \A i \in 1 .. Len(list) : K.prio[list[i]] \in Int
    BY <1>1
  <2>2. CASE b < n
    BY <1>4, <1>5, <1>6, <1>7, <2>1, <2>2
  <2>3. CASE b = n
    BY <1>4, <1>5, <1>7, <2>1, <2>3
  <2>4. CASE b > n /\ a = n
    BY <1>4, <1>5, <1>7, <2>1, <2>4
  <2>5. CASE b > n /\ a < n
    <3>1. r[a] = list[a] /\ r[b] = list[b-1] /\ a \in 1 .. Len(list) /\ b - 1 \in 1 .. Len(list)
      BY <1>4, <1>5, <1>7, <2>1, <2>5
    <3>2. a < b - 1 \/ a = b - 1
      BY <1>4, <1>7, <2>1, <2>5
    <3>. QED
      BY <1>6, <2>1, <3>1, <3>2
  <2>6. CASE a > n
    <3>1. a \in 1 .. Len(list) + 1 /\ b \in 1 .. Len(list) + 1 /\ n \in Int /\ n >= 1 /\ b > n
      BY <1>4, <1>5, <1>7, <2>1, <2>6
    <3>2. r[a] = list[a-1] /\ r[b] = list[b-1]
      BY <1>5, <2>6, <3>1
    <3>3. a - 1 \in 1 .. Len(list) /\ b - 1 \in 1 .. Len(list) /\ a - 1 < b - 1
      BY <1>7, <2>1, <2>6, <3>1
    <3>. QED
      BY <1>6, <3>2, <3>3
  <2>. QED
    BY <1>4, <1>5, <1>7, <2>1, <2>2, <2>3, <2>4, <2>5, <2>6
<1>. QED
  BY <1>7 DEF InOrder, r, list, n

\* A thread that leaves a list leaves the others in order.
LEMMA ShrinkKeeps ==
  ASSUME ThreadsOK, ListsShrink
  PROVE  /\ \A m \in Mutexes : Range(k'.wait[m]) \subseteq Range(k.wait[m])
         /\ WaitersInOrder => WaitersInOrder'
<1>1. /\ k.wait \in [WaitList -> Seq(Thread)] /\ k.prio \in [Thread -> Prio]
      /\ \A m \in WaitList : IsInjective(k.wait[m])
  BY KernelTypeFields DEF ThreadsOK, KernelOK, WaitLists
<1>2. k'.prio = k.prio
  BY DEF ListsShrink
<1>3. CASE k'.wait = k.wait
  BY <1>2, <1>3 DEF WaitersInOrder
<1>4. ASSUME NEW x, k'.wait = Without(k.wait, x)
      PROVE  /\ \A m \in Mutexes : Range(k'.wait[m]) \subseteq Range(k.wait[m])
             /\ WaitersInOrder => WaitersInOrder'
  <2>1. \A m \in WaitList : k'.wait[m] = RemoveFirst(k.wait[m], x)
    BY <1>4 DEF Without
  <2>2. \A m \in WaitList : Range(k'.wait[m]) \subseteq Range(k.wait[m])
    BY <1>1, <2>1, RemoveFirstProperties
  <2>3. \A m \in WaitList : InOrder(k.wait[m], k.prio) => InOrder(k'.wait[m], k'.prio)
    BY <1>1, <1>2, <2>1, RemoveKeepsOrder
  <2>. QED
    BY <2>2, <2>3 DEF WaitersInOrder, Mutexes
<1>. QED
  BY <1>3, <1>4 DEF ListsShrink

LEMMA InitP == Init => PInv
<1>. SUFFICES ASSUME Init PROVE PInv
  OBVIOUS
<1>1. k.prio = InitPrio /\ \A m \in Mutexes : k.wait[m] = << >> /\ owner[m] = NONE
  BY DEF Init, ThreadsInit, KernelInit, Mutexes
<1>2. PriorityRestored /\ OriginalIsOwn
  BY <1>1, MutexAssumption DEF PriorityRestored, OriginalIsOwn
<1>3. \A m \in Mutexes : Range(k.wait[m]) = {} /\ InOrder(k.wait[m], k.prio)
  BY <1>1, ThreadsInitInv, WaitingType DEF Init, ThreadInv, ThreadsOK, InOrder, Mutexes
<1>. QED
  BY <1>2, <1>3 DEF PInv, OwnerNotOutranked, WaitersInOrder

\* A step that changes neither priorities nor owners.
LEMMA FrameP ==
  ASSUME IInv, PInv, ListsShrink, owner' = owner, original_priority' = original_priority
  PROVE  PInv'
<1>1. /\ k'.prio = k.prio
      /\ \A m \in Mutexes : Range(k'.wait[m]) \subseteq Range(k.wait[m])
      /\ WaitersInOrder => WaitersInOrder'
  BY ShrinkKeeps DEF ListsShrink, IInv
<1>2. PriorityRestored' /\ OriginalIsOwn'
  BY <1>1 DEF PInv, PriorityRestored, OriginalIsOwn
<1>3. OwnerNotOutranked => OwnerNotOutranked'
  BY <1>1 DEF OwnerNotOutranked
<1>. QED
  BY <1>1, <1>2, <1>3 DEF PInv

\* The caller owns nothing else, so the priority it has is its own.
LEMMA TakeFreeP ==
  ASSUME IInv, PInv, NoNesting', NEW t \in Thread, NEW m \in Mutexes, MayCall(t), TakeFree(t, m)
  PROVE  PInv'
<1>1. /\ value[m] > 0 /\ SetError(t, "EOK")
      /\ owner' = [owner EXCEPT ![m] = t]
      /\ original_priority' = [original_priority EXCEPT ![m] = k.prio[t]]
  BY DEF TakeFree
<1>2. k'.prio = k.prio /\ k'.wait = k.wait
  BY <1>1, CallerFacts DEF SetError, KernelType
<1>3. owner[m] = NONE /\ Range(k.wait[m]) = {}
  <2>1. value[m] = 1
    BY <1>1 DEF IInv, MutexType
  <2>. QED
    BY <2>1 DEF IInv, FreeOrOwned
<1>4. /\ \A n \in Mutexes : owner'[n] = IF n = m THEN t ELSE owner[n]
      /\ \A n \in Mutexes : original_priority'[n] = IF n = m THEN k.prio[t] ELSE original_priority[n]
  BY <1>1 DEF IInv, MutexType
<1>5. k.prio[t] = InitPrio[t]
  <2>1. \A n \in Mutexes : owner'[n] = t => n = m
    BY <1>4 DEF NoNesting, Engaged
  <2>2. \A n \in Mutexes : owner[n] # t
    BY <1>3, <1>4, <2>1, MutexAssumption
  <2>. QED
    BY <2>2 DEF PInv, PriorityRestored
<1>6. PriorityRestored'
  BY <1>2, <1>3, <1>4, <1>5, MutexAssumption DEF PInv, PriorityRestored
<1>7. OriginalIsOwn'
  BY <1>4, <1>5 DEF PInv, OriginalIsOwn
<1>8. WaitersInOrder => WaitersInOrder'
  BY <1>2 DEF WaitersInOrder
<1>9. OwnerNotOutranked => OwnerNotOutranked'
  BY <1>2, <1>3, <1>4 DEF OwnerNotOutranked
<1>. QED
  BY <1>6, <1>7, <1>8, <1>9 DEF PInv

\* Only the owner of m changes its priority, and it is on no list.
LEMMA TakeWaitP ==
  ASSUME IInv, PInv, NoNesting, NEW t \in Thread, NEW m \in Mutexes, NEW time \in Times,
         MayCall(t), TakeWait(t, m, time)
  PROVE  PInv'
<1>. DEFINE kk == Inherit(k, t, m)
            o == owner[m]
<1>1. owner' = owner /\ original_priority' = original_priority
  BY DEF TakeWait, mutexVars
<1>2. /\ o \in Thread /\ o # t
      /\ kk \in KernelType /\ kk.wait = k.wait
      /\ kk.prio = [k.prio EXCEPT ![o] = IF k.prio[t] < @ THEN k.prio[t] ELSE @]
      /\ Blocked(kk, k', t, m, Flag)
  <2>1. Inherited(kk, t, m)
    BY TakeWaitKernel
  <2>. QED
    BY <2>1 DEF Inherited
<1>. HIDE DEF kk, o
<1>3. /\ k'.prio = kk.prio
      /\ k'.wait = [k.wait EXCEPT ![m] = InsertAt(k.wait[m], WaitPosition(kk, m, t, Flag), t)]
      /\ \A n \in Mutexes : Range(k'.wait[n]) = IF n = m THEN Range(k.wait[n]) \cup {t}
                                                         ELSE Range(k.wait[n])
  BY <1>2 DEF Blocked, SuspendedOn, Mutexes
<1>4. /\ k.prio \in [Thread -> Prio] /\ k.wait \in [Mutexes -> Seq(Thread)]
      /\ \A x \in Thread : k.prio[x] \in Int
      /\ \A n \in Mutexes : t \notin Range(k.wait[n]) /\ Range(k.wait[n]) \in SUBSET Thread
  <2>1. k.prio \in [Thread -> Prio] /\ k.wait \in [Mutexes -> Seq(Thread)] /\ k \in KernelType
    BY CallerFacts, KernelTypeFields DEF Mutexes
  <2>2. \A p \in Prio : p \in Int
    BY KernelAssumption DEF Prio
  <2>3. \A n \in Mutexes : t \notin Range(k.wait[n]) /\ Range(k.wait[n]) \in SUBSET Thread
    BY <2>1, CallerFacts, ListRange
  <2>. QED
    BY <2>1, <2>2, <2>3
<1>5. \A x \in Thread : k'.prio[x] = IF x = o THEN IF k.prio[t] < k.prio[o] THEN k.prio[t] ELSE k.prio[o]
                                               ELSE k.prio[x]
  BY <1>2, <1>3, <1>4
<1>6. \A n \in Mutexes : o \notin Range(k.wait[n])
  BY <1>2 DEF NoNesting, Engaged, IInv, WaitersWant, o
<1>7. \A n \in Mutexes : owner[n] = o => n = m
  BY <1>2 DEF NoNesting, Engaged, o
<1>8. PriorityRestored'
  BY <1>1, <1>5 DEF PInv, PriorityRestored, o
<1>9. OriginalIsOwn'
  BY <1>1 DEF PInv, OriginalIsOwn
<1>10. ASSUME Flag = "PRIO" PROVE WaitersInOrder'
  <2>1. \A n \in Mutexes : InOrder(k.wait[n], k'.prio)
    <3>1. ASSUME NEW n \in Mutexes, NEW i \in 1 .. Len(k.wait[n]), NEW j \in 1 .. Len(k.wait[n]), i < j
          PROVE  k'.prio[k.wait[n][i]] <= k'.prio[k.wait[n][j]]
      <4>1. \A l \in 1 .. Len(k.wait[n]) : k.wait[n][l] \in Thread \ {o}
        BY <1>4, <1>6 DEF Range
      <4>2. k.prio[k.wait[n][i]] <= k.prio[k.wait[n][j]]
        BY <1>10, <3>1 DEF PInv, WaitersInOrder, InOrder
      <4>. QED
        BY <1>5, <4>1, <4>2
    <3>. QED
      BY <3>1 DEF InOrder
  <2>2. m \in WaitList /\ kk.wait[m] = k.wait[m] /\ InOrder(kk.wait[m], kk.prio)
    BY <1>2, <1>3, <2>1 DEF Mutexes
  <2>3. InOrder(InsertAt(kk.wait[m], WaitPosition(kk, m, t, "PRIO"), t), kk.prio)
    BY <1>2, <2>2, InsertKeepsOrder
  <2>4. InOrder(k'.wait[m], k'.prio)
    BY <1>3, <1>4, <1>10, <2>2, <2>3
  <2>5. \A n \in Mutexes \ {m} : k'.wait[n] = k.wait[n]
    BY <1>3, <1>4
  <2>. QED
    BY <2>1, <2>4, <2>5 DEF WaitersInOrder
<1>11. ASSUME Flag = "PRIO" PROVE OwnerNotOutranked'
  <2>1. ASSUME NEW n \in Mutexes, NEW u \in Range(k'.wait[n]) PROVE k'.prio[owner[n]] <= k'.prio[u]
    <3>1. CASE u = t
      <4>1. n = m
        BY <1>3, <1>4, <2>1, <3>1
      <4>. QED
        BY <1>2, <1>4, <1>5, <3>1, <4>1 DEF o
    <3>2. CASE u # t
      <4>0. u \in Range(k.wait[n])
        BY <1>3, <2>1, <3>2
      <4>1. u \in Range(k.wait[n]) /\ u \in Thread /\ u # o
        BY <1>4, <1>6, <4>0
      <4>2. k.prio[owner[n]] <= k.prio[u]
        BY <1>11, <4>1 DEF PInv, OwnerNotOutranked
      <4>3. owner[n] \in Thread
        BY <4>1 DEF IInv, FreeOrOwned, MutexType
      <4>4. k'.prio[owner[n]] <= k.prio[owner[n]]
        <5>1. k.prio[owner[n]] \in Int /\ k.prio[t] \in Int /\ k.prio[o] \in Int
          BY <1>2, <1>4, <4>3
        <5>2. k'.prio[owner[n]] = IF owner[n] = o
                                  THEN IF k.prio[t] < k.prio[o] THEN k.prio[t] ELSE k.prio[o]
                                  ELSE k.prio[owner[n]]
          BY <1>5, <4>3
        <5>. QED
          BY <5>1, <5>2
      <4>5. k'.prio[u] = k.prio[u]
        BY <1>5, <4>1
      <4>6. k'.prio[owner[n]] \in Int /\ k.prio[owner[n]] \in Int /\ k.prio[u] \in Int
        BY <1>4, <1>5, <4>1, <4>3
      <4>. QED
        BY <4>2, <4>4, <4>5, <4>6
    <3>. QED
      BY <3>1, <3>2
  <2>. QED
    BY <1>1, <2>1 DEF OwnerNotOutranked
<1>. QED
  BY <1>8, <1>9, <1>10, <1>11 DEF PInv

\* The caller gets its own priority back and owns nothing any more.  The next
\* owner owns nothing else either, and was the first of those that wait.
LEMMA HandOverP ==
  ASSUME IInv, PInv, NoNesting, NEW t \in Thread, NEW m \in Mutexes, MayCall(t),
         ReleaseLast(t, m), k.wait[m] # << >>
  PROVE  PInv'
<1>. DEFINE kk == Restored(t, m)
            next == Head(k.wait[m])
<1>1. /\ owner[m] = t
      /\ owner' = [owner EXCEPT ![m] = next]
      /\ original_priority' = [original_priority EXCEPT ![m] = kk.prio[next]]
  BY DEF ReleaseLast, HandOver
<1>2. /\ kk.prio = [k.prio EXCEPT ![t] = original_priority[m]]
      /\ next \in Range(k.wait[m]) /\ next \in Thread
      /\ k'.prio = kk.prio /\ k'.wait = Without(k.wait, next)
      /\ \A n \in Mutexes : Range(k'.wait[n]) = Range(k.wait[n]) \ {next}
  BY HandOverKernel DEF Mutexes
<1>. HIDE DEF kk
<1>3. /\ k.prio \in [Thread -> Prio] /\ k.wait \in [Mutexes -> Seq(Thread)]
      /\ \A n \in Mutexes : /\ t \notin Range(k.wait[n]) /\ Range(k.wait[n]) \in SUBSET Thread
                             /\ IsInjective(k.wait[n])
  <2>1. /\ k.prio \in [Thread -> Prio] /\ k.wait \in [Mutexes -> Seq(Thread)]
        /\ \A n \in Mutexes : t \notin Range(k.wait[n])
    BY CallerFacts, KernelTypeFields DEF Mutexes
  <2>2. \A n \in Mutexes : IsInjective(k.wait[n])
    BY DEF IInv, ThreadsOK, KernelOK, WaitLists, Mutexes
  <2>3. \A n \in Mutexes : Range(k.wait[n]) \in SUBSET Thread
    BY <2>1, ListRange
  <2>. QED
    BY <2>1, <2>2, <2>3
<1>4. /\ next # t
      /\ \A n \in Mutexes : owner[n] = t => n = m
      /\ \A n \in Mutexes : owner[n] # next
  <2>1. next # t /\ owner[m] # next
    BY <1>1, <1>2, <1>3
  <2>. QED
    BY <1>1, <1>2, <2>1 DEF NoNesting, Engaged
<1>5. original_priority[m] = InitPrio[t] /\ k.prio[next] = InitPrio[next]
  BY <1>1, <1>2, <1>4 DEF PInv, OriginalIsOwn, PriorityRestored
<1>6. \A x \in Thread : k'.prio[x] = IF x = t THEN InitPrio[t] ELSE k.prio[x]
  BY <1>2, <1>3, <1>5
<1>7. /\ \A n \in Mutexes : owner'[n] = IF n = m THEN next ELSE owner[n]
      /\ \A n \in Mutexes :
            original_priority'[n] = IF n = m THEN InitPrio[next] ELSE original_priority[n]
  <2>1. kk.prio[next] = InitPrio[next]
    BY <1>2, <1>4, <1>5, <1>6
  <2>. HIDE DEF next
  <2>. QED
    BY <1>1, <2>1 DEF IInv, MutexType
<1>8. PriorityRestored'
  <2>. HIDE DEF next
  <2>. QED
    BY <1>1, <1>4, <1>6, <1>7 DEF PInv, PriorityRestored
<1>9. OriginalIsOwn'
  <2>. HIDE DEF next
  <2>. QED
    BY <1>7 DEF PInv, OriginalIsOwn
<1>10. ASSUME NEW n \in Mutexes, InOrder(k.wait[n], k.prio) PROVE InOrder(k.wait[n], k'.prio)
  <2>1. \A l \in 1 .. Len(k.wait[n]) : k.wait[n][l] \in Thread \ {t}
    BY <1>3 DEF Range
  <2>. QED
    BY <1>6, <1>10, <2>1 DEF InOrder
<1>11. ASSUME Flag = "PRIO" PROVE WaitersInOrder'
  <2>0. k'.prio \in [Thread -> Prio]
    BY <1>2, HandOverKernel, KernelTypeFields
  <2>1. ASSUME NEW n \in Mutexes PROVE InOrder(k'.wait[n], k'.prio)
    <3>1. k'.wait[n] = RemoveFirst(k.wait[n], next)
      BY <1>2 DEF Without, Mutexes
    <3>2. InOrder(k.wait[n], k'.prio)
      BY <1>10, <1>11 DEF PInv, WaitersInOrder
    <3>. HIDE DEF next
    <3>. QED
      BY <1>3, <2>0, <3>1, <3>2, RemoveKeepsOrder
  <2>. QED
    BY <2>1 DEF WaitersInOrder
<1>12. ASSUME Flag = "PRIO" PROVE OwnerNotOutranked'
  <2>1. ASSUME NEW n \in Mutexes, NEW u \in Range(k'.wait[n]) PROVE k'.prio[owner'[n]] <= k'.prio[u]
    <3>0. u \in Range(k.wait[n]) /\ u # next
      <4>. HIDE DEF next
      <4>. QED
        BY <1>2, <2>1
    <3>1. u \in Range(k.wait[n]) /\ u \in Thread \ {t}
      BY <1>3, <3>0
    <3>2. CASE n = m
      <4>1. PICK i \in 1 .. Len(k.wait[m]) : u = k.wait[m][i]
        BY <1>3, <3>1, <3>2 DEF Range
      <4>2. next = k.wait[m][1] /\ next # u
        BY <1>3, <3>0
      <4>3. k.prio[next] <= k.prio[u]
        BY <1>3, <1>12, <4>1, <4>2 DEF PInv, WaitersInOrder, InOrder
      <4>. HIDE DEF next
      <4>. QED
        BY <1>2, <1>4, <1>6, <1>7, <3>1, <3>2, <4>3
    <3>3. CASE n # m
      <4>1. owner[n] \in Thread \ {t}
        BY <1>4, <3>1, <3>3 DEF IInv, FreeOrOwned, MutexType
      <4>2. k.prio[owner[n]] <= k.prio[u]
        BY <1>12, <3>1 DEF PInv, OwnerNotOutranked
      <4>. HIDE DEF next
      <4>. QED
        BY <1>6, <1>7, <3>1, <3>3, <4>1, <4>2
    <3>. QED
      BY <3>2, <3>3
  <2>. QED
    BY <2>1 DEF OwnerNotOutranked
<1>. QED
  BY <1>8, <1>9, <1>11, <1>12 DEF PInv

LEMMA GiveBackP ==
  ASSUME IInv, PInv, NoNesting, NEW t \in Thread, NEW m \in Mutexes, MayCall(t),
         ReleaseLast(t, m), k.wait[m] = << >>
  PROVE  PInv'
<1>1. /\ owner[m] = t /\ k' = Restored(t, m)
      /\ owner' = [owner EXCEPT ![m] = NONE]
      /\ original_priority' = [original_priority EXCEPT ![m] = NONE]
  BY DEF ReleaseLast, GiveBack
<1>2. k'.prio = [k.prio EXCEPT ![t] = InitPrio[t]] /\ k'.wait = k.wait
  <2>1. original_priority[m] = InitPrio[t]
    BY <1>1 DEF PInv, OriginalIsOwn
  <2>. QED
    BY <1>1, <2>1, RestoredOK
<1>3. /\ k.prio \in [Thread -> Prio] /\ k.wait \in [Mutexes -> Seq(Thread)]
      /\ \A n \in Mutexes : t \notin Range(k.wait[n]) /\ Range(k.wait[n]) \in SUBSET Thread
      /\ Range(k.wait[m]) = {}
  <2>1. /\ k.prio \in [Thread -> Prio] /\ k.wait \in [Mutexes -> Seq(Thread)]
        /\ \A n \in Mutexes : t \notin Range(k.wait[n])
    BY CallerFacts, KernelTypeFields DEF Mutexes
  <2>. QED
    BY <2>1, ListRange
<1>4. \A n \in Mutexes : owner[n] = t => n = m
  BY <1>1 DEF NoNesting, Engaged
<1>5. \A x \in Thread : k'.prio[x] = IF x = t THEN InitPrio[t] ELSE k.prio[x]
  BY <1>2, <1>3
<1>6. \A n \in Mutexes : owner'[n] = IF n = m THEN NONE ELSE owner[n]
  BY <1>1 DEF IInv, MutexType
<1>7. \A n \in Mutexes : original_priority'[n] = IF n = m THEN NONE ELSE original_priority[n]
  BY <1>1 DEF IInv, MutexType
<1>8. PriorityRestored'
  BY <1>1, <1>4, <1>5, <1>6 DEF PInv, PriorityRestored
<1>9. OriginalIsOwn'
  BY <1>6, <1>7, MutexAssumption DEF PInv, OriginalIsOwn
<1>10. ASSUME Flag = "PRIO" PROVE WaitersInOrder'
  <2>1. ASSUME NEW n \in Mutexes PROVE InOrder(k'.wait[n], k'.prio)
    <3>1. \A l \in 1 .. Len(k.wait[n]) : k.wait[n][l] \in Thread \ {t}
      BY <1>3 DEF Range
    <3>2. InOrder(k.wait[n], k.prio)
      BY <1>10 DEF PInv, WaitersInOrder
    <3>. QED
      BY <1>2, <1>5, <3>1, <3>2 DEF InOrder
  <2>. QED
    BY <2>1 DEF WaitersInOrder
<1>11. ASSUME Flag = "PRIO" PROVE OwnerNotOutranked'
  <2>1. ASSUME NEW n \in Mutexes, NEW u \in Range(k'.wait[n]) PROVE k'.prio[owner'[n]] <= k'.prio[u]
    <3>1. n # m /\ u \in Range(k.wait[n]) /\ u \in Thread \ {t}
      BY <1>2, <1>3, <2>1
    <3>2. owner[n] \in Thread \ {t}
      BY <1>4, <3>1 DEF IInv, FreeOrOwned, MutexType
    <3>3. k.prio[owner[n]] <= k.prio[u]
      BY <1>11, <3>1 DEF PInv, OwnerNotOutranked
    <3>. QED
      BY <1>5, <1>6, <3>1, <3>2, <3>3
  <2>. QED
    BY <2>1 DEF OwnerNotOutranked
<1>. QED
  BY <1>8, <1>9, <1>10, <1>11 DEF PInv

LEMMA NextP ==
  ASSUME IInv, PInv, NoNesting, NoNesting', [Next]_vars
  PROVE  PInv'
<1>0. ThreadsOK
  BY DEF IInv
<1>1. ASSUME (\E t \in Thread : ThreadStep(t)) \/ Tick \/ TimerFires,
             UNCHANGED <<mutexVars, callerVars>>
      PROVE  PInv'
  BY <1>0, <1>1, SystemStepInv, FrameP DEF mutexVars
<1>2. ASSUME k'.prio = k.prio, k'.wait = k.wait, owner' = owner,
             original_priority' = original_priority
      PROVE  PInv'
  BY <1>2, FrameP DEF ListsShrink
<1>3. ASSUME NEW t \in Thread, NEW e, SetError(t, e)
      PROVE  k'.prio = k.prio /\ k'.wait = k.wait
  BY <1>0, <1>3 DEF SetError, KernelType, ThreadsOK
<1>4. ASSUME NEW t \in Thread, Take(t) PROVE PInv'
  <2>1. MayCall(t)
    BY <1>4 DEF Take
  <2>2. PICK m \in Mutexes :
           \/ TakeAgain(t, m) \/ TakeFree(t, m) \/ TakeFails(t, m)
           \/ \E time \in Times : TakeWait(t, m, time)
    BY <1>4 DEF Take
  <2>3. CASE TakeAgain(t, m)
    BY <1>2, <1>3, <2>3 DEF TakeAgain
  <2>4. CASE TakeFails(t, m)
    BY <1>2, <1>3, <2>4 DEF TakeFails, mutexVars
  <2>. QED
    BY <2>1, <2>2, <2>3, <2>4, TakeFreeP, TakeWaitP
<1>5. ASSUME NEW t \in Thread, Release(t) PROVE PInv'
  <2>1. MayCall(t)
    BY <1>5 DEF Release
  <2>2. PICK m \in Mutexes : ReleaseRefused(t, m) \/ ReleaseOnce(t, m) \/ ReleaseLast(t, m)
    BY <1>5 DEF Release
  <2>3. CASE ReleaseRefused(t, m)
    BY <1>2, <1>3, <2>3 DEF ReleaseRefused, mutexVars
  <2>4. CASE ReleaseOnce(t, m)
    BY <1>2, <2>4 DEF ReleaseOnce
  <2>. QED
    BY <2>1, <2>2, <2>3, <2>4, HandOverP, GiveBackP
<1>6. ASSUME NEW t \in Thread, TakeReturn(t) PROVE PInv'
  BY <1>2, <1>6 DEF TakeReturn, mutexVars
<1>7. CASE UNCHANGED vars
  BY <1>2, <1>7 DEF vars, mutexVars
<1>8. CASE Next
  <2>1. ASSUME NEW t \in Thread, Call(t) \/ Continue(t) PROVE PInv'
    <3>1. CASE ThreadStep(t) /\ UNCHANGED <<mutexVars, callerVars>>
      BY <1>1, <3>1
    <3>. QED
      BY <1>4, <1>5, <1>6, <2>1, <3>1 DEF Call, Continue, ThreadStep
  <2>. QED
    BY <1>1, <1>8, <2>1 DEF Next, TickStep, FireStep
<1>. QED
  BY <1>7, <1>8

\* The inductive invariant of the priorities, for callers that do not nest.
THEOREM PriorityInvariant == Spec /\ []NoNesting => []PInv
<1>1. Init => PInv
  BY InitP
<1>2. IInv /\ PInv /\ NoNesting /\ NoNesting' /\ [Next]_vars => PInv'
  BY NextP
<1>. QED
  BY <1>1, <1>2, InductiveInvariant, PTL DEF Spec

\* rt_mutex_release: whoever owns no mutex has its own priority, whatever the
\* waiters it inherited from did - timed out, were resumed, went to sleep.
THEOREM PriorityRestoredHolds == Spec /\ []NoNesting => []PriorityRestored
<1>1. PInv => PriorityRestored
  BY DEF PInv
<1>. QED
  BY <1>1, PriorityInvariant, PTL

\* rt_mutex_take and the hand-over: no waiter outranks the owner, when the
\* mutex was initialised with RT_IPC_FLAG_PRIO.
THEOREM OwnerNotOutrankedHolds ==
  ASSUME Flag = "PRIO"
  PROVE  Spec /\ []NoNesting => []OwnerNotOutranked
<1>1. PInv => OwnerNotOutranked
  BY DEF PInv
<1>. QED
  BY <1>1, PriorityInvariant, PTL

\* A system with one mutex cannot nest: the two properties of rt_mutex_take
\* and rt_mutex_release hold in all its behaviours.
THEOREM OneMutexPriorities ==
  ASSUME NEW CONSTANT mx, Mutexes = {mx}
  PROVE  /\ Spec => []PriorityRestored
         /\ Flag = "PRIO" => (Spec => []OwnerNotOutranked)
<1>1. NoNesting
  BY DEF NoNesting
<1>2. []NoNesting
  BY <1>1, PTL
<1>3. Spec => []PriorityRestored
  BY <1>2, PriorityRestoredHolds, PTL
<1>4. ASSUME Flag = "PRIO" PROVE Spec => []OwnerNotOutranked
  <2>1. Spec /\ []NoNesting => []OwnerNotOutranked
    BY <1>4, OwnerNotOutrankedHolds
  <2>. QED
    BY <1>2, <2>1, PTL
<1>. QED
  BY <1>3, <1>4
=============================================================================
