---------------------------- MODULE OneListProofs ---------------------------
(***************************************************************************)
(* The safety of the four systems of threads that have one suspend list:   *)
(* module Semaphore, module MemPool, module ThreadLife and module Event,   *)
(* each for every number of threads and priorities.  The parts share the   *)
(* lemmas on lists and on thread timers, and nothing else: no proof about  *)
(* one system cites an assumption of another.                              *)
(***************************************************************************)
EXTENDS Semaphore, Event, MemPool, ThreadLife, ThreadsProofs

-----------------------------------------------------------------------------
(* The semaphore.  IInv adds to the invariant of the threads what the       *)
(* semaphore itself has to keep.  CreditConserved is not inductive without  *)
(* ThreadInv, which says that a waiter is not counted as woken already and  *)
(* that a woken thread is nowhere else; it bounds value by credit in turn,  *)
(* so that the increment of a release does not wrap.                        *)
IInv ==
    /\ TypeOK
    /\ ThreadInv
    /\ NoLostWakeup
    /\ CreditConserved

-----------------------------------------------------------------------------
LEMMA WaitersAreWaiting ==
  ASSUME k \in KernelType
  PROVE  Sem \in WaitList /\ Waiters \in Seq(Thread) /\ (Waiters = << >> <=> Range(Waiters) = {})
BY WaitingType, SemaphoreAssumption DEF Waiters

LEMMA InitInv == Init => IInv
<1>. SUFFICES ASSUME Init PROVE IInv
  OBVIOUS
<1>1. ThreadsInit /\ value = InitValue /\ credit = InitValue
  BY DEF Init
<1>2. ThreadInv /\ Woken = {} /\ \A w \in WaitList : k.wait[w] = << >>
  BY <1>1, ThreadsInitInv
<1>3. TypeOK
  BY <1>1, <1>2, SemaphoreAssumption DEF TypeOK, ThreadInv, ThreadsOK
<1>4. CreditConserved
  BY <1>1, <1>2, FS_EmptySet, SemaphoreAssumption DEF CreditConserved
<1>5. NoLostWakeup
  BY <1>2, SemaphoreAssumption DEF NoLostWakeup, Waiters
<1>. QED
  BY <1>2, <1>3, <1>4, <1>5 DEF IInv

\* A step of the threads that leaves the semaphore alone.
LEMMA FrameInv ==
  ASSUME IInv, UNCHANGED <<value, credit>>, ThreadInv', Woken' = Woken,
         \A w \in WaitList : Range(k'.wait[w]) \subseteq Range(k.wait[w])
  PROVE  IInv'
<1>1. k \in KernelType /\ k' \in KernelType
  BY DEF IInv, ThreadInv, ThreadsOK
<1>2. /\ Sem \in WaitList /\ (Waiters = << >> <=> Range(Waiters) = {})
      /\ k'.wait[Sem] = << >> <=> Range(k'.wait[Sem]) = {}
  <2>1. \A w \in WaitList : k'.wait[w] \in Seq(Thread)
    BY <1>1, KernelTypeFields
  <2>2. \A w \in WaitList : k'.wait[w] = << >> <=> Range(k'.wait[w]) = {}
    BY <2>1, ListRange
  <2>. QED
    BY <1>1, <2>2, WaitersAreWaiting
<1>3. Waiters = << >> => Waiters' = << >>
  BY <1>2 DEF Waiters
<1>4. NoLostWakeup'
  BY <1>3 DEF IInv, NoLostWakeup
<1>5. TypeOK' /\ CreditConserved'
  BY DEF IInv, TypeOK, CreditConserved, ThreadInv, ThreadsOK
<1>. QED
  BY <1>4, <1>5 DEF IInv

LEMMA TakeInv ==
  ASSUME IInv, NEW t \in Thread, Take(t)
  PROVE  IInv' /\ OutcomeKept
<1>0. Running(k, t) /\ pc[t] = "run" /\ t \in Thread \ {Idle} /\ ThreadInv /\ k \in KernelType
  BY DEF Take, MayCall, IInv, ThreadInv, ThreadsOK
<1>1. CASE TakeAvailable(t)
  <2>1. /\ k' = k /\ pc' = pc /\ value' = value - 1 /\ credit' = credit - 1
        /\ value \in Nat /\ value > 0
    BY <1>1 DEF TakeAvailable, IInv, TypeOK
  <2>2. Woken' = Woken /\ Waiters' = Waiters
    BY <2>1 DEF Woken, Waiting, Waiters
  <2>3. TypeOK' /\ ThreadInv'
    BY <2>1, SemaphoreAssumption
       DEF TypeOK, IInv, ThreadInv, ThreadsOK, WaitersWait, Waiting, CurrentReady, TopRuns
  <2>4. CreditConserved'
    BY <2>1, <2>2, WokenFinite DEF CreditConserved, IInv
  <2>5. NoLostWakeup'
    BY <2>1, <2>2 DEF NoLostWakeup, IInv
  <2>6. OutcomeKept
    BY <2>1 DEF OutcomeKept, Waiting
  <2>. QED
    BY <2>3, <2>4, <2>5, <2>6 DEF IInv
<1>2. ASSUME NEW time \in Times, TakeSuspend(t, time) PROVE IInv' /\ OutcomeKept
  <2>1. Wait(t, Sem, Flag, time) /\ value' = value /\ credit' = credit /\ value = 0
    BY <1>2 DEF TakeSuspend
  <2>2. Sem \in WaitList /\ time \in Int
    BY SemaphoreAssumption
  <2>3. ThreadInv' /\ Woken' = Woken \ {t} /\ OutcomeKept
    BY <1>0, <2>1, <2>2, WaitInv DEF ThreadInv
  <2>4. t \notin Woken
    BY <1>0 DEF Woken
  <2>5. Woken' = Woken
    BY <2>3, <2>4
  <2>6. TypeOK' /\ CreditConserved'
    BY <2>1, <2>3, <2>5 DEF IInv, TypeOK, CreditConserved, ThreadInv, ThreadsOK
  <2>7. NoLostWakeup'
    BY <2>1 DEF NoLostWakeup
  <2>. QED
    BY <2>3, <2>6, <2>7 DEF IInv
<1>. QED
  BY <1>1, <1>2 DEF Take

LEMMA TakeReturnInv ==
  ASSUME IInv, NEW t \in Thread, TakeReturn(t)
  PROVE  IInv' /\ OutcomeKept
<1>0. /\ Running(k, t) /\ pc[t] = "back" /\ Goto(t, "run") /\ k' = k /\ value' = value
      /\ credit' = IF k.error[t] = "EOK" THEN credit - 1 ELSE credit
      /\ ThreadInv /\ credit \in Int /\ credit = value + Cardinality(Woken) /\ value \in Nat
  BY DEF TakeReturn, IInv, TypeOK, CreditConserved
<1>1. ThreadInv' /\ Woken' = Woken \ {t} /\ OutcomeKept
  BY <1>0, ReturnInv DEF ThreadInv
<1>2. t \notin Waiting
  BY <1>0, CallerReady DEF ThreadInv
<1>3. CASE k.error[t] = "EOK"
  <2>1. t \in Woken
    BY <1>0, <1>2, <1>3 DEF Woken
  <2>2. Cardinality(Woken') = Cardinality(Woken) - 1
    BY <1>1, <2>1, WokenFinite, FS_RemoveElement
  <2>3. credit' = value' + Cardinality(Woken')
    BY <1>0, <1>3, <2>2, WokenFinite
  <2>. QED
    BY <1>0, <1>1, <1>3, <2>3
       DEF IInv, TypeOK, CreditConserved, NoLostWakeup, ThreadInv, ThreadsOK, Waiters
<1>4. CASE k.error[t] # "EOK"
  <2>1. t \notin Woken
    BY <1>4 DEF Woken
  <2>2. Woken' = Woken
    BY <1>1, <2>1
  <2>. QED
    BY <1>0, <1>1, <1>4, <2>2
       DEF IInv, TypeOK, CreditConserved, NoLostWakeup, ThreadInv, ThreadsOK, Waiters
<1>. QED
  BY <1>3, <1>4

\* PutUnit together with what Wake and IsrWake do to the list.
LEMMA PutUnitInv ==
  ASSUME IInv, MaxCredit < ValueMod, PutUnit, ThreadInv',
         NEW x,
         Waiters = << >> => k' = k /\ Woken' = Woken,
         Waiters # << >> => x \notin Woken /\ Woken' = Woken \cup {x}
  PROVE  IInv'
<1>0. /\ value \in 0 .. ValueMod - 1 /\ credit \in Int /\ ValueMod \in Nat /\ MaxCredit \in Nat
      /\ credit < MaxCredit /\ credit' = credit + 1
      /\ credit = value + Cardinality(Woken) /\ Cardinality(Woken) \in Nat
  BY SemaphoreAssumption, WokenFinite DEF IInv, TypeOK, PutUnit, CreditConserved
<1>1. CASE Waiters = << >>
  <2>1. value + 1 < ValueMod
    BY <1>0
  <2>2. value' = value + 1
    BY <1>0, <1>1, <2>1 DEF PutUnit
  <2>3. credit' = value' + Cardinality(Woken') /\ value' \in 0 .. ValueMod - 1 /\ credit' \in Int
    BY <1>0, <1>1, <2>1, <2>2
  <2>4. Waiters' = << >>
    BY <1>1 DEF Waiters
  <2>. QED
    BY <2>3, <2>4 DEF IInv, TypeOK, CreditConserved, NoLostWakeup, ThreadInv, ThreadsOK
<1>2. CASE Waiters # << >>
  <2>1. value' = value /\ value = 0
    BY <1>0, <1>2 DEF PutUnit, IInv, NoLostWakeup
  <2>2. Cardinality(Woken') = Cardinality(Woken) + 1
    BY <1>2, WokenFinite, FS_AddElement
  <2>3. credit' = value' + Cardinality(Woken') /\ credit' \in Int
    BY <1>0, <2>1, <2>2
  <2>. QED
    BY <1>0, <2>1, <2>3 DEF IInv, TypeOK, CreditConserved, NoLostWakeup, ThreadInv, ThreadsOK
<1>. QED
  BY <1>1, <1>2

LEMMA ReleaseInv ==
  ASSUME IInv, MaxCredit < ValueMod, NEW t \in Thread, Release(t)
  PROVE  IInv' /\ OutcomeKept
<1>. DEFINE x == Head(k.wait[Sem])
<1>0. Running(k, t) /\ pc[t] = "run" /\ PutUnit /\ Wake(t, Sem) /\ ThreadInv /\ Sem \in WaitList
  BY SemaphoreAssumption DEF Release, MayCall, IInv
<1>1. t \notin Woken
  BY <1>0 DEF Woken
<1>2. /\ ThreadInv' /\ OutcomeKept
      /\ k.wait[Sem] = << >> => k' = k /\ Woken' = Woken \ {t}
      /\ k.wait[Sem] # << >> => x \notin Woken /\ Woken' = (Woken \ {t}) \cup {x}
  BY <1>0, WakeInv DEF ThreadInv
<1>. HIDE DEF x
<1>. QED
  BY <1>0, <1>1, <1>2, PutUnitInv DEF Waiters

LEMMA IsrReleaseInv ==
  ASSUME IInv, MaxCredit < ValueMod, IsrRelease
  PROVE  IInv' /\ OutcomeKept
<1>. DEFINE x == Head(k.wait[Sem])
<1>0. k.due = {} /\ PutUnit /\ IsrWake(Sem) /\ ThreadInv /\ Sem \in WaitList
  BY SemaphoreAssumption DEF IsrRelease, Interruptible, IInv
<1>1. /\ ThreadInv' /\ OutcomeKept
      /\ k.wait[Sem] = << >> => k' = k /\ Woken' = Woken
      /\ k.wait[Sem] # << >> => x \notin Woken /\ Woken' = Woken \cup {x}
  BY <1>0, IsrWakeInv DEF ThreadInv
<1>. HIDE DEF x
<1>. QED
  BY <1>0, <1>1, PutUnitInv DEF Waiters

LEMMA ResetInv ==
  ASSUME IInv, NEW t \in Thread, ResetBegin(t) \/ ResetTurn(t) \/ ResetEnd(t)
  PROVE  IInv' /\ OutcomeKept
<1>0. ThreadInv /\ Sem \in WaitList
  BY SemaphoreAssumption DEF IInv
<1>1. CASE ResetBegin(t)
  <2>1. ThreadInv' /\ Woken' = Woken /\ k'.wait = k.wait /\ OutcomeKept
    BY <1>0, <1>1, EnterSectionInv DEF ResetBegin, MayCall, ThreadInv
  <2>. QED
    BY <1>1, <2>1, FrameInv DEF ResetBegin
<1>2. CASE ResetTurn(t)
  BY <1>0, <1>2, ResumeAllTurnInv, FrameInv DEF ResetTurn, ThreadInv
<1>3. CASE ResetEnd(t)
  <2>1. /\ ThreadInv' /\ Woken' = Woken /\ k'.wait = k.wait /\ OutcomeKept
        /\ value' = InitValue /\ credit' = InitValue + Cardinality(Woken) /\ Waiters = << >>
    BY <1>0, <1>3, LeaveSectionInv DEF ResetEnd, ThreadInv
  <2>2. Waiters' = << >>
    BY <2>1 DEF Waiters
  <2>. QED
    BY <2>1, <2>2, WokenFinite, SemaphoreAssumption
       DEF IInv, TypeOK, CreditConserved, NoLostWakeup, ThreadInv, ThreadsOK
<1>. QED
  BY <1>1, <1>2, <1>3

-----------------------------------------------------------------------------
\* Every step of every thread, interrupt handler and tick keeps the invariant,
\* as long as value cannot wrap around.
LEMMA NextInv ==
  ASSUME MaxCredit < ValueMod, IInv, [Next]_vars
  PROVE  IInv' /\ OutcomeKept
<1>1. ASSUME NEW t \in Thread, Take(t) \/ Release(t) \/ ResetBegin(t)
      PROVE  IInv' /\ OutcomeKept
  BY <1>1, TakeInv, ReleaseInv, ResetInv
<1>2. ASSUME NEW t \in Thread, TakeReturn(t) \/ ResetTurn(t) \/ ResetEnd(t)
      PROVE  IInv' /\ OutcomeKept
  BY <1>2, TakeReturnInv, ResetInv
<1>3. ASSUME (\E t \in Thread : ThreadStep(t)) \/ Tick \/ TimerFires, UNCHANGED <<value, credit>>
      PROVE  IInv' /\ OutcomeKept
  <2>1. ThreadInv
    BY DEF IInv
  <2>2. /\ ThreadInv' /\ Woken' = Woken /\ OutcomeKept
        /\ \A w \in WaitList : Range(k'.wait[w]) \subseteq Range(k.wait[w])
    BY <1>3, <2>1, SystemStepInv DEF ThreadInv
  <2>. QED
    BY <1>3, <2>2, FrameInv
<1>4. CASE UNCHANGED vars
  <2>1. k' = k /\ value' = value /\ pc' = pc /\ credit' = credit
    BY <1>4 DEF vars
  <2>. QED
    BY <2>1 DEF IInv, TypeOK, ThreadInv, ThreadsOK, NoLostWakeup, CreditConserved, WaitersWait,
                CurrentReady, TopRuns, Waiting, Woken, Waiters, OutcomeKept
<1>5. CASE Next
  <2>1. ASSUME NEW t \in Thread, Call(t) \/ Continue(t) PROVE IInv' /\ OutcomeKept
    BY <1>1, <1>2, <1>3, <2>1 DEF Call, Continue, ThreadStep
  <2>. QED
    BY <1>3, <1>5, <2>1, IsrReleaseInv DEF Next, TickStep, FireStep
<1>. QED
  BY <1>4, <1>5

\* The inductive invariant holds in every behaviour of the semaphore.
THEOREM InductiveInvariant ==
  ASSUME MaxCredit < ValueMod
  PROVE  Spec => []IInv
<1>1. Init => IInv
  BY InitInv
<1>2. IInv /\ [Next]_vars => IInv'
  BY NextInv
<1>. QED
  BY <1>1, <1>2, PTL DEF Spec

\* rt_sem_take, rt_sem_release, the reset and the tick keep the ready lists,
\* the priority bitmap, the suspend list and the thread timers consistent.
THEOREM KernelConsistentHolds ==
  ASSUME MaxCredit < ValueMod
  PROVE  Spec => [](TypeOK /\ KernelConsistent)
<1>1. IInv => TypeOK /\ KernelConsistent
  BY DEF IInv, KernelConsistent, ThreadInv, ThreadsOK
<1>. QED
  BY <1>1, InductiveInvariant, PTL

\* rt_sem_take never leaves a thread waiting while value is positive.
THEOREM NoLostWakeupHolds ==
  ASSUME MaxCredit < ValueMod
  PROVE  Spec => []NoLostWakeup
<1>1. IInv => NoLostWakeup
  BY DEF IInv
<1>. QED
  BY <1>1, InductiveInvariant, PTL

\* rt_sem_release and the timeouts neither lose nor duplicate a unit.
THEOREM CreditConservedHolds ==
  ASSUME MaxCredit < ValueMod
  PROVE  Spec => []CreditConserved
<1>1. IInv => CreditConserved
  BY DEF IInv
<1>. QED
  BY <1>1, InductiveInvariant, PTL

\* A thread that was granted the unit, timed out or was thrown off the suspend
\* list keeps that outcome until rt_sem_take returns: a release and a timeout
\* that come one after the other before it runs do not both count.
THEOREM OutcomeFinalHolds ==
  ASSUME MaxCredit < ValueMod
  PROVE  Spec => OutcomeFinal
<1>1. IInv /\ [Next]_vars => OutcomeKept
  BY NextInv
<1>. QED
  BY <1>1, InductiveInvariant, PTL DEF Spec, OutcomeFinal, OutcomeKept

\* A thread outside the kernel is never outranked by a ready thread: the
\* sections of ipc.c all end in the rt_schedule they need.
THEOREM HighestRunsHolds ==
  ASSUME MaxCredit < ValueMod
  PROVE  Spec => []HighestRuns
<1>1. IInv => HighestRuns
  BY DEF IInv, ThreadInv, ThreadsOK, TopRuns, HighestRuns
<1>. QED
  BY <1>1, InductiveInvariant, PTL

-----------------------------------------------------------------------------
(* The memory pool: first its blocks, whatever the threads do.              *)

\* Where the blocks are.
BlocksType ==
    /\ block_list \in Seq(Blocks) /\ given \in SUBSET Blocks /\ broken \in BOOLEAN
    /\ block_free_count \in Int /\ suspend_thread_count \in Int

BlocksInv == BlocksType /\ BlocksAccounted

\* Taking the first element off a list without repetition.
LEMMA TailList ==
  ASSUME NEW S, NEW s \in Seq(S), s # << >>, IsInjective(s)
  PROVE  /\ Tail(s) \in Seq(S) /\ IsInjective(Tail(s)) /\ Len(Tail(s)) = Len(s) - 1
         /\ Head(s) \in Range(s) /\ Range(Tail(s)) = Range(s) \ {Head(s)}
<1>. DEFINE r == Tail(s)
            h == Head(s)
<1>1. /\ Len(s) \in Nat \ {0} /\ h = s[1] /\ r \in Seq(S)
      /\ Len(r) = Len(s) - 1
      /\ \A i \in 1 .. Len(s) - 1 : r[i] = s[i + 1]
  OBVIOUS
<1>. HIDE DEF r, h
<1>2. \A i, j \in 1 .. Len(s) : s[i] = s[j] => i = j
  BY DEF IsInjective
<1>3. IsInjective(r)
  <2>1. ASSUME NEW i \in 1 .. Len(s) - 1, NEW j \in 1 .. Len(s) - 1, r[i] = r[j]
        PROVE  i = j
    <3>1. s[i + 1] = s[j + 1] /\ i + 1 \in 1 .. Len(s) /\ j + 1 \in 1 .. Len(s)
      BY <1>1, <2>1
    <3>2. i + 1 = j + 1
      BY <1>2, <3>1
    <3>. QED
      BY <3>2
  <2>. QED
    BY <1>1, <2>1 DEF IsInjective
<1>4. \A x : x \in Range(s) <=> \E i \in 1 .. Len(s) : x = s[i]
  BY DEF Range
<1>5. \A x : x \in Range(r) <=> \E i \in 1 .. Len(s) - 1 : x = s[i + 1]
  <2>1. \A x : x \in Range(r) <=> \E i \in 1 .. Len(s) - 1 : x = r[i]
    BY <1>1 DEF Range
  <2>. QED
    BY <1>1, <2>1
<1>6. Range(r) \subseteq Range(s) \ {h}
  <2>1. ASSUME NEW i \in 1 .. Len(s) - 1 PROVE s[i + 1] \in Range(s) /\ s[i + 1] # s[1]
    <3>1. i + 1 \in 1 .. Len(s) /\ 1 \in 1 .. Len(s) /\ i + 1 # 1
      BY <1>1
    <3>. QED
      BY <1>2, <1>4, <3>1
  <2>. QED
    BY <1>1, <1>5, <2>1
<1>7. Range(s) \ {h} \subseteq Range(r)
  <2>1. ASSUME NEW i \in 1 .. Len(s), s[i] # s[1] PROVE s[i] \in Range(r)
    <3>1. i - 1 \in 1 .. Len(s) - 1 /\ (i - 1) + 1 = i
      BY <1>1, <2>1
    <3>. QED
      BY <1>5, <3>1
  <2>. QED
    BY <1>1, <1>4, <2>1
<1>8. h \in Range(s)
  BY <1>1, <1>4
<1>. QED
  BY <1>1, <1>3, <1>6, <1>7, <1>8 DEF r, h

\* Putting an element in front of a list.
LEMMA PushList ==
  ASSUME NEW S, NEW s \in Seq(S), NEW e \in S, IsInjective(s), e \notin Range(s)
  PROVE  /\ <<e>> \o s \in Seq(S) /\ IsInjective(<<e>> \o s) /\ Len(<<e>> \o s) = Len(s) + 1
         /\ Range(<<e>> \o s) = Range(s) \cup {e}
<1>. DEFINE c == <<e>> \o s
<1>1. /\ Len(s) \in Nat /\ c \in Seq(S) /\ Len(c) = Len(s) + 1 /\ c[1] = e
      /\ \A i \in 1 .. Len(s) : c[i + 1] = s[i]
  OBVIOUS
<1>. HIDE DEF c
<1>2. \A i, j \in 1 .. Len(s) : s[i] = s[j] => i = j
  BY DEF IsInjective
<1>3. \A x : x \in Range(s) <=> \E i \in 1 .. Len(s) : x = s[i]
  BY DEF Range
<1>4. \A i \in 1 .. Len(c) : i = 1 \/ \E j \in 1 .. Len(s) : i = j + 1
  <2>1. ASSUME NEW i \in 1 .. Len(c), i # 1 PROVE i - 1 \in 1 .. Len(s) /\ i = (i - 1) + 1
    BY <1>1, <2>1
  <2>. QED
    BY <2>1
<1>5. IsInjective(c)
  <2>1. ASSUME NEW i \in 1 .. Len(c), NEW j \in 1 .. Len(c), c[i] = c[j] PROVE i = j
    <3>1. CASE i = 1 /\ j # 1
      BY <1>1, <1>3, <1>4, <2>1, <3>1
    <3>2. CASE i # 1 /\ j = 1
      BY <1>1, <1>3, <1>4, <2>1, <3>2
    <3>3. CASE i # 1 /\ j # 1
      <4>1. PICK a \in 1 .. Len(s), b \in 1 .. Len(s) : i = a + 1 /\ j = b + 1
        BY <1>4, <3>3
      <4>2. s[a] = s[b]
        BY <1>1, <2>1, <4>1
      <4>. QED
        BY <1>2, <4>1, <4>2
    <3>. QED
      BY <3>1, <3>2, <3>3
  <2>. QED
    BY <1>1, <2>1 DEF IsInjective
<1>6. \A x : x \in Range(c) <=> \E i \in 1 .. Len(c) : x = c[i]
  BY <1>1 DEF Range
<1>7. Range(c) \subseteq Range(s) \cup {e}
  <2>1. ASSUME NEW i \in 1 .. Len(c) PROVE c[i] \in Range(s) \cup {e}
    <3>1. CASE i = 1
      BY <1>1, <3>1
    <3>2. ASSUME NEW j \in 1 .. Len(s), i = j + 1 PROVE c[i] \in Range(s)
      BY <1>1, <1>3, <3>2
    <3>. QED
      BY <1>4, <3>1, <3>2
  <2>. QED
    BY <1>6, <2>1
<1>8. e \in Range(c)
  <2>1. 1 \in 1 .. Len(c)
    BY <1>1
  <2>. QED
    BY <1>1, <1>6, <2>1
<1>9. \A i \in 1 .. Len(s) : s[i] \in Range(c)
  <2>1. ASSUME NEW i \in 1 .. Len(s) PROVE i + 1 \in 1 .. Len(c)
    BY <1>1
  <2>. QED
    BY <1>1, <1>6, <2>1
<1>. QED
  BY <1>1, <1>3, <1>5, <1>7, <1>8, <1>9 DEF c

\* The list rt_mp_init builds has every block once.
LEMMA AllOnce ==
  ASSUME NEW S, IsFiniteSet(S)
  PROVE  /\ SetToSeq(S) \in Seq(S) /\ IsInjective(SetToSeq(S))
         /\ Range(SetToSeq(S)) = S /\ Len(SetToSeq(S)) = Cardinality(S)
<1>. DEFINE n == Cardinality(S)
            l == SetToSeq(S)
<1>1. n \in Nat /\ \E f \in [1 .. n -> S] : IsInjective(f)
  <2>1. n \in Nat /\ ExistsBijection(1 .. n, S)
    BY FS_CardinalityType
  <2>2. PICK f \in [1 .. n -> S] : \A i, j \in 1 .. n : f[i] = f[j] => i = j
    BY <2>1 DEF ExistsBijection, Bijection, Injection, IsInjective
  <2>3. IsInjective(f)
    BY <2>2 DEF IsInjective
  <2>. QED
    BY <2>1, <2>3
<1>2. l \in [1 .. n -> S] /\ IsInjective(l)
  <2>1. l = CHOOSE f \in [1 .. n -> S] : IsInjective(f)
    BY DEF SetToSeq
  <2>. QED
    BY <1>1, <2>1
<1>. HIDE DEF l
<1>3. l \in Seq(S) /\ Len(l) = n
  BY <1>1, <1>2
<1>4. l \in Injection(1 .. n, S)
  BY <1>2 DEF Injection, IsInjective
<1>5. IsFiniteSet(1 .. n) /\ Cardinality(1 .. n) = n
  BY <1>1, FS_Interval
<1>6. l \in Surjection(1 .. n, S)
  <2>1. Cardinality(1 .. n) = Cardinality(S)
    BY <1>5
  <2>. HIDE DEF n
  <2>. QED
    BY <1>4, <1>5, <2>1, FS_Injection
<1>. HIDE DEF n
<1>7. Range(l) = S
  BY <1>2, <1>6 DEF Range, Surjection
<1>. QED
  BY <1>2, <1>3, <1>7 DEF l, n
-----------------------------------------------------------------------------
(* Where the blocks are.                                                    *)

LEMMA TakeBlockInv ==
  ASSUME BlocksInv, TakeBlock
  PROVE  BlocksInv'
<1>1. /\ block_list \in Seq(Blocks) /\ given \in SUBSET Blocks /\ block_free_count \in Int
      /\ suspend_thread_count \in Int /\ IsInjective(block_list) /\ broken \in BOOLEAN
      /\ Range(block_list) \cap given = {} /\ Range(block_list) \cup given = Blocks
  BY DEF BlocksInv, BlocksType, BlocksAccounted
<1>2. /\ block_free_count' = block_free_count - 1 /\ suspend_thread_count' = suspend_thread_count
      /\ block_free_count' \in Int
  BY <1>1 DEF TakeBlock
<1>3. CASE block_list = << >>
  <2>1. broken' = TRUE /\ block_list' = block_list /\ given' = given
    <3>1. broken' = TRUE
      BY <1>3 DEF TakeBlock
    <3>2. block_list' = block_list
      BY <1>3 DEF TakeBlock
    <3>3. given' = given
      BY <1>3 DEF TakeBlock
    <3>. QED
      BY <3>1, <3>2, <3>3
  <2>. QED
    BY <1>1, <1>2, <2>1 DEF BlocksInv, BlocksType, BlocksAccounted
<1>4. CASE block_list # << >>
  <2>1. /\ block_list' = Tail(block_list) /\ given' = given \cup {Head(block_list)}
        /\ broken' = broken
    BY <1>4 DEF TakeBlock
  <2>2. /\ block_list' \in Seq(Blocks) /\ IsInjective(block_list')
        /\ Len(block_list') = Len(block_list) - 1
        /\ Head(block_list) \in Range(block_list)
        /\ Range(block_list') = Range(block_list) \ {Head(block_list)}
    BY <1>1, <1>4, <2>1, TailList
  <2>3. given' \in SUBSET Blocks /\ Range(block_list') \cap given' = {}
        /\ Range(block_list') \cup given' = Blocks
    BY <1>1, <2>1, <2>2
  <2>4. ~ broken' => block_free_count' = Len(block_list')
    BY <1>2, <2>1, <2>2 DEF BlocksInv, BlocksAccounted
  <2>. QED
    BY <1>1, <1>2, <2>1, <2>2, <2>3, <2>4 DEF BlocksInv, BlocksType, BlocksAccounted
<1>. QED
  BY <1>3, <1>4

LEMMA PutBlockInv ==
  ASSUME BlocksInv, NEW b \in given, PutBlock(b), WakeAllocator(TRUE) \/ WakeAllocator(FALSE),
         ~ broken
  PROVE  BlocksInv' /\ Len(block_list') = Len(block_list) + 1
<1>1. /\ block_list \in Seq(Blocks) /\ given \in SUBSET Blocks /\ block_free_count \in Int
      /\ suspend_thread_count \in Int /\ IsInjective(block_list)
      /\ Range(block_list) \cap given = {} /\ Range(block_list) \cup given = Blocks
      /\ block_free_count = Len(block_list)
  BY DEF BlocksInv, BlocksType, BlocksAccounted
<1>2. /\ given' = given \ {b} /\ block_list' = <<b>> \o block_list
      /\ block_free_count' = block_free_count + 1
  BY DEF PutBlock
<1>3. broken' \in BOOLEAN /\ suspend_thread_count' \in Int
  <2>1. broken \in BOOLEAN /\ suspend_thread_count - 1 \in Int
    BY <1>1 DEF BlocksInv, BlocksType
  <2>2. broken' \in {TRUE, broken}
    BY DEF WakeAllocator
  <2>3. suspend_thread_count' \in {suspend_thread_count, suspend_thread_count - 1}
    BY DEF WakeAllocator
  <2>. QED
    BY <1>1, <2>1, <2>2, <2>3
<1>4. b \in Blocks /\ b \notin Range(block_list)
  BY <1>1
<1>5. /\ block_list' \in Seq(Blocks) /\ IsInjective(block_list')
      /\ Len(block_list') = Len(block_list) + 1
      /\ Range(block_list') = Range(block_list) \cup {b}
  BY <1>1, <1>2, <1>4, PushList
<1>6. /\ given' \in SUBSET Blocks /\ block_free_count' \in Int
      /\ block_free_count' = Len(block_list')
  BY <1>1, <1>2, <1>5
<1>7. Range(block_list') \cap given' = {} /\ Range(block_list') \cup given' = Blocks
  BY <1>1, <1>2, <1>5
<1>. QED
  BY <1>3, <1>5, <1>6, <1>7 DEF BlocksInv, BlocksType, BlocksAccounted

LEMMA BlocksSame ==
  ASSUME BlocksInv, UNCHANGED <<block_list, block_free_count, given, broken>>,
         suspend_thread_count' \in Int
  PROVE  BlocksInv'
BY DEF BlocksInv, BlocksType, BlocksAccounted

LEMMA PoolInitBlocks == PoolInit => BlocksInv
<1>. SUFFICES ASSUME PoolInit PROVE BlocksInv
  OBVIOUS
<1>1. /\ block_list = SetToSeq(Blocks) /\ block_free_count = Cardinality(Blocks)
      /\ suspend_thread_count = 0 /\ given = {} /\ broken = FALSE
  BY DEF PoolInit
<1>2. IsFiniteSet(Blocks) /\ Cardinality(Blocks) \in Nat
  BY MemPoolAssumption, FS_CardinalityType
<1>3. /\ block_list \in Seq(Blocks) /\ IsInjective(block_list) /\ Range(block_list) = Blocks
      /\ Len(block_list) = Cardinality(Blocks)
  BY <1>1, <1>2, AllOnce
<1>4. /\ given \in SUBSET Blocks /\ broken \in BOOLEAN
      /\ Range(block_list) \cap given = {} /\ Range(block_list) \cup given = Blocks
  BY <1>1, <1>3
<1>5. block_free_count \in Int /\ suspend_thread_count \in Int
  BY <1>1, <1>2
<1>6. block_free_count = Len(block_list)
  BY <1>1, <1>3
<1>. QED
  BY <1>3, <1>4, <1>5, <1>6 DEF BlocksInv, BlocksType, BlocksAccounted

LEMMA PoolNextBlocks ==
  ASSUME BlocksInv, [PoolNext]_poolSystem
  PROVE  BlocksInv'
<1>0. suspend_thread_count \in Int
  BY DEF BlocksInv, BlocksType
<1>1. ASSUME UNCHANGED poolVars PROVE BlocksInv'
  BY <1>0, <1>1, BlocksSame DEF poolVars
<1>2. ASSUME NEW t \in Thread, Alloc(t) PROVE BlocksInv'
  <2>1. CASE AllocNow(t)
    BY <2>1, TakeBlockInv DEF AllocNow
  <2>2. ASSUME NEW time \in WaitTimes, AllocWait(t, time) PROVE BlocksInv'
    BY <1>0, <2>2, BlocksSame DEF AllocWait
  <2>. QED
    BY <1>2, <2>1, <2>2 DEF Alloc
<1>3. ASSUME NEW t \in Thread, AllocReturn(t) PROVE BlocksInv'
  BY <1>1, <1>3, TakeBlockInv DEF AllocReturn
<1>4. ASSUME NEW t \in Thread, Free(t) PROVE BlocksInv'
  BY <1>4, PutBlockInv DEF Free
<1>5. CASE IsrFree
  BY <1>5, PutBlockInv DEF IsrFree
<1>6. CASE UNCHANGED poolSystem
  BY <1>1, <1>6 DEF poolSystem
<1>. QED
  BY <1>1, <1>2, <1>3, <1>4, <1>5, <1>6 DEF PoolNext, PoolCall, PoolContinue

\* rt_mp_alloc and rt_mp_free keep account of the blocks, whatever the waiting
\* times are.
THEOREM BlocksAccountedHolds == PoolSpec => []BlocksAccounted
<1>1. BlocksInv => BlocksAccounted
  BY DEF BlocksInv
<1>. QED
  BY <1>1, PoolInitBlocks, PoolNextBlocks, PTL DEF PoolSpec

-----------------------------------------------------------------------------
\* When every call waits for ever, only sleeping threads have timers, and no
\* thread that calls rt_mp_alloc has an error code left over.
Quiet ==
    /\ \A t \in Thread : \/ k.error[t] = "EOK"
                         \/ k.error[t] = "ETIMEOUT" /\ pc[t] \in {"asleep", "woke"}
    /\ \A t \in Waiting : k.timer[t] = 0

-----------------------------------------------------------------------------
(* The timers of threads in the routines of the kernel.                     *)

LEMMA ResumeTimer ==
  ASSUME NEW K \in KernelType, NEW t \in Thread
  PROVE  Resume(K, t).timer \in [Thread -> Nat]
         /\ \A u \in Thread : Resume(K, t).timer[u] \in {0, K.timer[u]}
<1>1. K.timer \in [Thread -> Nat]
  BY KernelTypeFields
<1>2. CASE K.stat[t] = "SUSPEND"
  <2>. DEFINE n == Unlink(K, t)
              e == [n EXCEPT !.timer[t] = 0]
              i == InsertThread(e, t)
  <2>1. DOMAIN n = DOMAIN K /\ n.timer = K.timer
    BY DEF Unlink, KernelType
  <2>. HIDE DEF n
  <2>2. "timer" \in DOMAIN K
    BY DEF KernelType
  <2>3. DOMAIN e = DOMAIN K /\ e.timer = [K.timer EXCEPT ![t] = 0]
    BY <2>1, <2>2
  <2>. HIDE DEF e
  <2>4. i.timer = e.timer
    BY <2>2, <2>3 DEF InsertThread
  <2>. HIDE DEF i
  <2>5. Resume(K, t) = i
    BY <1>2 DEF Resume, i, e, n
  <2>. QED
    BY <1>1, <2>3, <2>4, <2>5
<1>3. CASE K.stat[t] # "SUSPEND"
  BY <1>1, <1>3 DEF Resume
<1>. QED
  BY <1>2, <1>3

LEMMA FireTimer ==
  ASSUME NEW K \in KernelType, NEW t \in Thread
  PROVE  Fire(K, t).timer = [K.timer EXCEPT ![t] = 0]
<1>. DEFINE e == [K EXCEPT !.error[t] = "ETIMEOUT", !.timer[t] = 0, !.due = @ \ {t}]
            n == Unlink(e, t)
            i == InsertThread(n, t)
            j == Schedule(i)
<1>1. DOMAIN e = DOMAIN K /\ e.timer = [K.timer EXCEPT ![t] = 0] /\ "timer" \in DOMAIN K
  BY DEF KernelType
<1>. HIDE DEF e
<1>2. DOMAIN n = DOMAIN K /\ n.timer = e.timer
  BY <1>1 DEF Unlink
<1>. HIDE DEF n
<1>3. DOMAIN i = DOMAIN K /\ i.timer = e.timer
  BY <1>1, <1>2 DEF InsertThread
<1>. HIDE DEF i
<1>4. j.timer = e.timer
  BY <1>1, <1>3 DEF Schedule
<1>. HIDE DEF j
<1>5. Fire(K, t) = j
  BY DEF Fire, j, i, n, e
<1>. QED
  BY <1>1, <1>4, <1>5

LEMMA TickTimer ==
  ASSUME NEW K \in KernelType, NEW sliceEnds \in BOOLEAN, KernelOK(K)
  PROVE  \A u \in Thread : K.timer[u] = 0 => TickBegin(K, sliceEnds).timer[u] = 0
<1>. DEFINE y == IF sliceEnds THEN Yield(K) ELSE K
            m == [t \in Thread |-> IF K.timer[t] > 1 THEN K.timer[t] - 1 ELSE K.timer[t]]
<1>1. y \in KernelType
  BY YieldOK
<1>2. "timer" \in DOMAIN y
  BY <1>1 DEF KernelType
<1>. HIDE DEF y
<1>3. TickBegin(K, sliceEnds).timer = m
  BY <1>2 DEF TickBegin, y
<1>. QED
  BY <1>3

\* What the threads do outside the pool.
LEMMA SystemQuiet ==
  ASSUME ThreadsOK, Quiet, (\E t \in Thread : ThreadStep(t)) \/ Tick \/ TimerFires
  PROVE  Quiet' /\ Waiting' = Waiting
<1>0. /\ k \in KernelType /\ KernelOK(k) /\ k.lock = 0 /\ pc \in [Thread -> PC]
      /\ Waiting \in SUBSET Thread
      /\ k.error \in [Thread -> Error] /\ k.timer \in [Thread -> Nat]
  BY WaitingType, KernelTypeFields DEF ThreadsOK
<1>1. ASSUME NEW t \in Thread, Sleep(t) PROVE Quiet' /\ Waiting' = Waiting
  <2>0. /\ Running(k, t) /\ pc[t] = "run" /\ t \in Thread \ {Idle}
        /\ k' = StartTimer(Suspend(k, t), t, 1) /\ pc' = [pc EXCEPT ![t] = "asleep"]
    BY <1>1 DEF Sleep, MayCall, Goto
  <2>1. k.stat[t] = "READY" /\ t \notin Waiting
    BY <2>0, CallerReady
  <2>. DEFINE s == Suspend(k, t)
  <2>2. /\ s \in KernelType /\ s.timer = k.timer /\ s.error = k.error /\ s.wait = k.wait
    <3>1. /\ s \in KernelType
          /\ s = [k EXCEPT !.stat = s.stat, !.ready = s.ready, !.group = s.group]
      BY <1>0, <2>0, <2>1, SuspendOK
    <3>. HIDE DEF s
    <3>. QED
      BY <1>0, <3>1 DEF KernelType
  <2>. HIDE DEF s
  <2>3. /\ k'.error = k.error /\ k'.wait = k.wait
        /\ \A u \in Thread \ {t} : k'.timer[u] = k.timer[u]
    <3>1. k' = IF s.timer[t] = 0 THEN [s EXCEPT !.timer[t] = 1] ELSE s
      BY <2>0 DEF StartTimer, s
    <3>. QED
      BY <1>0, <2>2, <3>1 DEF KernelType
  <2>4. Waiting' = Waiting
    BY <2>3 DEF Waiting
  <2>5. \A u \in Thread : pc[u] \in {"asleep", "woke"} => pc'[u] \in {"asleep", "woke"}
    BY <1>0, <2>0
  <2>. QED
    BY <1>0, <2>1, <2>3, <2>4, <2>5 DEF Quiet
<1>2. ASSUME NEW t \in Thread, SleepReturn(t) PROVE Quiet' /\ Waiting' = Waiting
  <2>0. /\ k' = [k EXCEPT !.error[t] = IF @ = "ETIMEOUT" THEN "EOK" ELSE @]
        /\ pc' = [pc EXCEPT ![t] = "run"]
    BY <1>2 DEF SleepReturn, Goto
  <2>1. /\ k'.wait = k.wait /\ k'.timer = k.timer
        /\ k'.error = [k.error EXCEPT ![t] = IF @ = "ETIMEOUT" THEN "EOK" ELSE @]
    BY <1>0, <2>0 DEF KernelType
  <2>2. Waiting' = Waiting
    BY <2>1 DEF Waiting
  <2>3. \A u \in Thread : \/ k'.error[u] = "EOK"
                          \/ k'.error[u] = "ETIMEOUT" /\ pc'[u] \in {"asleep", "woke"}
    BY <1>0, <2>0, <2>1 DEF Quiet
  <2>. QED
    BY <2>1, <2>2, <2>3 DEF Quiet
<1>3. ASSUME NEW t \in Thread, CallSchedule(t) PROVE Quiet' /\ Waiting' = Waiting
  <2>0. /\ pc[t] \in {"suspended", "resched", "asleep"} /\ k' = Schedule(k)
        /\ pc' = [pc EXCEPT ![t] = CASE pc[t] = "suspended" -> "back"
                                     [] pc[t] = "resched"   -> "run"
                                     [] pc[t] = "asleep"    -> "woke"]
    BY <1>3 DEF CallSchedule, Goto
  <2>1. k' = [k EXCEPT !.cur = k'.cur]
    BY <1>0, <2>0, ScheduleOK
  <2>2. k'.wait = k.wait /\ k'.timer = k.timer /\ k'.error = k.error
    BY <1>0, <2>1 DEF KernelType
  <2>3. Waiting' = Waiting
    BY <2>2 DEF Waiting
  <2>4. \A u \in Thread : pc[u] \in {"asleep", "woke"} => pc'[u] \in {"asleep", "woke"}
    BY <1>0, <2>0
  <2>. QED
    BY <2>2, <2>3, <2>4 DEF Quiet
<1>4. CASE Tick
  <2>1. PICK sliceEnds \in BOOLEAN : k' = TickBegin(k, sliceEnds)
    BY <1>4 DEF Tick
  <2>2. pc' = pc
    BY <1>4 DEF Tick
  <2>3. k' = [k EXCEPT !.ready = k'.ready, !.cur = k'.cur, !.due = k'.due, !.timer = k'.timer]
    BY <1>0, <2>1, TickBeginOK
  <2>4. k'.wait = k.wait /\ k'.error = k.error
    BY <1>0, <2>3 DEF KernelType
  <2>5. \A u \in Thread : k.timer[u] = 0 => k'.timer[u] = 0
    BY <1>0, <2>1, TickTimer
  <2>6. Waiting' = Waiting
    BY <2>4 DEF Waiting
  <2>. QED
    BY <1>0, <2>2, <2>4, <2>5, <2>6 DEF Quiet
<1>5. CASE TimerFires
  <2>1. PICK x \in k.due : k' = Fire(k, x)
    BY <1>5 DEF TimerFires
  <2>2. pc' = pc
    BY <1>5 DEF TimerFires
  <2>3. x \in Thread /\ k.timer[x] = 1 /\ x \notin Waiting
    BY <1>0, <2>1, KernelTypeFields DEF KernelOK, TimersOfSuspended, Quiet
  <2>4. TimedOut(k, k', x)
    BY <1>0, <2>1, FireOK
  <2>5. /\ k'.error = [k.error EXCEPT ![x] = "ETIMEOUT"] /\ k.stat[x] = "SUSPEND"
        /\ \A v \in WaitList : Range(k'.wait[v]) = Range(k.wait[v]) \ {x}
    BY <2>4 DEF TimedOut
  <2>6. Waiting' = Waiting
    <3>1. Waiting' = Waiting \ {x}
      BY <2>5, WaitingLess
    <3>. QED
      BY <2>3, <3>1
  <2>7. k'.timer = [k.timer EXCEPT ![x] = 0]
    BY <1>0, <2>1, <2>3, FireTimer
  <2>8. pc[x] \in {"asleep", "woke"}
    BY <2>3, <2>5 DEF ThreadsOK, WaitersWait
  <2>9. \A u \in Thread : \/ k'.error[u] = "EOK"
                          \/ k'.error[u] = "ETIMEOUT" /\ pc'[u] \in {"asleep", "woke"}
    BY <1>0, <2>2, <2>3, <2>5, <2>8 DEF Quiet
  <2>. QED
    BY <1>0, <2>3, <2>6, <2>7, <2>9 DEF Quiet
<1>. QED
  BY <1>1, <1>2, <1>3, <1>4, <1>5 DEF ThreadStep
-----------------------------------------------------------------------------
(* rt_mp_alloc and rt_mp_free with waits for ever.                          *)

Counted == ~ broken => suspend_thread_count = Cardinality(Waiting)

PoolInv == ThreadsOK /\ BlocksInv /\ Quiet /\ Counted /\ NoStrandedBlock

LEMMA PoolWaiting ==
  ASSUME k \in KernelType
  PROVE  /\ Pool \in WaitList /\ PoolWaiters \in Seq(Thread) /\ Waiting = Range(PoolWaiters)
         /\ PoolWaiters = << >> <=> Waiting = {}
         /\ Waiting \in SUBSET Thread /\ IsFiniteSet(Waiting) /\ Cardinality(Waiting) \in Nat
         /\ Waiting = {} <=> Cardinality(Waiting) = 0
<1>1. Pool \in WaitList /\ Waiting \in SUBSET Thread
  BY WaitingType, MemPoolAssumption
<1>2. PoolWaiters \in Seq(Thread) /\ (PoolWaiters = << >> <=> Range(PoolWaiters) = {})
  BY <1>1, WaitingType DEF PoolWaiters
<1>3. Waiting = Range(PoolWaiters)
  BY MemPoolAssumption DEF Waiting, PoolWaiters
<1>4. IsFiniteSet(Waiting)
  BY <1>1, KernelAssumption, FS_Subset
<1>5. Cardinality(Waiting) \in Nat /\ (Waiting = {} <=> Cardinality(Waiting) = 0)
  BY <1>4, FS_CardinalityType, FS_EmptySet
<1>. QED
  BY <1>1, <1>2, <1>3, <1>4, <1>5

\* What a section that puts t at the head of the list of the pool leaves of
\* kernel K: j.
Queued(K, j, t) ==
    /\ j \in KernelType /\ KernelOK(j)
    /\ j.cur = K.cur /\ j.lock = K.lock /\ j.error = K.error /\ j.timer = K.timer
    /\ j.stat = [K.stat EXCEPT ![t] = "SUSPEND"]
    /\ \A v \in WaitList : Range(j.wait[v]) = IF v = Pool THEN Range(K.wait[v]) \cup {t}
                                                         ELSE Range(K.wait[v])

LEMMA PoolSuspendOK ==
  ASSUME NEW K \in KernelType, NEW t \in Thread \ {Idle}, KernelOK(K), K.stat[t] = "READY",
         Pool \in WaitList, NEW time \in Int, time < 0
  PROVE  Queued(K, PoolSuspend(K, t, time), t)
<1>. DEFINE s == Suspend(K, t)
            l == <<t>> \o K.wait[Pool]
            j == PoolSuspend(K, t, time)
<1>1. /\ s \in KernelType /\ KernelOK(s)
      /\ s = [K EXCEPT !.stat = s.stat, !.ready = s.ready, !.group = s.group]
      /\ s.stat = [K.stat EXCEPT ![t] = "SUSPEND"]
      /\ \A v \in WaitList : t \notin Range(K.wait[v])
  BY SuspendOK
<1>. HIDE DEF s
<1>2. /\ s.cur = K.cur /\ s.lock = K.lock /\ s.error = K.error /\ s.timer = K.timer
      /\ s.prio = K.prio /\ s.wait = K.wait
  BY <1>1 DEF KernelType
<1>3. /\ K.wait \in [WaitList -> Seq(Thread)] /\ s.stat \in [Thread -> Stat]
      /\ K.stat \in [Thread -> Stat]
  BY <1>1, KernelTypeFields
<1>4. l \in Seq(Thread) /\ IsInjective(l) /\ Range(l) = Range(K.wait[Pool]) \cup {t}
  <2>1. /\ K.wait[Pool] \in Seq(Thread) /\ IsInjective(K.wait[Pool])
        /\ t \notin Range(K.wait[Pool])
    BY <1>1, <1>3 DEF KernelOK, WaitLists
  <2>. QED
    BY <2>1, PushList
<1>5. j = [s EXCEPT !.wait = [K.wait EXCEPT ![Pool] = l]]
  <2>1. j = [s EXCEPT !.wait[Pool] = <<t>> \o s.wait[Pool]]
    BY DEF PoolSuspend, s
  <2>. HIDE DEF j
  <2>. QED
    BY <1>1, <1>2, <2>1 DEF KernelType
<1>. HIDE DEF j, l
<1>6. /\ j \in KernelType /\ j.wait = [K.wait EXCEPT ![Pool] = l]
      /\ j.ready = s.ready /\ j.group = s.group /\ j.stat = s.stat /\ j.prio = s.prio
      /\ j.timer = s.timer /\ j.due = s.due /\ j.error = s.error /\ j.cur = s.cur
      /\ j.lock = s.lock
  BY <1>1, <1>3, <1>4, <1>5 DEF KernelType
<1>7. \A v \in WaitList : j.wait[v] = IF v = Pool THEN l ELSE K.wait[v]
  BY <1>3, <1>6
<1>8. WaitLists(j)
  <2>1. \A v \in WaitList : IsInjective(j.wait[v])
    BY <1>4, <1>7 DEF KernelOK, WaitLists
  <2>2. \A v \in WaitList : \A x : x \in Range(j.wait[v])
                                   <=> x \in Range(K.wait[v]) \/ (v = Pool /\ x = t)
    BY <1>4, <1>7
  <2>3. j.stat[t] = "SUSPEND"
    BY <1>1, <1>3, <1>6
  <2>. QED
    BY <1>1, <1>2, <1>6, <2>1, <2>2, <2>3 DEF KernelOK, WaitLists
<1>9. KernelOK(j)
  BY <1>1, <1>6, <1>8 DEF KernelOK, ReadyLists, GroupMatches, TimersOfSuspended
<1>10. \A v \in WaitList : Range(j.wait[v]) = IF v = Pool THEN Range(K.wait[v]) \cup {t}
                                                        ELSE Range(K.wait[v])
  BY <1>4, <1>7
<1>. QED
  BY <1>1, <1>2, <1>6, <1>9, <1>10 DEF j, Queued

LEMMA TakeBlockLess ==
  ASSUME BlocksInv, TakeBlock
  PROVE  /\ suspend_thread_count' = suspend_thread_count /\ Len(block_list) \in Nat
         /\ ~ broken' => ~ broken /\ Len(block_list') = Len(block_list) - 1
<1>1. block_list \in Seq(Blocks) /\ Len(block_list) \in Nat
  BY DEF BlocksInv, BlocksType
<1>2. CASE block_list = << >>
  BY <1>1, <1>2 DEF TakeBlock
<1>3. CASE block_list # << >>
  BY <1>1, <1>3 DEF TakeBlock
<1>. QED
  BY <1>2, <1>3

LEMMA AllocKeeps ==
  ASSUME PoolInv, NEW t \in Thread, Alloc(t), \A time \in WaitTimes : time < 0
  PROVE  PoolInv'
<1>0. /\ ThreadsOK /\ BlocksInv /\ Quiet /\ Counted /\ NoStrandedBlock
      /\ ~ broken /\ Running(k, t) /\ pc[t] = "run" /\ t \in Thread \ {Idle}
  BY DEF PoolInv, Alloc, MayCall
<1>1. k \in KernelType /\ KernelOK(k) /\ k.lock = 0 /\ pc \in [Thread -> PC]
  BY <1>0 DEF ThreadsOK
<1>2. BlocksInv'
  BY <1>0, PoolNextBlocks DEF PoolNext, PoolCall
<1>3. CASE AllocNow(t)
  <2>1. k' = k /\ pc' = pc /\ TakeBlock
    BY <1>3 DEF AllocNow
  <2>2. ThreadsOK' /\ Waiting' = Waiting /\ Woken' = Woken /\ PoolWaiters' = PoolWaiters
    BY <1>0, <2>1 DEF ThreadsOK, WaitersWait, CurrentReady, Waiting, Woken, PoolWaiters
  <2>3. Quiet' /\ Counted'
    BY <1>0, <2>1, <2>2, TakeBlockLess DEF Quiet, Counted
  <2>4. NoStrandedBlock'
    BY <1>0, <2>1, <2>2, TakeBlockLess, WokenFinite DEF NoStrandedBlock
  <2>. QED
    BY <1>2, <2>2, <2>3, <2>4 DEF PoolInv
<1>4. ASSUME NEW time \in WaitTimes, AllocWait(t, time) PROVE PoolInv'
  <2>1. /\ k' = PoolSuspend(k, t, time) /\ Goto(t, "suspended") /\ block_free_count = 0
        /\ suspend_thread_count' = suspend_thread_count + 1
        /\ block_list' = block_list /\ broken' = broken
    BY <1>4 DEF AllocWait
  <2>2. Pool \in WaitList /\ time \in Int /\ time < 0
    BY MemPoolAssumption
  <2>3. k.stat[t] = "READY" /\ t \notin Waiting
    BY <1>0, CallerReady
  <2>4. /\ k' \in KernelType /\ KernelOK(k')
        /\ k'.cur = k.cur /\ k'.lock = k.lock /\ k'.error = k.error /\ k'.timer = k.timer
        /\ k'.stat = [k.stat EXCEPT ![t] = "SUSPEND"]
        /\ \A v \in WaitList : Range(k'.wait[v]) = IF v = Pool THEN Range(k.wait[v]) \cup {t}
                                                              ELSE Range(k.wait[v])
    <3>1. Queued(k, PoolSuspend(k, t, time), t)
      BY <1>0, <1>1, <2>2, <2>3, PoolSuspendOK
    <3>2. Queued(k, k', t)
      BY <2>1, <3>1
    <3>. QED
      BY <3>2 DEF Queued
  <2>5. k.error[t] = "EOK" /\ k'.error = [k.error EXCEPT ![t] = "EOK"]
    <3>1. k.error \in [Thread -> Error]
      <4>1. k \in KernelType
        BY <1>1 DEF PoolInv, ThreadInv, ThreadsOK
      <4>. QED
        BY <4>1, KernelTypeFields
    <3>2. k'.error = k.error
      BY <2>4
    <3>3. k.error[t] = "EOK"
      BY <1>0, <1>1, <2>4 DEF Quiet
    <3>. QED
      BY <3>1, <3>2, <3>3
  <2>6. ThreadsOK' /\ Woken' = Woken \ {t}
    BY <1>0, <2>1, <2>2, <2>4, <2>5, SuspendStep
  <2>7. Waiting' = Waiting \cup {t}
    BY <2>2, <2>4, WaitingMore
  <2>8. Quiet'
    <3>1. k'.timer[t] = 0
      BY <1>1, <2>3, <2>4 DEF KernelOK, TimersOfSuspended
    <3>2. \A u \in Thread : pc[u] \in {"asleep", "woke"} => pc'[u] = pc[u]
      BY <1>0, <1>1, <2>1 DEF Goto
    <3>. QED
      BY <1>0, <2>4, <2>7, <3>1, <3>2 DEF Quiet
  <2>9. Counted'
    <3>1. Cardinality(Waiting') = Cardinality(Waiting) + 1
      BY <1>1, <2>3, <2>7, PoolWaiting, FS_AddElement
    <3>. QED
      BY <1>0, <2>1, <3>1 DEF Counted
  <2>10. NoStrandedBlock'
    <3>1. Len(block_list') = 0
      BY <1>0, <2>1 DEF BlocksInv, BlocksAccounted
    <3>2. Cardinality(Woken)' \in Nat
      <4>1. Woken' \in SUBSET Thread
        BY DEF Woken
      <4>. QED
        BY <4>1, KernelAssumption, FS_Subset, FS_CardinalityType
    <3>. QED
      BY <3>1, <3>2 DEF NoStrandedBlock
  <2>. QED
    BY <1>2, <2>6, <2>8, <2>9, <2>10 DEF PoolInv
<1>. QED
  BY <1>3, <1>4 DEF Alloc

LEMMA AllocReturnKeeps ==
  ASSUME PoolInv, NEW t \in Thread, AllocReturn(t)
  PROVE  PoolInv'
<1>0. /\ ThreadsOK /\ BlocksInv /\ Quiet /\ Counted /\ NoStrandedBlock
      /\ ~ broken /\ Running(k, t) /\ pc[t] = "back" /\ Goto(t, "run") /\ k' = k
  BY DEF PoolInv, AllocReturn
<1>1. k.error[t] = "EOK" /\ t \notin Waiting
  BY <1>0, CallerReady DEF Quiet
<1>2. TakeBlock
  BY <1>1 DEF AllocReturn
<1>3. BlocksInv'
  BY <1>0, <1>2, TakeBlockInv
<1>4. ThreadsOK' /\ Woken' = Woken \ {t}
  BY <1>0, ReturnInv
<1>5. Waiting' = Waiting /\ PoolWaiters' = PoolWaiters
  BY <1>0 DEF Waiting, PoolWaiters
<1>6. t \in Woken
  BY <1>0, <1>1 DEF Woken
<1>7. Cardinality(Woken') = Cardinality(Woken) - 1
  BY <1>4, <1>6, WokenFinite, FS_RemoveElement
<1>8. Quiet'
  <2>1. \A u \in Thread : pc[u] \in {"asleep", "woke"} => pc'[u] = pc[u]
    BY <1>0 DEF ThreadsOK, Goto
  <2>. QED
    BY <1>0, <1>5, <2>1 DEF Quiet
<1>9. Counted'
  BY <1>0, <1>2, <1>5, TakeBlockLess DEF Counted
<1>10. NoStrandedBlock'
  BY <1>0, <1>2, <1>5, <1>7, TakeBlockLess, WokenFinite DEF NoStrandedBlock
<1>. QED
  BY <1>3, <1>4, <1>8, <1>9, <1>10 DEF PoolInv

\* The thread that rt_mp_free resumes, and what is left of the kernel then.
LEMMA ResumedIsHead ==
  ASSUME PoolInv, k.due = {}, PoolWaiters # << >>
  PROVE  /\ Resumed(FALSE) = ListResume(k, Pool)
         /\ Resumed(TRUE) = Schedule(ListResume(k, Pool))
         /\ \A isr \in BOOLEAN : /\ Resumed(isr).error = k.error
                                 /\ \A u \in Waiting : Resumed(isr).timer[u] = 0
<1>. DEFINE x == Head(PoolWaiters)
            j == ListResume(k, Pool)
<1>0. /\ ThreadsOK /\ k \in KernelType /\ KernelOK(k) /\ Pool \in WaitList /\ k.lock = 0
      /\ Waiting \in SUBSET Thread /\ Quiet
  BY PoolWaiting DEF PoolInv, ThreadsOK
<1>1. /\ x \in Thread /\ x \in Waiting /\ k.error[x] = "EOK"
      /\ j \in KernelType /\ KernelOK(j) /\ j.error = k.error
  BY <1>0, ResumeHead DEF PoolWaiters
<1>2. j = Resume(k, x)
  BY DEF ListResume, PoolWaiters
<1>3. [k EXCEPT !.error[x] = "EOK"] = k
  <2>1. k.error = [k.error EXCEPT ![x] = "EOK"]
    BY <1>0, <1>1, KernelTypeFields
  <2>2. k = [k EXCEPT !.error = k.error]
    BY <1>0 DEF KernelType
  <2>3. [k EXCEPT !.error[x] = "EOK"] = [k EXCEPT !.error = [k.error EXCEPT ![x] = "EOK"]]
    BY <1>0 DEF KernelType
  <2>. QED
    BY <2>1, <2>2, <2>3
<1>4. \A u \in Waiting : j.timer[u] = 0
  BY <1>0, <1>1, <1>2, ResumeTimer DEF Quiet
<1>5. Resumed(FALSE) = j /\ Resumed(TRUE) = Schedule(j)
  BY <1>2, <1>3 DEF Resumed
<1>. HIDE DEF j, x
<1>6. Schedule(j).error = j.error /\ Schedule(j).timer = j.timer
  <2>1. Schedule(j) = [j EXCEPT !.cur = Schedule(j).cur]
    BY <1>1, ScheduleOK
  <2>. QED
    BY <1>1, <2>1 DEF KernelType
<1>. QED
  BY <1>1, <1>4, <1>5, <1>6 DEF j

\* Free and IsrFree, from what they do to the threads.
LEMMA FreedKeeps ==
  ASSUME PoolInv, ~ broken, k.due = {}, NEW isr \in BOOLEAN, WakeAllocator(isr), ThreadsOK',
         NEW b \in given, PutBlock(b),
         \A u \in Thread : pc[u] \in {"asleep", "woke"} => pc'[u] = pc[u],
         PoolWaiters = << >> => Woken' = Woken,
         PoolWaiters # << >> =>
            \E x \in Thread : /\ x \in Waiting /\ x \notin Woken /\ Woken' = Woken \cup {x}
                              /\ \A v \in WaitList : Range(k'.wait[v]) = Range(k.wait[v]) \ {x}
  PROVE  PoolInv'
<1>0. /\ ThreadsOK /\ BlocksInv /\ Quiet /\ Counted /\ NoStrandedBlock /\ k \in KernelType
      /\ k' \in KernelType
  BY DEF PoolInv, ThreadsOK
<1>1. BlocksInv' /\ Len(block_list') = Len(block_list) + 1 /\ Len(block_list) \in Nat
  <2>1. isr = TRUE \/ isr = FALSE
    OBVIOUS
  <2>2. WakeAllocator(TRUE) \/ WakeAllocator(FALSE)
    BY <2>1
  <2>3. BlocksInv' /\ Len(block_list') = Len(block_list) + 1
    BY <1>0, <2>2, PutBlockInv
  <2>4. block_list \in Seq(Blocks)
    BY <1>0 DEF BlocksInv, BlocksType
  <2>. QED
    BY <2>3, <2>4
<1>2. suspend_thread_count = Cardinality(Waiting) /\ (PoolWaiters = << >> <=> Waiting = {})
  BY <1>0, PoolWaiting DEF Counted
<1>3. CASE PoolWaiters = << >>
  <2>1. k' = k /\ suspend_thread_count' = suspend_thread_count /\ broken' = broken
    BY <1>0, <1>2, <1>3, PoolWaiting DEF WakeAllocator
  <2>2. Waiting' = Waiting /\ PoolWaiters' = PoolWaiters
    BY <2>1 DEF Waiting, PoolWaiters
  <2>3. Quiet' /\ Counted' /\ NoStrandedBlock'
    BY <1>0, <1>3, <2>1, <2>2 DEF Quiet, Counted, NoStrandedBlock
  <2>. QED
    BY <1>1, <2>3 DEF PoolInv
<1>4. CASE PoolWaiters # << >>
  <2>1. /\ k' = Resumed(isr) /\ suspend_thread_count' = suspend_thread_count - 1
        /\ broken' = broken
    BY <1>0, <1>2, <1>4, PoolWaiting DEF WakeAllocator
  <2>2. PICK x \in Thread :
           /\ x \in Waiting /\ x \notin Woken /\ Woken' = Woken \cup {x}
           /\ \A v \in WaitList : Range(k'.wait[v]) = Range(k.wait[v]) \ {x}
    BY <1>4
  <2>3. Waiting' = Waiting \ {x}
    BY <2>2, WaitingLess
  <2>4. Quiet'
    <3>1. k'.error = k.error /\ \A u \in Waiting : k'.timer[u] = 0
      BY <1>4, <2>1, ResumedIsHead
    <3>. QED
      BY <1>0, <2>3, <3>1 DEF Quiet
  <2>5. Counted'
    <3>1. Cardinality(Waiting') = Cardinality(Waiting) - 1
      BY <1>0, <2>2, <2>3, PoolWaiting, FS_RemoveElement
    <3>. QED
      BY <1>2, <2>1, <3>1 DEF Counted
  <2>6. NoStrandedBlock'
    <3>1. Cardinality(Woken') = Cardinality(Woken) + 1
      BY <2>2, WokenFinite, FS_AddElement
    <3>2. Len(block_list) <= Cardinality(Woken)
      BY <1>0, <1>4 DEF NoStrandedBlock
    <3>3. Len(block_list') <= Cardinality(Woken')
      BY <1>1, <3>1, <3>2, WokenFinite
    <3>. QED
      BY <3>3 DEF NoStrandedBlock
  <2>. QED
    BY <1>1, <2>4, <2>5, <2>6 DEF PoolInv
<1>. QED
  BY <1>3, <1>4

LEMMA FreeKeeps ==
  ASSUME PoolInv, NEW t \in Thread, Free(t)
  PROVE  PoolInv'
<1>0. /\ ThreadsOK /\ k \in KernelType /\ ~ broken /\ Running(k, t) /\ pc[t] = "run"
      /\ k.due = {} /\ WakeAllocator(FALSE) /\ Pool \in WaitList
      /\ Goto(t, IF suspend_thread_count = 0 THEN "run" ELSE "resched")
      /\ pc \in [Thread -> PC]
  BY PoolWaiting DEF PoolInv, ThreadsOK, Free, MayCall, Running
<1>1. PICK b \in given : PutBlock(b)
  BY DEF Free
<1>2. PoolWaiters = << >> <=> suspend_thread_count = 0
  BY <1>0, PoolWaiting DEF PoolInv, Counted
<1>3. Wake(t, Pool)
  <2>1. CASE PoolWaiters = << >>
    BY <1>0, <1>2, <2>1 DEF Wake, WakeAllocator, PoolWaiters
  <2>2. CASE PoolWaiters # << >>
    <3>1. k' = Resumed(FALSE)
      BY <1>0, <1>2, <2>2 DEF WakeAllocator
    <3>2. k' = ListResume(k, Pool) /\ Goto(t, "resched")
      BY <1>0, <1>2, <2>2, <3>1, ResumedIsHead
    <3>. QED
      BY <2>2, <3>2 DEF Wake, PoolWaiters
  <2>. QED
    BY <2>1, <2>2
<1>. DEFINE x == Head(k.wait[Pool])
<1>4. /\ ThreadsOK'
      /\ k.wait[Pool] = << >> => Woken' = Woken \ {t}
      /\ k.wait[Pool] # << >> =>
           /\ x \in Range(k.wait[Pool]) /\ x \in Thread /\ x # t /\ x \notin Woken
           /\ Woken' = (Woken \ {t}) \cup {x}
           /\ \A v \in WaitList : Range(k'.wait[v]) = Range(k.wait[v]) \ {x}
  BY <1>0, <1>3, WakeInv
<1>. HIDE DEF x
<1>5. t \notin Woken /\ Waiting = Range(k.wait[Pool])
  BY <1>0, PoolWaiting DEF Woken, PoolWaiters
<1>6. \A u \in Thread : pc[u] \in {"asleep", "woke"} => pc'[u] = pc[u]
  BY <1>0 DEF Goto
<1>7. PoolWaiters = << >> => Woken' = Woken
  BY <1>4, <1>5 DEF PoolWaiters
<1>8. PoolWaiters # << >> =>
         \E y \in Thread : /\ y \in Waiting /\ y \notin Woken /\ Woken' = Woken \cup {y}
                           /\ \A v \in WaitList : Range(k'.wait[v]) = Range(k.wait[v]) \ {y}
  BY <1>4, <1>5 DEF PoolWaiters
<1>9. FALSE \in BOOLEAN
  OBVIOUS
<1>. QED
  BY <1>0, <1>1, <1>4, <1>6, <1>7, <1>8, <1>9, FreedKeeps

LEMMA IsrFreeKeeps ==
  ASSUME PoolInv, IsrFree
  PROVE  PoolInv'
<1>0. /\ ThreadsOK /\ k \in KernelType /\ ~ broken /\ k.due = {} /\ WakeAllocator(TRUE)
      /\ Pool \in WaitList /\ pc' = pc
  BY PoolWaiting DEF PoolInv, ThreadsOK, IsrFree, Interruptible
<1>1. PICK b \in given : PutBlock(b)
  BY DEF IsrFree
<1>2. PoolWaiters = << >> <=> suspend_thread_count = 0
  BY <1>0, PoolWaiting DEF PoolInv, Counted
<1>3. IsrWake(Pool)
  <2>1. CASE PoolWaiters = << >>
    BY <1>0, <1>2, <2>1 DEF IsrWake, WakeAllocator, PoolWaiters
  <2>2. CASE PoolWaiters # << >>
    <3>1. k' = Resumed(TRUE)
      BY <1>0, <1>2, <2>2 DEF WakeAllocator
    <3>2. k' = Schedule(ListResume(k, Pool))
      BY <1>0, <2>2, <3>1, ResumedIsHead
    <3>. QED
      BY <1>0, <2>2, <3>2 DEF IsrWake, PoolWaiters
  <2>. QED
    BY <2>1, <2>2
<1>. DEFINE x == Head(k.wait[Pool])
<1>4. /\ ThreadsOK'
      /\ k.wait[Pool] = << >> => Woken' = Woken
      /\ k.wait[Pool] # << >> =>
           /\ x \in Range(k.wait[Pool]) /\ x \in Thread /\ x \notin Woken
           /\ Woken' = Woken \cup {x}
           /\ \A v \in WaitList : Range(k'.wait[v]) = Range(k.wait[v]) \ {x}
  BY <1>0, <1>3, IsrWakeInv
<1>. HIDE DEF x
<1>5. Waiting = Range(k.wait[Pool])
  BY <1>0, PoolWaiting DEF PoolWaiters
<1>7. PoolWaiters = << >> => Woken' = Woken
  BY <1>4 DEF PoolWaiters
<1>8. PoolWaiters # << >> =>
         \E y \in Thread : /\ y \in Waiting /\ y \notin Woken /\ Woken' = Woken \cup {y}
                           /\ \A v \in WaitList : Range(k'.wait[v]) = Range(k.wait[v]) \ {y}
  BY <1>4, <1>5 DEF PoolWaiters
<1>9. TRUE \in BOOLEAN
  OBVIOUS
<1>. QED
  BY <1>0, <1>1, <1>4, <1>7, <1>8, <1>9, FreedKeeps

\* A step of the threads that leaves the pool alone.
LEMMA PoolFrame ==
  ASSUME PoolInv, UNCHANGED poolVars, (\E t \in Thread : ThreadStep(t)) \/ Tick \/ TimerFires
  PROVE  PoolInv'
<1>0. /\ ThreadsOK /\ BlocksInv /\ Quiet /\ Counted /\ NoStrandedBlock
      /\ block_list' = block_list /\ broken' = broken
      /\ suspend_thread_count' = suspend_thread_count
  BY DEF PoolInv, poolVars
<1>1. ThreadsOK' /\ Woken' = Woken
  BY <1>0, SystemStepInv
<1>2. Quiet' /\ Waiting' = Waiting
  BY <1>0, SystemQuiet
<1>3. BlocksInv'
  BY <1>0, BlocksSame DEF poolVars, BlocksInv, BlocksType
<1>4. Counted'
  BY <1>0, <1>2 DEF Counted
<1>5. PoolWaiters' = << >> <=> PoolWaiters = << >>
  <2>1. k \in KernelType /\ k' \in KernelType
    BY <1>0, <1>1 DEF ThreadsOK
  <2>2. Pool \in WaitList /\ WaitList = {Pool}
    BY MemPoolAssumption
  <2>3. PoolWaiters \in Seq(Thread) /\ PoolWaiters' \in Seq(Thread)
    BY <2>1, <2>2, KernelTypeFields DEF PoolWaiters
  <2>4. Waiting = Range(PoolWaiters) /\ Waiting' = Range(PoolWaiters')
    BY <2>2 DEF Waiting, PoolWaiters
  <2>. QED
    BY <1>2, <2>3, <2>4, ListRange
<1>6. NoStrandedBlock'
  BY <1>0, <1>1, <1>5 DEF NoStrandedBlock
<1>. QED
  BY <1>1, <1>2, <1>3, <1>4, <1>6 DEF PoolInv

LEMMA PoolInitInv == PoolInit => PoolInv
<1>. SUFFICES ASSUME PoolInit PROVE PoolInv
  OBVIOUS
<1>1. ThreadsInit /\ suspend_thread_count = 0
  BY DEF PoolInit
<1>2. ThreadsOK /\ Waiting = {} /\ \A w \in WaitList : k.wait[w] = << >>
  BY <1>1, ThreadsInitInv DEF ThreadInv
<1>3. Quiet
  BY <1>1, <1>2 DEF Quiet, ThreadsInit, KernelInit
<1>4. Counted
  BY <1>1, <1>2, FS_EmptySet DEF Counted
<1>5. NoStrandedBlock
  BY <1>2, MemPoolAssumption DEF NoStrandedBlock, PoolWaiters
<1>. QED
  BY <1>2, <1>3, <1>4, <1>5, PoolInitBlocks DEF PoolInv

LEMMA PoolNextInv ==
  ASSUME \A time \in WaitTimes : time < 0, PoolInv, [PoolNext]_poolSystem
  PROVE  PoolInv'
<1>1. CASE UNCHANGED poolSystem
  <2>1. k' = k /\ pc' = pc /\ UNCHANGED poolVars
    BY <1>1 DEF poolSystem
  <2>. QED
    BY <2>1 DEF PoolInv, ThreadsOK, WaitersWait, CurrentReady, Waiting, Woken, Quiet, Counted,
                BlocksInv, BlocksType, BlocksAccounted, NoStrandedBlock, PoolWaiters, poolVars
<1>2. CASE PoolNext
  <2>1. ASSUME NEW t \in Thread, PoolCall(t) \/ PoolContinue(t) PROVE PoolInv'
    BY <2>1, AllocKeeps, AllocReturnKeeps, FreeKeeps, PoolFrame
       DEF PoolCall, PoolContinue, ThreadStep
  <2>. QED
    BY <1>2, <2>1, IsrFreeKeeps, PoolFrame DEF PoolNext
<1>. QED
  BY <1>1, <1>2

\* rt_mp_free resumes one waiter for each block, when all of them wait for ever
\* as drivers/serial.c does: a free block has a thread on its way to it.
THEOREM NoStrandedBlockHolds ==
  ASSUME \A time \in WaitTimes : time < 0
  PROVE  PoolSpec => []NoStrandedBlock
<1>1. PoolInv => NoStrandedBlock
  BY DEF PoolInv
<1>. QED
  BY <1>1, PoolInitInv, PoolNextInv, PTL DEF PoolSpec

-----------------------------------------------------------------------------
(* The end of threads.  A thread that rt_thread_delete is in the middle of  *)
(* is off all lists while its state still says READY or SUSPEND, so the     *)
(* kernel is not consistent then.  It is when one looks at such a thread as *)
(* closed already: Seen(k) below.  No routine of the kernel looks at the    *)
(* state of a thread it does not move, which the Shape lemmas say, so that  *)
(* what a routine does to k is what it does to Seen(k), and the lemmas of   *)
(* ThreadsProofs apply to that.                                             *)

\* Kernel K with other states of the threads.
WithStat(K, g) == [K EXCEPT !.stat = g]

Fields == {"ready", "group", "wait", "stat", "prio", "error", "timer", "due", "cur", "lock", "irqOff"}

\* K is a record with the fields of a kernel, whatever is in them.
IsKernel(K) == DOMAIN K = Fields /\ K = [x \in Fields |-> K[x]]

-----------------------------------------------------------------------------
(* The routines of the kernel do not look at the states of other threads.   *)

LEMMA KernelShape ==
  ASSUME NEW K \in KernelType
  PROVE  IsKernel(K) /\ K.stat \in [Thread -> Stat] /\ DOMAIN K.stat = Thread
BY DEF KernelType, IsKernel, Fields

LEMMA WithStatFields ==
  ASSUME NEW K, IsKernel(K), NEW g
  PROVE  LET j == WithStat(K, g) IN
         /\ IsKernel(j) /\ j.stat = g /\ j.ready = K.ready /\ j.group = K.group /\ j.wait = K.wait
         /\ j.prio = K.prio /\ j.error = K.error /\ j.timer = K.timer /\ j.due = K.due
         /\ j.cur = K.cur /\ j.lock = K.lock /\ j.irqOff = K.irqOff
         /\ \A f : WithStat(j, f) = WithStat(K, f)
         /\ WithStat(K, K.stat) = K
BY DEF WithStat, IsKernel, Fields

LEMMA WithStatType ==
  ASSUME NEW K \in KernelType, NEW g \in [Thread -> Stat]
  PROVE  WithStat(K, g) \in KernelType
BY DEF WithStat, KernelType

LEMMA UnlinkShape ==
  ASSUME NEW K, IsKernel(K), NEW g, NEW t
  PROVE  /\ IsKernel(Unlink(K, t)) /\ Unlink(WithStat(K, g), t) = WithStat(Unlink(K, t), g)
         /\ Unlink(K, t).stat = K.stat /\ Unlink(K, t).prio = K.prio
         /\ Unlink(K, t).timer = K.timer
BY DEF Unlink, WithStat, IsKernel, Fields

LEMMA InsertShape ==
  ASSUME NEW K, IsKernel(K), DOMAIN K.stat = Thread, NEW g \in [Thread -> Stat], NEW t \in Thread
  PROVE  /\ IsKernel(InsertThread(K, t))
         /\ InsertThread(WithStat(K, g), t) = WithStat(InsertThread(K, t), [g EXCEPT ![t] = "READY"])
BY DEF InsertThread, WithStat, IsKernel, Fields

LEMMA ScheduleShape ==
  ASSUME NEW K, IsKernel(K), NEW g
  PROVE  IsKernel(Schedule(K)) /\ Schedule(WithStat(K, g)) = WithStat(Schedule(K), g)
BY DEF Schedule, WithStat, IsKernel, Fields

LEMMA RemoveShape ==
  ASSUME NEW K, IsKernel(K), NEW g, NEW t
  PROVE  /\ IsKernel(RemoveThread(K, t))
         /\ RemoveThread(WithStat(K, g), t) = WithStat(RemoveThread(K, t), g)
         /\ RemoveThread(K, t).stat = K.stat /\ RemoveThread(K, t).timer = K.timer
<1>. DEFINE u == Unlink(K, t)
            v == Unlink(WithStat(K, g), t)
<1>1. IsKernel(u) /\ v = WithStat(u, g) /\ u.stat = K.stat /\ u.timer = K.timer
  BY UnlinkShape
<1>. DEFINE c == IF u.ready[u.prio[t]] = << >> THEN u.group \ {u.prio[t]} ELSE u.group
<1>2. RemoveThread(K, t) = [u EXCEPT !.group = c]
  BY DEF RemoveThread
<1>3. RemoveThread(WithStat(K, g), t) = [v EXCEPT !.group = c]
  <2>1. RemoveThread(WithStat(K, g), t)
          = [v EXCEPT !.group = IF v.ready[v.prio[t]] = << >> THEN v.group \ {v.prio[t]} ELSE v.group]
    BY DEF RemoveThread
  <2>. HIDE DEF u, v
  <2>2. v.ready = u.ready /\ v.prio = u.prio /\ v.group = u.group
    BY <1>1, WithStatFields
  <2>. QED
    BY <2>1, <2>2
<1>. HIDE DEF u, v, c
<1>. DEFINE r == [u EXCEPT !.group = c]
<1>4. [WithStat(u, g) EXCEPT !.group = c] = WithStat(r, g)
  BY <1>1 DEF WithStat, IsKernel, Fields
<1>5. IsKernel(r) /\ r.stat = u.stat /\ r.timer = u.timer
  BY <1>1 DEF IsKernel, Fields
<1>. HIDE DEF r
<1>6. RemoveThread(K, t) = r
  BY <1>2 DEF r
<1>7. RemoveThread(WithStat(K, g), t) = WithStat(r, g)
  BY <1>1, <1>3, <1>4
<1>. QED
  BY <1>1, <1>5, <1>6, <1>7

LEMMA TimerShape ==
  ASSUME NEW K, IsKernel(K), NEW g, NEW t, NEW time
  PROVE  /\ IsKernel(StartTimer(K, t, time))
         /\ StartTimer(WithStat(K, g), t, time) = WithStat(StartTimer(K, t, time), g)
BY DEF StartTimer, WithStat, IsKernel, Fields

LEMMA SuspendShape ==
  ASSUME NEW K, IsKernel(K), DOMAIN K.stat = Thread, NEW g \in [Thread -> Stat],
         NEW t \in Thread, K.stat[t] = "READY", g[t] = "READY"
  PROVE  /\ IsKernel(Suspend(K, t))
         /\ Suspend(WithStat(K, g), t) = WithStat(Suspend(K, t), [g EXCEPT ![t] = "SUSPEND"])
<1>. DEFINE e == [K EXCEPT !.stat[t] = "SUSPEND"]
            h == [g EXCEPT ![t] = "SUSPEND"]
<1>1. IsKernel(e)
  BY DEF IsKernel, Fields
<1>2. [WithStat(K, g) EXCEPT !.stat[t] = "SUSPEND"] = WithStat(e, h)
  BY DEF WithStat, IsKernel, Fields
<1>3. Suspend(K, t) = RemoveThread(e, t)
  BY DEF Suspend
<1>4. Suspend(WithStat(K, g), t) = RemoveThread([WithStat(K, g) EXCEPT !.stat[t] = "SUSPEND"], t)
  BY WithStatFields DEF Suspend
<1>. HIDE DEF e, h
<1>5. IsKernel(RemoveThread(e, t)) /\ RemoveThread(WithStat(e, h), t) = WithStat(RemoveThread(e, t), h)
  BY <1>1, RemoveShape
<1>. QED
  BY <1>2, <1>3, <1>4, <1>5 DEF h

LEMMA ResumeShape ==
  ASSUME NEW K, IsKernel(K), DOMAIN K.stat = Thread, NEW g \in [Thread -> Stat],
         NEW t \in Thread, K.stat[t] = "SUSPEND", g[t] = "SUSPEND"
  PROVE  /\ IsKernel(Resume(K, t))
         /\ Resume(WithStat(K, g), t) = WithStat(Resume(K, t), [g EXCEPT ![t] = "READY"])
<1>. DEFINE u == Unlink(K, t)
            e == [u EXCEPT !.timer[t] = 0]
            v == Unlink(WithStat(K, g), t)
<1>1. IsKernel(u) /\ v = WithStat(u, g) /\ u.stat = K.stat
  BY UnlinkShape
<1>2. Resume(K, t) = InsertThread(e, t)
  BY DEF Resume
<1>3. Resume(WithStat(K, g), t) = InsertThread([v EXCEPT !.timer[t] = 0], t)
  BY WithStatFields DEF Resume
<1>. HIDE DEF u, v
<1>4. IsKernel(e) /\ e.stat = K.stat /\ [v EXCEPT !.timer[t] = 0] = WithStat(e, g)
  BY <1>1 DEF WithStat, IsKernel, Fields
<1>. HIDE DEF e
<1>5. DOMAIN e.stat = Thread
  BY <1>4
<1>6. IsKernel(InsertThread(e, t))
  BY <1>4, <1>5, InsertShape
<1>7. InsertThread(WithStat(e, g), t) = WithStat(InsertThread(e, t), [g EXCEPT ![t] = "READY"])
  BY <1>4, <1>5, InsertShape
<1>. QED
  BY <1>2, <1>3, <1>4, <1>6, <1>7

LEMMA FireShape ==
  ASSUME NEW K, IsKernel(K), DOMAIN K.stat = Thread, NEW g \in [Thread -> Stat], NEW t \in Thread
  PROVE  Fire(WithStat(K, g), t) = WithStat(Fire(K, t), [g EXCEPT ![t] = "READY"])
<1>. DEFINE e == [K EXCEPT !.error[t] = "ETIMEOUT", !.timer[t] = 0, !.due = @ \ {t}]
            f == [WithStat(K, g) EXCEPT !.error[t] = "ETIMEOUT", !.timer[t] = 0, !.due = @ \ {t}]
            h == [g EXCEPT ![t] = "READY"]
<1>1. IsKernel(e) /\ e.stat = K.stat /\ f = WithStat(e, g)
  BY DEF WithStat, IsKernel, Fields
<1>2. /\ Fire(K, t) = Schedule(InsertThread(Unlink(e, t), t))
      /\ Fire(WithStat(K, g), t) = Schedule(InsertThread(Unlink(f, t), t))
  BY DEF Fire
<1>. HIDE DEF e, f
<1>. DEFINE u == Unlink(e, t)
<1>3. IsKernel(u) /\ Unlink(f, t) = WithStat(u, g) /\ DOMAIN u.stat = Thread
  BY <1>1, UnlinkShape
<1>. HIDE DEF u, h
<1>4. IsKernel(InsertThread(u, t)) /\ InsertThread(WithStat(u, g), t) = WithStat(InsertThread(u, t), h)
  BY <1>3, InsertShape DEF h
<1>5. Schedule(WithStat(InsertThread(u, t), h)) = WithStat(Schedule(InsertThread(u, t)), h)
  BY <1>4, ScheduleShape
<1>. QED
  BY <1>2, <1>3, <1>4, <1>5 DEF u, h

LEMMA TickShape ==
  ASSUME NEW K, IsKernel(K), NEW g, g[K.cur] = K.stat[K.cur], NEW sliceEnds
  PROVE  TickBegin(WithStat(K, g), sliceEnds) = WithStat(TickBegin(K, sliceEnds), g)
<1>. DEFINE W == WithStat(K, g)
            y == IF sliceEnds THEN Yield(K) ELSE K
            z == IF sliceEnds THEN Yield(W) ELSE W
            d == {t \in Thread : K.timer[t] = 1}
            m == [t \in Thread |-> IF K.timer[t] > 1 THEN K.timer[t] - 1 ELSE K.timer[t]]
<1>1. IsKernel(Yield(K)) /\ Yield(W) = WithStat(Yield(K), g)
  <2>. DEFINE p == K.prio[K.cur]
              e == [K EXCEPT !.ready[p] = Append(RemoveFirst(@, K.cur), K.cur)]
              f == [W EXCEPT !.ready[p] = Append(RemoveFirst(@, K.cur), K.cur)]
  <2>1. /\ W.stat = g /\ W.ready = K.ready /\ W.prio = K.prio /\ W.cur = K.cur
    BY WithStatFields
  <2>2. Yield(K) = IF K.stat[K.cur] = "READY" /\ Len(K.ready[p]) > 1 THEN Schedule(e) ELSE K
    BY DEF Yield
  <2>3. Yield(W) = IF K.stat[K.cur] = "READY" /\ Len(K.ready[p]) > 1 THEN Schedule(f) ELSE W
    BY <2>1 DEF Yield
  <2>4. IsKernel(e) /\ f = WithStat(e, g)
    BY DEF WithStat, IsKernel, Fields
  <2>. HIDE DEF e, f, p, W
  <2>5. IsKernel(Schedule(e)) /\ Schedule(f) = WithStat(Schedule(e), g)
    BY <2>4, ScheduleShape
  <2>. QED
    BY <2>2, <2>3, <2>5 DEF W
<1>2. W.timer = K.timer
  BY WithStatFields
<1>3. IsKernel(y) /\ z = WithStat(y, g)
  BY <1>1
<1>4. TickBegin(K, sliceEnds) = [y EXCEPT !.due = d, !.timer = m]
  BY DEF TickBegin
<1>5. TickBegin(W, sliceEnds) = [z EXCEPT !.due = d, !.timer = m]
  <2>1. /\ {t \in Thread : W.timer[t] = 1} = d
        /\ [t \in Thread |-> IF W.timer[t] > 1 THEN W.timer[t] - 1 ELSE W.timer[t]] = m
    BY <1>2
  <2>. HIDE DEF d, m, W
  <2>. QED
    BY <2>1 DEF TickBegin
<1>. HIDE DEF y, z, d, m
<1>6. [WithStat(y, g) EXCEPT !.due = d, !.timer = m] = WithStat([y EXCEPT !.due = d, !.timer = m], g)
  BY <1>3 DEF WithStat, IsKernel, Fields
<1>. QED
  BY <1>3, <1>4, <1>5, <1>6

LEMMA BlockShape ==
  ASSUME NEW K, IsKernel(K), DOMAIN K.stat = Thread, NEW g \in [Thread -> Stat],
         NEW w, NEW t \in Thread, NEW time, K.stat[t] = "READY", g[t] = "READY"
  PROVE  /\ IsKernel(Block(K, w, t, "FIFO", time))
         /\ Block(WithStat(K, g), w, t, "FIFO", time)
              = WithStat(Block(K, w, t, "FIFO", time), [g EXCEPT ![t] = "SUSPEND"])
<1>. DEFINE e == [K EXCEPT !.error[t] = "EOK"]
            f == [WithStat(K, g) EXCEPT !.error[t] = "EOK"]
            h == [g EXCEPT ![t] = "SUSPEND"]
<1>1. IsKernel(e) /\ e.stat = K.stat /\ f = WithStat(e, g)
  BY DEF WithStat, IsKernel, Fields
<1>. HIDE DEF e, f, h
<1>. DEFINE s == Suspend(e, t)
            l == [s EXCEPT !.wait[w] = InsertAt(@, Len(s.wait[w]) + 1, t)]
            m == [WithStat(s, h) EXCEPT !.wait[w] = InsertAt(@, Len(WithStat(s, h).wait[w]) + 1, t)]
<1>2. IsKernel(s) /\ Suspend(f, t) = WithStat(s, h)
  <2>1. DOMAIN e.stat = Thread /\ e.stat[t] = "READY"
    BY <1>1
  <2>. QED
    BY <1>1, <2>1, SuspendShape DEF h
<1>3. ListSuspend(e, w, t, "FIFO") = l
  BY DEF ListSuspend, WaitPosition
<1>4. ListSuspend(f, w, t, "FIFO") = m
  BY <1>2 DEF ListSuspend, WaitPosition
<1>5. IsKernel(l) /\ m = WithStat(l, h)
  <2>1. IsKernel(l)
    BY <1>2 DEF IsKernel, Fields
  <2>2. WithStat(s, h).wait = s.wait
    BY <1>2, WithStatFields
  <2>3. m = [WithStat(s, h) EXCEPT !.wait[w] = InsertAt(s.wait[w], Len(s.wait[w]) + 1, t)]
    BY <2>2
  <2>. DEFINE q == [s.wait EXCEPT ![w] = InsertAt(s.wait[w], Len(s.wait[w]) + 1, t)]
  <2>4. l = [s EXCEPT !.wait = q] /\ m = [WithStat(s, h) EXCEPT !.wait = q]
    BY <2>2, <2>3
  <2>. HIDE DEF l, m, s, q
  <2>5. [WithStat(s, h) EXCEPT !.wait = q] = WithStat([s EXCEPT !.wait = q], h)
    BY <1>2 DEF WithStat, IsKernel, Fields
  <2>. QED
    BY <2>1, <2>4, <2>5
<1>. HIDE DEF l, m, s
<1>6. IsKernel(StartTimer(l, t, time))
      /\ StartTimer(WithStat(l, h), t, time) = WithStat(StartTimer(l, t, time), h)
  BY <1>5, TimerShape
<1>7. /\ Block(K, w, t, "FIFO", time) = IF time > 0 THEN StartTimer(l, t, time) ELSE l
      /\ Block(WithStat(K, g), w, t, "FIFO", time) = IF time > 0 THEN StartTimer(m, t, time) ELSE m
  BY <1>3, <1>4 DEF Block, e, f
<1>. QED
  BY <1>5, <1>6, <1>7 DEF h

LEMMA BlockTimer ==
  ASSUME NEW K \in KernelType, NEW t \in Thread \ {Idle}, NEW w \in WaitList, NEW flag,
         NEW time \in Int, KernelOK(K), K.stat[t] = "READY"
  PROVE  \A u \in Thread : u # t \/ time <= 0 => Block(K, w, t, flag, time).timer[u] = K.timer[u]
<1>. DEFINE e == [K EXCEPT !.error[t] = "EOK"]
            s == ListSuspend(e, w, t, flag)
<1>1. /\ e \in KernelType /\ e.stat = K.stat /\ e.timer = K.timer /\ e.ready = K.ready
      /\ e.group = K.group /\ e.wait = K.wait /\ e.prio = K.prio /\ e.due = K.due
  BY DEF KernelType, Error
<1>2. KernelOK(e)
  BY <1>1 DEF KernelOK, ReadyLists, GroupMatches, WaitLists, TimersOfSuspended
<1>3. Block(K, w, t, flag, time) = IF time > 0 THEN StartTimer(s, t, time) ELSE s
  BY DEF Block
<1>. HIDE DEF e
<1>4. SuspendedOn(e, s, t, w, flag) /\ s.timer = K.timer
  BY <1>1, <1>2, ListSuspendOK
<1>5. s \in KernelType
  BY <1>4 DEF SuspendedOn
<1>. HIDE DEF s
<1>6. \A u \in Thread \ {t} : StartTimer(s, t, time).timer[u] = s.timer[u]
  BY <1>5 DEF StartTimer, KernelType
<1>. QED
  BY <1>3, <1>4, <1>6

\* rt_thread_exit, and the steps of rt_thread_delete as the scheduler sees
\* them: off all lists, and closed.
LEMMA CloseOK ==
  ASSUME NEW K \in KernelType, NEW t \in Thread \ {Idle}, KernelOK(K), K.timer[t] = 0
  PROVE  LET r == RemoveThread(K, t)
             j == WithStat(r, [K.stat EXCEPT ![t] = "CLOSE"]) IN
         /\ j \in KernelType /\ KernelOK(j) /\ j.stat = [K.stat EXCEPT ![t] = "CLOSE"]
         /\ IsKernel(r) /\ r.stat = K.stat /\ r.timer = K.timer
         /\ j.cur = K.cur /\ j.lock = K.lock /\ j.timer = K.timer
<1>. DEFINE r == RemoveThread(K, t)
            g == [K.stat EXCEPT ![t] = "CLOSE"]
            j == WithStat(r, g)
            p0 == K.prio[t]
<1>0. /\ \A p \in Prio : IsInjective(K.ready[p])
      /\ \A w \in WaitList : IsInjective(K.wait[w])
      /\ GroupMatches(K) /\ K.prio \in [Thread -> Prio] /\ K.stat \in [Thread -> Stat]
      /\ K.group \in SUBSET Prio /\ K.timer \in [Thread -> Nat]
  BY KernelTypeFields DEF KernelOK, ReadyLists, WaitLists
<1>1. /\ r \in KernelType /\ GroupMatches(r)
      /\ r = [K EXCEPT !.ready = r.ready, !.wait = r.wait, !.group = r.group]
      /\ \A p \in Prio : /\ IsInjective(r.ready[p])
                         /\ Range(r.ready[p]) = Range(K.ready[p]) \ {t}
      /\ \A w \in WaitList : /\ IsInjective(r.wait[w])
                             /\ Range(r.wait[w]) = Range(K.wait[w]) \ {t}
  <2>1. CASE K.stat[t] = "READY"
    <3>1. \A p \in Prio : t \in Range(K.ready[p]) <=> p = K.prio[t]
      BY <2>1 DEF KernelOK, ReadyLists
    <3>. QED
      BY <1>0, <3>1, RemoveThreadLists
  <2>2. CASE K.stat[t] # "READY"
    <3>. DEFINE u == Unlink(K, t)
    <3>1. /\ u \in KernelType
          /\ u = [K EXCEPT !.ready = u.ready, !.wait = u.wait]
          /\ \A p \in Prio : /\ IsInjective(u.ready[p])
                             /\ Range(u.ready[p]) = Range(K.ready[p]) \ {t}
          /\ \A w \in WaitList : /\ IsInjective(u.wait[w])
                                 /\ Range(u.wait[w]) = Range(K.wait[w]) \ {t}
      BY <1>0, UnlinkLists
    <3>2. r = [u EXCEPT !.group = IF u.ready[u.prio[t]] = << >> THEN @ \ {u.prio[t]} ELSE @]
      BY DEF RemoveThread
    <3>. HIDE DEF u, r
    <3>3. u.prio = K.prio /\ u.group = K.group
      BY <3>1 DEF KernelType
    <3>4. \A p \in Prio : t \notin Range(K.ready[p])
      BY <2>2 DEF KernelOK, ReadyLists
    <3>5. \A p \in Prio : u.ready[p] = << >> <=> K.ready[p] = << >>
      <4>1. \A p \in Prio : K.ready[p] \in Seq(Thread) /\ u.ready[p] \in Seq(Thread)
        BY <3>1, KernelTypeFields
      <4>2. \A p \in Prio : Range(u.ready[p]) = Range(K.ready[p])
        <5>1. \A S : t \notin S => S \ {t} = S
          OBVIOUS
        <5>. QED
          BY <3>1, <3>4, <5>1
      <4>. QED
        BY <4>1, <4>2, ListRange
    <3>6. r = [u EXCEPT !.group = K.group]
      <4>1. p0 \in Prio
        BY <1>0
      <4>2. u.ready[p0] = << >> => p0 \notin K.group
        BY <1>0, <3>5, <4>1 DEF GroupMatches
      <4>. QED
        BY <3>2, <3>3, <4>2
    <3>7. r = u
      BY <3>1, <3>3, <3>6 DEF KernelType
    <3>8. GroupMatches(u)
      BY <1>0, <3>3, <3>5 DEF GroupMatches
    <3>9. u = [K EXCEPT !.ready = u.ready, !.wait = u.wait, !.group = u.group]
      BY <3>1, <3>3 DEF KernelType
    <3>. QED
      BY <3>1, <3>7, <3>8, <3>9
  <2>. QED
    BY <2>1, <2>2
<1>. HIDE DEF r
<1>2. /\ r.stat = K.stat /\ r.timer = K.timer /\ r.prio = K.prio /\ r.due = K.due
      /\ r.cur = K.cur /\ r.lock = K.lock
  BY <1>1 DEF KernelType
<1>3. IsKernel(r) /\ g \in [Thread -> Stat]
  BY <1>0, <1>1, KernelShape DEF Stat
<1>4. j \in KernelType
  BY <1>1, <1>3, WithStatType
<1>5. /\ j.stat = g /\ j.ready = r.ready /\ j.group = r.group /\ j.wait = r.wait
      /\ j.prio = r.prio /\ j.timer = r.timer /\ j.due = r.due /\ j.cur = r.cur /\ j.lock = r.lock
  BY <1>3, WithStatFields
<1>. HIDE DEF j
<1>6. /\ \A u \in Thread : u # t => g[u] = K.stat[u]
      /\ g[t] = "CLOSE"
  BY <1>0
<1>. HIDE DEF g
<1>7. ReadyLists(j)
  BY <1>1, <1>2, <1>5, <1>6 DEF KernelOK, ReadyLists
<1>8. GroupMatches(j)
  BY <1>1, <1>5 DEF GroupMatches
<1>9. WaitLists(j)
  <2>1. \A w \in WaitList : Range(K.wait[w]) \in SUBSET Thread
    BY KernelTypeFields, ListRange
  <2>. QED
    BY <1>1, <1>5, <1>6, <2>1 DEF KernelOK, WaitLists
<1>10. TimersOfSuspended(j)
  <2>1. K.due \in SUBSET Thread
    BY KernelTypeFields
  <2>. QED
    BY <1>2, <1>5, <1>6, <2>1 DEF KernelOK, TimersOfSuspended
<1>11. j.stat[Idle] = "READY"
  BY <1>5, <1>6, KernelAssumption DEF KernelOK
<1>. QED
  BY <1>2, <1>3, <1>4, <1>5, <1>7, <1>8, <1>9, <1>10, <1>11 DEF KernelOK, g, j, r

\* The threads rt_thread_delete is in the middle of, and the states as they
\* look from the scheduler, where such a thread is closed already.
Condemned == {u \in Thread : \E o \in Thread : victim[o] = u}

Mask(g) == [x \in Thread |-> IF x \in Condemned THEN "CLOSE" ELSE g[x]]

Seen(K) == WithStat(K, Mask(K.stat))

LifeKernel ==
    /\ k \in KernelType /\ pc \in [Thread -> PC]
    /\ KernelOK(Seen(k)) /\ k.lock = 0
    /\ k.cur \notin Condemned
    /\ pc[k.cur] \notin {"suspended", "asleep", "resched"} => k.stat[k.cur] = "READY"
    /\ \A t \in Thread \ Sleepers : k.timer[t] = 0

LifeCalls ==
    /\ victim \in [Thread -> Thread \cup {NONE}]
    /\ stage \in [Thread -> {"none", "removed", "untimed", "closed"}]
    /\ \A t \in Thread :
          /\ stage[t] = "none" <=> victim[t] = NONE
          /\ victim[t] # NONE => victim[t] \in Victims /\ pc[t] = "copying"
          /\ stage[t] = "closed" => k.stat[victim[t]] = "CLOSE"
    /\ \A t, u \in Thread : victim[t] # NONE /\ victim[t] = victim[u] => t = u

LifeGraves ==
    /\ defunct \in Seq(Thread) /\ IsInjective(defunct)
    /\ freed \in SUBSET Thread
    /\ \A t \in Range(defunct) : t \notin freed /\ t \notin Condemned /\ k.stat[t] = "CLOSE"
    /\ \A t \in freed : t \notin Condemned /\ k.stat[t] = "CLOSE"
    /\ k.cur \notin freed

LifeInv == LifeKernel /\ LifeCalls /\ LifeGraves

-----------------------------------------------------------------------------
LEMMA SeenFacts ==
  ASSUME LifeKernel
  PROVE  LET J == Seen(k) IN
         /\ J \in KernelType /\ IsKernel(J) /\ KernelOK(J) /\ DOMAIN J.stat = Thread
         /\ J.stat = Mask(k.stat) /\ k.stat \in [Thread -> Stat] /\ k = WithStat(J, k.stat)
         /\ J.prio = k.prio /\ J.wait = k.wait /\ J.timer = k.timer /\ J.due = k.due
         /\ J.cur = k.cur /\ J.lock = 0
<1>1. k \in KernelType /\ KernelOK(Seen(k)) /\ k.lock = 0
  BY DEF LifeKernel
<1>2. IsKernel(k) /\ k.stat \in [Thread -> Stat]
  BY <1>1, KernelShape
<1>3. Mask(k.stat) \in [Thread -> Stat]
  BY <1>2 DEF Mask, Stat
<1>. DEFINE m == Mask(k.stat)
            J == WithStat(k, m)
<1>4. J \in KernelType /\ J = Seen(k)
  BY <1>1, <1>3, WithStatType DEF Seen
<1>. HIDE DEF m
<1>5. /\ IsKernel(J) /\ J.stat = m /\ J.prio = k.prio /\ J.wait = k.wait /\ J.timer = k.timer
      /\ J.due = k.due /\ J.cur = k.cur /\ J.lock = k.lock
      /\ WithStat(J, k.stat) = WithStat(k, k.stat) /\ WithStat(k, k.stat) = k
  BY <1>2, WithStatFields
<1>. HIDE DEF J
<1>. QED
  BY <1>1, <1>2, <1>3, <1>4, <1>5 DEF m

\* A step that deletes no further thread: what the scheduler sees goes from one
\* consistent kernel to the next, and a closed thread stays closed.
LEMMA RejoinKernel ==
  ASSUME LifeInv, victim' = victim,
         NEW j \in KernelType, NEW g \in [Thread -> Stat],
         KernelOK(j), j.lock = 0, k' = WithStat(j, g), j.stat = Mask(g),
         j.cur = k.cur \/ j.stat[j.cur] = "READY",
         \A t \in Thread \ Sleepers : j.timer[t] = 0,
         pc' \in [Thread -> PC],
         pc'[j.cur] \in {"suspended", "asleep", "resched"} \/ j.stat[j.cur] = "READY"
  PROVE  /\ LifeKernel' /\ Condemned' = Condemned /\ k'.stat = g /\ k'.cur \in Thread
         /\ k'.cur = k.cur \/ k'.stat[k'.cur] = "READY"
<1>2. Condemned' = Condemned
  BY DEF Condemned
<1>3. IsKernel(j) /\ j.cur \in Thread
  BY KernelShape, KernelTypeFields
<1>4. /\ k' \in KernelType /\ k'.stat = g /\ k'.cur = j.cur /\ k'.lock = j.lock
      /\ k'.timer = j.timer
  BY <1>3, WithStatType, WithStatFields
<1>5. Seen(k)' = j
  <2>1. Seen(k)' = WithStat(k', j.stat)
    BY <1>2, <1>4 DEF Seen, Mask
  <2>2. WithStat(WithStat(j, g), j.stat) = WithStat(j, j.stat) /\ WithStat(j, j.stat) = j
    BY <1>3, WithStatFields
  <2>. QED
    BY <2>1, <2>2
<1>6. j.stat[j.cur] = "READY" => j.cur \notin Condemned /\ g[j.cur] = "READY"
  BY <1>3 DEF Mask
<1>7. k.cur \notin Condemned
  BY DEF LifeInv, LifeKernel
<1>8. LifeKernel'
  BY <1>2, <1>4, <1>5, <1>6, <1>7 DEF LifeKernel
<1>. QED
  BY <1>2, <1>3, <1>4, <1>6, <1>8

LEMMA CallsSame ==
  ASSUME LifeCalls, victim' = victim, stage' = stage,
         \A t \in Thread : pc[t] = "copying" => pc'[t] = "copying",
         \A t \in Thread : k.stat[t] = "CLOSE" => k'.stat[t] = "CLOSE"
  PROVE  LifeCalls'
<1>1. \A t \in Thread : stage[t] = "closed" => victim[t] \in Thread
  BY DEF LifeCalls
<1>. QED
  BY <1>1 DEF LifeCalls

\* A step of the threads and the kernel alone
LEMMA Rejoin ==
  ASSUME LifeInv, UNCHANGED lifeVars,
         NEW j \in KernelType, NEW g \in [Thread -> Stat],
         KernelOK(j), j.lock = 0, k' = WithStat(j, g), j.stat = Mask(g),
         \A t \in Thread : k.stat[t] = "CLOSE" => g[t] = "CLOSE",
         j.cur = k.cur \/ j.stat[j.cur] = "READY",
         \A t \in Thread \ Sleepers : j.timer[t] = 0,
         pc' \in [Thread -> PC], \A t \in Thread : pc[t] = "copying" => pc'[t] = "copying",
         pc'[j.cur] \in {"suspended", "asleep", "resched"} \/ j.stat[j.cur] = "READY"
  PROVE  LifeInv'
<1>1. victim' = victim /\ stage' = stage /\ defunct' = defunct /\ freed' = freed
  BY DEF lifeVars
<1>2. /\ LifeKernel' /\ Condemned' = Condemned /\ k'.stat = g /\ k'.cur \in Thread
      /\ k'.cur = k.cur \/ k'.stat[k'.cur] = "READY"
  BY <1>1, RejoinKernel
<1>3. LifeCalls'
  BY <1>1, <1>2, CallsSame DEF LifeInv
<1>4. LifeGraves'
  <2>1. LifeGraves /\ Range(defunct) \in SUBSET Thread
    BY ListRange DEF LifeInv, LifeGraves
  <2>2. \A t \in Range(defunct) : k'.stat[t] = "CLOSE"
    BY <1>2, <2>1 DEF LifeGraves
  <2>3. \A t \in freed : k'.stat[t] = "CLOSE"
    BY <1>2, <2>1 DEF LifeGraves
  <2>4. k'.cur \notin freed
    BY <1>2, <2>1, <2>3 DEF LifeGraves
  <2>. QED
    BY <1>1, <1>2, <2>1, <2>2, <2>3, <2>4 DEF LifeGraves
<1>. QED
  BY <1>2, <1>3, <1>4 DEF LifeInv

LEMMA LifeInitInv == LifeInit => LifeInv
<1>. SUFFICES ASSUME LifeInit PROVE LifeInv
  OBVIOUS
<1>1. /\ k = KernelInit /\ pc = [t \in Thread |-> "run"] /\ defunct = << >> /\ freed = {}
      /\ victim = [t \in Thread |-> NONE] /\ stage = [t \in Thread |-> "none"]
  BY DEF LifeInit, ThreadsInit
<1>2. /\ k \in KernelType /\ KernelOK(k) /\ k.stat[k.cur] = "READY"
  BY <1>1, KernelInitOK
<1>3. k.lock = 0 /\ k.timer = [t \in Thread |-> 0]
  BY <1>1 DEF KernelInit
<1>4. Condemned = {}
  BY <1>1, ThreadLifeAssumption DEF Condemned
<1>5. Seen(k) = k
  <2>1. k.stat \in [Thread -> Stat] /\ IsKernel(k)
    BY <1>2, KernelShape
  <2>2. Mask(k.stat) = k.stat
    BY <1>4, <2>1 DEF Mask
  <2>. QED
    BY <2>1, <2>2, WithStatFields DEF Seen
<1>6. LifeKernel
  BY <1>1, <1>2, <1>3, <1>4, <1>5 DEF LifeKernel, PC
<1>7. LifeCalls
  BY <1>1, ThreadLifeAssumption DEF LifeCalls
<1>8. LifeGraves
  BY <1>1, <1>4 DEF LifeGraves, IsInjective, Range
<1>. QED
  BY <1>6, <1>7, <1>8 DEF LifeInv

LEMMA MaskExcept ==
  ASSUME NEW g \in [Thread -> Stat], NEW t \in Thread, t \notin Condemned, NEW s
  PROVE  [Mask(g) EXCEPT ![t] = s] = Mask([g EXCEPT ![t] = s])
BY DEF Mask

\* The thread that runs is seen as what it is.
LEMMA CallerSeen ==
  ASSUME LifeInv, NEW t \in Thread, Running(k, t),
         pc[t] \notin {"suspended", "asleep", "resched"}
  PROVE  /\ k.stat[t] = "READY" /\ Seen(k).stat[t] = "READY" /\ t \notin Condemned
         /\ k.cur = t /\ k.due = {}
<1>1. k.cur = t /\ k.due = {}
  BY DEF Running
<1>2. k.stat[t] = "READY" /\ t \notin Condemned
  BY <1>1 DEF LifeInv, LifeKernel
<1>3. Seen(k).stat = Mask(k.stat)
  BY SeenFacts DEF LifeInv
<1>. QED
  BY <1>1, <1>2, <1>3 DEF Mask

\* rt_ipc_list_resume of a thread that waits, with rt_schedule to follow
LEMMA GateKeeps ==
  ASSUME LifeInv, NEW t \in Thread, OpenGate(t)
  PROVE  LifeInv'
<1>. DEFINE J == Seen(k)
            h == Head(k.wait[Gate])
            j == ListResume(J, Gate)
            g == [k.stat EXCEPT ![h] = "READY"]
<1>0. /\ J \in KernelType /\ IsKernel(J) /\ KernelOK(J) /\ DOMAIN J.stat = Thread
      /\ J.stat = Mask(k.stat) /\ k.stat \in [Thread -> Stat] /\ k = WithStat(J, k.stat)
      /\ J.wait = k.wait /\ J.timer = k.timer /\ J.due = k.due /\ J.cur = k.cur /\ J.lock = 0
  BY SeenFacts DEF LifeInv
<1>1. Running(k, t) /\ pc[t] = "run" /\ Wake(t, Gate) /\ UNCHANGED lifeVars
  BY DEF OpenGate, MayCall
<1>2. k.stat[t] = "READY" /\ J.stat[t] = "READY" /\ k.cur = t /\ k.due = {}
  BY <1>1, CallerSeen
<1>3. pc \in [Thread -> PC] /\ \A u \in Thread \ Sleepers : k.timer[u] = 0
  BY DEF LifeInv, LifeKernel
<1>. HIDE DEF J
<1>4. CASE k.wait[Gate] = << >>
  <2>1. pc' = [pc EXCEPT ![t] = "run"] /\ k' = k
    BY <1>1, <1>4 DEF Wake, Goto
  <2>2. pc' \in [Thread -> PC] /\ \A u \in Thread : pc[u] = "copying" => pc'[u] = "copying"
    BY <1>1, <1>3, <2>1 DEF PC
  <2>. QED
    BY <1>0, <1>1, <1>2, <1>3, <2>1, <2>2, Rejoin
<1>5. CASE k.wait[Gate] # << >>
  <2>1. pc' = [pc EXCEPT ![t] = "resched"] /\ k' = ListResume(k, Gate)
    BY <1>1, <1>5 DEF Wake, Goto
  <2>2. pc' \in [Thread -> PC] /\ pc'[t] = "resched"
        /\ \A u \in Thread : pc[u] = "copying" => pc'[u] = "copying"
    BY <1>1, <1>3, <2>1 DEF PC
  <2>3. /\ j \in KernelType /\ KernelOK(j) /\ h \in Thread /\ J.stat[h] = "SUSPEND"
        /\ j.cur = t /\ j.lock = 0 /\ j.stat = [J.stat EXCEPT ![h] = "READY"]
    <3>1. J.wait[Gate] # << >> /\ h = Head(J.wait[Gate]) /\ J.due = {} /\ Gate \in WaitList
      BY <1>0, <1>2, <1>5, ThreadLifeAssumption
    <3>. HIDE DEF h
    <3>. QED
      BY <1>0, <1>2, <3>1, ListResumeOK
  <2>. HIDE DEF h
  <2>4. h \notin Condemned /\ k.stat[h] = "SUSPEND"
    BY <1>0, <2>3 DEF Mask
  <2>5. \A u \in Thread \ Sleepers : j.timer[u] = 0
    <3>1. j = Resume(J, h)
      BY <1>0 DEF ListResume, h
    <3>. HIDE DEF j
    <3>. QED
      BY <1>0, <1>3, <2>3, <3>1, ResumeTimer
  <2>6. j.stat = Mask(g) /\ g \in [Thread -> Stat]
        /\ \A u \in Thread : k.stat[u] = "CLOSE" => g[u] = "CLOSE"
    <3>1. j.stat = Mask(g)
      BY <1>0, <2>3, <2>4, MaskExcept
    <3>. QED
      BY <1>0, <2>3, <2>4, <3>1 DEF Stat
  <2>7. k' = WithStat(j, g)
    <3>1. ListResume(k, Gate) = Resume(k, h) /\ j = Resume(J, h)
      BY <1>0 DEF ListResume, h
    <3>. HIDE DEF j
    <3>2. Resume(WithStat(J, k.stat), h) = WithStat(Resume(J, h), [k.stat EXCEPT ![h] = "READY"])
      BY <1>0, <2>3, <2>4, ResumeShape
    <3>. QED
      BY <1>0, <2>1, <3>1, <3>2
  <2>. HIDE DEF j, g
  <2>. QED
    BY <1>1, <1>2, <2>2, <2>3, <2>5, <2>6, <2>7, Rejoin
<1>. QED
  BY <1>4, <1>5

\* rt_thread_startup of a thread that nobody deletes
LEMMA StartupKeeps ==
  ASSUME LifeInv, NEW t \in Thread, Startup(t)
  PROVE  LifeInv'
<1>. DEFINE J == Seen(k)
<1>0. /\ J \in KernelType /\ IsKernel(J) /\ KernelOK(J) /\ DOMAIN J.stat = Thread
      /\ J.stat = Mask(k.stat) /\ k.stat \in [Thread -> Stat] /\ k = WithStat(J, k.stat)
      /\ J.wait = k.wait /\ J.timer = k.timer /\ J.due = k.due /\ J.cur = k.cur /\ J.lock = 0
  BY SeenFacts DEF LifeInv
<1>1. Running(k, t) /\ pc[t] = "run" /\ pc' = [pc EXCEPT ![t] = "resched"] /\ UNCHANGED lifeVars
  BY DEF Startup, MayCall, Goto
<1>2. PICK u \in Thread :
         /\ k.stat[u] = "INIT" /\ \A o \in Thread : victim[o] # u
         /\ k' = Resume([k EXCEPT !.prio[u] = InitPrio[u], !.stat[u] = "SUSPEND"], u)
  BY DEF Startup
<1>. DEFINE e == [J EXCEPT !.prio[u] = InitPrio[u], !.stat[u] = "SUSPEND"]
            h == [k.stat EXCEPT ![u] = "SUSPEND"]
            g == [k.stat EXCEPT ![u] = "READY"]
            j == Resume(e, u)
<1>3. k.cur = t /\ k.due = {}
  BY <1>1 DEF Running
<1>4. pc \in [Thread -> PC] /\ \A x \in Thread \ Sleepers : k.timer[x] = 0
  BY DEF LifeInv, LifeKernel
<1>. HIDE DEF J
<1>5. u \notin Condemned /\ J.stat[u] = "INIT"
  BY <1>0, <1>2 DEF Condemned, Mask
<1>6. /\ e \in KernelType /\ e.stat = [J.stat EXCEPT ![u] = "SUSPEND"]
      /\ e.prio = [J.prio EXCEPT ![u] = InitPrio[u]] /\ e.ready = J.ready /\ e.group = J.group
      /\ e.wait = J.wait /\ e.timer = J.timer /\ e.due = J.due /\ e.cur = J.cur /\ e.lock = J.lock
  BY <1>0, KernelAssumption DEF KernelType, Stat
<1>7. KernelOK(e)
  <2>1. /\ J.stat \in [Thread -> Stat] /\ J.prio \in [Thread -> Prio]
        /\ \A w \in WaitList : Range(J.wait[w]) \in SUBSET Thread
    BY <1>0, KernelTypeFields, ListRange
  <2>2. ReadyLists(e)
    BY <1>0, <1>5, <1>6, <2>1 DEF KernelOK, ReadyLists
  <2>3. WaitLists(e)
    BY <1>0, <1>5, <1>6, <2>1 DEF KernelOK, WaitLists
  <2>4. TimersOfSuspended(e)
    BY <1>0, <1>5, <1>6, <2>1 DEF KernelOK, TimersOfSuspended
  <2>. QED
    BY <1>0, <1>5, <1>6, <2>1, <2>2, <2>3, <2>4, KernelAssumption DEF KernelOK, GroupMatches
<1>8. e.stat[u] = "SUSPEND" /\ u \notin e.due
  BY <1>0, <1>3, <1>6
<1>9. IsKernel(e) /\ DOMAIN e.stat = Thread
  BY <1>0, <1>6, KernelShape
<1>10. [k EXCEPT !.prio[u] = InitPrio[u], !.stat[u] = "SUSPEND"] = WithStat(e, h)
  <2>1. [WithStat(J, k.stat) EXCEPT !.prio[u] = InitPrio[u], !.stat[u] = "SUSPEND"] = WithStat(e, h)
    BY <1>0 DEF WithStat, IsKernel, Fields
  <2>. QED
    BY <1>0, <2>1
<1>. HIDE DEF e
<1>11. /\ j \in KernelType /\ KernelOK(j) /\ j.cur = e.cur /\ j.lock = e.lock
       /\ j.stat = [e.stat EXCEPT ![u] = "READY"]
  BY <1>6, <1>7, <1>8, ResumeOK
<1>12. j.stat = Mask(g) /\ g \in [Thread -> Stat]
       /\ \A x \in Thread : k.stat[x] = "CLOSE" => g[x] = "CLOSE"
  <2>1. j.stat = [J.stat EXCEPT ![u] = "READY"]
    BY <1>0, <1>6, <1>11
  <2>2. j.stat = Mask(g)
    BY <1>0, <1>5, <2>1, MaskExcept
  <2>. QED
    BY <1>0, <1>2, <2>2 DEF Stat
<1>13. k' = WithStat(j, g)
  <2>1. h \in [Thread -> Stat] /\ h[u] = "SUSPEND" /\ [h EXCEPT ![u] = "READY"] = g
    BY <1>0 DEF Stat
  <2>. HIDE DEF h, g
  <2>2. Resume(WithStat(e, h), u) = WithStat(Resume(e, u), [h EXCEPT ![u] = "READY"])
    BY <1>8, <1>9, <2>1, ResumeShape
  <2>. QED
    BY <1>2, <1>10, <2>1, <2>2
<1>14. \A x \in Thread \ Sleepers : j.timer[x] = 0
  BY <1>0, <1>4, <1>6, ResumeTimer
<1>15. pc' \in [Thread -> PC] /\ pc'[t] = "resched"
       /\ \A x \in Thread : pc[x] = "copying" => pc'[x] = "copying"
  BY <1>1, <1>4 DEF PC
<1>. HIDE DEF j, g, h
<1>. QED
  BY <1>0, <1>1, <1>3, <1>6, <1>11, <1>12, <1>13, <1>14, <1>15, Rejoin

\* What a thread does that suspends itself: j is how the scheduler sees the
\* kernel after it.
LEMMA SuspendsSelf ==
  ASSUME LifeInv, UNCHANGED lifeVars, NEW t \in Thread, Running(k, t), pc[t] = "run",
         NEW l \in {"suspended", "asleep"}, Goto(t, l),
         NEW j \in KernelType, KernelOK(j), j.cur = k.cur, j.lock = 0,
         j.stat = [Seen(k).stat EXCEPT ![t] = "SUSPEND"],
         k' = WithStat(j, [k.stat EXCEPT ![t] = "SUSPEND"]),
         \A u \in Thread \ Sleepers : j.timer[u] = 0
  PROVE  LifeInv'
<1>. DEFINE g == [k.stat EXCEPT ![t] = "SUSPEND"]
<1>1. k.stat[t] = "READY" /\ t \notin Condemned /\ k.cur = t
  BY CallerSeen
<1>2. Seen(k).stat = Mask(k.stat) /\ k.stat \in [Thread -> Stat]
  BY SeenFacts DEF LifeInv
<1>3. pc \in [Thread -> PC] /\ pc' = [pc EXCEPT ![t] = l]
  BY DEF LifeInv, LifeKernel, Goto
<1>4. j.stat = Mask(g)
  BY <1>1, <1>2, MaskExcept
<1>5. g \in [Thread -> Stat] /\ \A u \in Thread : k.stat[u] = "CLOSE" => g[u] = "CLOSE"
  BY <1>1, <1>2 DEF Stat
<1>6. pc' \in [Thread -> PC] /\ \A u \in Thread : pc[u] = "copying" => pc'[u] = "copying"
  BY <1>3 DEF PC
<1>7. pc'[j.cur] \in {"suspended", "asleep", "resched"}
  BY <1>1, <1>3
<1>. HIDE DEF g
<1>. QED
  BY <1>4, <1>5, <1>6, <1>7, Rejoin DEF g

LEMMA WaitKeeps ==
  ASSUME LifeInv, NEW t \in Thread, WaitAtGate(t)
  PROVE  LifeInv'
<1>. DEFINE J == Seen(k)
<1>0. /\ J \in KernelType /\ IsKernel(J) /\ KernelOK(J) /\ DOMAIN J.stat = Thread
      /\ k.stat \in [Thread -> Stat] /\ k = WithStat(J, k.stat)
      /\ J.timer = k.timer /\ J.cur = k.cur /\ J.lock = 0
  BY SeenFacts DEF LifeInv
<1>1. Running(k, t) /\ pc[t] = "run" /\ t \in Thread \ {Idle} /\ UNCHANGED lifeVars
  BY DEF WaitAtGate, MayCall
<1>2. PICK time \in Int : (t \notin Sleepers => time < 0) /\ Wait(t, Gate, "FIFO", time)
  BY DEF WaitAtGate
<1>3. k' = Block(k, Gate, t, "FIFO", time) /\ Goto(t, "suspended")
  BY <1>2 DEF Wait
<1>4. k.stat[t] = "READY" /\ J.stat[t] = "READY"
  BY <1>1, CallerSeen
<1>5. Gate \in WaitList /\ \A u \in Thread \ Sleepers : k.timer[u] = 0
  BY ThreadLifeAssumption DEF LifeInv, LifeKernel
<1>. DEFINE j == Block(J, Gate, t, "FIFO", time)
<1>6. j \in KernelType /\ KernelOK(j) /\ j.cur = J.cur /\ j.lock = 0
      /\ j.stat = [J.stat EXCEPT ![t] = "SUSPEND"]
  <2>1. Blocked(J, j, t, Gate, "FIFO")
    BY <1>0, <1>1, <1>4, <1>5, BlockOK
  <2>. HIDE DEF j, J
  <2>. QED
    BY <1>0, <2>1 DEF Blocked, SuspendedOn
<1>7. \A u \in Thread \ Sleepers : j.timer[u] = 0
  <2>1. \A u \in Thread : u # t \/ time <= 0 => j.timer[u] = J.timer[u]
    BY <1>0, <1>1, <1>4, <1>5, BlockTimer
  <2>. QED
    BY <1>0, <1>2, <1>5, <2>1
<1>8. k' = WithStat(j, [k.stat EXCEPT ![t] = "SUSPEND"])
  <2>. HIDE DEF J
  <2>1. Block(WithStat(J, k.stat), Gate, t, "FIFO", time) = WithStat(j, [k.stat EXCEPT ![t] = "SUSPEND"])
    BY <1>0, <1>4, BlockShape
  <2>. QED
    BY <1>0, <1>3, <2>1
<1>. HIDE DEF j
<1>. QED
  BY <1>0, <1>1, <1>3, <1>6, <1>7, <1>8, SuspendsSelf

LEMMA SleepKeeps ==
  ASSUME LifeInv, NEW t \in Sleepers, Sleep(t), UNCHANGED lifeVars
  PROVE  LifeInv'
<1>. DEFINE J == Seen(k)
            s == Suspend(J, t)
            j == StartTimer(s, t, 1)
            g == [k.stat EXCEPT ![t] = "SUSPEND"]
<1>0. /\ J \in KernelType /\ IsKernel(J) /\ KernelOK(J) /\ DOMAIN J.stat = Thread
      /\ k.stat \in [Thread -> Stat] /\ k = WithStat(J, k.stat)
      /\ J.timer = k.timer /\ J.cur = k.cur /\ J.lock = 0
  BY SeenFacts DEF LifeInv
<1>1. Running(k, t) /\ pc[t] = "run" /\ t \in Thread \ {Idle}
      /\ k' = StartTimer(Suspend(k, t), t, 1) /\ Goto(t, "asleep")
  BY ThreadLifeAssumption DEF Sleep, MayCall
<1>2. k.stat[t] = "READY" /\ J.stat[t] = "READY"
  BY <1>1, CallerSeen
<1>3. \A u \in Thread \ Sleepers : k.timer[u] = 0
  BY DEF LifeInv, LifeKernel
<1>4. j \in KernelType /\ KernelOK(j) /\ j.cur = J.cur /\ j.lock = 0
      /\ j.stat = [J.stat EXCEPT ![t] = "SUSPEND"]
  BY <1>0, <1>1, <1>2, SleepOK
<1>5. \A u \in Thread \ Sleepers : j.timer[u] = 0
  <2>1. /\ s \in KernelType
        /\ s = [J EXCEPT !.stat = s.stat, !.ready = s.ready, !.group = s.group]
    BY <1>0, <1>1, <1>2, SuspendOK
  <2>. HIDE DEF s, J
  <2>2. s.timer = J.timer /\ s.timer \in [Thread -> Nat]
    BY <1>0, <2>1, KernelTypeFields DEF KernelType
  <2>3. j = IF s.timer[t] = 0 THEN [s EXCEPT !.timer[t] = 1] ELSE s
    BY DEF StartTimer
  <2>. HIDE DEF j
  <2>4. \A u \in Thread \ {t} : j.timer[u] = s.timer[u]
    BY <2>1, <2>2, <2>3 DEF KernelType
  <2>. QED
    BY <1>0, <1>3, <2>2, <2>4
<1>6. k' = WithStat(j, g)
  <2>. HIDE DEF J, g
  <2>1. IsKernel(s) /\ Suspend(WithStat(J, k.stat), t) = WithStat(s, g)
    BY <1>0, <1>1, <1>2, SuspendShape DEF g
  <2>. HIDE DEF s
  <2>2. StartTimer(WithStat(s, g), t, 1) = WithStat(StartTimer(s, t, 1), g)
    BY <2>1, TimerShape
  <2>. QED
    BY <1>0, <1>1, <2>1, <2>2
<1>. HIDE DEF j
<1>. QED
  BY <1>0, <1>1, <1>4, <1>5, <1>6, SuspendsSelf, ThreadLifeAssumption

\* Steps that leave the states of all threads alone.
LEMMA StatesSame ==
  ASSUME LifeInv, UNCHANGED lifeVars,
         NEW j \in KernelType, KernelOK(j), j.lock = 0,
         j.stat = Seen(k).stat, k' = WithStat(j, k.stat),
         j.cur = k.cur \/ j.stat[j.cur] = "READY",
         \A t \in Thread \ Sleepers : j.timer[t] = 0,
         pc' \in [Thread -> PC], \A t \in Thread : pc[t] = "copying" => pc'[t] = "copying",
         pc'[j.cur] \in {"suspended", "asleep", "resched"} \/ j.stat[j.cur] = "READY"
  PROVE  LifeInv'
<1>1. Seen(k).stat = Mask(k.stat) /\ k.stat \in [Thread -> Stat]
  BY SeenFacts DEF LifeInv
<1>. QED
  BY <1>1, Rejoin

LEMMA ReturnKeeps ==
  ASSUME LifeInv, UNCHANGED lifeVars, NEW t \in Thread,
         Return(t) \/ SleepReturn(t) \/ CallSchedule(t)
  PROVE  LifeInv'
<1>. DEFINE J == Seen(k)
<1>0. /\ J \in KernelType /\ IsKernel(J) /\ KernelOK(J) /\ DOMAIN J.stat = Thread
      /\ k.stat \in [Thread -> Stat] /\ k = WithStat(J, k.stat)
      /\ J.timer = k.timer /\ J.cur = k.cur /\ J.lock = 0
  BY SeenFacts DEF LifeInv
<1>1. pc \in [Thread -> PC] /\ \A u \in Thread \ Sleepers : k.timer[u] = 0
  BY DEF LifeInv, LifeKernel
<1>2. CASE Return(t)
  <2>1. Running(k, t) /\ pc[t] = "back" /\ pc' = [pc EXCEPT ![t] = "run"] /\ k' = k
    BY <1>2 DEF Return, Goto
  <2>2. J.stat[t] = "READY" /\ J.cur = t
    BY <1>0, <2>1, CallerSeen
  <2>3. pc' \in [Thread -> PC] /\ \A u \in Thread : pc[u] = "copying" => pc'[u] = "copying"
    BY <1>1, <2>1 DEF PC
  <2>. HIDE DEF J
  <2>. QED
    BY <1>0, <1>1, <2>1, <2>2, <2>3, StatesSame DEF J
<1>3. CASE SleepReturn(t)
  <2>. DEFINE j == [J EXCEPT !.error[t] = IF @ = "ETIMEOUT" THEN "EOK" ELSE @]
  <2>1. /\ Running(k, t) /\ pc[t] = "woke" /\ pc' = [pc EXCEPT ![t] = "run"]
        /\ k' = [k EXCEPT !.error[t] = IF @ = "ETIMEOUT" THEN "EOK" ELSE @]
    BY <1>3 DEF SleepReturn, Goto
  <2>2. J.stat[t] = "READY" /\ J.cur = t
    BY <1>0, <2>1, CallerSeen
  <2>3. pc' \in [Thread -> PC] /\ \A u \in Thread : pc[u] = "copying" => pc'[u] = "copying"
    BY <1>1, <2>1 DEF PC
  <2>. HIDE DEF J
  <2>4. /\ j \in KernelType /\ j.stat = J.stat /\ j.timer = J.timer /\ j.cur = J.cur
        /\ j.lock = J.lock /\ j.ready = J.ready /\ j.group = J.group /\ j.wait = J.wait
        /\ j.prio = J.prio /\ j.due = J.due
    BY <1>0 DEF KernelType, Error
  <2>5. KernelOK(j)
    BY <1>0, <2>4 DEF KernelOK, ReadyLists, GroupMatches, WaitLists, TimersOfSuspended
  <2>6. k' = WithStat(j, k.stat)
    <3>1. [WithStat(J, k.stat) EXCEPT !.error[t] = IF @ = "ETIMEOUT" THEN "EOK" ELSE @]
            = WithStat(j, k.stat)
      BY <1>0 DEF WithStat, IsKernel, Fields
    <3>. QED
      BY <1>0, <2>1, <3>1
  <2>. HIDE DEF j
  <2>. QED
    BY <1>0, <1>1, <2>2, <2>3, <2>4, <2>5, <2>6, StatesSame DEF J
<1>4. CASE CallSchedule(t)
  <2>. DEFINE j == Schedule(J)
  <2>1. /\ k.cur = t /\ pc[t] \in {"suspended", "resched", "asleep"} /\ k' = Schedule(k)
        /\ pc' = [pc EXCEPT ![t] = CASE pc[t] = "suspended" -> "back"
                                     [] pc[t] = "resched"   -> "run"
                                     [] pc[t] = "asleep"    -> "woke"]
    BY <1>4 DEF CallSchedule, Goto, Running
  <2>2. pc' \in [Thread -> PC] /\ \A u \in Thread : pc[u] = "copying" => pc'[u] = "copying"
    BY <1>1, <2>1 DEF PC
  <2>. HIDE DEF J
  <2>3. /\ j \in KernelType /\ KernelOK(j) /\ j = [J EXCEPT !.cur = j.cur]
        /\ j.stat[j.cur] = "READY"
    BY <1>0, ScheduleOK
  <2>4. k' = WithStat(j, k.stat)
    <3>1. Schedule(WithStat(J, k.stat)) = WithStat(j, k.stat)
      BY <1>0, ScheduleShape
    <3>. QED
      BY <1>0, <2>1, <3>1
  <2>. HIDE DEF j
  <2>5. j.stat = J.stat /\ j.timer = J.timer /\ j.lock = J.lock
    BY <1>0, <2>3 DEF KernelType
  <2>. QED
    BY <1>0, <1>1, <2>2, <2>3, <2>4, <2>5, StatesSame DEF J
<1>. QED
  BY <1>2, <1>3, <1>4

LEMMA TickKeeps ==
  ASSUME LifeInv, Tick, UNCHANGED lifeVars
  PROVE  LifeInv'
<1>. DEFINE J == Seen(k)
<1>0. /\ J \in KernelType /\ IsKernel(J) /\ KernelOK(J) /\ J.stat = Mask(k.stat)
      /\ k.stat \in [Thread -> Stat] /\ k = WithStat(J, k.stat)
      /\ J.timer = k.timer /\ J.cur = k.cur /\ J.lock = 0
  BY SeenFacts DEF LifeInv
<1>1. /\ pc' = pc /\ pc \in [Thread -> PC] /\ k.cur \notin Condemned /\ k.cur \in Thread
      /\ pc[k.cur] \notin {"suspended", "asleep", "resched"} => k.stat[k.cur] = "READY"
      /\ \A t \in Thread \ Sleepers : k.timer[t] = 0
  BY KernelTypeFields DEF LifeInv, LifeKernel, Tick
<1>2. PICK sliceEnds \in BOOLEAN : k' = TickBegin(k, sliceEnds)
  BY DEF Tick
<1>. DEFINE j == TickBegin(J, sliceEnds)
<1>3. J.stat[J.cur] = k.stat[J.cur]
  BY <1>0, <1>1 DEF Mask
<1>. HIDE DEF J
<1>4. /\ j \in KernelType /\ KernelOK(j)
      /\ j = [J EXCEPT !.ready = j.ready, !.cur = j.cur, !.due = j.due, !.timer = j.timer]
      /\ j.cur = J.cur \/ j.stat[j.cur] = "READY"
  BY <1>0, TickBeginOK
<1>5. \A t \in Thread : J.timer[t] = 0 => j.timer[t] = 0
  BY <1>0, TickTimer
<1>6. k' = WithStat(j, k.stat)
  <2>1. TickBegin(WithStat(J, k.stat), sliceEnds) = WithStat(j, k.stat)
    BY <1>0, <1>3, TickShape
  <2>. QED
    BY <1>0, <1>2, <2>1
<1>. HIDE DEF j
<1>7. j.stat = J.stat /\ j.lock = J.lock
  BY <1>0, <1>4 DEF KernelType
<1>8. pc'[j.cur] \in {"suspended", "asleep", "resched"} \/ j.stat[j.cur] = "READY"
  BY <1>0, <1>1, <1>3, <1>4, <1>7
<1>. QED
  BY <1>0, <1>1, <1>4, <1>5, <1>6, <1>7, <1>8, StatesSame DEF J

LEMMA TimerKeeps ==
  ASSUME LifeInv, TimerFires, UNCHANGED lifeVars
  PROVE  LifeInv'
<1>. DEFINE J == Seen(k)
<1>0. /\ J \in KernelType /\ IsKernel(J) /\ KernelOK(J) /\ J.stat = Mask(k.stat)
      /\ k.stat \in [Thread -> Stat] /\ k = WithStat(J, k.stat) /\ DOMAIN J.stat = Thread
      /\ J.timer = k.timer /\ J.cur = k.cur /\ J.lock = 0 /\ J.due = k.due
      /\ J.due \in SUBSET Thread /\ J.timer \in [Thread -> Nat]
  BY SeenFacts, KernelTypeFields DEF LifeInv
<1>1. pc' = pc /\ pc \in [Thread -> PC] /\ \A u \in Thread \ Sleepers : k.timer[u] = 0
  BY DEF LifeInv, LifeKernel, TimerFires
<1>2. PICK t \in k.due : k' = Fire(k, t)
  BY DEF TimerFires
<1>. DEFINE j == Fire(J, t)
            g == [k.stat EXCEPT ![t] = "READY"]
<1>. HIDE DEF J
<1>3. /\ j \in KernelType /\ KernelOK(j) /\ j.lock = 0 /\ J.stat[t] = "SUSPEND"
      /\ j.stat = [J.stat EXCEPT ![t] = "READY"] /\ j.stat[j.cur] = "READY" /\ t \in Thread
  <2>1. t \in J.due
    BY <1>0, <1>2
  <2>2. TimedOut(J, j, t)
    BY <1>0, <2>1, FireOK
  <2>. HIDE DEF j
  <2>. QED
    BY <1>0, <2>1, <2>2 DEF TimedOut
<1>4. t \notin Condemned /\ k.stat[t] = "SUSPEND"
  BY <1>0, <1>3 DEF Mask
<1>5. \A u \in Thread \ Sleepers : j.timer[u] = 0
  <2>1. j.timer = [J.timer EXCEPT ![t] = 0]
    BY <1>0, <1>3, FireTimer
  <2>. HIDE DEF j
  <2>. QED
    BY <1>0, <1>1, <2>1
<1>6. k' = WithStat(j, g)
  <2>1. Fire(WithStat(J, k.stat), t) = WithStat(j, g)
    BY <1>0, <1>3, FireShape
  <2>. QED
    BY <1>0, <1>2, <2>1
<1>. HIDE DEF j
<1>7. j.stat = Mask(g) /\ g \in [Thread -> Stat]
      /\ \A u \in Thread : k.stat[u] = "CLOSE" => g[u] = "CLOSE"
  <2>1. j.stat = Mask(g)
    <3>0. k.stat \in [Thread -> Stat] /\ t \in Thread /\ t \notin Condemned
      BY <1>0, <1>3, <1>4
    <3>1. [Mask(k.stat) EXCEPT ![t] = "READY"] = Mask(g)
      BY <3>0, MaskExcept
    <3>. HIDE DEF g
    <3>. QED
      BY <1>0, <1>3, <3>1
  <2>. QED
    BY <1>0, <1>3, <1>4, <2>1 DEF Stat
<1>. HIDE DEF g
<1>. QED
  BY <1>1, <1>3, <1>5, <1>6, <1>7, Rejoin

\* rt_thread_exit
LEMMA ExitKeeps ==
  ASSUME LifeInv, NEW t \in Thread, Exit(t)
  PROVE  LifeInv'
<1>. DEFINE J == Seen(k)
            r == RemoveThread(J, t)
            j == WithStat(r, [J.stat EXCEPT ![t] = "CLOSE"])
            g == [k.stat EXCEPT ![t] = "CLOSE"]
<1>0. /\ J \in KernelType /\ IsKernel(J) /\ KernelOK(J) /\ J.stat = Mask(k.stat)
      /\ k.stat \in [Thread -> Stat] /\ k = WithStat(J, k.stat)
      /\ J.timer = k.timer /\ J.cur = k.cur /\ J.lock = 0
  BY SeenFacts DEF LifeInv
<1>1. /\ Running(k, t) /\ pc[t] = "run" /\ t \in Thread \ {Idle}
      /\ k' = [RemoveThread(k, t) EXCEPT !.stat[t] = "CLOSE", !.timer[t] = 0]
      /\ defunct' = IF t \in Static THEN defunct ELSE <<t>> \o defunct
      /\ pc' = [pc EXCEPT ![t] = "resched"]
      /\ freed' = freed /\ victim' = victim /\ stage' = stage
  BY DEF Exit, MayCall, Goto, Buried
<1>2. /\ k.stat[t] = "READY" /\ J.stat[t] = "READY" /\ t \notin Condemned /\ k.cur = t
  BY <1>1, CallerSeen
<1>3. pc \in [Thread -> PC] /\ \A u \in Thread \ Sleepers : k.timer[u] = 0
  BY DEF LifeInv, LifeKernel
<1>. HIDE DEF J
<1>4. J.timer[t] = 0
  BY <1>0, <1>2 DEF KernelOK, TimersOfSuspended
<1>5. /\ j \in KernelType /\ KernelOK(j) /\ j.stat = [J.stat EXCEPT ![t] = "CLOSE"]
      /\ IsKernel(r) /\ r.timer = J.timer /\ j.cur = J.cur /\ j.lock = J.lock /\ j.timer = J.timer
  BY <1>0, <1>1, <1>4, CloseOK
<1>6. RemoveThread(k, t) = WithStat(r, k.stat)
  <2>1. RemoveThread(WithStat(J, k.stat), t) = WithStat(r, k.stat)
    BY <1>0, RemoveShape
  <2>. QED
    BY <1>0, <2>1
<1>7. k' = WithStat(j, g)
  <2>. DEFINE w == WithStat(r, k.stat)
  <2>1. /\ IsKernel(w) /\ w.stat = k.stat /\ w.timer = J.timer
        /\ \A f : WithStat(w, f) = WithStat(r, f)
        /\ \A f : WithStat(WithStat(r, [J.stat EXCEPT ![t] = "CLOSE"]), f) = WithStat(r, f)
    BY <1>5, WithStatFields
  <2>2. k' = [w EXCEPT !.stat[t] = "CLOSE", !.timer[t] = 0]
    BY <1>1, <1>6
  <2>3. J.timer \in [Thread -> Nat]
    BY <1>0, KernelTypeFields
  <2>. HIDE DEF r, w
  <2>4. [w EXCEPT !.stat[t] = "CLOSE", !.timer[t] = 0] = WithStat(w, g)
    <3>1. [J.timer EXCEPT ![t] = 0] = J.timer
      BY <1>4, <2>3
    <3>2. [w EXCEPT !.stat[t] = "CLOSE", !.timer[t] = 0]
            = [w EXCEPT !.stat = g, !.timer = [J.timer EXCEPT ![t] = 0]]
      BY <2>1
    <3>. HIDE DEF g
    <3>3. [w EXCEPT !.stat = g, !.timer = w.timer] = [w EXCEPT !.stat = g]
      BY <2>1 DEF IsKernel, Fields
    <3>. QED
      BY <2>1, <3>1, <3>2, <3>3 DEF WithStat
  <2>. QED
    BY <2>1, <2>2, <2>4
<1>. HIDE DEF j
<1>8. j.stat = Mask(g) /\ g \in [Thread -> Stat]
  <2>1. j.stat = Mask(g)
    BY <1>0, <1>2, <1>5, MaskExcept
  <2>. QED
    BY <1>0, <2>1 DEF Stat
<1>9. pc' \in [Thread -> PC] /\ pc'[t] = "resched"
      /\ \A u \in Thread : pc[u] = "copying" => pc'[u] = "copying"
  BY <1>1, <1>3 DEF PC
<1>10. /\ g[t] = "CLOSE" /\ \A u \in Thread : k.stat[u] = "CLOSE" => g[u] = "CLOSE"
  BY <1>0
<1>. HIDE DEF g
<1>11. LifeKernel' /\ Condemned' = Condemned /\ k'.stat = g /\ k'.cur = t
  <2>1. LifeKernel' /\ Condemned' = Condemned /\ k'.stat = g
    BY <1>0, <1>1, <1>2, <1>3, <1>5, <1>7, <1>8, <1>9, RejoinKernel
  <2>2. k'.cur = j.cur
    BY <1>5, <1>7, KernelShape, WithStatFields
  <2>. QED
    BY <1>0, <1>2, <1>5, <2>1, <2>2
<1>12. LifeCalls'
  BY <1>1, <1>9, <1>10, <1>11, CallsSame DEF LifeInv
<1>13. LifeGraves'
  <2>1. LifeGraves /\ Range(defunct) \in SUBSET Thread
    BY ListRange DEF LifeInv, LifeGraves
  <2>2. t \notin Range(defunct) /\ t \notin freed
    BY <1>2, <2>1 DEF LifeGraves
  <2>3. /\ defunct' \in Seq(Thread) /\ IsInjective(defunct')
        /\ Range(defunct') \in SUBSET (Range(defunct) \cup {t})
    BY <1>1, <2>1, <2>2, PushList DEF LifeGraves
  <2>4. \A u \in Range(defunct') : u \notin freed /\ u \notin Condemned /\ k'.stat[u] = "CLOSE"
    BY <1>2, <1>10, <1>11, <2>1, <2>2, <2>3 DEF LifeGraves
  <2>5. \A u \in freed : u \notin Condemned /\ k'.stat[u] = "CLOSE"
    BY <1>10, <1>11, <2>1 DEF LifeGraves
  <2>. QED
    BY <1>1, <1>11, <2>1, <2>2, <2>3, <2>4, <2>5 DEF LifeGraves
<1>. QED
  BY <1>11, <1>12, <1>13 DEF LifeInv

\* The first step of rt_thread_delete.  Whoever is deleted has no timer that
\* runs: that is where the tick interrupt would still see a sleeping thread.
LEMMA DeleteRemoveKeeps ==
  ASSUME LifeInv, Victims \cap Sleepers = {}, NEW t \in Thread, DeleteRemove(t)
  PROVE  LifeInv'
<1>. DEFINE J == Seen(k)
<1>0. /\ J \in KernelType /\ IsKernel(J) /\ KernelOK(J) /\ J.stat = Mask(k.stat)
      /\ k.stat \in [Thread -> Stat] /\ k = WithStat(J, k.stat)
      /\ J.timer = k.timer /\ J.cur = k.cur /\ J.lock = 0
  BY SeenFacts DEF LifeInv
<1>1. /\ Running(k, t) /\ pc[t] = "run" /\ pc' = [pc EXCEPT ![t] = "copying"]
      /\ stage' = [stage EXCEPT ![t] = "removed"] /\ defunct' = defunct /\ freed' = freed
  BY DEF DeleteRemove, MayCall, Goto, Step
<1>2. PICK u \in Victims \ {t} :
         /\ k.stat[u] # "CLOSE" /\ \A o \in Thread : victim[o] # u
         /\ k' = RemoveThread(k, u) /\ victim' = [victim EXCEPT ![t] = u]
  BY DEF DeleteRemove
<1>. DEFINE r == RemoveThread(J, u)
            m == [J.stat EXCEPT ![u] = "CLOSE"]
            j == WithStat(r, m)
<1>3. /\ k.stat[t] = "READY" /\ t \notin Condemned /\ k.cur = t
  BY <1>1, CallerSeen
<1>4. pc \in [Thread -> PC] /\ \A x \in Thread \ Sleepers : k.timer[x] = 0
  BY DEF LifeInv, LifeKernel
<1>5. u \in Thread \ {Idle} /\ u # t /\ u \in Thread \ Sleepers /\ u \in Victims
  BY <1>2, ThreadLifeAssumption
<1>6. LifeCalls /\ LifeGraves
  BY DEF LifeInv
<1>7. victim[t] = NONE
  BY <1>1, <1>6 DEF LifeCalls
<1>. HIDE DEF J
<1>8. J.timer[u] = 0
  BY <1>0, <1>4, <1>5
<1>9. /\ j \in KernelType /\ KernelOK(j) /\ j.stat = m /\ IsKernel(r)
      /\ j.cur = J.cur /\ j.lock = J.lock /\ j.timer = J.timer
  BY <1>0, <1>5, <1>8, CloseOK
<1>10. k' = WithStat(r, k.stat)
  <2>1. RemoveThread(WithStat(J, k.stat), u) = WithStat(r, k.stat)
    BY <1>0, RemoveShape
  <2>. QED
    BY <1>0, <1>2, <2>1
<1>. HIDE DEF r
<1>11. /\ WithStat(j, k.stat) = k' /\ WithStat(k', m) = j
  <2>1. \A f : WithStat(WithStat(r, m), f) = WithStat(r, f)
    BY <1>9, WithStatFields
  <2>2. \A f : WithStat(WithStat(r, k.stat), f) = WithStat(r, f)
    BY <1>9, WithStatFields
  <2>. QED
    BY <1>10, <2>1, <2>2
<1>. HIDE DEF j
<1>12. /\ k' \in KernelType /\ k'.stat = k.stat /\ k'.cur = k.cur /\ k'.lock = 0
       /\ k'.timer = k.timer
  <2>1. IsKernel(j)
    BY <1>9, KernelShape
  <2>. QED
    BY <1>0, <1>9, <1>11, <2>1, WithStatType, WithStatFields
<1>13. \A x \in Thread : x \in Condemned' <=> x \in Condemned \/ x = u
  <2>1. \A o \in Thread : victim'[o] = IF o = t THEN u ELSE victim[o]
    BY <1>2, <1>6 DEF LifeCalls
  <2>. QED
    BY <1>7, <2>1, ThreadLifeAssumption DEF Condemned
<1>14. Seen(k)' = j
  <2>1. Mask(k.stat)' = m
    BY <1>0, <1>5, <1>12, <1>13 DEF Mask
  <2>. QED
    BY <1>11, <2>1 DEF Seen
<1>15. pc' \in [Thread -> PC] /\ pc'[t] = "copying" /\ \A x \in Thread \ {t} : pc'[x] = pc[x]
  BY <1>1, <1>4 DEF PC
<1>16. LifeKernel'
  BY <1>3, <1>4, <1>5, <1>9, <1>12, <1>13, <1>14, <1>15 DEF LifeKernel
<1>17. LifeCalls'
  <2>1. /\ \A x \in Thread : victim'[x] = IF x = t THEN u ELSE victim[x]
        /\ \A x \in Thread : stage'[x] = IF x = t THEN "removed" ELSE stage[x]
        /\ victim' \in [Thread -> Thread \cup {NONE}]
        /\ stage' \in [Thread -> {"none", "removed", "untimed", "closed"}]
    BY <1>1, <1>2, <1>5, <1>6 DEF LifeCalls
  <2>2. u # NONE
    BY <1>5, ThreadLifeAssumption
  <2>. QED
    BY <1>2, <1>5, <1>6, <1>12, <1>15, <2>1, <2>2 DEF LifeCalls
<1>18. LifeGraves'
  <2>1. Range(defunct) \in SUBSET Thread /\ freed \in SUBSET Thread
    BY <1>6, ListRange DEF LifeGraves
  <2>. QED
    BY <1>1, <1>2, <1>6, <1>12, <1>13, <2>1 DEF LifeGraves
<1>. QED
  BY <1>16, <1>17, <1>18 DEF LifeInv

\* What every later step of a delete finds
LEMMA InDeleteFacts ==
  ASSUME LifeInv, NEW t \in Thread, NEW s \in {"removed", "untimed", "closed"}, InDelete(t, s)
  PROVE  /\ k.cur = t /\ pc[t] = "copying" /\ k.stat[t] = "READY" /\ stage[t] = s
         /\ victim[t] \in Thread /\ victim[t] \in Victims /\ victim[t] # t
         /\ victim[t] \in Condemned /\ Seen(k).stat[victim[t]] = "CLOSE" /\ k.timer[victim[t]] = 0
<1>1. k.cur = t /\ stage[t] = s /\ k.cur \notin Condemned
  BY DEF InDelete, Running, LifeInv, LifeKernel
<1>2. LifeCalls
  BY DEF LifeInv
<1>3. victim[t] \in Thread /\ victim[t] \in Victims /\ pc[t] = "copying"
  BY <1>1, <1>2 DEF LifeCalls
<1>4. k.stat[t] = "READY"
  BY <1>1, <1>3 DEF LifeInv, LifeKernel
<1>5. victim[t] \in Condemned
  BY <1>3 DEF Condemned
<1>6. Seen(k).stat = Mask(k.stat) /\ KernelOK(Seen(k)) /\ Seen(k).timer = k.timer
  BY SeenFacts DEF LifeInv
<1>7. Seen(k).stat[victim[t]] = "CLOSE"
  BY <1>3, <1>5, <1>6 DEF Mask
<1>8. k.timer[victim[t]] = 0
  BY <1>3, <1>6, <1>7 DEF KernelOK, TimersOfSuspended
<1>. QED
  BY <1>1, <1>3, <1>4, <1>5, <1>7, <1>8

\* The second step, which finds the timer stopped
LEMMA DeleteTimerKeeps ==
  ASSUME LifeInv, NEW t \in Thread, DeleteTimer(t)
  PROVE  LifeInv'
<1>1. /\ InDelete(t, "removed") /\ k' = [k EXCEPT !.timer[victim[t]] = 0]
      /\ stage' = [stage EXCEPT ![t] = "untimed"]
      /\ pc' = pc /\ defunct' = defunct /\ freed' = freed /\ victim' = victim
  BY DEF DeleteTimer, Step
<1>2. stage[t] = "removed" /\ k.timer[victim[t]] = 0
  BY <1>1, InDeleteFacts
<1>3. k' = k
  <2>1. k.timer \in [Thread -> Nat] /\ k \in KernelType
    BY KernelTypeFields DEF LifeInv, LifeKernel
  <2>2. [k.timer EXCEPT ![victim[t]] = 0] = k.timer
    BY <1>2, <2>1
  <2>3. k' = [k EXCEPT !.timer = [k.timer EXCEPT ![victim[t]] = 0]]
    BY <1>1
  <2>. QED
    BY <2>1, <2>2, <2>3 DEF KernelType
<1>4. Condemned' = Condemned
  BY <1>1 DEF Condemned
<1>5. LifeKernel'
  BY <1>1, <1>3, <1>4 DEF LifeInv, LifeKernel, Seen, Mask
<1>6. LifeCalls'
  <2>1. LifeCalls
    BY DEF LifeInv
  <2>2. /\ \A x \in Thread : stage'[x] = IF x = t THEN "untimed" ELSE stage[x]
        /\ stage' \in [Thread -> {"none", "removed", "untimed", "closed"}]
    BY <1>1, <2>1 DEF LifeCalls
  <2>. QED
    BY <1>1, <1>2, <1>3, <2>1, <2>2 DEF LifeCalls
<1>7. LifeGraves'
  BY <1>1, <1>3, <1>4 DEF LifeInv, LifeGraves
<1>. QED
  BY <1>5, <1>6, <1>7 DEF LifeInv

\* The third step
LEMMA DeleteCloseKeeps ==
  ASSUME LifeInv, NEW t \in Thread, DeleteClose(t)
  PROVE  LifeInv'
<1>. DEFINE J == Seen(k)
            v == victim[t]
            g == [k.stat EXCEPT ![v] = "CLOSE"]
<1>0. /\ J \in KernelType /\ IsKernel(J) /\ KernelOK(J) /\ J.stat = Mask(k.stat)
      /\ k.stat \in [Thread -> Stat] /\ k = WithStat(J, k.stat)
      /\ J.timer = k.timer /\ J.cur = k.cur /\ J.lock = 0
  BY SeenFacts DEF LifeInv
<1>1. /\ InDelete(t, "untimed") /\ k' = [k EXCEPT !.stat[v] = "CLOSE"]
      /\ stage' = [stage EXCEPT ![t] = "closed"]
      /\ pc' = pc /\ defunct' = defunct /\ freed' = freed /\ victim' = victim
  BY DEF DeleteClose, Step
<1>2. /\ k.cur = t /\ k.stat[t] = "READY" /\ stage[t] = "untimed" /\ v \in Thread /\ v # t
      /\ v \in Condemned
  BY <1>1, InDeleteFacts
<1>3. /\ pc \in [Thread -> PC] /\ \A x \in Thread \ Sleepers : k.timer[x] = 0
      /\ k.cur \notin Condemned /\ LifeCalls /\ LifeGraves
  BY DEF LifeInv, LifeKernel
<1>. HIDE DEF J, v
<1>4. g \in [Thread -> Stat] /\ J.stat = Mask(g)
  BY <1>0, <1>2 DEF Mask, Stat
<1>5. g[v] = "CLOSE" /\ \A x \in Thread : k.stat[x] = "CLOSE" => g[x] = "CLOSE"
  BY <1>0, <1>2
<1>6. k' = WithStat(J, g)
  <2>1. k' = [k EXCEPT !.stat = g]
    BY <1>1
  <2>. HIDE DEF g
  <2>2. WithStat(WithStat(J, k.stat), g) = WithStat(J, g)
    BY <1>0, WithStatFields
  <2>. QED
    BY <1>0, <2>1, <2>2 DEF WithStat
<1>7. J.stat[J.cur] = "READY"
  BY <1>0, <1>2, <1>3 DEF Mask
<1>. HIDE DEF g
<1>8. LifeKernel' /\ Condemned' = Condemned /\ k'.stat = g
  BY <1>0, <1>1, <1>3, <1>4, <1>6, <1>7, RejoinKernel
<1>9. k'.cur = k.cur
  BY <1>0, <1>6, WithStatFields
<1>10. LifeCalls'
  <2>1. /\ \A x \in Thread : stage'[x] = IF x = t THEN "closed" ELSE stage[x]
        /\ stage' \in [Thread -> {"none", "removed", "untimed", "closed"}]
    BY <1>1, <1>3 DEF LifeCalls
  <2>2. \A x \in Thread : stage'[x] = "closed" => k'.stat[victim[x]] = "CLOSE"
    <3>1. \A x \in Thread : stage[x] = "closed" => victim[x] \in Thread /\ k.stat[victim[x]] = "CLOSE"
      BY <1>3 DEF LifeCalls
    <3>. QED
      BY <1>5, <1>8, <2>1, <3>1 DEF v
  <2>. QED
    BY <1>1, <1>2, <1>3, <2>1, <2>2 DEF LifeCalls
<1>11. LifeGraves'
  <2>1. Range(defunct) \in SUBSET Thread /\ freed \in SUBSET Thread
    BY <1>3, ListRange DEF LifeGraves
  <2>. QED
    BY <1>1, <1>3, <1>5, <1>8, <1>9, <2>1 DEF LifeGraves
<1>. QED
  BY <1>8, <1>10, <1>11 DEF LifeInv

\* The last step: the thread is on no list of the scheduler, its state says so
\* too, and it goes to the defunct list.
LEMMA DeleteEndKeeps ==
  ASSUME LifeInv, NEW t \in Thread, DeleteEnd(t)
  PROVE  LifeInv'
<1>. DEFINE v == victim[t]
<1>1. /\ InDelete(t, "closed") /\ k' = k /\ freed' = freed
      /\ defunct' = IF v \in Static THEN defunct ELSE <<v>> \o defunct
      /\ victim' = [victim EXCEPT ![t] = NONE] /\ stage' = [stage EXCEPT ![t] = "none"]
      /\ pc' = [pc EXCEPT ![t] = "run"]
  BY DEF DeleteEnd, Goto, Step, Buried
<1>2. /\ k.cur = t /\ k.stat[t] = "READY" /\ stage[t] = "closed" /\ v \in Thread /\ v # t
      /\ v \in Condemned
  BY <1>1, InDeleteFacts
<1>3. LifeKernel /\ LifeCalls /\ LifeGraves
  BY DEF LifeInv
<1>4. k.stat[v] = "CLOSE" /\ k.stat \in [Thread -> Stat]
  BY <1>2, <1>3, SeenFacts DEF LifeCalls
<1>5. /\ \A x \in Thread : victim'[x] = IF x = t THEN NONE ELSE victim[x]
      /\ \A x \in Thread : stage'[x] = IF x = t THEN "none" ELSE stage[x]
      /\ victim' \in [Thread -> Thread \cup {NONE}]
      /\ stage' \in [Thread -> {"none", "removed", "untimed", "closed"}]
  BY <1>1, <1>3 DEF LifeCalls
<1>6. \A x \in Thread : x \in Condemned' <=> x \in Condemned /\ x # v
  BY <1>2, <1>3, <1>5, ThreadLifeAssumption DEF Condemned, LifeCalls
<1>7. /\ pc' \in [Thread -> PC] /\ \A x \in Thread \ {t} : pc'[x] = pc[x]
  BY <1>1, <1>3 DEF LifeKernel, PC
<1>8. LifeKernel'
  <2>1. Mask(k.stat)' = Mask(k.stat)
    BY <1>1, <1>4, <1>6 DEF Mask
  <2>2. Seen(k)' = Seen(k)
    BY <1>1, <2>1 DEF Seen
  <2>. QED
    BY <1>1, <1>2, <1>3, <1>6, <1>7, <2>2 DEF LifeKernel
<1>9. LifeCalls'
  BY <1>1, <1>2, <1>3, <1>5, <1>7 DEF LifeCalls
<1>10. LifeGraves'
  <2>1. v \notin Range(defunct) /\ v \notin freed /\ Range(defunct) \in SUBSET Thread
    BY <1>2, <1>3, ListRange DEF LifeGraves
  <2>2. /\ defunct' \in Seq(Thread) /\ IsInjective(defunct')
        /\ Range(defunct') \in SUBSET (Range(defunct) \cup {v})
    BY <1>1, <1>2, <1>3, <2>1, PushList DEF LifeGraves
  <2>3. \A x \in Range(defunct') : x \notin freed /\ x \notin Condemned' /\ k.stat[x] = "CLOSE"
    BY <1>2, <1>3, <1>4, <1>6, <2>1, <2>2 DEF LifeGraves
  <2>4. \A x \in freed : x \notin Condemned' /\ k.stat[x] = "CLOSE"
    BY <1>3, <1>6 DEF LifeGraves
  <2>. QED
    BY <1>1, <1>3, <2>2, <2>3, <2>4 DEF LifeGraves
<1>. QED
  BY <1>8, <1>9, <1>10 DEF LifeInv

\* rt_thread_idle_excute
LEMMA IdleKeeps ==
  ASSUME LifeInv, Collect
  PROVE  LifeInv'
<1>. DEFINE h == Head(defunct)
<1>1. /\ k.cur = Idle /\ defunct # << >> /\ defunct' = Tail(defunct)
      /\ freed' = freed \cup {h}
      /\ k' = k /\ pc' = pc /\ victim' = victim /\ stage' = stage
  BY DEF Collect, Running
<1>2. LifeKernel /\ LifeCalls /\ LifeGraves
  BY DEF LifeInv
<1>3. Condemned' = Condemned
  BY <1>1 DEF Condemned
<1>4. LifeKernel'
  BY <1>1, <1>2, <1>3 DEF LifeKernel, Seen, Mask
<1>5. LifeCalls'
  BY <1>1, <1>2 DEF LifeCalls
<1>6. LifeGraves'
  <2>1. /\ Tail(defunct) \in Seq(Thread) /\ IsInjective(Tail(defunct)) /\ h \in Range(defunct)
        /\ Range(Tail(defunct)) = Range(defunct) \ {h} /\ Range(defunct) \in SUBSET Thread
    BY <1>1, <1>2, TailList, ListRange DEF LifeGraves
  <2>2. k.stat[Idle] = "READY"
    <3>1. Seen(k).stat[Idle] = "READY" /\ Seen(k).stat = Mask(k.stat)
      BY <1>2, SeenFacts DEF KernelOK
    <3>. QED
      BY <3>1, KernelAssumption DEF Mask
  <2>3. h # Idle
    BY <1>2, <2>1, <2>2 DEF LifeGraves
  <2>. QED
    BY <1>1, <1>2, <1>3, <2>1, <2>3 DEF LifeGraves
<1>. QED
  BY <1>4, <1>5, <1>6 DEF LifeInv

-----------------------------------------------------------------------------
LEMMA LifeNextInv ==
  ASSUME LifeInv, Victims \cap Sleepers = {}, [LifeNext]_lifeSystem
  PROVE  LifeInv'
<1>1. ASSUME NEW t \in Thread, Startup(t) PROVE LifeInv'
  BY <1>1, StartupKeeps
<1>2. ASSUME NEW t \in Thread, Exit(t) PROVE LifeInv'
  BY <1>2, ExitKeeps
<1>3. ASSUME NEW t \in Thread, DeleteRemove(t) PROVE LifeInv'
  BY <1>3, DeleteRemoveKeeps
<1>4. ASSUME NEW t \in Thread, DeleteTimer(t) PROVE LifeInv'
  BY <1>4, DeleteTimerKeeps
<1>5. ASSUME NEW t \in Thread, DeleteClose(t) PROVE LifeInv'
  BY <1>5, DeleteCloseKeeps
<1>6. ASSUME NEW t \in Thread, DeleteEnd(t) PROVE LifeInv'
  BY <1>6, DeleteEndKeeps
<1>7. ASSUME NEW t \in Thread, WaitAtGate(t) PROVE LifeInv'
  BY <1>7, WaitKeeps
<1>8. ASSUME NEW t \in Thread, OpenGate(t) PROVE LifeInv'
  BY <1>8, GateKeeps
<1>9. ASSUME NEW t \in Thread, Return(t) PROVE LifeInv'
  <2>1. UNCHANGED lifeVars
    BY <1>9 DEF Return
  <2>. QED
    BY <1>9, <2>1, ReturnKeeps
<1>10. ASSUME NEW t \in Sleepers, Sleep(t), UNCHANGED lifeVars PROVE LifeInv'
  BY <1>10, SleepKeeps
<1>11. ASSUME NEW t \in Thread, SleepReturn(t) \/ CallSchedule(t), UNCHANGED lifeVars
       PROVE  LifeInv'
  BY <1>11, ReturnKeeps
<1>12. CASE Collect
  BY <1>12, IdleKeeps
<1>13. CASE Tick /\ UNCHANGED lifeVars
  BY <1>13, TickKeeps
<1>14. CASE TimerFires /\ UNCHANGED lifeVars
  BY <1>14, TimerKeeps
<1>15. CASE UNCHANGED lifeSystem
  BY <1>15 DEF lifeSystem, lifeVars, LifeInv, LifeKernel, LifeCalls, LifeGraves, Condemned, Seen, Mask
<1>. QED
  BY <1>1, <1>2, <1>3, <1>4, <1>5, <1>6, <1>7, <1>8, <1>9, <1>10, <1>11, <1>12, <1>13, <1>14, <1>15
     DEF LifeNext

\* What the invariant says of a closed thread
LEMMA ClosedOff ==
  ASSUME LifeInv, NEW t \in Thread, k.stat[t] = "CLOSE"
  PROVE  ~ Linked(t) /\ k.timer[t] = 0
<1>. DEFINE J == Seen(k)
<1>1. /\ J \in KernelType /\ KernelOK(J) /\ J.stat = Mask(k.stat)
      /\ J.wait = k.wait /\ J.timer = k.timer
  BY SeenFacts DEF LifeInv
<1>2. J.ready = k.ready
  BY KernelShape, WithStatFields DEF LifeInv, LifeKernel, Seen
<1>. HIDE DEF J
<1>3. J.stat[t] = "CLOSE"
  BY <1>1 DEF Mask
<1>4. \A p \in Prio : t \notin Range(k.ready[p])
  BY <1>1, <1>2, <1>3 DEF KernelOK, ReadyLists
<1>5. t \notin Waiting
  BY <1>1, <1>3 DEF KernelOK, WaitLists, Waiting
<1>6. k.timer[t] = 0
  BY <1>1, <1>3 DEF KernelOK, TimersOfSuspended
<1>. QED
  BY <1>4, <1>5, <1>6 DEF Linked

LEMMA LifeInvHolds ==
  ASSUME Victims \cap Sleepers = {}
  PROVE  LifeSpec => []LifeInv
<1>1. LifeInv /\ [LifeNext]_lifeSystem => LifeInv'
  BY LifeNextInv
<1>. QED
  BY <1>1, LifeInitInv, PTL DEF LifeSpec

\* When nobody is inside rt_thread_delete, the ready lists, the bitmap, the
\* suspend lists, the timers and the states agree, whatever was deleted, exited,
\* woken or timed out before.  The hypothesis keeps rt_thread_delete away from
\* threads whose timer can run: MCThreadLifeTimed shows what happens to those.
THEOREM KernelSettledHolds ==
  ASSUME Victims \cap Sleepers = {}
  PROVE  LifeSpec => []KernelSettled
<1>1. LifeInv => KernelSettled
  <2>. SUFFICES ASSUME LifeInv, \A t \in Thread : victim[t] = NONE PROVE KernelOK(k)
    BY DEF KernelSettled
  <2>1. Condemned = {}
    BY ThreadLifeAssumption DEF Condemned
  <2>2. k \in KernelType /\ KernelOK(Seen(k)) /\ IsKernel(k) /\ k.stat \in [Thread -> Stat]
    BY KernelShape DEF LifeInv, LifeKernel
  <2>3. Mask(k.stat) = k.stat
    BY <2>1, <2>2 DEF Mask
  <2>. QED
    BY <2>2, <2>3, WithStatFields DEF Seen
<1>. QED
  BY <1>1, LifeInvHolds, PTL

\* A closed thread is on no ready list and no suspend list, and its timer does
\* not run: no step between the four of rt_thread_delete puts it back.
THEOREM ClosedOffQueuesHolds ==
  ASSUME Victims \cap Sleepers = {}
  PROVE  LifeSpec => []ClosedOffQueues
<1>1. LifeInv => ClosedOffQueues
  BY ClosedOff DEF ClosedOffQueues
<1>. QED
  BY <1>1, LifeInvHolds, PTL

\* What rt_thread_idle_excute frees is not current, on no list, without a timer
\* and nobody's victim, and it is never freed twice.
THEOREM FreedNotInUseHolds ==
  ASSUME Victims \cap Sleepers = {}
  PROVE  LifeSpec => []FreedNotInUse
<1>1. LifeInv => FreedNotInUse
  <2>. SUFFICES ASSUME LifeInv PROVE FreedNotInUse
    OBVIOUS
  <2>1. LifeGraves
    BY DEF LifeInv
  <2>2. \A t \in freed : /\ t \in Thread /\ k.stat[t] = "CLOSE" /\ k.cur # t
                         /\ t \notin Range(defunct) /\ t \notin Condemned
    BY <2>1 DEF LifeGraves
  <2>3. \A t \in freed : ~ Linked(t) /\ k.timer[t] = 0
    BY <2>2, ClosedOff
  <2>4. \A t \in freed, u \in Thread : victim[u] # t
    BY <2>2 DEF Condemned
  <2>5. IsInjective(defunct) /\ \A t \in Range(defunct) : k.stat[t] = "CLOSE"
    BY <2>1 DEF LifeGraves
  <2>. QED
    BY <2>2, <2>3, <2>4, <2>5 DEF FreedNotInUse
<1>. QED
  BY <1>1, LifeInvHolds, PTL

-----------------------------------------------------------------------------
(* The event.  A send is one walk of Serve over the suspend list, so its    *)
(* proof is an induction over the walk inside an induction over the steps.  *)

\* g is what the walk of a send has made of the event, place by place.
WalkOf(g, m, bits) ==
    g = [n \in 0 .. m |-> IF n = 0 THEN Offered(bits) ELSE Serve(g[n - 1], EventWaiters[n])]

\* There is such a walk: the first place with none would have the walk up to
\* the place before it to go on from.
LEMMA WalkExists ==
  ASSUME NEW bits, NEW N \in Nat
  PROVE  \E g : WalkOf(g, N, bits)
<1>. DEFINE Missing == {m \in 0 .. N : ~ \E g : WalkOf(g, m, bits)}
            m == Min(Missing)
<1>1. SUFFICES Missing = {}
  OBVIOUS
<1>2. SUFFICES ASSUME Missing # {} PROVE FALSE
  OBVIOUS
<1>3. m \in Missing /\ \A x \in Missing : m <= x
  <2>1. Missing \in SUBSET (0 .. N)
    OBVIOUS
  <2>. HIDE DEF Missing
  <2>. QED
    BY <1>2, <2>1, MinOfRange
<1>. HIDE DEF m
<1>4. m \in 0 .. N /\ ~ \E g : WalkOf(g, m, bits)
  BY <1>3
<1>5. CASE m = 0
  <2>. DEFINE h == [n \in 0 .. 0 |-> Offered(bits)]
  <2>1. WalkOf(h, 0, bits)
    <3>1. \A n \in 0 .. 0 : n = 0
      OBVIOUS
    <3>. QED
      BY <3>1 DEF WalkOf
  <2>. QED
    BY <1>4, <1>5, <2>1
<1>6. CASE m # 0
  <2>1. m - 1 \in 0 .. N /\ m - 1 \notin Missing
    <3>1. m - 1 \in 0 .. N /\ ~ (m <= m - 1)
      BY <1>4, <1>6
    <3>. QED
      BY <1>3, <3>1
  <2>2. PICK g : WalkOf(g, m - 1, bits)
    BY <2>1
  <2>. DEFINE h == [n \in 0 .. m |-> IF n < m THEN g[n]
                                     ELSE Serve(g[m - 1], EventWaiters[m])]
  <2>3. ASSUME NEW n \in 0 .. m
        PROVE  h[n] = IF n = 0 THEN Offered(bits) ELSE Serve(h[n - 1], EventWaiters[n])
    <3>1. CASE n = m
      <4>1. m - 1 \in 0 .. m /\ m - 1 < m /\ ~ (m < m) /\ n # 0
        BY <1>4, <1>6, <3>1
      <4>2. h[m - 1] = g[m - 1] /\ h[n] = Serve(g[m - 1], EventWaiters[m])
        BY <3>1, <4>1
      <4>. QED
        BY <3>1, <4>1, <4>2
    <3>2. CASE n # m
      <4>1. n \in 0 .. m - 1 /\ n < m /\ (n # 0 => n - 1 \in 0 .. m /\ n - 1 < m)
        BY <1>4, <3>2
      <4>2. h[n] = g[n] /\ (n # 0 => h[n - 1] = g[n - 1])
        BY <4>1
      <4>3. g[n] = IF n = 0 THEN Offered(bits) ELSE Serve(g[n - 1], EventWaiters[n])
        BY <2>2, <4>1 DEF WalkOf
      <4>. HIDE DEF h
      <4>. QED
        BY <4>2, <4>3
    <3>. QED
      BY <3>1, <3>2
  <2>4. h = [n \in 0 .. m |-> h[n]]
    OBVIOUS
  <2>. HIDE DEF h
  <2>5. h = [n \in 0 .. m |-> IF n = 0 THEN Offered(bits) ELSE Serve(h[n - 1], EventWaiters[n])]
    BY <2>3, <2>4
  <2>. QED
    BY <1>4, <2>5 DEF WalkOf
<1>. QED
  BY <1>5, <1>6

LEMMA WalkEnds ==
  ASSUME NEW bits, Len(EventWaiters) \in Nat
  PROVE  \E g : WalkOf(g, Len(EventWaiters), bits) /\ ServeAll(bits) = g[Len(EventWaiters)]
<1>. DEFINE g == CHOOSE f : WalkOf(f, Len(EventWaiters), bits)
<1>1. WalkOf(g, Len(EventWaiters), bits)
  BY WalkExists
<1>2. ServeAll(bits) = g[Len(EventWaiters)]
  BY Zenon DEF ServeAll, WalkOf
<1>. HIDE DEF g
<1>. QED
  BY <1>1, <1>2

-----------------------------------------------------------------------------
\* The invariant of the steps.  Of a thread that waits, event_set is still
\* what it asked for, and whatever of that is set now it has seen: so what a
\* send will give it is real.
Info == [mode : {"AND", "OR"}, clear : BOOLEAN]

EventType ==
    /\ set \in SUBSET Bit
    /\ event_set \in [Thread -> SUBSET Bit]
    /\ event_info \in [Thread -> Info]
    /\ asked \in [Thread -> SUBSET Bit]
    /\ seen \in [Thread -> SUBSET Bit]
    /\ sends \in [Bit -> Int]

StillAsking ==
    \A t \in Waiting :
        /\ event_set[t] = asked[t] /\ asked[t] # {}
        /\ set \cap asked[t] \subseteq seen[t]

EventInv ==
    /\ ThreadsOK
    /\ EventType
    /\ StillAsking
    /\ NoSatisfiedWaiter
    /\ ReceivedIsReal
    /\ ClearedOnce

LEMMA EventWaiting ==
  ASSUME k \in KernelType
  PROVE  /\ Ev \in WaitList /\ Waiting = Range(EventWaiters) /\ Waiting \in SUBSET Thread
         /\ EventWaiters \in Seq(Thread)
<1>1. Waiting = Range(EventWaiters)
  BY EventAssumption DEF Waiting, EventWaiters
<1>. QED
  BY <1>1, WaitingType, EventAssumption DEF EventWaiters

(* The invariant of the walk of a send of some bits. *)

WalkType == [k : KernelType, set : SUBSET Bit, event_set : [Thread -> SUBSET Bit],
             sends : [Bit -> Int]]

\* The waiters the walk has resumed so far.
Off(K) == Waiting \ Range(K.wait[Ev])

\* The kernel after resuming some waiters.
WalkKernel(K) ==
    /\ K \in KernelType /\ KernelOK(K)
    /\ K.error = k.error /\ K.due = k.due /\ K.cur = k.cur /\ K.lock = k.lock
    /\ Range(K.wait[Ev]) \subseteq Waiting
    /\ \A t \in Thread : K.stat[t] = IF t \in Off(K) THEN "READY" ELSE k.stat[t]

\* What the waiters have got and what is left for the others.
WalkBits(w, bits) ==
    /\ w.set \subseteq set \cup bits
    /\ \A t \in Thread \ Off(w.k) : w.event_set[t] = event_set[t]
    /\ \A t \in Off(w.k) :
          /\ w.event_set[t] # {} /\ w.event_set[t] \subseteq event_set[t] \cap (set \cup bits)
          /\ event_info[t].mode = "AND" => w.event_set[t] = event_set[t]
    /\ \A b \in Bit : w.sends[b] >= (IF b \in w.set THEN 1 ELSE 0)

\* Of the first n waiters only those are left that the bits do not satisfy;
\* the others wait as before.
WalkPlace(w, n) ==
    \A i \in 1 .. Len(EventWaiters) :
        IF i <= n
        THEN EventWaiters[i] \in Range(w.k.wait[Ev]) =>
               ~ Satisfied(w.set, event_info[EventWaiters[i]].mode, event_set[EventWaiters[i]])
        ELSE EventWaiters[i] \in Range(w.k.wait[Ev])

WalkInv(w, n, bits) ==
    w \in WalkType /\ WalkKernel(w.k) /\ WalkBits(w, bits) /\ WalkPlace(w, n)

LEMMA OfferedInv ==
  ASSUME EventInv, NEW bits \in SUBSET Bit
  PROVE  WalkInv(Offered(bits), 0, bits)
<1>. DEFINE w == Offered(bits)
<1>1. /\ w.k = k /\ w.set = set \cup bits /\ w.event_set = event_set
      /\ w.sends = [b \in Bit |-> IF b \in bits THEN sends[b] + 1 ELSE sends[b]]
      /\ w = [k |-> w.k, set |-> w.set, event_set |-> w.event_set, sends |-> w.sends]
  BY DEF Offered
<1>. HIDE DEF w
<1>2. k \in KernelType /\ KernelOK(k) /\ EventType /\ ClearedOnce
  BY DEF EventInv, ThreadsOK
<1>3. w.sends \in [Bit -> Int]
  BY <1>1, <1>2 DEF EventType
<1>4. w \in WalkType
  BY <1>1, <1>2, <1>3 DEF EventType, WalkType
<1>5. Off(w.k) = {} /\ Range(w.k.wait[Ev]) = Waiting
  BY <1>1, <1>2, EventWaiting DEF Off, EventWaiters
<1>6. WalkKernel(w.k)
  BY <1>1, <1>2, <1>5 DEF WalkKernel
<1>7. \A b \in Bit : w.sends[b] >= (IF b \in w.set THEN 1 ELSE 0)
  <2>1. ASSUME NEW b \in Bit PROVE w.sends[b] >= (IF b \in w.set THEN 1 ELSE 0)
    <3>1. /\ sends[b] \in Int /\ sends[b] >= (IF b \in set THEN 1 ELSE 0)
          /\ w.sends[b] = IF b \in bits THEN sends[b] + 1 ELSE sends[b]
          /\ b \in w.set <=> b \in set \/ b \in bits
      BY <1>1, <1>2 DEF EventType, ClearedOnce
    <3>. QED
      BY <3>1
  <2>. QED
    BY <2>1
<1>8. WalkBits(w, bits)
  BY <1>1, <1>5, <1>7 DEF WalkBits
<1>9. WalkPlace(w, 0)
  <2>1. ASSUME NEW i \in 1 .. Len(EventWaiters)
        PROVE  ~ (i <= 0) /\ EventWaiters[i] \in Range(w.k.wait[Ev])
    <3>1. EventWaiters[i] \in Range(EventWaiters)
      BY <1>2, EventWaiting DEF Range
    <3>. QED
      BY <1>2, <1>5, <3>1, EventWaiting
  <2>. QED
    BY <2>1 DEF WalkPlace
<1>. QED
  BY <1>4, <1>6, <1>8, <1>9 DEF WalkInv, w

\* The bits that satisfy nobody do not when there are fewer of them.
LEMMA SatisfiedLess ==
  ASSUME NEW S, NEW T \in SUBSET S, NEW mode, NEW bits, Satisfied(T, mode, bits)
  PROVE  Satisfied(S, mode, bits)
BY DEF Satisfied

\* The walk at its next waiter.
LEMMA ServeInv ==
  ASSUME EventInv, k.due = {}, NEW bits \in SUBSET Bit, NEW w,
         NEW n \in 1 .. Len(EventWaiters), WalkInv(w, n - 1, bits)
  PROVE  WalkInv(Serve(w, EventWaiters[n]), n, bits)
<1>. DEFINE t == EventWaiters[n]
            v == Serve(w, t)
<1>0. /\ k \in KernelType /\ KernelOK(k) /\ EventType /\ Len(EventWaiters) \in Nat
      /\ IsInjective(EventWaiters) /\ \A u \in Waiting : k.stat[u] = "SUSPEND"
  <2>1. k \in KernelType /\ KernelOK(k) /\ EventType
    BY DEF EventInv, ThreadsOK
  <2>2. IsInjective(EventWaiters) /\ \A u \in Waiting : k.stat[u] = "SUSPEND"
    BY <2>1, EventWaiting DEF KernelOK, WaitLists, EventWaiters
  <2>. QED
    BY <2>1, <2>2, EventWaiting
<1>1. /\ t \in Waiting /\ t \in Thread
      /\ \A i \in 1 .. Len(EventWaiters) : EventWaiters[i] = t => i = n
  <2>1. EventWaiters \in Seq(Thread) /\ Waiting = Range(EventWaiters) /\ Waiting \in SUBSET Thread
    BY <1>0, EventWaiting
  <2>2. t \in Range(EventWaiters)
    BY <2>1 DEF Range
  <2>3. \A i \in 1 .. Len(EventWaiters) : EventWaiters[i] = t => i = n
    BY <1>0, <2>1 DEF IsInjective
  <2>. QED
    BY <2>1, <2>2, <2>3
<1>. HIDE DEF t
<1>2. /\ w \in WalkType /\ WalkKernel(w.k) /\ WalkBits(w, bits) /\ WalkPlace(w, n - 1)
      /\ w.k \in KernelType /\ w.set \in SUBSET Bit /\ w.event_set \in [Thread -> SUBSET Bit]
      /\ w.sends \in [Bit -> Int]
      /\ w = [k |-> w.k, set |-> w.set, event_set |-> w.event_set, sends |-> w.sends]
  BY DEF WalkInv, WalkType
<1>3. /\ t \in Range(w.k.wait[Ev]) /\ t \notin Off(w.k)
      /\ w.event_set[t] = event_set[t] /\ event_info[t] \in Info
  <2>1. ~ (n <= n - 1)
    BY <1>0
  <2>2. t \in Range(w.k.wait[Ev])
    BY <1>2, <2>1 DEF WalkPlace, t
  <2>. QED
    BY <1>0, <1>1, <1>2, <2>2 DEF Off, WalkBits, EventType
<1>4. CASE ~ Satisfied(w.set, event_info[t].mode, w.event_set[t])
  <2>1. v = w
    BY <1>4 DEF Serve
  <2>2. WalkPlace(w, n)
    <3>1. ASSUME NEW i \in 1 .. Len(EventWaiters)
          PROVE  IF i <= n
                 THEN EventWaiters[i] \in Range(w.k.wait[Ev]) =>
                        ~ Satisfied(w.set, event_info[EventWaiters[i]].mode, event_set[EventWaiters[i]])
                 ELSE EventWaiters[i] \in Range(w.k.wait[Ev])
      <4>1. i = n \/ (i <= n <=> i <= n - 1)
        BY <1>0
      <4>2. CASE i = n
        BY <1>0, <1>3, <1>4, <4>2 DEF t
      <4>3. CASE i <= n <=> i <= n - 1
        BY <1>2, <4>3 DEF WalkPlace
      <4>. QED
        BY <4>1, <4>2, <4>3
    <3>. QED
      BY <3>1 DEF WalkPlace
  <2>. QED
    BY <1>2, <2>1, <2>2 DEF WalkInv, t
<1>5. CASE Satisfied(w.set, event_info[t].mode, w.event_set[t])
  <2>. DEFINE got == event_set[t] \cap w.set
              K == Resume(w.k, t)
              gone == IF event_info[t].clear THEN got ELSE {}
  <2>1. /\ v \in [k : {K}, set : {w.set \ gone}, event_set : {[w.event_set EXCEPT ![t] = got]},
                  sends : {[b \in Bit |-> IF b \in gone THEN w.sends[b] - 1 ELSE w.sends[b]]}]
    <3>1. v = [w EXCEPT !.event_set[t] = got,
                        !.set = IF event_info[t].clear THEN @ \ got ELSE @,
                        !.sends = IF event_info[t].clear THEN Cleared(@, got) ELSE @,
                        !.k = Resume(@, t)]
      BY <1>3, <1>5 DEF Serve
    <3>2. v = [k |-> K,
               set |-> IF event_info[t].clear THEN w.set \ got ELSE w.set,
               event_set |-> [w.event_set EXCEPT ![t] = got],
               sends |-> IF event_info[t].clear THEN Cleared(w.sends, got) ELSE w.sends]
      <4>. HIDE DEF got, v
      <4>. QED
        BY <1>2, <3>1
    <3>3. /\ (IF event_info[t].clear THEN w.set \ got ELSE w.set) = w.set \ gone
          /\ (IF event_info[t].clear THEN Cleared(w.sends, got) ELSE w.sends)
               = [b \in Bit |-> IF b \in gone THEN w.sends[b] - 1 ELSE w.sends[b]]
      <4>1. CASE event_info[t].clear
        BY <4>1 DEF Cleared
      <4>2. CASE ~ event_info[t].clear
        BY <1>2, <4>2
      <4>. QED
        BY <4>1, <4>2
    <3>. HIDE DEF v, gone
    <3>. QED
      BY <3>2, <3>3
  <2>2. /\ v.k = K /\ v.set = w.set \ gone /\ v.event_set = [w.event_set EXCEPT ![t] = got]
        /\ v.sends = [b \in Bit |-> IF b \in gone THEN w.sends[b] - 1 ELSE w.sends[b]]
        /\ v = [k |-> v.k, set |-> v.set, event_set |-> v.event_set, sends |-> v.sends]
    <3>. HIDE DEF v, gone, K, got
    <3>. QED
      BY <2>1
  <2>3. gone \subseteq got /\ got \in SUBSET Bit
    BY <1>2
  <2>. HIDE DEF v, gone
  <2>4. /\ K \in KernelType /\ KernelOK(K)
        /\ K.error = k.error /\ K.due = k.due /\ K.cur = k.cur /\ K.lock = k.lock
        /\ K.stat = [w.k.stat EXCEPT ![t] = "READY"]
        /\ Range(K.wait[Ev]) = Range(w.k.wait[Ev]) \ {t}
    <3>1. w.k.stat[t] = "SUSPEND" /\ t \notin w.k.due
      BY <1>0, <1>1, <1>2, <1>3 DEF WalkKernel
    <3>2. KernelOK(w.k)
      BY <1>2 DEF WalkKernel
    <3>3. /\ K \in KernelType /\ KernelOK(K)
          /\ K.error = w.k.error /\ K.due = w.k.due /\ K.cur = w.k.cur /\ K.lock = w.k.lock
          /\ K.stat = [w.k.stat EXCEPT ![t] = "READY"]
          /\ \A l \in WaitList : Range(K.wait[l]) = Range(w.k.wait[l]) \ {t}
      BY <1>1, <1>2, <3>1, <3>2, ResumeOK
    <3>. HIDE DEF K
    <3>. QED
      BY <1>2, <3>3, EventAssumption DEF WalkKernel
  <2>5. Off(K) = Off(w.k) \cup {t}
    BY <1>1, <1>3, <2>4 DEF Off
  <2>. HIDE DEF K
  <2>6. v \in WalkType
    <3>1. [b \in Bit |-> IF b \in gone THEN w.sends[b] - 1 ELSE w.sends[b]] \in [Bit -> Int]
      BY <1>2
    <3>2. [w.event_set EXCEPT ![t] = got] \in [Thread -> SUBSET Bit]
      BY <1>2, <2>3
    <3>. QED
      BY <1>2, <2>2, <2>4, <3>1, <3>2 DEF WalkType
  <2>7. WalkKernel(v.k)
    <3>1. Range(K.wait[Ev]) \subseteq Waiting
      BY <1>2, <2>4 DEF WalkKernel
    <3>2. w.k.stat \in [Thread -> Stat]
      BY <1>2, KernelTypeFields
    <3>3. \A u \in Thread : K.stat[u] = IF u \in Off(K) THEN "READY" ELSE k.stat[u]
      BY <1>2, <2>4, <2>5, <3>2 DEF WalkKernel
    <3>. QED
      BY <2>2, <2>4, <3>1, <3>3 DEF WalkKernel
  <2>8. got # {} /\ (event_info[t].mode = "AND" => got = event_set[t])
    <3>1. event_set[t] # {}
      BY <1>1 DEF EventInv, StillAsking
    <3>2. Satisfied(w.set, event_info[t].mode, event_set[t])
      BY <1>3, <1>5
    <3>. QED
      BY <3>1, <3>2 DEF Satisfied
  <2>9. WalkBits(v, bits)
    <3>1. v.set \subseteq set \cup bits /\ w.set \subseteq set \cup bits
      BY <1>2, <2>2 DEF WalkBits
    <3>2. \A u \in Thread : v.event_set[u] = IF u = t THEN got ELSE w.event_set[u]
      BY <1>2, <2>2
    <3>3. \A u \in Thread \ Off(v.k) : v.event_set[u] = event_set[u]
      BY <1>2, <2>2, <2>5, <3>2 DEF WalkBits
    <3>4. ASSUME NEW u \in Off(v.k)
          PROVE  /\ v.event_set[u] # {} /\ v.event_set[u] \subseteq event_set[u] \cap (set \cup bits)
                 /\ event_info[u].mode = "AND" => v.event_set[u] = event_set[u]
      <4>1. u \in Thread
        BY <1>0, EventWaiting DEF Off
      <4>2. CASE u = t
        BY <2>8, <3>1, <3>2, <4>1, <4>2
      <4>3. CASE u # t
        <5>1. u \in Off(w.k) /\ v.event_set[u] = w.event_set[u]
          BY <2>2, <2>5, <3>2, <4>1, <4>3
        <5>. QED
          BY <1>2, <5>1 DEF WalkBits
      <4>. QED
        BY <4>2, <4>3
    <3>5. ASSUME NEW b \in Bit PROVE v.sends[b] >= (IF b \in v.set THEN 1 ELSE 0)
      <4>1. w.sends[b] \in Int /\ w.sends[b] >= (IF b \in w.set THEN 1 ELSE 0)
        BY <1>2 DEF WalkBits
      <4>2. v.sends[b] = IF b \in gone THEN w.sends[b] - 1 ELSE w.sends[b]
        BY <2>2
      <4>3. (b \in gone => b \in w.set) /\ (b \in v.set <=> b \in w.set /\ b \notin gone)
        BY <2>2, <2>3
      <4>. QED
        BY <4>1, <4>2, <4>3
    <3>. QED
      BY <3>1, <3>3, <3>4, <3>5 DEF WalkBits
  <2>10. WalkPlace(v, n)
    <3>1. ASSUME NEW i \in 1 .. Len(EventWaiters)
          PROVE  IF i <= n
                 THEN EventWaiters[i] \in Range(v.k.wait[Ev]) =>
                        ~ Satisfied(v.set, event_info[EventWaiters[i]].mode, event_set[EventWaiters[i]])
                 ELSE EventWaiters[i] \in Range(v.k.wait[Ev])
      <4>1. i = n \/ (i # n /\ (i <= n <=> i <= n - 1))
        BY <1>0
      <4>2. CASE i = n
        <5>1. EventWaiters[i] \notin Range(v.k.wait[Ev]) /\ i <= n
          BY <1>0, <2>2, <2>4, <4>2 DEF t
        <5>. QED
          BY <5>1
      <4>3. CASE i # n /\ (i <= n <=> i <= n - 1)
        <5>1. EventWaiters[i] # t
          BY <1>1, <4>3
        <5>2. EventWaiters[i] \in Range(v.k.wait[Ev]) <=> EventWaiters[i] \in Range(w.k.wait[Ev])
          BY <2>2, <2>4, <5>1
        <5>3. v.set \in SUBSET w.set
          BY <2>2
        <5>. QED
          BY <1>2, <4>3, <5>2, <5>3, SatisfiedLess DEF WalkPlace
      <4>. QED
        BY <4>1, <4>2, <4>3
    <3>. QED
      BY <3>1 DEF WalkPlace
  <2>11. WalkInv(v, n, bits)
    BY <2>6, <2>7, <2>9, <2>10 DEF WalkInv
  <2>. QED
    BY <2>11 DEF v, t
<1>. QED
  BY <1>4, <1>5

LEMMA WalkEndInv ==
  ASSUME EventInv, k.due = {}, NEW bits \in SUBSET Bit
  PROVE  WalkInv(ServeAll(bits), Len(EventWaiters), bits)
<1>. DEFINE N == Len(EventWaiters)
<1>1. N \in Nat
  BY EventWaiting DEF EventInv, ThreadsOK
<1>2. PICK g : WalkOf(g, N, bits) /\ ServeAll(bits) = g[N]
  BY <1>1, WalkEnds
<1>. DEFINE Bad == {n \in 0 .. N : ~ WalkInv(g[n], n, bits)}
            m == Min(Bad)
<1>3. SUFFICES ASSUME Bad # {} PROVE FALSE
  <2>1. N \in 0 .. N
    BY <1>1
  <2>. QED
    BY <1>2, <2>1
<1>4. m \in Bad /\ \A n \in Bad : m <= n
  <2>1. Bad \in SUBSET (0 .. N)
    OBVIOUS
  <2>. HIDE DEF Bad, N
  <2>. QED
    BY <1>1, <1>3, <2>1, MinOfRange
<1>. HIDE DEF m
<1>5. m \in 0 .. N /\ ~ WalkInv(g[m], m, bits)
  BY <1>4
<1>6. g[m] = IF m = 0 THEN Offered(bits) ELSE Serve(g[m - 1], EventWaiters[m])
  BY <1>2, <1>5 DEF WalkOf
<1>7. m # 0
  BY <1>5, <1>6, OfferedInv
<1>8. m \in 1 .. N /\ m - 1 \in 0 .. N /\ ~ (m <= m - 1)
  BY <1>1, <1>5, <1>7
<1>9. WalkInv(g[m - 1], m - 1, bits)
  BY <1>4, <1>8
<1>. QED
  BY <1>5, <1>6, <1>7, <1>8, <1>9, ServeInv

-----------------------------------------------------------------------------
(* The steps of the event. *)

\* A step that leaves the event alone, and wakes nobody with RT_EOK.
LEMMA EventFrame ==
  ASSUME EventInv, ThreadsOK', UNCHANGED eventVars, Woken' \subseteq Woken,
         \A w \in WaitList : Range(k'.wait[w]) \subseteq Range(k.wait[w])
  PROVE  EventInv'
<1>1. k \in KernelType /\ k' \in KernelType
  BY DEF EventInv, ThreadsOK
<1>2. Waiting' \subseteq Waiting /\ Range(EventWaiters') \subseteq Range(EventWaiters)
  BY EventAssumption DEF Waiting, EventWaiters
<1>3. /\ set' = set /\ event_set' = event_set /\ event_info' = event_info
      /\ asked' = asked /\ seen' = seen /\ sends' = sends
  BY DEF eventVars
<1>4. EventType' /\ ClearedOnce'
  BY <1>3 DEF EventInv, EventType, ClearedOnce
<1>5. StillAsking' /\ NoSatisfiedWaiter' /\ ReceivedIsReal'
  BY <1>2, <1>3 DEF EventInv, StillAsking, NoSatisfiedWaiter, ReceivedIsReal
<1>. QED
  BY <1>4, <1>5 DEF EventInv

LEMMA EventInitInv == EventInit => EventInv
<1>. SUFFICES ASSUME EventInit PROVE EventInv
  OBVIOUS
<1>1. ThreadsInit /\ ThreadInv /\ Woken = {} /\ Waiting = {}
  BY ThreadsInitInv DEF EventInit
<1>2. ThreadsOK /\ k \in KernelType
  BY <1>1 DEF ThreadInv, ThreadsOK
<1>3. EventType /\ ClearedOnce
  BY DEF EventInit, EventType, Info, ClearedOnce
<1>4. StillAsking /\ ReceivedIsReal
  BY <1>1 DEF StillAsking, ReceivedIsReal
<1>5. NoSatisfiedWaiter
  BY <1>1, <1>2, EventWaiting DEF NoSatisfiedWaiter
<1>. QED
  BY <1>2, <1>3, <1>4, <1>5 DEF EventInv

\* Fewer bits are set than before, none of them has been lost without a
\* receiver, and the threads that wait and that are woken are no others.
LEMMA FewerBits ==
  ASSUME EventInv, ThreadsOK', Woken' \subseteq Woken, k'.wait = k.wait,
         UNCHANGED <<event_set, event_info, asked, seen>>,
         set' \subseteq set, sends' \in [Bit -> Int], ClearedOnce'
  PROVE  EventInv'
<1>1. Waiting' = Waiting /\ EventWaiters' = EventWaiters
  BY DEF Waiting, EventWaiters
<1>2. EventType'
  BY DEF EventInv, EventType
<1>3. StillAsking' /\ ReceivedIsReal'
  BY <1>1 DEF EventInv, StillAsking, ReceivedIsReal
<1>4. NoSatisfiedWaiter'
  BY <1>1, SatisfiedLess DEF EventInv, NoSatisfiedWaiter
<1>. QED
  BY <1>2, <1>3, <1>4 DEF EventInv

LEMMA RecvNowInv ==
  ASSUME EventInv, NEW t \in Thread, MayCall(t), NEW r \in Requests, RecvNow(t, r)
  PROVE  EventInv'
<1>1. /\ set' = (IF r.clear THEN set \ r.set ELSE set)
      /\ sends' = (IF r.clear THEN Cleared(sends, set \cap r.set) ELSE sends)
      /\ k' = k /\ pc' = pc /\ UNCHANGED <<event_set, event_info, asked, seen>>
  BY DEF RecvNow
<1>2. ThreadsOK' /\ Woken' = Woken
  <2>1. Waiting' = Waiting
    BY <1>1 DEF Waiting
  <2>. QED
    BY <1>1, <2>1 DEF EventInv, ThreadsOK, WaitersWait, CurrentReady, Woken
<1>3. EventType /\ ClearedOnce
  BY DEF EventInv
<1>4. sends' \in [Bit -> Int] /\ ClearedOnce'
  <2>1. CASE r.clear
    <3>1. /\ set' = set \ r.set
          /\ sends' = [b \in Bit |-> IF b \in set \cap r.set THEN sends[b] - 1 ELSE sends[b]]
      BY <1>1, <2>1 DEF Cleared
    <3>2. sends' \in [Bit -> Int]
      BY <1>3, <3>1 DEF EventType
    <3>3. ASSUME NEW b \in Bit PROVE sends'[b] >= (IF b \in set' THEN 1 ELSE 0)
      <4>1. sends[b] \in Int /\ sends[b] >= (IF b \in set THEN 1 ELSE 0)
        BY <1>3 DEF EventType, ClearedOnce
      <4>2. sends'[b] = IF b \in set \cap r.set THEN sends[b] - 1 ELSE sends[b]
        BY <3>1
      <4>. QED
        BY <3>1, <4>1, <4>2
    <3>. QED
      BY <3>2, <3>3 DEF ClearedOnce
  <2>2. CASE ~ r.clear
    BY <1>1, <1>3, <2>2 DEF EventType, ClearedOnce
  <2>. QED
    BY <2>1, <2>2
<1>5. set' \subseteq set /\ k'.wait = k.wait
  BY <1>1
<1>. QED
  BY <1>1, <1>2, <1>4, <1>5, FewerBits

LEMMA RecvWaitInv ==
  ASSUME EventInv, NEW t \in Thread, MayCall(t), NEW r \in Requests, RecvWait(t, r)
  PROVE  EventInv'
<1>1. PICK time \in RecvTimes \ {0} : Wait(t, Ev, EventFlag, time)
  BY DEF RecvWait
<1>2. /\ ~ Satisfied(set, r.mode, r.set)
      /\ event_set' = [event_set EXCEPT ![t] = r.set]
      /\ event_info' = [event_info EXCEPT ![t] = [mode |-> r.mode, clear |-> r.clear]]
      /\ asked' = [asked EXCEPT ![t] = r.set]
      /\ seen' = [seen EXCEPT ![t] = set]
      /\ set' = set /\ sends' = sends
  BY DEF RecvWait
<1>3. /\ r.set \in SUBSET Bit /\ r.set # {} /\ [mode |-> r.mode, clear |-> r.clear] \in Info
      /\ [mode |-> r.mode, clear |-> r.clear].mode = r.mode
  BY EventAssumption DEF Request, Info
<1>4. /\ t \in Thread \ {Idle} /\ Running(k, t) /\ pc[t] = "run" /\ time \in Int /\ Ev \in WaitList
      /\ ThreadsOK /\ EventType /\ k \in KernelType
  BY EventAssumption DEF MayCall, EventInv, ThreadsOK
<1>5. /\ ThreadsOK' /\ Woken' = Woken \ {t}
      /\ Range(k'.wait[Ev]) = Range(k.wait[Ev]) \cup {t}
  <2>1. /\ ThreadsOK' /\ Woken' = Woken \ {t}
        /\ \A w \in WaitList : Range(k'.wait[w]) = IF w = Ev THEN Range(k.wait[w]) \cup {t}
                                                             ELSE Range(k.wait[w])
    BY <1>1, <1>4, WaitInv
  <2>. QED
    BY <1>4, <2>1
<1>6. Waiting' = Waiting \cup {t} /\ Range(EventWaiters') = Waiting' /\ Range(EventWaiters) = Waiting
      /\ Waiting \in SUBSET Thread
  BY <1>4, <1>5, EventWaiting, EventAssumption DEF Waiting, EventWaiters
<1>7. EventType'
  BY <1>2, <1>3, <1>4 DEF EventType
<1>8. /\ event_set'[t] = r.set /\ asked'[t] = r.set /\ seen'[t] = set
      /\ event_info'[t] = [mode |-> r.mode, clear |-> r.clear]
      /\ \A u \in Thread \ {t} : /\ event_set'[u] = event_set[u] /\ asked'[u] = asked[u]
                                 /\ seen'[u] = seen[u] /\ event_info'[u] = event_info[u]
  BY <1>2, <1>4 DEF EventType
<1>9. StillAsking'
  BY <1>2, <1>3, <1>6, <1>8 DEF EventInv, StillAsking
<1>10. NoSatisfiedWaiter'
  BY <1>2, <1>3, <1>6, <1>8 DEF EventInv, NoSatisfiedWaiter
<1>11. ReceivedIsReal'
  <2>1. Woken \subseteq Thread
    BY DEF Woken
  <2>. QED
    BY <1>5, <1>8, <2>1 DEF EventInv, ReceivedIsReal
<1>12. ClearedOnce'
  BY <1>2 DEF EventInv, ClearedOnce
<1>. QED
  BY <1>5, <1>7, <1>9, <1>10, <1>11, <1>12 DEF EventInv

LEMMA RecvReturnInv ==
  ASSUME EventInv, NEW t \in Thread, RecvReturn(t)
  PROVE  EventInv'
<1>1. /\ Running(k, t) /\ pc[t] = "back" /\ Goto(t, "run") /\ k' = k
      /\ asked' = [asked EXCEPT ![t] = {}] /\ seen' = [seen EXCEPT ![t] = {}]
      /\ set' = set /\ event_set' = event_set /\ event_info' = event_info /\ sends' = sends
  BY DEF RecvReturn
<1>2. ThreadsOK /\ EventType /\ k \in KernelType
  BY DEF EventInv, ThreadsOK
<1>3. t \notin Waiting /\ Waiting \in SUBSET Thread
  BY <1>1, <1>2, CallerReady
<1>4. ThreadsOK' /\ Woken' = Woken \ {t}
  BY <1>1, <1>2, ReturnInv
<1>5. Waiting' = Waiting /\ EventWaiters' = EventWaiters
  BY <1>1 DEF Waiting, EventWaiters
<1>6. \A u \in Thread \ {t} : asked'[u] = asked[u] /\ seen'[u] = seen[u]
  BY <1>1, <1>2 DEF EventType
<1>7. EventType'
  BY <1>1, <1>2 DEF EventType
<1>8. StillAsking' /\ NoSatisfiedWaiter' /\ ClearedOnce'
  BY <1>1, <1>3, <1>5, <1>6 DEF EventInv, StillAsking, NoSatisfiedWaiter, ClearedOnce
<1>9. ReceivedIsReal'
  <2>1. Woken \subseteq Thread
    BY DEF Woken
  <2>. QED
    BY <1>1, <1>4, <1>6, <2>1 DEF EventInv, ReceivedIsReal
<1>. QED
  BY <1>4, <1>7, <1>8, <1>9 DEF EventInv

\* Any number of waiters has been resumed, with no error code, by a thread that
\* goes on to its rt_schedule or by an interrupt handler: what becomes of the
\* threads.
LEMMA ManyResumed ==
  ASSUME ThreadsOK, k.due = {}, NEW K, WalkKernel(K),
         k' = K \/ k' = Schedule(K),
         \/ pc' = pc
         \/ \E t \in Thread : pc[t] = "run" /\ \E l \in {"run", "resched"} : Goto(t, l)
  PROVE  ThreadsOK' /\ Waiting' = Waiting \ Off(K) /\ Woken' = Woken \cup Off(K)
<1>1. /\ k \in KernelType /\ KernelOK(k) /\ k.lock = 0 /\ pc \in [Thread -> PC]
      /\ Waiting \in SUBSET Thread /\ Ev \in WaitList
  BY EventWaiting DEF ThreadsOK
<1>2. /\ K \in KernelType /\ KernelOK(K)
      /\ K.error = k.error /\ K.due = k.due /\ K.cur = k.cur /\ K.lock = 0
      /\ Range(K.wait[Ev]) \subseteq Waiting
      /\ \A t \in Thread : K.stat[t] = IF t \in Off(K) THEN "READY" ELSE k.stat[t]
  BY <1>1 DEF WalkKernel
<1>3. /\ k' \in KernelType /\ KernelOK(k') /\ k'.lock = 0 /\ k'.error = k.error
      /\ k'.stat = K.stat /\ k'.wait = K.wait
      /\ \/ k' = K
         \/ k' = Schedule(K) /\ k'.stat[k'.cur] = "READY"
  <2>1. CASE k' = K
    BY <1>2, <2>1
  <2>2. CASE k' = Schedule(K)
    <3>1. /\ k' \in KernelType /\ KernelOK(k') /\ k' = [K EXCEPT !.cur = k'.cur]
          /\ k'.stat[k'.cur] = "READY"
      BY <1>2, <2>2, ScheduleOK
    <3>2. k'.lock = K.lock /\ k'.error = K.error /\ k'.stat = K.stat /\ k'.wait = K.wait
      BY <1>2, <3>1 DEF KernelType
    <3>. QED
      BY <1>2, <2>2, <3>1, <3>2
  <2>. QED
    BY <2>1, <2>2
<1>4. Waiting' = Range(k'.wait[Ev]) /\ Waiting' = Waiting \ Off(K) /\ Off(K) \subseteq Waiting
  BY <1>2, <1>3, EventAssumption DEF Waiting, Off
<1>5. /\ pc' \in [Thread -> PC]
      /\ \A u \in Thread : pc[u] # "run" => pc'[u] = pc[u]
      /\ \A u \in Thread : pc[u] = "run" => pc'[u] \in {"run", "resched"}
  <2>1. CASE pc' = pc
    BY <1>1, <2>1
  <2>2. CASE \E t \in Thread : /\ pc[t] = "run" /\ \E l \in {"run", "resched"} : Goto(t, l)
    BY <1>1, <2>2 DEF Goto, PC
  <2>. QED
    BY <2>1, <2>2
<1>6. \A u \in Waiting : pc[u] \in {"suspended", "back"} /\ k.error[u] = "EOK"
  BY DEF ThreadsOK, WaitersWait
<1>7. Woken' = Woken \cup Off(K)
  BY <1>1, <1>3, <1>4, <1>5, <1>6 DEF Woken
<1>8. WaitersWait'
  <2>1. \A u \in Waiting' : pc'[u] \in {"suspended", "back"} /\ k'.error[u] = "EOK"
    BY <1>1, <1>3, <1>4, <1>5, <1>6
  <2>2. ASSUME NEW u \in Thread, k'.stat[u] = "SUSPEND"
        PROVE  \/ pc'[u] \in {"suspended", "back"} /\ u \in Waiting'
               \/ pc'[u] \in {"asleep", "woke"}
    <3>1. u \notin Off(K) /\ k.stat[u] = "SUSPEND"
      BY <1>2, <1>3, <2>2
    <3>. QED
      BY <1>4, <1>5, <3>1 DEF ThreadsOK, WaitersWait
  <2>. QED
    BY <2>1, <2>2 DEF WaitersWait
<1>9. CurrentReady'
  <2>1. CASE k'.stat[k'.cur] = "READY"
    BY <2>1 DEF CurrentReady
  <2>2. CASE k' = K
    <3>1. k'.cur = k.cur /\ k.cur \in Thread
      BY <1>1, <1>2, <2>2, KernelTypeFields
    <3>2. ASSUME pc'[k.cur] \notin {"suspended", "asleep"} PROVE k'.stat[k.cur] = "READY"
      <4>1. pc[k.cur] \notin {"suspended", "asleep"}
        BY <1>5, <3>1, <3>2
      <4>2. k.stat[k.cur] = "READY"
        BY <4>1 DEF ThreadsOK, CurrentReady
      <4>. QED
        BY <1>2, <1>3, <3>1, <4>2
    <3>. QED
      BY <3>1, <3>2 DEF CurrentReady
  <2>. QED
    BY <1>3, <2>1, <2>2
<1>. QED
  BY <1>3, <1>4, <1>5, <1>7, <1>8, <1>9 DEF ThreadsOK

\* A send, its walk and the kernel step that goes with it.
LEMMA SendStepInv ==
  ASSUME EventInv, k.due = {}, NEW bits \in SUBSET Bit, SendStep(bits),
         k' = ServeAll(bits).k \/ k' = Schedule(ServeAll(bits).k),
         \/ pc' = pc
         \/ \E t \in Thread : pc[t] = "run" /\ \E l \in {"run", "resched"} : Goto(t, l)
  PROVE  EventInv'
<1>. DEFINE w == ServeAll(bits)
            N == Len(EventWaiters)
<1>1. WalkInv(w, N, bits)
  BY WalkEndInv
<1>2. /\ set' = w.set /\ event_set' = w.event_set /\ sends' = w.sends
      /\ seen' = [t \in Thread |->
                    IF t \in Range(EventWaiters) THEN seen[t] \cup bits ELSE seen[t]]
      /\ event_info' = event_info /\ asked' = asked
  BY DEF SendStep
<1>3. k' = w.k \/ k' = Schedule(w.k)
  OBVIOUS
<1>. HIDE DEF w
<1>4. /\ w \in WalkType /\ WalkKernel(w.k) /\ WalkBits(w, bits) /\ WalkPlace(w, N)
      /\ w.set \in SUBSET Bit /\ w.event_set \in [Thread -> SUBSET Bit] /\ w.sends \in [Bit -> Int]
  BY <1>1 DEF WalkInv, WalkType
<1>5. ThreadsOK /\ EventType /\ StillAsking /\ ReceivedIsReal /\ k \in KernelType
  BY DEF EventInv, ThreadsOK
<1>6. ThreadsOK' /\ Waiting' = Waiting \ Off(w.k) /\ Woken' = Woken \cup Off(w.k)
  BY <1>3, <1>4, <1>5, ManyResumed
<1>7. /\ EventWaiters \in Seq(Thread) /\ Waiting = Range(EventWaiters) /\ Waiting \in SUBSET Thread
      /\ Range(EventWaiters') = Waiting' /\ Range(w.k.wait[Ev]) \subseteq Waiting
      /\ Woken \in SUBSET Thread /\ Woken \cap Waiting = {}
  <2>1. Range(EventWaiters') = Waiting'
    BY EventAssumption DEF Waiting, EventWaiters
  <2>2. Range(w.k.wait[Ev]) \subseteq Waiting
    BY <1>4 DEF WalkKernel
  <2>3. Woken \in SUBSET Thread /\ Woken \cap Waiting = {}
    BY DEF Woken
  <2>. QED
    BY <1>5, <2>1, <2>2, <2>3, EventWaiting
<1>8. /\ \A t \in Waiting : seen'[t] = seen[t] \cup bits
      /\ \A t \in Thread : seen[t] \subseteq seen'[t]
  BY <1>2, <1>7
<1>9. /\ set' \subseteq set \cup bits
      /\ \A t \in Thread \ Off(w.k) : event_set'[t] = event_set[t]
      /\ \A t \in Off(w.k) :
            /\ event_set'[t] # {} /\ event_set'[t] \subseteq event_set[t] \cap (set \cup bits)
            /\ event_info[t].mode = "AND" => event_set'[t] = event_set[t]
      /\ \A b \in Bit : sends'[b] >= (IF b \in set' THEN 1 ELSE 0)
  BY <1>2, <1>4 DEF WalkBits
<1>10. EventType'
  <2>1. seen' \in [Thread -> SUBSET Bit]
    BY <1>2, <1>5 DEF EventType
  <2>. QED
    BY <1>2, <1>4, <1>5, <2>1 DEF EventType
<1>11. StillAsking'
  <2>1. ASSUME NEW t \in Waiting'
        PROVE  /\ event_set'[t] = asked'[t] /\ asked'[t] # {}
               /\ set' \cap asked'[t] \subseteq seen'[t]
    <3>1. t \in Waiting /\ t \in Thread \ Off(w.k)
      BY <1>6, <1>7, <2>1
    <3>2. event_set[t] = asked[t] /\ asked[t] # {} /\ set \cap asked[t] \subseteq seen[t]
      BY <1>5, <3>1 DEF StillAsking
    <3>. QED
      BY <1>2, <1>8, <1>9, <3>1, <3>2
  <2>. QED
    BY <2>1 DEF StillAsking
<1>12. NoSatisfiedWaiter'
  <2>1. ASSUME NEW t \in Range(EventWaiters')
        PROVE  ~ Satisfied(set', event_info'[t].mode, event_set'[t])
    <3>1. t \in Range(EventWaiters) /\ t \in Thread \ Off(w.k) /\ t \in Range(w.k.wait[Ev])
      BY <1>6, <1>7, <2>1 DEF Off
    <3>2. PICK i \in 1 .. N : EventWaiters[i] = t
      BY <1>7, <3>1 DEF Range
    <3>3. i <= N
      BY <1>7, <3>2
    <3>4. ~ Satisfied(w.set, event_info[t].mode, event_set[t])
      BY <1>4, <3>1, <3>2, <3>3 DEF WalkPlace
    <3>. QED
      BY <1>2, <1>9, <3>1, <3>4
  <2>. QED
    BY <2>1 DEF NoSatisfiedWaiter
<1>13. ReceivedIsReal'
  <2>1. ASSUME NEW t \in Woken'
        PROVE  /\ event_set'[t] # {} /\ event_set'[t] \subseteq asked'[t] \cap seen'[t]
               /\ event_info'[t].mode = "AND" => event_set'[t] = asked'[t]
    <3>1. CASE t \in Off(w.k)
      <4>1. t \in Waiting
        BY <3>1 DEF Off
      <4>2. event_set[t] = asked[t] /\ set \cap asked[t] \subseteq seen[t]
        BY <1>5, <4>1 DEF StillAsking
      <4>. QED
        BY <1>2, <1>8, <1>9, <3>1, <4>1, <4>2
    <3>2. CASE t \notin Off(w.k)
      <4>1. t \in Woken /\ t \in Thread \ Off(w.k)
        BY <1>6, <1>7, <2>1, <3>2
      <4>2. /\ event_set[t] # {} /\ event_set[t] \subseteq asked[t] \cap seen[t]
            /\ event_info[t].mode = "AND" => event_set[t] = asked[t]
        BY <1>5, <4>1 DEF ReceivedIsReal
      <4>. QED
        BY <1>2, <1>8, <1>9, <4>1, <4>2
    <3>. QED
      BY <3>1, <3>2
  <2>. QED
    BY <2>1 DEF ReceivedIsReal
<1>14. ClearedOnce'
  BY <1>9 DEF ClearedOnce
<1>. QED
  BY <1>6, <1>10, <1>11, <1>12, <1>13, <1>14 DEF EventInv

LEMMA SendInv ==
  ASSUME EventInv, NEW t \in Thread, Send(t)
  PROVE  EventInv'
<1>1. PICK bits \in SUBSET Bit : SendStep(bits) /\ k' = ServeAll(bits).k
  BY DEF Send
<1>2. k.due = {} /\ pc[t] = "run" /\ \E l \in {"run", "resched"} : Goto(t, l)
  BY DEF Send, MayCall, Running
<1>. QED
  BY <1>1, <1>2, SendStepInv

LEMMA IsrSendInv ==
  ASSUME EventInv, IsrSend
  PROVE  EventInv'
<1>1. PICK bits \in SUBSET Bit :
        /\ SendStep(bits)
        /\ k' = IF ServeAll(bits).k = k THEN k ELSE Schedule(ServeAll(bits).k)
  BY DEF IsrSend
<1>2. k' = ServeAll(bits).k \/ k' = Schedule(ServeAll(bits).k)
  BY <1>1
<1>3. k.due = {} /\ pc' = pc
  BY DEF IsrSend, Interruptible
<1>. QED
  BY <1>1, <1>2, <1>3, SendStepInv

LEMMA EventResetInv ==
  ASSUME EventInv, NEW t \in Thread, EventResetBegin(t) \/ EventResetTurn(t) \/ EventResetEnd(t)
  PROVE  EventInv'
<1>1. ThreadsOK /\ Ev \in WaitList /\ EventType
  BY EventAssumption DEF EventInv
<1>2. CASE EventResetBegin(t)
  <2>1. Running(k, t) /\ pc[t] = "run" /\ EnterSection(t) /\ UNCHANGED eventVars
    BY <1>2 DEF EventResetBegin, MayCall
  <2>2. ThreadsOK' /\ Woken' = Woken /\ k'.wait = k.wait
    BY <1>1, <2>1, EnterSectionInv
  <2>. QED
    BY <2>1, <2>2, EventFrame
<1>3. CASE EventResetTurn(t)
  <2>1. ResumeAllTurn(t, Ev) /\ UNCHANGED eventVars
    BY <1>3 DEF EventResetTurn
  <2>2. /\ ThreadsOK' /\ Woken' = Woken
        /\ \A w \in WaitList : Range(k'.wait[w]) \subseteq Range(k.wait[w])
    BY <1>1, <2>1, ResumeAllTurnInv
  <2>. QED
    BY <2>1, <2>2, EventFrame
<1>4. CASE EventResetEnd(t)
  <2>1. /\ Running(k, t) /\ pc[t] = "section" /\ LeaveSection(t)
        /\ set' = {} /\ sends' = [b \in Bit |-> 0]
        /\ UNCHANGED <<event_set, event_info, asked, seen>>
    BY <1>4 DEF EventResetEnd
  <2>2. ThreadsOK' /\ Woken' = Woken /\ k'.wait = k.wait
    BY <1>1, <2>1, LeaveSectionInv
  <2>3. ClearedOnce' /\ sends' \in [Bit -> Int] /\ set' \subseteq set
    BY <2>1 DEF ClearedOnce
  <2>. QED
    BY <2>1, <2>2, <2>3, FewerBits
<1>. QED
  BY <1>2, <1>3, <1>4

LEMMA EventNextInv ==
  ASSUME EventInv, [EventNext]_eventSystem
  PROVE  EventInv'
<1>1. ThreadsOK
  BY DEF EventInv
<1>2. CASE UNCHANGED eventSystem
  <2>1. k' = k /\ pc' = pc /\ UNCHANGED eventVars
    BY <1>2 DEF eventSystem
  <2>2. Waiting' = Waiting /\ Woken' = Woken
    BY <2>1 DEF Waiting, Woken
  <2>3. ThreadsOK'
    BY <1>1, <2>1, <2>2 DEF ThreadsOK, WaitersWait, CurrentReady
  <2>. QED
    BY <2>1, <2>2, <2>3, EventFrame
<1>3. CASE /\ (\E t \in Thread : ThreadStep(t)) \/ Tick \/ TimerFires
           /\ UNCHANGED eventVars
  BY <1>1, <1>3, SystemStepInv, EventFrame
<1>4. ASSUME NEW t \in Thread, Recv(t) PROVE EventInv'
  BY <1>4, RecvNowInv, RecvWaitInv DEF Recv
<1>5. ASSUME NEW t \in Thread, EventCall(t) \/ EventContinue(t) PROVE EventInv'
  <2>1. CASE (Sleep(t) \/ SleepReturn(t) \/ CallSchedule(t)) /\ UNCHANGED eventVars
    BY <1>3, <2>1 DEF ThreadStep
  <2>2. CASE Recv(t) \/ Send(t) \/ RecvReturn(t)
    BY <1>4, <2>2, SendInv, RecvReturnInv
  <2>3. CASE EventResetBegin(t) \/ EventResetTurn(t) \/ EventResetEnd(t)
    BY <2>3, EventResetInv
  <2>. QED
    BY <1>5, <2>1, <2>2, <2>3 DEF EventCall, EventContinue
<1>6. CASE EventNext
  BY <1>3, <1>5, <1>6, IsrSendInv DEF EventNext
<1>. QED
  BY <1>2, <1>6

LEMMA EventInvHolds == EventSpec => []EventInv
<1>1. EventInit => EventInv
  BY EventInitInv
<1>2. EventInv /\ [EventNext]_eventSystem => EventInv'
  BY EventNextInv
<1>. QED
  BY <1>1, <1>2, PTL DEF EventSpec

\* No thread is left on the suspend list of an event with a request that the
\* bits of the event satisfy: the walk of rt_event_send serves every waiter it
\* can, whatever the waiters before it in the list have cleared.
THEOREM NoSatisfiedWaiterHolds == EventSpec => []NoSatisfiedWaiter
<1>1. EventInv => NoSatisfiedWaiter
  BY DEF EventInv
<1>. QED
  BY <1>1, EventInvHolds, PTL

\* What rt_event_recv reports after a wait are bits that the call had asked
\* for and that were set during it, all of them with RT_EVENT_FLAG_AND, however
\* late after the send the thread runs.
THEOREM ReceivedIsRealHolds == EventSpec => []ReceivedIsReal
<1>1. EventInv => ReceivedIsReal
  BY DEF EventInv
<1>. QED
  BY <1>1, EventInvHolds, PTL

\* With RT_EVENT_FLAG_CLEAR one send of a bit serves one receiver at most.
THEOREM ClearedOnceHolds == EventSpec => []ClearedOnce
<1>1. EventInv => ClearedOnce
  BY DEF EventInv
<1>. QED
  BY <1>1, EventInvHolds, PTL
=============================================================================
