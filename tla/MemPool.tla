------------------------------ MODULE MemPool ------------------------------
(***************************************************************************)
(* One memory pool of src/rt-thread/src/mempool.c, as drivers/serial.c     *)
(* uses it: threads allocate a block and wait for ever, the transmit       *)
(* interrupt frees blocks.  (The project file builds the serial driver of  *)
(* the components instead, which has no pool.)                             *)
(*                                                                         *)
(* rt_mp_free links the block into the free list and resumes a waiter; the *)
(* waiter takes a block without looking whether one is left, and a waiter  *)
(* that times out stays counted.  Both end in a pointer that is none being *)
(* followed, after which the pool can hold anything: broken is TRUE then   *)
(* and the pool is not used any more.                                      *)
(***************************************************************************)
EXTENDS Threads

CONSTANTS
    Pool,        \* the one element of WaitList: mp->suspend_thread
    Blocks,      \* the blocks of the pool
    Allocators,  \* the threads that allocate
    WaitTimes    \* the waiting times callers use; negative waits for ever

ASSUME MemPoolAssumption ==
    /\ WaitList = {Pool}
    /\ IsFiniteSet(Blocks)
    /\ Allocators \subseteq Thread \ {Idle}
    /\ WaitTimes \subseteq Int

VARIABLES
    block_list,             \* the free blocks in the order of their links
    block_free_count,
    suspend_thread_count,
    given,                  \* the blocks that have been allocated (history)
    broken                  \* a null block or an empty list was followed

poolVars == <<block_list, block_free_count, suspend_thread_count, given, broken>>
poolSystem == <<k, pc, poolVars>>

PoolWaiters == k.wait[Pool]

\* rt_mp_init: the free list runs through the pool.
PoolInit ==
    /\ ThreadsInit
    /\ block_list = SetToSeq(Blocks)
    /\ block_free_count = Cardinality(Blocks)
    /\ suspend_thread_count = 0
    /\ given = {}
    /\ broken = FALSE

-----------------------------------------------------------------------------
(* rt_mp_alloc *)

\* The free count goes down first, then the first block is unlinked.
TakeBlock ==
    /\ block_free_count' = block_free_count - 1
    /\ IF block_list = << >>
       THEN broken' = TRUE /\ UNCHANGED <<block_list, given>>
       ELSE /\ block_list' = Tail(block_list)
            /\ given' = given \cup {Head(block_list)}
            /\ UNCHANGED broken
    /\ UNCHANGED suspend_thread_count

AllocNow(t) ==
    /\ block_free_count # 0
    /\ TakeBlock
    /\ UNCHANGED <<k, pc>>

\* The newest waiter is put first, and its error code is not reset.
PoolSuspend(kk, t, time) ==
    LET s == [Suspend(kk, t) EXCEPT !.wait[Pool] = <<t>> \o @]
    IN  IF time > 0 THEN StartTimer(s, t, time) ELSE s

AllocWait(t, time) ==
    /\ block_free_count = 0 /\ time # 0
    /\ k' = PoolSuspend(k, t, time)
    /\ suspend_thread_count' = suspend_thread_count + 1
    /\ Goto(t, "suspended")
    /\ UNCHANGED <<block_list, block_free_count, given, broken>>

Alloc(t) ==
    /\ ~ broken /\ MayCall(t) /\ t \in Allocators
    /\ AllocNow(t) \/ \E time \in WaitTimes : AllocWait(t, time)

\* Back from rt_schedule the block is taken without another test.
AllocReturn(t) ==
    /\ ~ broken /\ Running(k, t) /\ pc[t] = "back"
    /\ IF k.error[t] = "EOK" THEN TakeBlock ELSE UNCHANGED poolVars
    /\ Goto(t, "run")
    /\ UNCHANGED k

-----------------------------------------------------------------------------
(* rt_mp_free, by a thread or by an interrupt handler.  Whoever frees has   *)
(* the block from a call of rt_mp_alloc that has returned.                  *)

PutBlock(b) ==
    /\ b \in given
    /\ given' = given \ {b}
    /\ block_list' = <<b>> \o block_list
    /\ block_free_count' = block_free_count + 1

\* The first waiter is resumed, its error code set before.  A handler calls
\* rt_schedule at once, a thread after it has enabled interrupts.
Resumed(isr) ==
    LET t == Head(PoolWaiters)
        r == Resume([k EXCEPT !.error[t] = "EOK"], t)
    IN  IF isr THEN Schedule(r) ELSE r

\* Mutant of WakeAllocator: a waiter is resumed only when the pool was empty.
WakeAllocatorOnEmpty(isr) ==
    IF suspend_thread_count = 0 \/ block_free_count > 0
    THEN UNCHANGED <<k, suspend_thread_count, broken>>
    ELSE /\ suspend_thread_count' = suspend_thread_count - 1
         /\ k' = Resumed(isr)
         /\ UNCHANGED broken

\* The count decides, not the list: with no thread on the list, the thread
\* computed from its head is none.
WakeAllocator(isr) ==
    IF suspend_thread_count = 0
    THEN UNCHANGED <<k, suspend_thread_count, broken>>
    ELSE /\ suspend_thread_count' = suspend_thread_count - 1
         /\ IF PoolWaiters = << >>
            THEN broken' = TRUE /\ UNCHANGED k
            ELSE k' = Resumed(isr) /\ UNCHANGED broken

Free(t) ==
    /\ ~ broken /\ MayCall(t)
    /\ \E b \in given : PutBlock(b)
    /\ WakeAllocator(FALSE)
    /\ Goto(t, IF suspend_thread_count = 0 THEN "run" ELSE "resched")

IsrFree ==
    /\ ~ broken /\ Interruptible(k)
    /\ \E b \in given : PutBlock(b)
    /\ WakeAllocator(TRUE)
    /\ UNCHANGED pc

-----------------------------------------------------------------------------
PoolContinue(t) ==
    \/ AllocReturn(t)
    \/ (SleepReturn(t) \/ CallSchedule(t)) /\ UNCHANGED poolVars

PoolCall(t) == Alloc(t) \/ Free(t) \/ (Sleep(t) /\ UNCHANGED poolVars)

PoolNext ==
    \/ \E t \in Thread : PoolCall(t) \/ PoolContinue(t)
    \/ IsrFree
    \/ Tick /\ UNCHANGED poolVars
    \/ TimerFires /\ UNCHANGED poolVars

PoolSpec == PoolInit /\ [][PoolNext]_poolSystem
-----------------------------------------------------------------------------
\* Whatever allocations, waits and frees come between each other, every block
\* is on the free list or allocated, exactly once, and block_free_count is the
\* "numbers of free memory block" (rtdef.h:614), by which rt_mp_alloc decides.
BlocksAccounted ==
    /\ IsInjective(block_list)
    /\ Range(block_list) \cap given = {}
    /\ Range(block_list) \cup given = Blocks
    /\ ~ broken => block_free_count = Len(block_list)

\* While threads wait for blocks, each free block has a thread on its way that
\* was resumed for it: rt_mp_free wakes one waiter per block, and nobody else
\* takes a block without one.
NoStrandedBlock ==
    (~ broken /\ PoolWaiters # << >>) => Len(block_list) <= Cardinality(Woken)

=============================================================================
