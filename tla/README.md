# A verification project for LynxFlyOpen

LynxFlyOpen is the firmware of a quadcopter on an STM32F4: flight control,
sensors on I2C, a WLAN link with lwIP, an SD card with a file system, and a
shell, all of them threads of the RT-Thread 1.x kernel in `src/rt-thread`.
There is one processor; what is concurrent are threads, which the scheduler
switches between, and interrupt handlers. Every guarantee the rest of the
firmware relies on - a message is not lost, a waiting thread wakes up, a
time-out comes - is made by that kernel, so the kernel is modelled first. On it
stand two of its users: the heap, and the console with the WLAN driver it commands.

Paths below are relative to `src/`; `K/` stands for `rt-thread/src/`.

## 1. Inventory

| part | state | operations | talks to |
|---|---|---|---|
| scheduler `K/scheduler.c` | ready list per priority, priority bitmap, current thread, lock depth | insert, remove, `rt_schedule`, enter/exit critical | everything that blocks or wakes |
| threads `K/thread.c` | state, priority, error code, one list node, one timer each | init, startup, suspend, resume, yield, sleep, priority change, exit, delete, detach | scheduler, timers, defunct list |
| clock `K/clock.c` | tick counter, remaining slice | tick interrupt: slice end, timer check | scheduler, timers |
| timers `K/timer.c` | sorted list of running timers, flags, time-outs on a 32-bit tick | start, stop, control, check in the tick interrupt | timeout functions, above all `rt_thread_timeout` |
| idle `K/idle.c` | defunct list | frees ended threads | threads, heap |
| IPC `K/ipc.c` | semaphore, mutex, event, mailbox, message queue, each with one or two suspend lists | take/release, send/receive, reset, delete | threads, timers, scheduler |
| memory pool `K/mempool.c` | free list, free count, suspend list and count | alloc, free | threads; its one user, `drivers/serial.c`, is not in the project file |
| heap `K/mem.c` | chain of headers in address order, `lfree` | malloc, realloc, free under one semaphore | all of the firmware |
| objects, devices `K/object.c`, `K/device.c` | lists of named objects, open flags | init, find, open, close, read, write | drivers |
| serial `drivers/usart.c`, `rt-thread/components/drivers/serial/serial.c` | receive ring | receive interrupt, read, write by busy waiting | shell |
| shell `rt-thread/components/finsh` | semaphore counting receive interrupts, line | one thread that reads characters and runs lines | serial, every command |
| I2C DMA `drivers/stm32f4_i2c_dma.c` | pointer to the caller's counter | read and write transfers, completion interrupts | sensors |
| WLAN `wifi` | current command, copy of the interrupt causes, two events, receive queue | send a command and wait, interrupt, receive thread, packet queue | the module over SPI, events, heap, lwIP |
| lwIP port `rt-thread/components/net/lwip/src/arch`, `netif/ethernetif.c` | semaphores, mailboxes, two threads | wait with a time-out in ms, post, fetch | IPC, lwIP core |
| file system layer `rt-thread/components/dfs` | descriptor table with reference counts | open, get, put, close under one mutex | FatFs |
| start-up `applications` | `PowerOnSign`, `StateFlag` | starts the threads, waits for power-on, connects | all |
| control laws `LynxFly_Control`, `Math` | filter and controller state, floating point | one step per sample | flight tasks, which are not in the repository |

What is hard in this code:

* **Sections.** A kernel call is a chain of sections with interrupts disabled.
  Between two of them a tick, an interrupt handler or, through either,
  any thread may run: between suspending and `rt_schedule`, between resuming
  another thread and `rt_schedule`, while a message is copied, between the steps of
  deleting a thread or stopping a timer.
* **Hand-over without a counter.** `rt_sem_release` gives its unit to the
  first waiter without counting it anywhere, `rt_mutex_release` makes the
  waiter owner before it has run, `rt_event_send` stores the result in the
  waiter. A time-out, a reset or another thread can come before the waiter runs.
* **Resume and test again.** Mailbox and message queue resume a thread that is
  not given what it was resumed for.
* **Trust.** A thread has a single list node; `rt_list_remove` unlinks it from
  wherever it is; the bitmap, the lists and the states are redundant and never
  compared.
* **Wrap.** Timers are ordered on a counter that wraps after 49 days.
* **Edges.** The WLAN module interrupts only when its line falls, while the
  driver masks, reads and clears the causes over SPI, each a step of its own.
* **Notification by count.** The stack is told of packets only when the queue
  goes to one, and the shell of characters once per interrupt; whoever is told
  empties more than it was told of.

Two facts about the build matter to what is modelled: `project.uvproj` compiles
`components/drivers/serial/serial.c` with `drivers/usart.c`, neither
`drivers/serial.c` (with its DMA list on a memory pool) nor `drivers/touch.c`;
and `rtconfig.h` selects `mem.c`, no slab, no soft timers.

What makes each part correct: the lists, bitmap, timers and states agree and the
highest ready thread runs (scheduler); units are conserved and no wake-up is
lost (semaphore); exclusion, no outranked owner, priorities restored (mutex);
no waiter is left with a satisfied request and bits are consumed once (event);
messages come out once and in order, none stays while somebody waits (mailbox,
queue); every timer fires in its tick (timers); no block is lost or given twice
(pool); nothing leads to a freed thread (thread end); the headers tile the memory
and areas in use are disjoint (heap); no edge, packet, answer or character is
left with nobody coming for it (WLAN, console). `PROJECT.json` lists the
hazards at their lines, with the property that covers each, or why none does.

## 2. How the code is modelled

### Kernel and Threads

`Kernel` keeps the data of scheduler, threads and thread timers in one record
and makes every routine that runs with interrupts disabled an operator from one
value of the record to the next (`InsertThread`, `RemoveThread`, `Suspend`,
`Resume`, `Schedule`, `StartTimer`, `Fire`, `Block`, ...). The operators are
composed as the C functions call each other, so what the record shows at the
end of a composition is what memory holds when interrupts are enabled again.

`Threads` adds `pc`, the point between two sections at which each thread is, and
the actions every system has: sleep, the `rt_schedule` at the end of a call, the
tick. The thread that runs is `k.cur`; a step of a thread is possible only when
it is current and no handler is active. An interrupt handler is one action,
except the tick, which is `Tick` (count, end of a slice) followed by one
`TimerFires` per expired thread, in any order of equal time-outs.

In `Kernel` a thread's timer is a number that counts down. Module `Timers`
models the real list on the wrapping counter, and its run shows that it implements
`Countdown`: every timer fires in the tick in which its time is up. That is the
justification for the counters, and `TimersProofs` proves it for the 32-bit counter.

The scheduler lock is a field of the record, but no modelled code takes it, and
it stays 0.

### One module per object

| module | code | one action stands for |
|---|---|---|
| `Semaphore` | `ipc.c` 185-470 | a take that finds a unit; a take that suspends; the return from it; a release by a thread or handler; a reset, one turn per waiter |
| `Mutex` | `ipc.c` 472-807 | take again, take free, wait with inheritance, fail; refuse, release once, hand over, give back; any number of mutexes |
| `Event` | `ipc.c` 835-1158 | receive at once or suspend; return; a send, whose walk over the suspend list (`ServeAll`) is `Serve` at one waiter after the other; a reset |
| `Mailbox` | `ipc.c` 1161-1620 | send and receive with their loops, time left, handler send, a reset of both lists |
| `MessageQueue` | `ipc.c` 1630-2165 | first and second section of send, urgent and receive, each its own action; the loop of receive; a reset that empties the chain |
| `Timers` | `timer.c`, `clock.c` | test and time-out of start, link of start; test, unlink and flag of stop; control; tick, one turn of the check with its timeout function, end of the check |
| `MemPool` | `mempool.c` | alloc at once, suspend, return; free by a thread or handler |
| `ThreadLife` | `thread.c`, `idle.c` | startup; exit; the four steps of delete and detach; one thread freed by the idle thread |

### Heap

`Heap` does not stand on `Kernel`: what `mem.c` takes of it is one semaphore
around each section, so a section is one step. The headers are a function from
the address of a header to `used`, `next` and `prev`, as in memory; `Split` and
`Join` are what `rt_malloc`, `rt_realloc` and the two halves of `plug_holes` do to
it. `rt_realloc` of a block that must move is three steps, in which other threads
may split and merge around the block: look, `rt_malloc` (or fail), `rt_free`. The
history variable `asked` says which blocks callers hold and for what length. A
caller frees or reallocates only what it holds and is not reallocating.

`Allocator` is what users rely on: areas of memory that are granted and
released, within the heap and disjoint. `Heap` maps each held block to the area
after its header (`ImplementsAllocator`).

### Wlan and Console

`Wlan` is the path from the module's interrupt to the stack, and that of a command
to the module and back. Its variables have the driver's names (`HisRegCpy`,
`CurCmd`, `CmdResBuf`, `RxQueueCount`); `rxpc` is where `wlan_rx_thread` is.
Between two points where that thread can lose the processor it outranks everybody
here, so its pass through `sbi_get_int_status` and the work after it is one step
per SPI transfer and one for the rest. The module itself is not in the repository;
the four actions and variables that stand for it are marked external, and assume
that it answers each command once and in order, keeps an answer and a packet until
they have been read, and raises no cause while the host has masked them.

`Console` extends it with the receive ring and interrupt of the serial port, the
semaphore `rx_sem` and the loop of the shell, which runs a line itself and in it
may send a command (`RunCommand`) and wait for the answer. Characters are told
apart as far as the loop does: CR, LF, any other key.

`Fifo`, `Countdown` and `Allocator` are abstract specifications: what a queue with
urgent messages promises, what timers promise, what a heap promises. `Mailbox`,
`MessageQueue`, `Timers` and `Heap` refer to them by `INSTANCE ... WITH` a mapping,
and the runs check `ImplementsFifo`, `ImplementsCountdown` and `ImplementsAllocator`.

History variables: `credit` (semaphore), `inside` (mutex), `sends`, `asked` and `seen`
(event), `given` (pool), `asked` (heap; its domain also says what callers may
free), `answered` (WLAN). In `MemPool`, `broken` becomes TRUE when the
code follows a null pointer; the pool then stops being used.

Left out on purpose: names, hooks, debug output, assertions on arguments, the
content of messages beyond their identity, the context switch. Calls that fail
at once and change nothing are no action.

## 3. Runs

There are twelve, one for each question. The instances are small, but each is
large enough for the case in question, which the mutants confirm: for
every property `PROJECT.json` names a plausible change to one definition that
violates it within the very same instance.

| run | instance | shows |
|---|---|---|
| `semaphore` | 3 threads, two of equal priority, and idle; at most 2 units; waits of 2 ticks and for ever | `KernelConsistent`, `NoLostWakeup`, `CreditConserved`, `HighestRuns`, `OutcomeFinal`, `TimedTakeReturns` |
| `mutex` | 3 priorities and idle, one mutex taken up to twice, waits 0, 2, for ever | `OwnerIsInside`, `OwnerNotOutranked`, `PriorityRestored` |
| `event` | 2 receivers and idle, 2 bits, three kinds of request, at most 2 pending sends of a bit | `NoSatisfiedWaiter`, `ReceivedIsReal`, `ClearedOnce` |
| `mailbox` | 2 words, 1 sender, 2 receivers | `NoStrandedMessage`, `NoStrandedRoom`, `ImplementsFifo`, `TimedCallReturns` |
| `message_queue` | 2 slots, 1 sender, 2 receivers, handlers sending | `SlotsAccounted`, `NoStrandedMessage`, `CopyUndisturbed`, `ImplementsFifo`, `TimedRecvReturns` |
| `timers` | 1 periodic timer of a thread, 2 timers of its timeout function, a counter of 11 values, times 1 and 2, 1 tick of delay | `ListInOrder`, `ActiveIsLinked`, `ImplementsCountdown`, `TickEnds` |
| `mempool` | 3 allocating threads, 2 blocks, waits for ever | `BlocksAccounted`, `NoStrandedBlock` |
| `thread_life` | 3 threads, two of them deleted by others, one sleeping | `KernelSettled`, `ClosedOffQueues`, `FreedNotInUse` |
| `heap` | 100 bytes, headers of 16, `MIN_SIZE` 12, alignment 4; requests of 0, 10, 12 and 40 bytes by 2 threads | `ChainWhole`, `HolesPlugged`, `LfreeIsFree`, `UsedIsHeld`, `ImplementsAllocator` |
| `console` | a ring of 4 places, a mailbox of 1 message, 2 packets, 3 units of `rx_sem` | `NoLostInterrupt`, `NoStrandedPacket`, `AnswerIsOwn`, `NoStrandedCharacter`, `ConsoleResponds` |

Two runs expect a violation; each is a disagreement between a comment and the
code, recorded under `findings`:

* `mutex_nested`: a thread takes two mutexes, is raised between the two, and
  gives the first one back first. The second one's `original_priority` is the
  inherited priority, so the thread keeps it with no mutex left (`ipc.c:764`).
* `thread_life_timed`: the timer of a sleeping thread fires between two steps of its
  deletion (`thread.c:313-319`) and the closed thread is left on a ready list.
  The passing run `thread_life` therefore lets threads wait with a time-out only when
  nobody deletes them.

Other disagreements met while modelling, which no run shows:

| where | what |
|---|---|
| `K/timer.c:353` | `RT_TIMER_CTRL_SET_PERIODIC` shifts 1 by a flag whose value is 2 and sets the bit of the soft timers, so the timer fires once |
| `K/mempool.c:358` | the block freed for a resumed waiter can be taken by another thread first, and the waiter follows a null pointer; the model sets `broken`, and the properties of the pool speak of it until then |
| `K/mempool.c:405` | a waiter that times out is not counted down in `suspend_thread_count` |
| `K/mem.c:113` | `lfree`, "pointer to the lowest free block", is not lowered when `rt_realloc` splits a block below it |
| `K/mem.c:264` | the loop of `rt_malloc` stops before a block at the end that fits exactly |
| `K/ipc.c:158` | `rt_ipc_list_resume_all` tests the list outside of the section that takes its head; a time-out of the last waiter between the two is followed by a resume of the list's own node. Resets call it with interrupts disabled, as modelled; deletions do not, and are not modelled |
| `wifi/wlan_rx.c:84` | the node of a packet is allocated with the size of a pointer; it fits because `MIN_SIZE` is 12 |
| `wifi/wlan_rx.c:153` | for a frame without a SNAP header the node is freed, and then linked all the same; `Wlan` leaves such frames out |
| `wifi/rt_wlan_dev.c:141` | the pbuf of a frame of the radio itself is not freed |
| `rt-thread/components/finsh/shell.c:381` | a CR swallows the next character when one is there by then, whatever it is |
| `applications/application.c:194` | the start-up thread waits for power-on by testing a flag without giving up the processor |
| `drivers/usart.c:218` | the receive flag is cleared after the loop that reads, so a character that came in between is not announced |

Bounds. `MaxCredit` and `MaxSends` cap the units and sends that are about; two are needed for
a unit in `value` beside one on its way. `MaxHold` caps recursion. `MaxDelay`
caps the ticks by which an interrupted `rt_timer_start` is late; one is enough for a
timer that is linked when its time is already up. `TickMod` is small enough to wrap several times
and large enough for the assertion of `rt_timer_start`, that a time is less than
half the counter, with the delay added. Waiting times of 1 or 2 ticks
allow both orders of a time-out and a grant. In the semaphore `ValueMod` is 8
and is not reached, as 2^16 is not in the firmware's use.
The roles `Senders` and `Receivers` keep the mailbox and the queue within
minutes; handlers send in both. There is no symmetry there: priorities tell the
threads apart.

In the heap, 100 bytes hold up to four blocks, which gives a block free neighbours
on both sides while another one is in use; 10 is rounded up, 12 is `MIN_SIZE`, 40
leaves a rest that is split off or not, and 0 makes `rt_realloc` fail or shrink a
block to nothing. The two callers are interchangeable, so the run uses symmetry (it
has no liveness property). In the console two packets are enough for a second one to
arrive while the first is being handled, a mailbox of one message is full at
once, and a ring of three characters overflows. `SemMax` caps `rx_sem`, whose 16
bits no user fills by typing.

Fairness. `FairSpec` of the semaphore, the mailbox and the queue assumes that the tick
interrupt keeps coming, that handlers end, and that the current thread goes
on with a call it has begun (weak fairness of `TickStep`, `FireStep` and
`Continue(t)`). It does not assume that a thread outside a call ever makes another, nor
that the scheduler is fair: it is not, a thread that spins starves all below it.
That is why the liveness properties speak of a thread that nothing outranks.
`FairSpec` of `Timers` assumes only that the tick interrupt runs on once it has
begun. `FairSpec` of the console assumes that the module answers although packets and
events compete with the answer (strong fairness of `ChipAnswers`, which is enabled
only while the causes are not masked), that a pending interrupt is taken, and that
the receive thread, the shell and the command it runs go on when they can: no
thread above them spins, and the receive thread waits after each pass. Deadlock is
checked in every run: the tick, the interrupts and the callers of the heap never stop.

## 4. Proofs

TLAPS proves, for any set of threads, number of priorities, initial
lists, waiting times, FIFO or PRIO list:

| theorem (`OneListProofs`) | states |
|---|---|
| `InductiveInvariant` | `IInv` holds in every state |
| `KernelConsistentHolds` | `Spec => []KernelConsistent` |
| `HighestRunsHolds` | `Spec => []HighestRuns` |
| `NoLostWakeupHolds` | `Spec => []NoLostWakeup` |
| `CreditConservedHolds` | `Spec => []CreditConserved` |
| `OutcomeFinalHolds` | `Spec => OutcomeFinal`, an action property |

They rest on the assumptions `KernelAssumption` and `SemaphoreAssumption`, which TLC
evaluates on the instance, and on `MaxCredit < ValueMod`: fewer units are about
than the 16-bit value can hold. Without it the value wraps to 0 and units are lost.

The argument has three layers; the first two are the two parts of `ThreadsProofs`, which
the proofs of every IPC object share.

1. The routines of the kernel: every operator of `Kernel` maps a record that is well
   typed and `KernelOK` to such a record, and what it does to the lists and error
   codes. `KernelOK` alone is not preserved by, say, `InsertThread` of any thread, so
   each lemma states what its operator needs (`Resume`: that the running tick has
   not found the thread's timer expired; `Fire`: that it has).
2. The threads: `ThreadsOK` is `KernelOK` with what the threads' positions add: every
   suspended thread is on a suspend list inside a call, with no error yet, or asleep; and the
   current thread is ready unless it has just suspended itself. `ThreadInv` adds
   `TopRuns`: once the `rt_schedule` of a call has been made, no ready thread
   outranks the current one, which is lost where priorities change. Both are
   preserved by each step of `Threads` and by `Wait`, `Wake`, `IsrWake`, a call that
   fails on its return and the reset, each with what
   it does to `Woken`, the set of resumed threads that have not run.
3. The semaphore: `IInv` is `TypeOK`, `ThreadInv`, `NoLostWakeup` and
   `CreditConserved`. Conservation is not inductive by itself: it needs `ThreadInv`,
   which says that the head of the suspend list is suspended and not counted as
   woken already, and that a thread back from `rt_schedule` with no error is
   counted. In turn it bounds `value` by `credit`, which keeps the increment of a
   release from wrapping.

The memory pool and the end of threads, for any threads, priorities and initial lists,
any blocks, static threads, sleepers and victims (`MemPoolAssumption`,
`ThreadLifeAssumption`):

| theorem (`OneListProofs`) | states |
|---|---|
| `BlocksAccountedHolds` | `PoolSpec => []BlocksAccounted` |
| `NoStrandedBlockHolds` | when all waiting times are negative, `PoolSpec => []NoStrandedBlock` |
| `KernelSettledHolds` | when no victim is a sleeper, `LifeSpec => []KernelSettled` |
| `ClosedOffQueuesHolds` | when no victim is a sleeper, `LifeSpec => []ClosedOffQueues` |
| `FreedNotInUseHolds` | when no victim is a sleeper, `LifeSpec => []FreedNotInUse` |

These two systems have one suspend list each, as the semaphore and the event have, so
one module holds the four proofs; no part cites an assumption of another one.

`BlocksAccounted` needs nothing of the threads: `TakeBlockInv` and `PutBlockInv` show
that taking a block and putting one keep each block in one place. `NoStrandedBlock`
counts, and is inductive only with three more facts (`PoolInv`). `Counted`: until a
resumed thread has followed a null pointer (`broken`), `suspend_thread_count` is the
length of the suspend list, which is why `rt_mp_free`, which looks at the count and not
at the list, resumes a waiter when there is one. `Quiet`: nobody on the list has a timer
that runs, and no error code is left from a time-out. `ThreadsOK`: a resumed thread is
counted in `Woken`, and is not on the list as well. The hypothesis is what
`drivers/serial.c` does, the only user of a pool in the repository, and what the run checks. Without it
`Counted` fails, since a waiter that times out is not counted down (`mempool.c:405`).

`KernelOK` does not hold between the steps of `rt_thread_delete`: a thread off all
lists still says that it is ready, or suspended. The invariant `LifeInv` therefore
speaks of the kernel as seen with those threads (`Condemned`) closed already,
`Seen(k)`, and says that this one is `KernelOK`. No routine of the kernel looks at the state
of a thread it does not move, so that what it does to `k` is what it does to `Seen(k)`
(`UnlinkShape` to `TickShape`, `BlockShape`), and the lemmas of `ThreadsProofs` apply to the
latter; `Rejoin` puts the two together. `CloseOK` is the one new lemma about the kernel:
a thread without a timer may be taken off all lists and closed, whatever its state was.
The hypothesis is needed there. A thread with a timer can be taken off
its list and put back on a ready list by the timer, which is the violation
`thread_life_timed` shows. The rest of `LifeInv` is the account of the threads that go:
one under deletion, on the defunct list or freed is in one of these places only, and
it is closed from the third step of the delete on.

The event, for any bits, requests, threads, priorities and waiting times, FIFO or PRIO
list (`EventAssumption`):

| theorem (`OneListProofs`) | states |
|---|---|
| `NoSatisfiedWaiterHolds` | `EventSpec => []NoSatisfiedWaiter` |
| `ReceivedIsRealHolds` | `EventSpec => []ReceivedIsReal` |
| `ClearedOnceHolds` | `EventSpec => []ClearedOnce` |

A send serves the whole suspend list in one section, so there is an induction over the
walk inside the one over the steps. The library's induction theorems take an operator,
which the provers cannot instantiate, so both halves of it argue by a smallest counterexample: `WalkExists`, that the recursive
function of `ServeAll` is defined, and `WalkEndInv`, that its last value satisfies
`WalkInv`. That invariant says what is true when the walk stands between two waiters: the
kernel is `KernelOK` and differs by the waiters resumed so far (`WalkKernel`); those have
real bits, everyone else's `event_set` is untouched, and each bit still set has a send that
paid for it (`WalkBits`); the waiters passed by are not satisfied, and those ahead wait
(`WalkPlace`). It is kept because bits only leave `event->set` during a walk, and fewer
bits satisfy no request that more did not (`SatisfiedLess`). `ManyResumed` is the wake-up
of `ThreadsProofs` for any number of waiters. Between sends, `EventInv` adds
`StillAsking` to the three properties: what a waiter asked for is still in its
`event_set`, and what of it is set now was set while it looked, so what the next send
gives it is real.

The mutexes, for any number of threads, mutexes and priorities, FIFO or PRIO lists, any
waiting times and nesting (`KernelAssumption`, `MutexAssumption`):

| theorem (`MutexProofs`) | states |
|---|---|
| `InductiveInvariant` | `IInv` holds in every state |
| `OwnerIsInsideHolds` | `Spec => []OwnerIsInside` |
| `KernelConsistentHolds` | `Spec => []KernelConsistent` |
| `PriorityInvariant` | `Spec /\ []NoNesting => []PInv` |
| `PriorityRestoredHolds` | `Spec /\ []NoNesting => []PriorityRestored` |
| `OwnerNotOutrankedHolds` | with PRIO lists, `Spec /\ []NoNesting => []OwnerNotOutranked` |
| `OneMutexPriorities` | with one mutex, the last two without `NoNesting` |

`OwnerIsInside` speaks of threads that are back from `rt_mutex_take`. It needs to know
that a thread on a suspend list wants the mutex of that list and does not own it
(`WaitersWant`), since the release makes the head of the list the owner
without a look at it, and that a resumed thread has been made
the owner and nothing happened to its mutex since (`OwnersEnter`). `ChangePriorityOK`
says that inheriting and restoring a priority keep the kernel's lists. The invariant
has `ThreadsOK` and not `TopRuns`: `rt_mutex_release` lowers the priority of its
caller and calls `rt_schedule` only when it resumed a thread (`ipc.c:763-806`).

The two properties of priorities need two hypotheses, and the code gives a reason for
each. `NoNesting` says that no thread owns or waits for two mutexes at once: with two,
`rt_mutex_take` saves an inherited priority as the original one, which is the
violation `mutex_nested` shows. A list with the flag PRIO puts the highest waiter at its
head, and the hand-over makes the head the owner; with FIFO the head may be
outranked by those behind it (a hazard in `PROJECT.json`). `PInv` adds to the two
that `original_priority` is the owner's own and that PRIO lists are sorted, also
after an owner that waits for nothing has been raised. A system with one mutex
satisfies `NoNesting` by itself (an owner does not wait for its own mutex,
`WaitersWant`), so `OneMutexPriorities` proves exactly what the run `mutex` checks.

The mailbox, for any size of the ring, any words, threads and waiting times, both flags
(`MailboxAssumption`):

| theorem (`MailboxProofs`) | states |
|---|---|
| `InductiveInvariant` | `IInv` holds in every state |
| `KernelConsistentHolds` | `Spec => [](BoxType /\ KernelConsistent /\ HighestRuns)` |
| `NoStrandedMessageHolds` | `Spec => []NoStrandedMessage` |
| `NoStrandedRoomHolds` | `Spec => []NoStrandedRoom` |
| `Implementation` | `Spec => ImplementsFifo`, the refinement |

A resumed caller of the mailbox is given nothing: it tests `entry` again and may find
that another one came first. So the two properties count: with `Woken` split by the
call a thread is in (`WokenIn`), there are at least as many resumed receivers as
words while receivers wait, and the same for senders and free words. The count is kept
because whoever takes a word from under a resumed receiver takes one from both sides, and
because a resumed receiver gives up only when there is no word at all.
`CallersWait` says that the two suspend lists hold threads of the right call, so that
each wake-up raises the right count. For the refinement, `OffsetsMatch` ties
`in_offset` to `out_offset` and `entry` round the ring; a stored word then is none
of those still to be fetched.

The message queue, for any pool, any messages, threads and waiting times, both flags
(`MessageQueueAssumption`):

| theorem (`MessageQueueProofs`) | states |
|---|---|
| `InductiveInvariant` | `IInv` holds in every state |
| `KernelConsistentHolds` | `Spec => [](KernelConsistent /\ HighestRuns)` |
| `SlotsAccountedHolds` | `Spec => []SlotsAccounted` |
| `NoStrandedMessageHolds` | `Spec => []NoStrandedMessage` |
| `CopyUndisturbedHolds` | `Spec => CopyUndisturbed`, an action property |
| `Implementation` | `Spec => ImplementsFifo`, the refinement |

The pointers are all there is, so the proof recovers the lists from them. `Whole` says
that a list `Q` follows `next` from the head to its end, a list `F` from the free
pointer, and that these and the slots threads hold between two sections partition the pool.
`PathUnique` shows that a pointer starts at most one such list, so that the lists
`Chain` picks are those (`ShowWhole`); one lemma for each section says what it
does to them (`TakeFree`, `LinkedLast`, `LinkedFirst`, `TakeQueued`, `PutFree`,
`DrainedPath`). `HoldersCopy` says that a thread holds a slot, its own, exactly while it is
copying: the second section of a call therefore finds the slot of the first one where
it was left, though anything may have run between the two. Each action is shown to
preserve `IInv`, to be a step of the bounded queue (`FifoStep`) and to leave slots alone that
others copy (`CopyKept`) at once; the three theorems at the end read off their part. The capacity of
`Fifo` follows by counting: a slot on its way is not in the queue.

For any size of the ring and the mailbox and any number of packets
(`WlanAssumption`, `ConsoleAssumption`):

| theorem (`ConsoleProofs`) | states |
|---|---|
| `Invariant` | `Inv` holds in every state |
| `NoLostInterruptHolds` | `Spec => []NoLostInterrupt` |
| `NoStrandedPacketHolds` | `Spec => []NoStrandedPacket` |
| `AnswerIsOwnHolds` | `Spec => []AnswerIsOwn` |
| `NoStrandedCharacterHolds` | `Spec => []NoStrandedCharacter` |

`Inv` has one part per path. `InterruptInv` adds to `NoLostInterrupt` when the causes are
masked and that the interrupt is disabled only while the receive thread has been
called for. `PacketInv` needs `IregInv`: between passes no cause is left over.
`RingInv` says that each character has a unit of `rx_sem`, but for the one the shell is
about to read. `CommandInv` follows a command through five places (`AtModule`,
`Announced`, `Noticed`, `InBuffer`, `Processed`) and says that nothing is under way outside
of a command, which is why the one event without an identity is enough; it rests on
the assumption that the module answers once.

For any sizes of heap, header and minimum, any alignment that divides the
minimum, any requests and any number of threads (`HeapAssumption`):

| theorem (`HeapProofs`) | states |
|---|---|
| `Invariant` | `IInv` holds in every state |
| `ChainWholeHolds` | `Spec => []ChainWhole` |
| `HolesPluggedHolds` | `Spec => []HolesPlugged` |
| `LfreeIsFreeHolds` | `Spec => []LfreeIsFree` |
| `UsedIsHeldHolds` | `Spec => []UsedIsHeld` |
| `ImplementsAllocatorHolds` | `Spec => ImplementsAllocator`, the refinement |

`JoinChain` and `SplitChain` show that merging and splitting keep the chain whole;
they need that `next` undoes `prev` as well (`Back`), or a merge could leave a header
that leads into it. `PlugSound` is about `plug_holes`: given that free neighbours
exist only around one block (`TightBut`), there are none afterwards. The
blocks in use are those callers hold (`Held`) and each is long enough (`Fits`),
which needs that splits and merges leave the other used blocks alone (`Keep`), and that
two threads inside `rt_realloc` never mean the same block (`MoveOK`). `used_mem` is
the number of addresses the held blocks cover (`Counted`), which the chain makes the
sum of their lengths: `BytesAdd` says that a block more adds its own, `BytesSame` that
blocks which lead on where they did cover the same. Disjoint areas, and with them the
refinement, follow from the chain.

For every width of the tick counter, any timers, and any time-outs that leave room for
the delay of an interrupted `rt_timer_start` (`TimersAssumption`):

| theorem (`TimersProofs`) | states |
|---|---|
| `Invariant` | `Inv` holds in every state |
| `ListInOrderHolds` | `Spec => []ListInOrder` |
| `ActiveIsLinkedHolds` | `Spec => []ActiveIsLinked` |
| `ImplementsCountdownHolds` | `Spec => ImplementsCountdown`, the refinement |

The comparison of the code is not transitive, so "in order" is not
inductive by itself. The proofs measure each time-out from a moment `MaxDelay + 1` ticks
ago (`Lead`): every linked or starting timer has a lead below half the counter,
`Compare` shows that on such leads the comparison is the order of numbers, and
`TickLead` that a tick takes one from each. Between ticks no lead is
0, since the check ends only at a head that is still to come. `Effect` says what a
timeout function and the restart of a periodic timer do together: which timers they
stopped, which they started, and that nothing happened to any other. A timer a
thread is stopping may be stopped by the interrupt first (`OperationOK`).
The assumption that timeout functions operate neither on their own timer
nor on one of the threads' is needed: without it a timer is linked twice.

So every invariant, action property and refinement that a passing run checks is also a
theorem, some of them under the hypotheses named above. Model-checked only: all
liveness (`TimedTakeReturns`, `TimedCallReturns`, `TimedRecvReturns`, `TickEnds`,
`ConsoleResponds`), which is out of the prover's reach, as is `ENABLED`.

## 5. Not modelled

`PROJECT.json` has the list with reasons.

In the modelled parts: deleting and detaching IPC objects, timers and pools, which the
firmware does only in lwIP's `sys_arch.c`; waits with a time-out on a memory
pool in its run; timeout functions that operate on their own timer; soft timers;
`rt_thread_suspend` and `rt_thread_resume` on a third thread; the scheduler lock;
more than one character per serial interrupt, for which `NoStrandedCharacter` does not
hold; start-up of the WLAN module, with its second caller of commands, and the
transmit path.

Beside them:

* I2C DMA and the sensors: each step is an event of the I2C peripheral, whose
  behaviour would have to be assumed step by step, and a wait that fails ends in
  `I2C_TimeOut`, which never returns.
* Objects, devices, the file system layer and the other drivers: short sequential
  operations under one lock each.
* `sys_arch.c`: wrappers around semaphores and mailboxes, which are modelled.
* Start-up and the examples: straight-line code; the source of the flight
  tasks it starts is not in the repository.
* Out of reach for good: the floating-point control laws, register sequences.
* Not this project's own code: lwIP, FatFs, the finsh compiler, the chip library, CMSIS,
  fonts and firmware images. They are the bulk of the source, which is why the
  modelled lines are a small share of it.

## 6. What could come next

1. `rt_enter_critical` and `rt_exit_critical` in `Threads`: blocking inside, and the
   walk over devices that uses it.
2. Start-up of the WLAN module in `Wlan`: two callers of commands, with a mutex around
   them or without.
3. FIFO mutexes: the hand-over to a waiter that another waiter outranks.
