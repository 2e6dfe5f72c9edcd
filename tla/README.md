# A TLA+ model of the polarfire kernel

The repository ports RT-Thread 4.0.4 to the PolarFire SoC: `src/rt-thread` is the
kernel, changed by the port for five harts, `src/application` holds the start
code of the harts, and `src/platform` and `src/boards` are the vendor's hardware
layer, drivers and generated configuration. Hart 0 boots; harts 1 to 4 each run
a scheduler of their own over threads that are bound to them
(`thread->bind_cpu`). These modules model the kernel: that is where the
program's own logic is, and where its port changed the concurrency of the
original. File names below are relative to `src/src/rt-thread`.

## 1. Inventory

### How the parts interact

* A thread runs on the hart it is bound to. It calls the kernel; the kernel
  masks the interrupts of that hart (`rt_hw_interrupt_disable`, which is
  `rt_cpus_lock`) or takes the spin lock of one object.
* `rt_cpus_lock` is documented as a lock of all CPUs, but it masks local
  interrupts and raises two counters in the running thread, nothing more. So two
  harts may be in the same kernel section at once; only the IPC objects (a
  `spin_lock` each), the UART (`_uart_lock`) and `rt_enter_critical`
  (`_cpus_lock`) exclude other harts.
* Hart 1's tick interrupt runs `rt_timer_check`; time-out functions, among them
  `rt_thread_timeout` for every thread of every hart, run there with interrupts
  masked.
* A switch is made by `rt_schedule` in a thread, or, when an interrupt handler
  asked for one, by `rt_scheduler_do_irq_switch` on the way out of the trap.
* A hart that makes a thread of another hart ready writes that hart's ready table
  and sends `IPI_RESCHEDULE`. The receiving handler prints and does not switch
  (the code is commented out), so the thread waits for that hart's next tick.

### Components

| Component | State | Operations | Hard behaviour | Correct when |
|---|---|---|---|---|
| Spin lock (`cpu.c`) | `lock`, `owner`, the hart's interrupt flag | lock, unlock | harts race, traps on top of the holder, preemption before the mask | one holder, no stale owner, interrupts restored, always freed |
| Nesting counters (`cpu.c`, `scheduler.c`) | `cpus_lock_nest`, `scheduler_lock_nest`, `critical_lock_nest` | `rt_cpus_lock/unlock`, enter/exit critical | a switch in the middle of a nested section | balanced at every return to the program |
| Scheduler (`scheduler.c`) | `priority_table`, `priority_group`, `current_thread`, `irq_switch_flag`, `oncpu` | insert, remove, schedule, switch at interrupt exit | interrupts between any two sections; two harts on one table | the ready table holds the ready threads exactly; the most urgent one runs |
| Threads (`thread.c`) | `stat`, priority, slice, thread timer | startup, yield, sleep, suspend, resume, change priority, delete, exit, time-out | state tested before interrupts are masked; deletion in four sections | a time-out finds its thread suspended; a closed thread is in no table |
| Tick (`clock.c`) | `tick` per CPU | increase, get, set | wrap; read from CPU 1, written for another | slices and time-outs agree |
| Timers (`timer.c`) | sorted list, flags | start, stop, control, detach, check | callbacks that change the list; wrap of the tick | sorted, every active timer fires once due, in order |
| Semaphore (`ipc.c`) | value, wait list, lock | take, release, reset | resume of a thread that has not left its hart; time-outs take no lock | tokens conserved, no waiter forgotten |
| Mutex (`ipc.c`) | owner, hold, original priority, wait list | take, release, detach, delete | priority inheritance, several mutexes | one owner; no owner below its waiters |
| Event (`ipc.c`) | set, wait list | send, receive | AND/OR/CLEAR waits, double unlock | every satisfied waiter wakes |
| Mailbox, message queue (`ipc.c`) | ring or free list, two wait lists | send, urgent, receive | waits in a loop with a shrinking time limit; wrong lock call after the wait | messages neither lost nor duplicated |
| IPI (`irq.c`) | one request slot per hart | trigger | overwritten and cleared slots | no request lost |
| Idle and system threads (`idle.c`) | defunct list | enqueue, reclaim | unlocked list shared by the harts | every closed thread reclaimed once |
| Objects (`object.c`) | one list per class | init, allocate, detach, delete, find | check and insertion in two sections | names and list consistent |
| Memory pool, heap (`mempool.c`, `mem.c`, `memheap.c`) | free lists | alloc, free, realloc | waiters; split and merge | blocks disjoint, nothing lost |
| Boot (`components.c`, `libcpu`) | per-hart start state | start of each hart | order of the harts' starts | no hart schedules before its table is ready |

`PROJECT.json` lists every component with its status, and the hazards of the code
at the line where each bites.

## 2. Modules

| Module | Models | Grain of an action |
|---|---|---|
| `LockSpec` | what a lock promises: free or held by one context | one take or give |
| `Spinlock` | `rt_spin_lock` / `rt_spin_unlock` | one load or store of shared memory |
| `Scheduler` | one hart: scheduler, threads, nesting counters, tick and other traps | one masked section, or one trap |
| `Semaphore` | `rt_sem_take`, `rt_sem_release`, reset, time-outs and switches on several harts | one step that another hart can see |
| `Timer` | the timer list, the wrapping tick, `rt_timer_check` with callbacks | one masked call, one pass of the check |
| `IntrusiveList` | `rt_list_insert_*`, `rt_list_remove` as operators on sequences | operators |
| `Waiting` | what all other IPC objects share: wait lists, suspending, resuming, time-outs | operators |
| `Mutex`, `Event`, `Mailbox`, `MessageQueue`, `MemPool` | one object of `ipc.c` or `mempool.c` each | one locked or masked section; behind a mailbox wait, one load or store |
| `Channel` | what a mailbox and a message queue promise: a bounded buffer | one item in or out, or on its way |
| `Ipc` | the composition of the objects with time-outs, error returns, detach and delete | |
| `Heap` | `mem.c` as operators on the heap's state | one heap call |
| `Reclaim` | creation and end of dynamic threads with their memory: `thread.c`, `object.c`, `idle.c` over `Heap` | one heap call or masked section |
| `SpinlockProofs`, `SchedulerProofs`, `SemaphoreProofs`, `TimerProofs`, `IntrusiveListProofs` | theorems about the module of that name | |
| `IpcProofs` | theorems about `Ipc`: wait lists, mutex and event | |
| `BufferProofs` | theorems about `Ipc`, on top of those: queue and pool, mailbox, types, wake-ups | |
| `ReclaimProofs` | theorems about `Heap` and `Reclaim` | |
| `MCSpinlock`, `MCScheduler`, `MCSemaphore`, `MCTimer`, `MCIpc`, `MCReclaim` | the constants' values for TLC | |

### Spinlock

`pc[c]` names the next statement of context `c`. Contexts are threads and, one
per hart, the trap handler; the handler has the identity of the thread it
interrupted, because `rt_thread_self()` reads `current_thread`. `Swap` finds the
word 0 or leaves it at -1 and tries again. `DisableIrq` comes after the swap as
in the code, so the holder can still be interrupted and preempted in between
(`Dispatch`, `TakeTrap`). The memory is sequentially consistent: the code has a
barrier after the swap and none before the store that frees the word, and weaker
orderings are not modelled. `MaskingCaller` are callers that masked interrupts
themselves (`rt_thread_delete` around the `rt_sem_release` of
`rt_thread_defunct_enqueue`). A section that unmasks while it holds the lock, as
`rt_enter_critical` does with `_cpus_lock`, is not in this module; the scheduler
lock that protects it is a counter of `Scheduler`.

### Scheduler

`doing[t]` says where a thread is inside a call: at user level, before the
`rt_schedule` that ends the call (`"schedule"`), switched away inside it
(`"return"`, with the number of enables to come), or between the unmasked test
and the masked commit of `rt_thread_resume`, `rt_thread_suspend` and the
sections of `rt_thread_delete`, and between the parts of `rt_thread_startup`. A
thread that sleeps, or ends, while it has the scheduler locked runs on: its
`rt_schedule` does nothing. `Schedule` is the whole of `rt_schedule`, with
the insertion of the running thread, the removal of the next one and the
counters; `IrqSwitch` is `rt_scheduler_do_irq_switch`. `Tick`, `TickTimeout` and
`DeviceWakes` are traps: `rt_interrupt_enter`, the handler, `rt_interrupt_leave`
and the switch in one action, because the hardware masks interrupts throughout.
The slice of `rt_tick_increase` and the call of `rt_timer_check` after it are two
traps in the model; the second one is the time-out of one thread. The system thread
that `rt_thread_defunct_enqueue` wakes may be any waiting thread (`SystemThread`).

### Semaphore

The spin lock is one step here (`Spinlock` justifies it), and holding it masks the
hart. What takes no lock is split: `rt_thread_resume` into test, unlinking,
reading of `oncpu`, and insertion; `rt_thread_timeout` into its assertion and the
rest; `rt_schedule` into leaving (`oncpu` detached), the test of `stat`, and
arriving. `rt_sem_control` masks its own hart only, so its loop goes from waiter to
waiter (`ResetNext`, `ResetEmpty`) and `ResetValue` sets the value in a step of its
own; a woken waiter goes through the same steps as in a release (`Behind` says where
they return to). That the loop looks at the list and picks its first waiter, and that
a list or the value is changed, are single steps also where two harts do it at once.
`balance` is a history variable: initial value plus releases less
successful takes.

### Timer

The skip list has one level in this build. `Position` is the loop of
`rt_timer_start`, with its unsigned differences modulo the number of tick values.
During a callback the timer is in the check's local list (`inLocal`), which is how
the code finds out that the callback stopped or restarted it.

### Ipc

`Waiting` holds `_ipc_list_suspend`, `_ipc_list_resume`, `_ipc_list_resume_all` and
what they do to a thread through `rt_thread_suspend`, `rt_thread_resume` and its
timer; each object's module adds its variables and one action per section of its
calls. `at[c]` says where a context is: outside (`"idle"`), in the call that waits
in the list of that name, or between two sections. `limit` is a call's remaining
time: for ever, some ticks, or none; each round of a retrying call takes some of
it (`Remaining`), and `Timeout` is the tick that ends a wait. The objects share
nothing but the threads, so a behaviour uses one at a time: `object` names it,
`Detach` begins to end it (`rt_xxx_detach`, `rt_xxx_delete`) and `Create` makes the
next. The end wakes the waiters one by one: `EndTest` is the test of the list with
interrupts on, `EndWake` the masked part, and a time-out may come between them.
When that took the last waiter, `EndFail` goes on with the list itself as a thread,
and the assertion in `rt_thread_resume` stops the hart (`"halt"`): a failed
assertion loops for ever, here with interrupts masked. Resets run the same loop with
interrupts masked throughout and are one step (`ResumeAll`).

One hart; between two sections any thread that is not suspended, and any handler,
may act. Which threads really may is the business of `Scheduler`; what holds here
holds for fewer interleavings as well.

* `Mutex`: `MutexBlock` raises the owner to the caller's priority,
  `MutexHandOver` and `MutexFree` give back `original_priority`.
* `Event`: `rt_event_send` goes through the waiters in order and shows each what
  the CLEAR waiters before it left (`Left`); `posted` and `asked` are history
  variables for the properties.
* `Mailbox`: a call that does not wait is one section. A call that waited is not:
  the code unlocks where it means to lock (`ipc.c:2114`, `ipc.c:2383`), so its
  test, its store, its offset and its counter are steps of their own.
* `MessageQueue`: `MqTake` and `MqUnlink` take a cell, `MqLink`, `MqLinkUrgent`
  and `MqFree` give it on; the copy lies between them.
* The refinement mappings to `Channel`: the content is what lies between the
  offsets, or along the list from the head; an item is on its way in while its
  sender holds its slot or cell (`MbSending`, `MqSending`), and on its way out
  while its receiver copies it (`MbReceiving`, `MqReceiving`).

### Heap and Reclaim

`Heap` is a record: the headers by their offset, `lfree`, `used_mem`. Offsets
count units of `RT_ALIGN_SIZE`; `Header` and `MinSize` stand for
`SIZEOF_STRUCT_MEM` and `MIN_SIZE_ALIGNED`, which are equal in this build. `Fits`
keeps the search's bound `ptr < mem_size_aligned - size`, which misses a block
that fits exactly at the end of the heap. In `Reclaim` every heap call is one
step, because it runs under `heap_sem`; `rt_realloc` that moves is two calls, and
so two steps. `stage[t]` says how far a thread has come in `rt_thread_create`
(`"allocated"`, `"listed"`, `"made"`, or back over `"undo"` and `"unlisted"` when
there is no memory for the stack), and then `"live"` and `"closed"`. A thread ends
by itself (`Exit`) or by an `rt_thread_delete` that a `Deleter` runs: `DeleteTest`
is its unmasked test, `DeleteRemove` takes the thread off whatever list it is in,
and `DeleteClose` is the masked section at the end, which tests nothing. `system`
is the system thread's place in `rt_defunct_execute`.

## 3. Runs

| Run | Instance | Shows | Result |
|---|---|---|---|
| `Spinlock_safety` | 3 threads on 2 harts, the trap of one of them locks, the more urgent thread calls masked; 2,596 states | exclusion, hart kept, interrupts restored, refinement of `LockSpec`, a lock taken by a masked caller is freed | holds |
| `Spinlock_trap` | callers not masked, hart 1's trap locks | `LockFreed` | violated |
| `Scheduler_safety` | idle and two threads, two levels, slices of two ticks, critical sections nested twice, with sleeping inside them, one thread that others may resume, suspend and delete and that may end; 695,361 states | the ready table, the hart's thread, counters, time-outs, the order of switches, and that a closed thread stays closed and out of the table | holds |
| `Scheduler_fair` | three levels, slices of one tick, critical sections; 61,175 states | the most urgent ready thread gets the hart | holds |
| `Scheduler_delete` | deletion without `DeleteLocked` (below) | `ClosedForGood` | violated |
| `Semaphore_onehart` | 3 threads, 2 priorities, handler and thread releasing, one resetter, with and without time limit, values up to 2; 9,471 states | tokens conserved, waiters served by urgency and arrival, nobody forgotten, time-out assertion holds | holds |
| `Semaphore_lostwake` | one thread on each of two harts, no time limits | `NoThreadLost` | violated |
| `Ipc_objects` | mutex, mailbox and pool with 3 threads on 3 priorities, event and queue with 2 threads and a handler; 2 slots, cells, blocks, events and contents; PRIO and FIFO; 194,207 states | wait lists, inheritance, event delivery, cells and blocks, no lost wake-up, refinement of `Channel` by mailbox and queue | holds |
| `Mailbox_wait` | a mailbox of 2 slots, 2 threads and a handler that may come in between everywhere | `MailboxBounded` | violated |
| `Reclaim` | 2 threads, 2 deleters and a user on a heap of 11 units that holds two threads, or one and a small buffer; 344,558 states | heap exact, nothing leaked, closed threads reclaimed | holds |
| `Reclaim_twice` | one thread and 2 deleters, without `EndsAlone` (below) | `FreesInUse` | violated |
| `Timer_list` | 3 timers, 2 durations, 8 tick values; 410,624 states | sorted list, firing, order, end of the check | holds |

Deadlock is checked in all runs but `Semaphore_lostwake`, where every thread may come
to wait and nobody is left to release.

### Bounds, and why they are enough

* Spinlock: two threads of one hart can preempt each other, a third runs in
  parallel on another hart, and the hart of the two has a trap that locks. The
  proofs cover every other instance.
* Scheduler: two threads besides idle are enough for one to act on another
  between the steps of a call, for turns at one level and for preemption between
  levels (`ChangePriority` moves them over all levels). `MaxCritical` bounds
  nesting: 2 reaches the inner and the outer exit. `InitTick` 2 gives a tick that
  ends the slice and one that does not. A third level besides idle's comes in
  `Scheduler_fair`, with slices of one tick and nobody ending; the proofs have no such
  split.
* Semaphore: three threads make a wait list of two with a third that acts;
  `MaxValue` 2 reaches the refused release at the maximum.
* Timer: with 8 tick values the half range is 3, durations 1 and 2 give timers on
  both sides of the wrap, and three timers give one before, one after and one
  equal. Durations are at least 1: a periodic timer of no ticks keeps
  `rt_timer_check` in its loop for ever.
* Ipc: with two of whatever an object holds, there is empty, partly filled and
  full, and a ring that wraps. Three threads give two waiters of different
  priority and one that acts, and an owner that inherits twice; for event and
  queue two threads and a handler give two waiters of one kind with a sender
  that never waits, or a sender and a receiver. `HoldMax` 2 stands for 255 and
  reaches the refused take. `Limits` is `{"ticks"}`: a wait for ever is one whose
  time-out does not come. `RT_MB_ENTRY_MAX` and `RT_MQ_ENTRY_MAX` are beyond the
  sizes here, and unreachable in the code as well while sizes are 16-bit.
* Reclaim: the heap holds both threads but not both and the buffer, so that each
  allocation of the creation fails at times; buffer sizes 2 and 5 are a block
  that is split off, one that is cut down in place, one that has to move, and one
  that cannot. Two deleters are one for each thread; two for the same thread are what
  `EndsAlone` excludes. `SemMax` 1 stands for 65535 and reaches the refused release.

### Preconditions of the passing runs

* `Scheduler_safety` sets `DeleteLocked`: a thread is deleted only with the scheduler
  locked and while its timer is stopped. `Scheduler_delete` drops it.
* `Scheduler_safety` sets `EndsAlone`: a thread ends, or its deletion begins, only while
  no other thread is inside a call about it, a resume or suspend that has tested its
  state or another deletion. The code does not ask for that. Without it
  `ClosedForGood` fails: `rt_thread_suspend` and `rt_thread_resume` test the state
  (`thread.c:820`, `thread.c:869`) before they mask interrupts, and a thread that ends
  in between is taken off the defunct list and is suspended, or ready, again (the
  steps `SuspendTest`, `Tick`, `Exit`, `SuspendCommit`).
* `Reclaim` sets `EndsAlone` of deletions: a thread ends by itself or by one
  `rt_thread_delete`. `Reclaim_twice` drops it.
* `Semaphore_onehart` has one hart. With two, three of its properties fail besides
  `NoThreadLost` (`Semaphore_lostwake`). `TimeoutAsserted`: `rt_timer_check` takes a
  thread's timer off the list and calls `rt_thread_timeout` with the interrupts of its
  own hart masked and no lock, and a release on another hart resumes the thread in
  between, so that `thread.c:911` asserts. `TokensConserved`: a time-out on hart 1
  between the releaser's look at the wait list and `rt_thread_resume` leaves the
  release without effect. `NoTokenPastWaiter`: a reset does not take the semaphore's
  lock (`ipc.c:686`), and a thread of another hart that is listed after the waiters
  were woken and before the value is set (`ResetEmpty`, `Block`, `ResetValue`) sleeps
  beside it.
* `Timer_list` sets `OwnOneshot` to FALSE. When a callback makes its own timer
  one-shot, `rt_timer_check` neither restarts it nor clears
  `RT_TIMER_FLAG_ACTIVATED`, and `ActiveWillFire` fails.
* `Ipc_objects` sets `MbRaces` to FALSE: a call that is behind its wait at a
  mailbox is alone until it returns or waits again. `Mailbox_wait` drops it, and
  the mailbox overfills.
* `Ipc` has one mutex. A thread that holds two gives back the priority of the
  mutex it releases first (`ipc.c:1155`) and runs below a waiter of the other;
  `MutexInheritance` would fail.
* `Detach` comes only when no call is between two sections and no priority is
  inherited, and nobody calls while the end is going on: `rt_mutex_detach` and
  `rt_mutex_delete` do not give a priority back, and the other ends free memory that
  such a call would still touch. Time-outs do come in between, and that is not harmless:
  the loop tests the list with interrupts on (`ipc.c:214`; `mempool.c:149` and 269
  alike), and when the last waiter times out before the loop masks them (217), it takes
  the list for a thread, and `thread.c:865` asserts (`EndFail`). The behaviours of
  `Ipc_objects` include that; its invariants hold there, and nothing more happens.
* `Reclaim` assumes that only the holder of a block frees it and that a thread is
  not deleted in the middle of a heap call (it would leave `heap_sem` taken).

### Fairness

* Spinlock: a context that runs takes its next statement, a thread that may be
  dispatched infinitely often is (slices at one priority), a handler returns.
  Nothing is assumed of `Call` and `Swap`: a thread need not ask for the lock, and
  the swap instruction promises no winner.
* Scheduler: the tick keeps coming, a thread inside a kernel call goes on, and a
  thread that locked the scheduler unlocks it again. No other call of a program is
  fair.
* Timer: the tick keeps coming, `rt_timer_check` goes on, callbacks return.
* Reclaim: the system thread goes on when it can. It has the lowest priority but
  idle's, so this says that hart 1's threads all wait now and then. Nothing is
  assumed of the other threads; `ClosedReclaimed` supposes that they stop closing
  some time, since the defunct list is last in, first out, and a thread below
  newer ones waits for as long as these keep coming.
* Ipc states safety only and needs no fairness.

## 4. Findings

* `Spinlock_trap` (`cpu.c:126`): `rt_spin_lock` masks interrupts after it won the
  word. A trap in between that takes the same lock (the IPI handler's
  `rt_kprintf`) waits for the thread below it.
* `Scheduler_delete` (`thread.c:503`): between the sections of `rt_thread_delete`
  a time-out puts the thread back into the ready table; it is then closed there.
* `Reclaim_twice` (`thread.c:503`): `rt_thread_delete` does not look again whether the
  thread is closed. One that ends meanwhile is on the defunct list twice, and its
  stack is freed twice.
* `Semaphore_lostwake` (`scheduler.c:658`): a releaser on another hart sees the
  waiter still on its hart and only marks it RUNNING, after `rt_schedule` decided
  to leave it. The thread is in no list and on no hart.
* `Mailbox_wait` (`ipc.c:2114`): back from its wait, a sender stores its mail
  without the lock, and whoever comes between its test and its store fills the
  last slot: a mailbox of two counts three mails and has lost one.

## 5. Proofs

Each theorem holds for all values of the constants that the `ASSUME`s of its
module allow, so for any number of threads, harts, handlers, priorities, timers,
cells and blocks. Where a theorem needs more, it says so as an `ASSUME` of its own,
and a run or section 3 shows what happens without:

| Assumption | Theorems | Run that drops it |
|---|---|---|
| `DeleteLocked`: a thread is deleted only with the scheduler locked and its timer stopped | all of `SchedulerProofs` | `Scheduler_delete` |
| `EndsAlone`: a thread ends, or is deleted, only while no other is inside a call about it | `ClosedStaysClosed` | none, see section 3 |
| `EndsAlone`: a thread is ended once | all of `ReclaimProofs` about `Reclaim` | `Reclaim_twice` |
| no resets, or one hart | `NoneWaitsPastToken` | none, see section 3 |
| `Undisturbed`: all threads on the hart with the tick, or neither time limits nor resets | `WaitersStayInOrder`, `WaitersServedInOrder`, `TokensAreConserved`, `TimeoutAssertionHolds` of `SemaphoreProofs` | none, see section 3 |
| all threads on the hart with the tick | `NoThreadIsLost` | `Semaphore_lostwake` |
| `OwnOneshot` is FALSE: no callback makes its own timer one-shot | `ActiveTimersWillFire` | none, see section 3 |
| `MbRaces` is FALSE: behind its wait at a mailbox a call is alone | `MailboxIsChannel`, `MailboxIsBounded`, `NoWakeUpIsLost` | `Mailbox_wait` |

### Spinlock

`TypeCorrect`, `SpinlockExcludes`, `SectionKeepsHart`, `CallerIrqRestored` are the
invariants of the run; `SpinlockImplementsLock` says that every behaviour is one of
`LockSpec`, with `Holder` for its variable.

`MutualExclusion` is not inductive: `rt_spin_lock` skips the swap when
`lock->owner` is the caller. The inductive invariant `IInv` says that the owner
field names only a context that has the lock (`OwnerNotStale`) and that this
context keeps its hart (`HolderKeepsHart`); so the caller, which runs, cannot be
on the same hart, and threads on different harts have different identities
(`ShortcutNotTaken`). That a context keeps its hart rests on the interrupt flag:
a handler runs masked (`TrapsMasked`), and the saved level is on exactly for
threads that did not mask themselves (`IrqFlow`). The refinement proof shows that
each step of `IInv` changes `Holder` as `Take` or `Give` or not at all.

That the lock word is -1 exactly while somebody is inside (`WordMatchesHolder`) and
that the owner is never stale are proved with `IInv` and not run on their own.

### Lists

`IntrusiveListProofs` has the facts about sequences without repetition that the
other modules cite: what linking and unlinking leave of the members, their number
and their order.

### Scheduler

`TypeCorrect`, `ReadyTableIsExact`, `OneThreadRuns`, `NestsStayBalanced`,
`TimeoutAssertionHolds`, and the step properties `SwitchesInOrder` and
`ClosedStaysClosed`: all that `Scheduler_safety` checks. `ScheduleServesTheUrgent` adds
what a thread finds that comes out of `rt_schedule`: nobody ready is more urgent.

The invariants need each other. That the ready table is exact after `rt_schedule`
needs that the hart's thread is RUNNING, or waits, or ended with the scheduler
locked (`CurrentRunsOrWaits`); that there is a thread to switch to needs the idle
thread (`IdleRuns`); that an unmasked test of `thread->stat` still holds at the masked
commit needs what the caller has in hand (`DoingFits`), and of a deletion that the
victim stays as it was found (`DeletesLocked`). `TableHolds` states the table as
"each level's list has exactly the ready threads of that priority, once, and the
bitmap the levels that are not empty", which lists and steps preserve one by one.

### Timer

`TypeCorrect`, `ListStaysSorted`, `ActiveTimersWillFire`, `TimersFireOnTime` and
`EqualTimersInOrder`, for any timers and any width of the tick. Sorted means sorted
by the time that is left, modulo the width; a tick keeps that order only because no
timer in the list is overdue except while the check is at work (`NoneDue`), and the
check needs to know where a timer is that its callback may restart
(`LocalInCallback`, `DeletedUntouched`). The steps are arithmetic modulo the width,
stated once as lemmas about differences.

### Semaphore

The proof has three layers, because the properties hold under different conditions.
`Structure` (any harts, time limits, resets): types, who is inside the lock, whose
interrupts are masked, `oncpu`; `TypeCorrect` rests on it alone, and so does
`NoneWaitsPastToken`, which without resets needs the lock, and with them that the
resetter's hart is the only one and masked. `Story` (`Undisturbed`): waiters are asleep, the target of a resume stays
asleep until it is made ready, timers run only for waiters; with it
`WaitersStayInOrder`, `WaitersServedInOrder`, `TokensAreConserved` and
`TimeoutAssertionHolds`. `Custody`
(one hart): every thread is a waiter, ready, on its hart, or in the hands of the one
that resumes it; with it `NoThreadIsLost`.

### Ipc

* `IpcProofs`: `WaitListsAreExact`, `PriorityIsInherited`, `EventsAreServed`,
  `EventsAreTakenOnce`. What a step may do to the threads is put into five effects
  (`AnyStep`: a context moves, waits, resumes some, resumes all, times out), and
  each keeps `Waits`: a thread is suspended exactly while it is in the list of the
  call it is in. `IInv` adds that only the lists of the object in use have waiters
  (`Using`), their order, and what is inherited (`Inherits`: the owner runs at least
  at the priority of every waiter and remembers its own). For events, `Asks` says
  what each waiter's fields hold, and `Left` is shown to shrink from waiter to
  waiter, so that no two CLEAR receivers get the same event.
* `BufferProofs`, queue and pool: `QueueIsChannel` and `CellsAreExact`. `QInv` says that the
  links from `free` and from the head each run through cells that nobody else has
  (`Chains`), and which cell each call between its two sections has in hand
  (`Hands`). `Chain`, defined by following links, is shown to find exactly such a
  list (`ChainIsLinked`); then every section puts, gets, delivers or clears in the
  channel, or does nothing to it.
* `BufferProofs`, mailbox and all objects together: `MailboxIsChannel`,
  `MailboxIsBounded`, `IpcTypes`, `NoWakeUpIsLost`. `MbInv` relates the two offsets and `entry` to what the one call
  behind its wait has done of its store, offset and count (`RingFits`), and says
  that what its test saw still holds (`StageFits`). `IpcTypes` needs no assumption:
  also where others go on behind a wait, every variable keeps its type.
  `NoWakeUpIsLost` counts: all there is of mails, slots, messages, cells or blocks
  is at most the number of woken threads on their way to it. It needs that a free
  cell is what is left over by the queue and by those that hold one (`RoomLeft`),
  that no suspended thread has an error (`Unanswered`), and, for each section, whom
  it takes off the way and whom it sends.

### Heap and Reclaim

`ReclaimTypes`, `HeapAlwaysExact` and `NothingEverLeaks`, for any threads, any size
of the heap, of its headers and of the requests.

The first half is about `Heap` alone. A heap that is right (`HeapOK`) stays so under
`Malloc`, `Free` and `Shrunk`, and the blocks in use change by the one that the call
is about. Headers change in three ways: a block is marked, cut, or joined to its
neighbour (`MarkLinked`, `SplitLinked`, `JoinedLinked`). Between marking and
`plug_holes` one free block may touch others on both sides (`Loose`); joining it
forward and then backward makes the heap right again, with `lfree` on any of the
three. `used_mem` is stated as the number of bytes that the blocks in use cover, so
that what one more block adds is a fact about disjoint intervals (`CoveredStep`) and
not a sum over blocks.

The second half follows the blocks to their owners: the object and the stack of each
thread and the two pointers of the user's `rt_realloc`. `Owned` says that each has a
block of its own with the room it needs and that no block is without an owner; a
step gives a block to one who has none, takes one back, or hands one over
(`OwnedGiven`, `OwnedFreed`, `OwnedHanded`). `TypeOK`, `HeapExact` and
`NothingLeaked` become inductive together with where the system thread, a thread's
life and a moving `rt_realloc` stand (`StepsExact`), and with `EndedOnce`: a thread that
somebody is deleting is not closed, and nobody else is deleting it, which is what the
last section of `rt_thread_delete` takes for granted.

### Only model-checked

Liveness (`MaskedFreed`, `UrgentRuns`, `CheckFinishes`, `ClosedReclaimed`): the
proof system has no rules for fairness. Every other property of the passing runs
has its theorem.

## 6. Plan

`Ipi` (requests that overwrite each other in `trigger_ipi_irq`), `CpusLock`
(`_cpus_lock` over switches), `Boot`, and two mutexes at once.

## 7. Not modelled

* Pointer updates of two harts on one list at once (ready table, timer list,
  object lists): the code does not prevent them, and lists are sequences here.
* Weak memory order.
* Soft timers, signals, modules, hooks, SLAB: not built in this configuration.
* Registers, stacks and the CPU port; the vendor's drivers and HAL; the generated
  board files; formatting and string functions; test programs and example mains.
* The vendor's half of the repository by lines (drivers, HAL, register headers,
  generated code) is hardware access without protocol state of this program, so
  the modules cover a small share of all lines and most of the kernel's core.
* A waiter whose priority is changed, by inheritance from another object or by
  `RT_THREAD_CTRL_CHANGE_PRIORITY`, keeps its place in a priority-ordered list;
  `Ipc` has one object at a time and threads that do not change their own.
* Two harts at one event, mutex, mailbox or queue; `rt_object_init`, the static
  objects and the search by name; `memheap.c`; cleanup callbacks; requests by IPI.
* `rt_thread_delete` of the caller itself; `rt_thread_startup` sets priority and state
  in one step, and before the scheduler runs it is one step, since nobody runs yet.
* What `rt_thread_delete` does to the memory of a thread that is already gone
  (`Reclaim.Deletes`), and a thread started while it is being deleted.
* `rt_thread_delay_until`, `RT_THREAD_CTRL_BIND_CPU`, detach and delete of
  semaphores in use.
