----------------------------- MODULE Semaphore -----------------------------
(***************************************************************************)
(* rt_sem_take, rt_sem_release and RT_IPC_CMD_RESET (rt-thread/ipc.c) with  *)
(* what they do to threads: rt_thread_suspend, rt_thread_resume,            *)
(* rt_thread_timeout and the switches of rt_schedule.                       *)
(*                                                                         *)
(* The semaphore's spin lock is taken in one step (module Spinlock) and     *)
(* masks the hart's interrupts until it is given back.  rt_thread_timeout,  *)
(* the reset and the switches take no lock, so every access of theirs and   *)
(* of rt_thread_resume that another hart can see is a step.  The ready      *)
(* table of a hart is a set here; its lists and bits are in module          *)
(* Scheduler.                                                               *)
(***************************************************************************)
EXTENDS IntrusiveList, FiniteSets

CONSTANTS
  Thread,    \* the threads that use the semaphore
  Hart,      \* the harts; as a context, a hart is its trap handler
  HartOf,    \* thread->bind_cpu
  Priority,  \* thread->current_priority, 0 the most urgent
  TimerHart, \* the hart whose tick runs rt_timer_check
  Giver,     \* contexts that call rt_sem_release, handlers among them
  Resetter,  \* threads that call rt_sem_control(RT_IPC_CMD_RESET)
  Timeouts,  \* whether rt_sem_take is given a time limit: a set of BOOLEANs
  InitValue, \* the value the semaphore is made with
  MaxValue,  \* RT_SEM_VALUE_MAX
  None       \* no thread; as a hart's thread, its idle thread

ASSUME SemaphoreConstants ==
  /\ IsFiniteSet(Thread)
  /\ Thread \intersect Hart = {}
  /\ None \notin Thread \union Hart
  /\ HartOf \in [Thread -> Hart]
  /\ Priority \in [Thread -> Nat]
  /\ TimerHart \in Hart
  /\ Giver \subseteq Thread \union Hart
  /\ Resetter \subseteq Thread
  /\ Timeouts \subseteq BOOLEAN
  /\ MaxValue \in Nat
  /\ InitValue \in 0 .. MaxValue

Context == Thread \union Hart

VARIABLES
  value,   \* sem->value
  waiters, \* sem->parent.suspend_thread
  lock,    \* the context that holds sem->parent.spin_lock
  stat,    \* thread->stat
  oncpu,   \* thread->oncpu # RT_CPU_DETACHED
  queued,  \* the threads in their hart's ready table
  error,   \* thread->error
  armed,   \* thread->thread_timer is started
  current, \* pcpu->current_thread
  next,    \* a switch under way: where to, and RT_THREAD_STAT_YIELD of the
           \* thread that may leave
  pc,      \* where each context is
  target,  \* the thread a context resumes
  balance  \* releases and the initial value, less the takes that succeeded

vars == <<value, waiters, lock, stat, oncpu, queued, error, armed, current,
          next, pc, target, balance>>

(***************************************************************************)
(* "off": a handler that is not running.  "user": outside the semaphore.    *)
(* "blocked": in rt_sem_take, suspended, with the lock.  "schedule": about  *)
(* to call rt_schedule there.  "return": that call is over.  "first" to     *)
(* "done": rt_sem_release with a waiter, "done" with all but the unlock.    *)
(* "expired", "unwait": the start of rt_thread_timeout, which goes on as    *)
(* rt_sem_release does from "insert" on.  "sweep": a reset before the next  *)
(* test of the wait list, each waiter being resumed as in rt_sem_release.   *)
(* "swept": it found the list empty.  "halt": a failed RT_ASSERT.           *)
(***************************************************************************)
Inserting == {"insert", "running", "ready"}
Location  == {"off", "user", "blocked", "schedule", "return", "first",
              "unlink", "done", "expired", "unwait", "sweep", "swept",
              "halt"} \union Inserting
MayBeInterrupted == {"user", "schedule", "return"}

HartOn(c) == IF c \in Thread THEN HartOf[c] ELSE c

NotSwitching == [on |-> FALSE, to |-> None, yield |-> FALSE]

\* Hart h takes interrupts: no handler, no switch, no masked section on it.
Open(h) ==
  /\ pc[h] = "off"
  /\ ~next[h].on
  /\ current[h] # None => pc[current[h]] \in MayBeInterrupted

\* Context c executes: the handler of a hart, or the thread it runs.
At(c, from) ==
  /\ pc[c] = from
  /\ c \in Thread => /\ current[HartOf[c]] = c
                     /\ pc[HartOf[c]] = "off"
                     /\ ~next[HartOf[c]].on

Goto(c, to) == pc' = [pc EXCEPT ![c] = to]
Idle(c)     == IF c \in Thread THEN At(c, "user") ELSE Open(c)
After(c)    == IF c \in Thread THEN "user" ELSE "off"

Waiting == Members(waiters)

Init ==
  /\ value = InitValue
  /\ waiters = <<>>
  /\ lock = None
  /\ stat = [t \in Thread |-> "READY"]
  /\ oncpu = [t \in Thread |-> FALSE]
  /\ queued = Thread
  /\ error = [t \in Thread |-> "EOK"]
  /\ armed = [t \in Thread |-> FALSE]
  /\ current = [h \in Hart |-> None]
  /\ next = [h \in Hart |-> NotSwitching]
  /\ pc = [c \in Context |-> IF c \in Thread THEN "user" ELSE "off"]
  /\ target = [c \in Context |-> None]
  /\ balance = InitValue

threads == <<stat, oncpu, queued, error, armed, current, next>>

-----------------------------------------------------------------------------
(* rt_sem_take *)

\* The semaphore is available.
TakeFreely(t) ==
  /\ Idle(t)
  /\ lock = None
  /\ value > 0
  /\ value' = value - 1
  /\ balance' = balance - 1
  /\ UNCHANGED <<waiters, lock, threads, pc, target>>

\* Mutant: a thread goes to the end of the list whatever its priority.
PositionLast(t) == Len(waiters)

\* Mutant: it goes ahead of the waiters that are as urgent.
PositionAhead(t) == Cardinality({i \in DOMAIN waiters :
                                   Priority[waiters[i]] < Priority[t]})

\* RT_IPC_FLAG_PRIO: behind every waiter that is at least as urgent.
Position(t) == Cardinality({i \in DOMAIN waiters :
                              Priority[waiters[i]] <= Priority[t]})

\* _ipc_list_suspend and, with a time limit, rt_timer_start.
Block(t, timed) ==
  /\ Idle(t)
  /\ lock = None
  /\ value = 0
  /\ lock' = t
  /\ error' = [error EXCEPT ![t] = "EOK"]
  /\ stat' = [stat EXCEPT ![t] = "SUSPEND"]
  /\ waiters' = LinkBehind(waiters, Position(t), t)
  /\ armed' = [armed EXCEPT ![t] = timed]
  /\ Goto(t, "blocked")
  /\ UNCHANGED <<value, oncpu, queued, current, next, target, balance>>

\* rt_spin_unlock, before rt_schedule.
BlockUnlock(t) ==
  /\ At(t, "blocked")
  /\ lock' = None
  /\ Goto(t, "schedule")
  /\ UNCHANGED <<value, waiters, threads, target, balance>>

\* Mutant: thread->error is not looked at.
ReturnBlind(t) ==
  /\ At(t, "return")
  /\ balance' = balance - 1
  /\ Goto(t, "user")
  /\ UNCHANGED <<value, waiters, lock, threads, target>>

\* The test of thread->error behind rt_schedule.
Return(t) ==
  /\ At(t, "return")
  /\ balance' = IF error[t] = "EOK" THEN balance - 1 ELSE balance
  /\ Goto(t, "user")
  /\ UNCHANGED <<value, waiters, lock, threads, target>>

-----------------------------------------------------------------------------
(* rt_sem_release *)

\* Mutant: the value is not compared with RT_SEM_VALUE_MAX.
GiveValueUnchecked(c) ==
  /\ Idle(c)
  /\ c \in Giver
  /\ lock = None
  /\ waiters = <<>>
  /\ value' = value + 1
  /\ balance' = balance + 1
  /\ UNCHANGED <<waiters, lock, threads, pc, target>>

\* Nobody waits; a full semaphore returns -RT_EFULL.
GiveValue(c) ==
  /\ Idle(c)
  /\ c \in Giver
  /\ lock = None
  /\ waiters = <<>>
  /\ value < MaxValue
  /\ value' = value + 1
  /\ balance' = balance + 1
  /\ UNCHANGED <<waiters, lock, threads, pc, target>>

\* _ipc_list_resume: the first waiter.  The call will return RT_EOK.
GiveWaiter(c) ==
  /\ Idle(c)
  /\ c \in Giver
  /\ lock = None
  /\ waiters # <<>>
  /\ lock' = c
  /\ target' = [target EXCEPT ![c] = Head(waiters)]
  /\ balance' = balance + 1
  /\ Goto(c, "first")
  /\ UNCHANGED <<value, waiters, threads>>

\* Where a context goes on behind rt_thread_resume or rt_thread_timeout: a
\* release unlocks, a reset looks for the next waiter, a handler is over.
Behind(c) == IF lock = c THEN "done" ELSE IF c \in Thread THEN "sweep" ELSE "off"

\* rt_thread_resume: the test of thread->stat, whose -RT_ERROR nobody reads.
ResumeTest(c) ==
  /\ At(c, "first")
  /\ Goto(c, IF stat[target[c]] = "SUSPEND" THEN "unlink" ELSE Behind(c))
  /\ UNCHANGED <<value, waiters, lock, threads, target, balance>>

\* Mutant: the thread's timer keeps running.
ResumeUnlinkTimed(c) ==
  /\ At(c, "unlink")
  /\ waiters' = Unlink(waiters, target[c])
  /\ Goto(c, "insert")
  /\ UNCHANGED <<value, lock, threads, target, balance>>

\* rt_thread_resume: rt_list_remove and rt_timer_stop.
ResumeUnlink(c) ==
  /\ At(c, "unlink")
  /\ waiters' = Unlink(waiters, target[c])
  /\ armed' = [armed EXCEPT ![target[c]] = FALSE]
  /\ Goto(c, "insert")
  /\ UNCHANGED <<value, lock, stat, oncpu, queued, error, current, next,
                 target, balance>>

\* rt_schedule_insert_thread: the test of thread->oncpu.
InsertTest(c) ==
  /\ At(c, "insert")
  /\ Goto(c, IF oncpu[target[c]] THEN "running" ELSE "ready")
  /\ UNCHANGED <<value, waiters, lock, threads, target, balance>>

\* The thread is inserted.
Inserted(c) ==
  /\ Goto(c, Behind(c))
  /\ target' = IF lock = c THEN target ELSE [target EXCEPT ![c] = None]

\* rt_schedule_insert_thread: the thread is on its hart still.
InsertRunning(c) ==
  /\ At(c, "running")
  /\ stat' = [stat EXCEPT ![target[c]] = "RUNNING"]
  /\ Inserted(c)
  /\ UNCHANGED <<value, waiters, lock, oncpu, queued, error, armed, current,
                 next, balance>>

\* Mutant: the thread is made READY and put into no list.
InsertReadyNot(c) ==
  /\ At(c, "ready")
  /\ stat' = [stat EXCEPT ![target[c]] = "READY"]
  /\ Inserted(c)
  /\ UNCHANGED <<value, waiters, lock, oncpu, queued, error, armed, current,
                 next, balance>>

\* rt_schedule_insert_thread: into the ready table.
InsertReady(c) ==
  /\ At(c, "ready")
  /\ stat' = [stat EXCEPT ![target[c]] = "READY"]
  /\ queued' = queued \union {target[c]}
  /\ Inserted(c)
  /\ UNCHANGED <<value, waiters, lock, oncpu, error, armed, current, next,
                 balance>>

GiveUnlock(c) ==
  /\ At(c, "done")
  /\ lock' = None
  /\ target' = [target EXCEPT ![c] = None]
  /\ Goto(c, After(c))
  /\ UNCHANGED <<value, waiters, threads, balance>>

-----------------------------------------------------------------------------
(* rt_sem_control(sem, RT_IPC_CMD_RESET, v), interrupts masked but no lock   *)

\* Mutant: the waiters are left waiting.
ResetLeaves(t) ==
  /\ Idle(t)
  /\ t \in Resetter
  /\ Goto(t, "swept")
  /\ UNCHANGED <<value, waiters, lock, threads, target, balance>>

\* rt_hw_interrupt_disable
Reset(t) ==
  /\ Idle(t)
  /\ t \in Resetter
  /\ Goto(t, "sweep")
  /\ UNCHANGED <<value, waiters, lock, threads, target, balance>>

\* _ipc_list_resume_all: the next waiter, and thread->error = -RT_ERROR.
ResetNext(t) ==
  /\ At(t, "sweep")
  /\ waiters # <<>>
  /\ target' = [target EXCEPT ![t] = Head(waiters)]
  /\ error' = [error EXCEPT ![Head(waiters)] = "ERROR"]
  /\ Goto(t, "first")
  /\ UNCHANGED <<value, waiters, lock, stat, oncpu, queued, armed, current,
                 next, balance>>

\* _ipc_list_resume_all: nobody waits any more.
ResetEmpty(t) ==
  /\ At(t, "sweep")
  /\ waiters = <<>>
  /\ Goto(t, "swept")
  /\ UNCHANGED <<value, waiters, lock, threads, target, balance>>

\* sem->value = v
ResetValue(t, v) ==
  /\ At(t, "swept")
  /\ value' = v
  /\ balance' = balance - value + v
  /\ Goto(t, "user")
  /\ UNCHANGED <<waiters, lock, threads, target>>

-----------------------------------------------------------------------------
(* rt_timer_check and rt_thread_timeout *)

\* The tick finds the timer due and takes it off the timer list.
Expire(u) ==
  /\ Open(TimerHart)
  /\ armed[u]
  /\ armed' = [armed EXCEPT ![u] = FALSE]
  /\ target' = [target EXCEPT ![TimerHart] = u]
  /\ Goto(TimerHart, "expired")
  /\ UNCHANGED <<value, waiters, lock, stat, oncpu, queued, error, current,
                 next, balance>>

\* RT_ASSERT((thread->stat & RT_THREAD_STAT_MASK) == RT_THREAD_SUSPEND)
ExpireTest(h) ==
  /\ At(h, "expired")
  /\ Goto(h, IF stat[target[h]] = "SUSPEND" THEN "unwait" ELSE "halt")
  /\ UNCHANGED <<value, waiters, lock, threads, target, balance>>

\* thread->error = -RT_ETIMEOUT and rt_list_remove
ExpireUnlink(h) ==
  /\ At(h, "unwait")
  /\ error' = [error EXCEPT ![target[h]] = "ETIMEOUT"]
  /\ waiters' = Unlink(waiters, target[h])
  /\ Goto(h, "insert")
  /\ UNCHANGED <<value, lock, stat, oncpu, queued, armed, current, next,
                 target, balance>>

-----------------------------------------------------------------------------
(* Switches, by rt_schedule or on the way out of an interrupt *)

\* _scheduler_get_highest_priority_thread: a first thread of hart h's table.
MostUrgent(h) ==
  LET here == {u \in queued : HartOf[u] = h}
  IN  IF here = {} THEN {None}
      ELSE {u \in here : \A w \in here : Priority[u] <= Priority[w]}

\* A running thread gives way to a more urgent one, or at the end of its
\* slice to one as urgent; the idle thread gives way to every other.
Keeps(t, to, yield) ==
  /\ stat[t] = "RUNNING"
  /\ to # None => IF yield THEN Priority[t] < Priority[to]
                           ELSE Priority[t] <= Priority[to]

\* The choice of the next thread, and current_thread->oncpu = RT_CPU_DETACHED.
\* Taken when rt_schedule is called, or when an interrupt asks for a switch.
Leave(h) ==
  LET t == current[h] IN
  /\ Open(h)
  /\ \E to \in MostUrgent(h), yield \in BOOLEAN :
       /\ IF t = None THEN to # None
          ELSE pc[t] = "schedule" \/ ~Keeps(t, to, yield)
       /\ next' = [next EXCEPT ![h] = [on |-> TRUE, to |-> to, yield |-> yield]]
  /\ oncpu' = [u \in Thread |-> oncpu[u] /\ u # t]
  /\ UNCHANGED <<value, waiters, lock, stat, queued, error, armed, current, pc,
                 target, balance>>

\* rt_schedule is over for a thread that was in it.
Scheduled(t) ==
  pc' = [c \in Context |-> IF c = t /\ pc[t] = "schedule" THEN "return" ELSE pc[c]]

\* The thread is RUNNING, or became so meanwhile, and keeps the hart.
Stay(h) ==
  LET t == current[h] IN
  /\ next[h].on
  /\ t # None
  /\ Keeps(t, next[h].to, next[h].yield)
  /\ oncpu' = [oncpu EXCEPT ![t] = TRUE]
  /\ next' = [next EXCEPT ![h] = NotSwitching]
  /\ Scheduled(t)
  /\ UNCHANGED <<value, waiters, lock, stat, queued, error, armed, current,
                 target, balance>>

\* The switch: a thread that could run on goes back to the ready table.
Arrive(h) ==
  LET t  == current[h]
      to == next[h].to
  IN
  /\ next[h].on
  /\ t # None => ~Keeps(t, to, next[h].yield)
  /\ queued' = (queued \union {u \in {t} \ {None} : stat[u] = "RUNNING"}) \ {to}
  /\ stat' = [u \in Thread |-> IF u = to THEN "RUNNING"
                               ELSE IF u = t /\ stat[t] = "RUNNING" THEN "READY"
                               ELSE stat[u]]
  /\ oncpu' = [u \in Thread |-> oncpu[u] \/ u = to]
  /\ current' = [current EXCEPT ![h] = to]
  /\ next' = [next EXCEPT ![h] = NotSwitching]
  /\ Scheduled(t)
  /\ UNCHANGED <<value, waiters, lock, error, armed, target, balance>>

-----------------------------------------------------------------------------
Resume(c) ==
  \/ ResumeTest(c)
  \/ ResumeUnlink(c)
  \/ InsertTest(c)
  \/ InsertRunning(c)
  \/ InsertReady(c)
  \/ GiveUnlock(c)

Next ==
  \/ \E t \in Thread : \/ TakeFreely(t)
                       \/ \E timed \in Timeouts : Block(t, timed)
                       \/ BlockUnlock(t)
                       \/ Return(t)
                       \/ Reset(t)
                       \/ ResetNext(t)
                       \/ ResetEmpty(t)
                       \/ \E v \in 0 .. MaxValue : ResetValue(t, v)
                       \/ Expire(t)
  \/ \E c \in Context : GiveValue(c) \/ GiveWaiter(c) \/ Resume(c)
  \/ \E h \in Hart : \/ ExpireTest(h)
                     \/ ExpireUnlink(h)
                     \/ Leave(h)
                     \/ Stay(h)
                     \/ Arrive(h)

Spec == Init /\ [][Next]_vars

-----------------------------------------------------------------------------
(* Every variable holds values of its C type; the value fits its range.     *)
TypeOK ==
  /\ value \in 0 .. MaxValue
  /\ waiters \in Seq(Thread)
  /\ lock \in Context \union {None}
  /\ stat \in [Thread -> {"READY", "RUNNING", "SUSPEND"}]
  /\ oncpu \in [Thread -> BOOLEAN]
  /\ queued \subseteq Thread
  /\ error \in [Thread -> {"EOK", "ETIMEOUT", "ERROR"}]
  /\ armed \in [Thread -> BOOLEAN]
  /\ current \in [Hart -> Thread \union {None}]
  /\ next \in [Hart -> [on : BOOLEAN, to : Thread \union {None}, yield : BOOLEAN]]
  /\ pc \in [Context -> Location]
  /\ target \in [Context -> Thread \union {None}]
  /\ balance \in Int

\* A thread that was given the semaphore and has yet to return from the take.
Granted == {t \in Thread : /\ pc[t] \in {"blocked", "schedule", "return"}
                           /\ t \notin Waiting
                           /\ error[t] = "EOK"}

\* A release that returns RT_EOK and has yet to take its thread off the list.
Giving == {c \in Context : lock = c /\ pc[c] \in {"first", "unlink"}}

(* No release is lost and none counts twice, whatever timeouts and resets   *)
(* come between: what was given and not taken is in the value or on its     *)
(* way to a thread that will return RT_EOK.                                 *)
TokensConserved == balance = value + Cardinality(Granted) + Cardinality(Giving)

(* No thread sleeps in rt_sem_take while the semaphore is available, resets *)
(* to any value included.                                                   *)
NoTokenPastWaiter == waiters # <<>> => value = 0

(* RT_IPC_FLAG_PRIO: the waiters are in the order of their priorities, each *)
(* once, so that a release finds the most urgent one first.                 *)
WaitersInOrder ==
  \A i, j \in DOMAIN waiters : i < j =>
    waiters[i] # waiters[j] /\ Priority[waiters[i]] <= Priority[waiters[j]]

(* First come, first served among waiters as urgent: those that wait keep   *)
(* their order, and a newcomer goes ahead only of less urgent ones.         *)
FirstComeFirst ==
  [][\A i, j \in DOMAIN waiters' : i < j =>
       \/ waiters'[j] \notin Waiting
       \/ /\ waiters'[i] \notin Waiting
          /\ Priority[waiters'[i]] < Priority[waiters'[j]]
       \/ \E k, m \in DOMAIN waiters :
            k < m /\ waiters[k] = waiters'[i] /\ waiters[m] = waiters'[j]]_vars

(* A thread is never forgotten: it waits in the list, it is in the ready    *)
(* table, it has its hart, or a context is just resuming it.                *)
NoThreadLost ==
  \A t \in Thread :
    \/ t \in Waiting
    \/ t \in queued
    \/ current[HartOf[t]] = t
    \/ \E c \in Context : target[c] = t /\ pc[c] \in Inserting

(* A thread timer never fires for a thread that is not waiting: the         *)
(* RT_ASSERT in rt_thread_timeout holds.                                    *)
TimeoutAsserted == \A h \in Hart : pc[h] # "halt"
=============================================================================
