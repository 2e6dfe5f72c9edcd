----------------------------- MODULE Scheduler -----------------------------
(***************************************************************************)
(* The scheduler of one hart (rt-thread/scheduler.c, thread.c, clock.c):    *)
(* its priority table and bitmap, the thread states, the nesting counters   *)
(* that rt_hw_interrupt_disable keeps in the running thread, and switches   *)
(* made by rt_schedule or on the way out of an interrupt.                   *)
(*                                                                         *)
(* Threads are bound to the hart, so what the hart's own threads and        *)
(* interrupts do to each other is all here: every section between           *)
(* rt_hw_interrupt_disable and rt_hw_interrupt_enable is one action, and    *)
(* interrupts come between any two of them.  What other harts do at the     *)
(* same time is in Semaphore.  A trap (rt_interrupt_enter, the handler,     *)
(* rt_interrupt_leave, rt_scheduler_do_irq_switch) runs with interrupts off *)
(* and is one action too.                                                   *)
(***************************************************************************)
EXTENDS IntrusiveList, FiniteSets

CONSTANTS
  Thread,       \* the threads bound to the hart
  Idle,         \* its idle thread: never blocks, never ends
  NoThread,     \* no thread
  Levels,       \* number of priorities, RT_THREAD_PRIORITY_MAX
  InitPriority, \* thread->init_priority
  InitTick,     \* thread->init_tick, the time slice
  MaxCritical,  \* bound on the nesting of rt_enter_critical
  Mortal,       \* threads that may return from their entry function
  Deletable,    \* threads another thread may delete
  Resumable,    \* threads another thread may resume or suspend
  DeleteLocked, \* whether programs delete a thread only with the scheduler
                \* locked, and while its timer is stopped
  EndsAlone     \* whether programs let a thread end, or delete it, only while
                \* no other thread is inside a call about it

ASSUME SchedulerConstants ==
  /\ Idle \in Thread
  /\ NoThread \notin Thread
  /\ Levels \in Nat \ {0}
  /\ InitPriority \in [Thread -> 0 .. Levels - 1]
  /\ InitPriority[Idle] = Levels - 1
  /\ InitTick \in Nat \ {0}
  /\ MaxCritical \in Nat
  /\ Mortal \subseteq Thread \ {Idle}
  /\ Deletable \subseteq Thread \ {Idle}
  /\ Resumable \subseteq Thread \ {Idle}
  /\ DeleteLocked \in BOOLEAN
  /\ EndsAlone \in BOOLEAN

Level == 0 .. Levels - 1

VARIABLES
  stat,       \* thread->stat & RT_THREAD_STAT_MASK
  yield,      \* thread->stat & RT_THREAD_STAT_YIELD
  prio,       \* thread->current_priority
  remaining,  \* thread->remaining_tick
  oncpu,      \* thread->oncpu # RT_CPU_DETACHED
  armed,      \* thread->thread_timer is started
  ready,      \* pcpu->priority_table and pcpu->priority_group
  current,    \* pcpu->current_thread
  nest,       \* cpus_lock_nest, scheduler_lock_nest, critical_lock_nest
  switchFlag, \* pcpu->irq_switch_flag
  doing       \* where a thread is inside a kernel call

vars == <<stat, yield, prio, remaining, oncpu, armed, ready, current, nest,
          switchFlag, doing>>

(***************************************************************************)
(* A thread in "user" is outside the kernel.  "schedule": its next call is  *)
(* rt_schedule.  "return": switched out inside rt_schedule, it still has    *)
(* enables calls of rt_hw_interrupt_enable to make, interrupts off.         *)
(* "resume", "suspend": rt_thread_resume or rt_thread_suspend has read      *)
(* who->stat and is about to mask interrupts.  "start", "startResume":      *)
(* rt_thread_startup of who before and in its call of rt_thread_resume.     *)
(* "remove", "untimer", "close": the parts of rt_thread_delete of who.      *)
(***************************************************************************)
Doing(k, n, u) == [at |-> k, enables |-> n, who |-> u]
User           == Doing("user", 0, NoThread)
ToSchedule     == Doing("schedule", 0, NoThread)
Return(n)      == Doing("return", n, NoThread)
About(k, u)    == Doing(k, 0, u)

Pending == {"resume", "suspend", "start", "startResume", "remove", "untimer",
            "close"}

-----------------------------------------------------------------------------
(* rt_schedule_insert_thread and rt_schedule_remove_thread on the ready     *)
(* table: the list of the thread's level and the level's bit.               *)

Enqueued(rd, t, p) ==
  [queue |-> [rd.queue EXCEPT ![p] = Append(@, t)],
   group |-> rd.group \union {p}]

\* Mutant: the bit is cleared while threads are left at the level.
DequeuedClears(rd, t, p) ==
  [queue |-> [l \in Level |-> Unlink(rd.queue[l], t)],
   group |-> rd.group \ {p}]

Dequeued(rd, t, p) ==
  LET q == [l \in Level |-> Unlink(rd.queue[l], t)]
  IN  [queue |-> q,
       group |-> IF q[p] = <<>> THEN rd.group \ {p} ELSE rd.group]

\* Mutant: the thread stays in the list it is in.
UnlinkedNot(rd, t) == rd

\* rt_list_remove alone: the bit of the level stays.
Unlinked(rd, t) ==
  [queue |-> [l \in Level |-> Unlink(rd.queue[l], t)], group |-> rd.group]

\* _scheduler_get_highest_priority_thread
HighestLevel(rd) == CHOOSE p \in rd.group : \A q \in rd.group : p <= q

\* Mutant: the thread that became ready last.
HighestLast(rd) ==
  LET q == rd.queue[HighestLevel(rd)] IN q[Len(q)]

Highest(rd) == Head(rd.queue[HighestLevel(rd)])

\* rt_list_remove and rt_schedule_insert_thread at level p: a thread that is
\* still on the hart only becomes RUNNING again.
Insert(t, p) ==
  /\ stat' = [stat EXCEPT ![t] = IF oncpu[t] THEN "RUNNING" ELSE "READY"]
  /\ ready' = IF oncpu[t] THEN Unlinked(ready, t)
              ELSE Enqueued(Unlinked(ready, t), t, p)

-----------------------------------------------------------------------------
(* The nesting counters of the running thread *)

\* rt_cpus_lock, alias rt_hw_interrupt_disable
Disable(n) == [cpus |-> n.cpus + 1,
               sched |-> IF n.cpus = 0 THEN n.sched + 1 ELSE n.sched,
               crit |-> n.crit]

\* Mutant: scheduler_lock_nest is not given back.
EnableKeepsLock(n) == [n EXCEPT !.cpus = @ - 1]

\* rt_cpus_unlock, alias rt_hw_interrupt_enable
Enable(n) == [cpus |-> n.cpus - 1,
              sched |-> IF n.cpus = 1 THEN n.sched - 1 ELSE n.sched,
              crit |-> n.crit]

DisableTimes(n, k) == IF k = 1 THEN Disable(n) ELSE Disable(Disable(n))
EnableTimes(n, k)  == IF k = 1 THEN Enable(n) ELSE Enable(Enable(n))

-----------------------------------------------------------------------------
(***************************************************************************)
(* rt_schedule and rt_scheduler_do_irq_switch share their decision.  st,    *)
(* yl and rd are stat, yield and ready as the caller left them.             *)
(***************************************************************************)
\* Mutant: the end of a slice is ignored.
KeepsHartForLong(t, st, yl, rd) ==
  st[t] = "RUNNING" /\ prio[t] <= HighestLevel(rd)

KeepsHart(t, st, yl, rd) ==
  /\ st[t] = "RUNNING"
  /\ \/ prio[t] < HighestLevel(rd)
     \/ prio[t] = HighestLevel(rd) /\ ~yl[t]

\* The hart stays with t.
Stay(t, st, yl, rd) ==
  /\ stat' = st
  /\ yield' = [yl EXCEPT ![t] = @ /\ st[t] # "RUNNING"]
  /\ ready' = rd
  /\ UNCHANGED <<oncpu, current>>

\* Mutant: the thread that leaves is not detached.
OnCpuAfterBoth(t, to) == [oncpu EXCEPT ![to] = TRUE]

\* current_thread->oncpu = RT_CPU_DETACHED; to_thread->oncpu = cpu_id;
OnCpuAfter(t, to) == [oncpu EXCEPT ![t] = FALSE, ![to] = TRUE]

\* The hart goes to the first thread of the highest level; t, if it could
\* still run, goes to the end of its own.
SwitchAway(t, st, yl, rd) ==
  LET to  == Highest(rd)
      rd1 == IF st[t] = "RUNNING" THEN Enqueued(rd, t, prio[t]) ELSE rd
      st1 == IF st[t] = "RUNNING" THEN [st EXCEPT ![t] = "READY"] ELSE st
  IN  /\ stat' = [st1 EXCEPT ![to] = "RUNNING"]
      /\ yield' = [yl EXCEPT ![t] = @ /\ st[t] # "RUNNING"]
      /\ ready' = Dequeued(rd1, to, prio[to])
      /\ oncpu' = OnCpuAfter(t, to)
      /\ current' = to

\* Nothing to decide: the scheduler is locked or no thread is ready.
Nothing(st, yl, rd) ==
  /\ stat' = st
  /\ yield' = yl
  /\ ready' = rd
  /\ UNCHANGED <<oncpu, current>>

\* rt_schedule, called by the running thread t with depth - 1 interrupt
\* disables of its caller around it.
Schedule(t, st, yl, rd, depth) ==
  LET inside == DisableTimes(nest[t], depth) IN
  \/ /\ inside.sched # 1 \/ rd.group = {}
     /\ Nothing(st, yl, rd)
     /\ doing' = [doing EXCEPT ![t] = User]
     /\ UNCHANGED nest
  \/ /\ inside.sched = 1
     /\ rd.group # {}
     /\ KeepsHart(t, st, yl, rd)
     /\ Stay(t, st, yl, rd)
     /\ doing' = [doing EXCEPT ![t] = User]
     /\ UNCHANGED nest
  \/ /\ inside.sched = 1
     /\ rd.group # {}
     /\ ~KeepsHart(t, st, yl, rd)
     /\ SwitchAway(t, st, yl, rd)
     /\ doing' = [doing EXCEPT ![t] = Return(depth)]
     /\ nest' = [nest EXCEPT ![t] = inside]

\* rt_scheduler_do_irq_switch: the end of every trap.  The interrupted thread
\* returns straight to its code, so its counters lose the disable.
IrqSwitch(t, st, yl, rd, flag) ==
  LET inside == Disable(nest[t]) IN
  \/ /\ ~flag \/ inside.sched # 1
     /\ Nothing(st, yl, rd)
     /\ switchFlag' = flag
     /\ UNCHANGED <<nest, doing>>
  \/ /\ flag
     /\ inside.sched = 1
     /\ switchFlag' = FALSE
     /\ \/ rd.group = {} /\ Nothing(st, yl, rd)
        \/ rd.group # {} /\ KeepsHart(t, st, yl, rd) /\ Stay(t, st, yl, rd)
        \/ rd.group # {} /\ ~KeepsHart(t, st, yl, rd)
           /\ SwitchAway(t, st, yl, rd)
     /\ nest' = [nest EXCEPT ![t] = Enable(inside)]
     /\ UNCHANGED doing
-----------------------------------------------------------------------------
(* Boot *)

Init ==
  /\ stat = [t \in Thread |-> "INIT"]
  /\ yield = [t \in Thread |-> FALSE]
  /\ prio = InitPriority
  /\ remaining = [t \in Thread |-> InitTick]
  /\ oncpu = [t \in Thread |-> FALSE]
  /\ armed = [t \in Thread |-> FALSE]
  /\ ready = [queue |-> [l \in Level |-> <<>>], group |-> {}]
  /\ current = NoThread
  /\ nest = [t \in Thread |-> [cpus |-> 0, sched |-> 0, crit |-> 0]]
  /\ switchFlag = FALSE
  /\ doing = [t \in Thread |-> User]

\* rt_thread_startup before the scheduler runs: there is nobody to interleave
\* with, so it is one step.
BootStartup(u) ==
  /\ current = NoThread
  /\ stat[u] = "INIT"
  /\ Insert(u, InitPriority[u])
  /\ prio' = [prio EXCEPT ![u] = InitPriority[u]]
  /\ UNCHANGED <<yield, remaining, oncpu, armed, current, nest, switchFlag,
                 doing>>

\* rt_system_scheduler_start
SchedulerStart ==
  /\ current = NoThread
  /\ stat[Idle] = "READY"
  /\ LET to == Highest(ready) IN
     /\ oncpu' = [oncpu EXCEPT ![to] = TRUE]
     /\ ready' = Dequeued(ready, to, prio[to])
     /\ stat' = [stat EXCEPT ![to] = "RUNNING"]
     /\ current' = to
  /\ UNCHANGED <<yield, prio, remaining, armed, nest, switchFlag, doing>>

-----------------------------------------------------------------------------
(* Calls of the running thread *)

Calls(t, at) == current = t /\ doing[t].at = at

\* The program of t makes its next call.  A thread that ended while it had the
\* scheduler locked does not: _thread_exit returns to _thread_exit.
Asks(t) == Calls(t, "user") /\ stat[t] # "CLOSE"

\* No other thread is inside a call about u.
Alone(u) == \A t \in Thread : doing[t].who # u

\* u is off its list because rt_thread_delete took it off.
Leaving(u) ==
  \E t \in Thread : doing[t].who = u /\ doing[t].at \in {"untimer", "close"}

\* rt_schedule as the last thing a call does, interrupts being on before it.
ScheduleNow(t) ==
  /\ Calls(t, "schedule")
  /\ Schedule(t, stat, yield, ready, 1)
  /\ UNCHANGED <<prio, remaining, armed, switchFlag>>

\* A thread switched back in makes the enable calls it had left.
ReturnFromSchedule(t) ==
  /\ Calls(t, "return")
  /\ nest' = [nest EXCEPT ![t] = EnableTimes(@, doing[t].enables)]
  /\ doing' = [doing EXCEPT ![t] = User]
  /\ UNCHANGED <<stat, yield, prio, remaining, oncpu, armed, ready, current,
                 switchFlag>>

\* rt_enter_critical
EnterCritical(t) ==
  /\ Asks(t)
  /\ nest[t].crit < MaxCritical
  /\ nest' = [nest EXCEPT ![t] =
                [cpus |-> @.cpus + 1,
                 crit |-> @.crit + 1,
                 sched |-> IF @.cpus = 0 THEN @.sched + 2 ELSE @.sched + 1]]
  /\ UNCHANGED <<stat, yield, prio, remaining, oncpu, armed, ready, current,
                 switchFlag, doing>>

\* rt_exit_critical
ExitCritical(t) ==
  /\ Asks(t)
  /\ nest[t].crit > 0
  /\ LET sched == IF nest[t].cpus = 1 THEN nest[t].sched - 2
                                      ELSE nest[t].sched - 1
     IN  /\ nest' = [nest EXCEPT ![t] =
                       [cpus |-> @.cpus - 1,
                        crit |-> @.crit - 1,
                        sched |-> IF sched <= 0 THEN 0 ELSE sched]]
         /\ doing' = IF sched <= 0 THEN [doing EXCEPT ![t] = ToSchedule]
                                   ELSE doing
  /\ UNCHANGED <<stat, yield, prio, remaining, oncpu, armed, ready, current,
                 switchFlag>>

\* rt_thread_yield
Yield(t) ==
  /\ Asks(t)
  /\ t # Idle
  /\ remaining' = [remaining EXCEPT ![t] = InitTick]
  /\ Schedule(t, stat, [yield EXCEPT ![t] = TRUE], ready, 2)
  /\ UNCHANGED <<prio, armed, switchFlag>>

\* rt_thread_suspend of the caller, then rt_thread_sleep's timer when timed,
\* up to the rt_schedule that follows with interrupts on.  With the scheduler
\* locked that rt_schedule changes nothing and the caller runs on; when it
\* sleeps again rt_thread_suspend fails and only the timer is started.
Block(t, timed) ==
  /\ Asks(t)
  /\ t # Idle
  /\ stat[t] = "RUNNING" \/ timed
  /\ ready' = IF stat[t] = "RUNNING" THEN Dequeued(ready, t, prio[t]) ELSE ready
  /\ stat' = [stat EXCEPT ![t] = "SUSPEND"]
  /\ armed' = [armed EXCEPT ![t] = timed]
  /\ doing' = [doing EXCEPT ![t] = ToSchedule]
  /\ UNCHANGED <<yield, prio, remaining, oncpu, current, nest, switchFlag>>

\* rt_thread_resume: the test of u->stat, before interrupts are masked.
ResumeTest(t, u) ==
  /\ Asks(t)
  /\ t # Idle
  /\ u \in Resumable \ {t}
  /\ stat[u] = "SUSPEND"
  /\ doing' = [doing EXCEPT ![t] = About("resume", u)]
  /\ UNCHANGED <<stat, yield, prio, remaining, oncpu, armed, ready, current,
                 nest, switchFlag>>

\* Where a thread goes from rt_thread_resume: back to its program or on to
\* rt_schedule, which only rt_thread_startup always calls.
AfterResume(k) == IF k = "resume" THEN {User, ToSchedule} ELSE {ToSchedule}

\* Mutant: the thread's timer keeps running.
ResumeCommitTimed(t) ==
  /\ current = t /\ doing[t].at \in {"resume", "startResume"}
  /\ Insert(doing[t].who, prio[doing[t].who])
  /\ \E d \in AfterResume(doing[t].at) : doing' = [doing EXCEPT ![t] = d]
  /\ UNCHANGED <<yield, prio, remaining, oncpu, armed, current, nest,
                 switchFlag>>

\* rt_thread_resume: the masked part.
ResumeCommit(t) ==
  /\ current = t /\ doing[t].at \in {"resume", "startResume"}
  /\ LET u == doing[t].who IN
     /\ armed' = [armed EXCEPT ![u] = FALSE]
     /\ Insert(u, prio[u])
  /\ \E d \in AfterResume(doing[t].at) : doing' = [doing EXCEPT ![t] = d]
  /\ UNCHANGED <<yield, prio, remaining, oncpu, current, nest, switchFlag>>

\* rt_thread_suspend of another thread: the test of u->stat.
SuspendTest(t, u) ==
  /\ Asks(t)
  /\ t # Idle
  /\ u \in Resumable \ {t}
  /\ stat[u] = "READY"
  /\ doing' = [doing EXCEPT ![t] = About("suspend", u)]
  /\ UNCHANGED <<stat, yield, prio, remaining, oncpu, armed, ready, current,
                 nest, switchFlag>>

\* rt_thread_suspend of another thread: the masked part.
SuspendCommit(t) ==
  /\ Calls(t, "suspend")
  /\ LET u == doing[t].who IN
     /\ ready' = Dequeued(ready, u, prio[u])
     /\ stat' = [stat EXCEPT ![u] = "SUSPEND"]
     /\ armed' = [armed EXCEPT ![u] = FALSE]
  /\ doing' = [doing EXCEPT ![t] = User]
  /\ UNCHANGED <<yield, prio, remaining, oncpu, current, nest, switchFlag>>

\* rt_thread_control(u, RT_THREAD_CTRL_CHANGE_PRIORITY): no rt_schedule after.
ChangePriority(t, u, p) ==
  /\ Asks(t)
  /\ t # Idle
  /\ u # Idle
  /\ p # prio[u]
  /\ prio' = [prio EXCEPT ![u] = p]
  /\ ready' = IF stat[u] = "READY"
              THEN Enqueued(Dequeued(ready, u, prio[u]), u, p)
              ELSE ready
  /\ UNCHANGED <<stat, yield, remaining, oncpu, armed, current, nest,
                 switchFlag, doing>>

\* rt_thread_startup by a running thread, up to its call of rt_thread_resume.
Startup(t, u) ==
  /\ Asks(t)
  /\ t # Idle
  /\ stat[u] = "INIT"
  /\ stat' = [stat EXCEPT ![u] = "SUSPEND"]
  /\ prio' = [prio EXCEPT ![u] = InitPriority[u]]
  /\ doing' = [doing EXCEPT ![t] = About("start", u)]
  /\ UNCHANGED <<yield, remaining, oncpu, armed, ready, current, nest,
                 switchFlag>>

\* The test of u->stat in that call: somebody else may have resumed u.
StartTest(t) ==
  /\ Calls(t, "start")
  /\ doing' = [doing EXCEPT ![t] = IF stat[doing[t].who] = "SUSPEND"
                                  THEN About("startResume", doing[t].who)
                                  ELSE ToSchedule]
  /\ UNCHANGED <<stat, yield, prio, remaining, oncpu, armed, ready, current,
                 nest, switchFlag>>

\* u is made ready by rt_thread_resume, or rt_thread_timeout.
Woken(st, u) == [st EXCEPT ![u] = IF oncpu[u] THEN "RUNNING" ELSE "READY"]
WokenReady(rd, u) == IF oncpu[u] THEN Unlinked(rd, u)
                     ELSE Enqueued(Unlinked(rd, u), u, prio[u])

\* The release of system_sem in rt_thread_defunct_enqueue wakes u, the system
\* thread, if it waits.
SystemThread(u) == stat[u] = "SUSPEND" /\ ~Leaving(u)

\* _thread_exit: the entry function returned.  The rt_schedule of the release
\* and the one at the end both come with interrupts masked once; the second
\* is never reached, unless the scheduler is locked and both do nothing.
Exit(t) ==
  /\ Calls(t, "user")
  /\ t \in Mortal
  /\ EndsAlone => Alone(t)
  /\ LET st == [stat EXCEPT ![t] = "CLOSE"]
         rd == Dequeued(ready, t, prio[t])
     IN  \/ /\ Schedule(t, st, yield, rd, 2)
            /\ armed' = [armed EXCEPT ![t] = FALSE]
         \/ \E u \in Thread \ {t} :
              /\ SystemThread(u)
              /\ Schedule(t, Woken(st, u), yield, WokenReady(rd, u), 2)
              /\ armed' = [armed EXCEPT ![t] = FALSE, ![u] = FALSE]
  /\ UNCHANGED <<prio, remaining, switchFlag>>

\* rt_thread_delete (and rt_thread_detach): the tests of u->stat.
DeleteTest(t, u) ==
  /\ Asks(t)
  /\ t # Idle
  /\ u \in Deletable \ {t}
  /\ stat[u] # "CLOSE"
  /\ DeleteLocked => nest[t].crit > 0 /\ ~armed[u]
  /\ EndsAlone => Alone(u)
  /\ doing' = [doing EXCEPT ![t] =
                 About(IF stat[u] = "INIT" THEN "untimer" ELSE "remove", u)]
  /\ UNCHANGED <<stat, yield, prio, remaining, oncpu, armed, ready, current,
                 nest, switchFlag>>

\* Mutant: the thread stays in the ready table.
DeleteRemoveNot(t) ==
  /\ Calls(t, "remove")
  /\ doing' = [doing EXCEPT ![t].at = "untimer"]
  /\ UNCHANGED <<stat, yield, prio, remaining, oncpu, armed, ready, current,
                 nest, switchFlag>>

\* rt_thread_delete: rt_schedule_remove_thread(u).
DeleteRemove(t) ==
  /\ Calls(t, "remove")
  /\ ready' = Dequeued(ready, doing[t].who, prio[doing[t].who])
  /\ doing' = [doing EXCEPT ![t].at = "untimer"]
  /\ UNCHANGED <<stat, yield, prio, remaining, oncpu, armed, current, nest,
                 switchFlag>>

\* rt_thread_delete: rt_timer_detach(&u->thread_timer).
DeleteUntimer(t) ==
  /\ Calls(t, "untimer")
  /\ armed' = [armed EXCEPT ![doing[t].who] = FALSE]
  /\ doing' = [doing EXCEPT ![t].at = "close"]
  /\ UNCHANGED <<stat, yield, prio, remaining, oncpu, ready, current, nest,
                 switchFlag>>

\* rt_thread_delete: u->stat = RT_THREAD_CLOSE and rt_thread_defunct_enqueue,
\* whose release may wake the system thread and call rt_schedule.
DeleteClose(t) ==
  /\ Calls(t, "close")
  /\ LET st == [stat EXCEPT ![doing[t].who] = "CLOSE"] IN
     \/ /\ stat' = st
        /\ doing' = [doing EXCEPT ![t] = User]
        /\ UNCHANGED <<yield, oncpu, armed, ready, current, nest>>
     \/ \E u \in Thread :
          /\ SystemThread(u)
          /\ Schedule(t, Woken(st, u), yield, WokenReady(ready, u), 2)
          /\ armed' = [armed EXCEPT ![u] = FALSE]
  /\ UNCHANGED <<prio, remaining, switchFlag>>

-----------------------------------------------------------------------------
(* Traps: taken whenever the running thread has interrupts on. *)

InterruptsOn == current # NoThread /\ doing[current].at # "return"

\* A wake-up in a handler ends with an rt_schedule that only sets
\* irq_switch_flag.

\* Mutant: remaining_tick is not reloaded.
SliceLeftUnrenewed(t) == remaining[t] - 1

\* thread->remaining_tick after a tick.
SliceLeft(t) == IF remaining[t] = 1 THEN InitTick ELSE remaining[t] - 1

\* rt_tick_increase, and rt_timer_check when no thread's timer has expired.
Tick ==
  /\ InterruptsOn
  /\ LET t     == current
         ended == remaining[t] = 1
     IN  /\ remaining' = [remaining EXCEPT ![t] = SliceLeft(t)]
         /\ IrqSwitch(t, stat, [yield EXCEPT ![t] = @ \/ ended], ready,
                      switchFlag \/ ended)
  /\ UNCHANGED <<prio, armed>>

\* rt_tick_increase with a thread timer that expires in rt_timer_check.
TickTimeout(u) ==
  /\ InterruptsOn
  /\ armed[u]
  /\ armed' = [armed EXCEPT ![u] = FALSE]
  /\ LET t     == current
         ended == remaining[t] = 1
     IN  /\ remaining' = [remaining EXCEPT ![t] = SliceLeft(t)]
         /\ IrqSwitch(t, Woken(stat, u), [yield EXCEPT ![t] = @ \/ ended],
                      WokenReady(ready, u), TRUE)
  /\ UNCHANGED prio

\* Mutant: rt_thread_resume without its test of u->stat.
DeviceWakesAnyone(u) ==
  /\ InterruptsOn
  /\ ~oncpu[u]
  /\ armed' = [armed EXCEPT ![u] = FALSE]
  /\ IrqSwitch(current, Woken(stat, u), yield, WokenReady(ready, u), TRUE)
  /\ UNCHANGED <<prio, remaining>>

\* A device handler resumes a thread that waits (rt_sem_release and the like);
\* a thread that rt_thread_delete has taken off its list is not found there.
DeviceWakes(u) ==
  /\ InterruptsOn
  /\ stat[u] = "SUSPEND"
  /\ ~Leaving(u)
  /\ armed' = [armed EXCEPT ![u] = FALSE]
  /\ IrqSwitch(current, Woken(stat, u), yield, WokenReady(ready, u), TRUE)
  /\ UNCHANGED <<prio, remaining>>

Kernel(t) ==
  \/ ScheduleNow(t)
  \/ ReturnFromSchedule(t)
  \/ StartTest(t)
  \/ ResumeCommit(t)
  \/ SuspendCommit(t)
  \/ DeleteRemove(t)
  \/ DeleteUntimer(t)
  \/ DeleteClose(t)

Request(t) ==
  \/ EnterCritical(t)
  \/ Yield(t)
  \/ \E timed \in BOOLEAN : Block(t, timed)
  \/ Exit(t)
  \/ \E u \in Thread : \/ ResumeTest(t, u)
                       \/ SuspendTest(t, u)
                       \/ Startup(t, u)
                       \/ DeleteTest(t, u)
                       \/ \E p \in Level : ChangePriority(t, u, p)

Next ==
  \/ SchedulerStart
  \/ Tick
  \/ \E u \in Thread : BootStartup(u) \/ TickTimeout(u) \/ DeviceWakes(u)
  \/ \E t \in Thread : Kernel(t) \/ Request(t) \/ ExitCritical(t)

Spec == Init /\ [][Next]_vars

(***************************************************************************)
(* The tick interrupt keeps coming, a thread inside a kernel call goes on,  *)
(* and a thread that locked the scheduler unlocks it.                       *)
(***************************************************************************)
Fairness ==
  /\ WF_vars(SchedulerStart)
  /\ WF_vars(BootStartup(Idle))
  /\ WF_vars(Tick)
  /\ WF_vars(\E t \in Thread : Kernel(t))
  /\ SF_vars(\E t \in Thread : ExitCritical(t))

FairSpec == Spec /\ Fairness

-----------------------------------------------------------------------------
Status == {"INIT", "READY", "RUNNING", "SUSPEND", "CLOSE"}

(* Every variable holds values of its C type. *)
TypeOK ==
  /\ stat \in [Thread -> Status]
  /\ yield \in [Thread -> BOOLEAN]
  /\ prio \in [Thread -> Level]
  /\ remaining \in [Thread -> 1 .. InitTick]
  /\ oncpu \in [Thread -> BOOLEAN]
  /\ armed \in [Thread -> BOOLEAN]
  /\ ready \in [queue : [Level -> Seq(Thread)], group : SUBSET Level]
  /\ current \in Thread \union {NoThread}
  /\ nest \in [Thread -> [cpus : Nat, sched : Nat, crit : Nat]]
  /\ switchFlag \in BOOLEAN
  /\ doing \in [Thread -> [at : Pending \union {"user", "schedule", "return"},
                           enables : 0 .. 2, who : Thread \union {NoThread}]]

Count(s, t) == Cardinality({i \in DOMAIN s : s[i] = t})

\* The bitmap has the bit of a level exactly when its list is not empty.
GroupExact == \A l \in Level : l \in ready.group <=> ready.queue[l] # <<>>

(* A thread is in the ready table exactly when its state is READY and no    *)
(* rt_thread_delete has taken it off, once, in the list of its current      *)
(* priority, whatever calls and interrupts did, and the bitmap rt_schedule  *)
(* trusts agrees with the lists.                                            *)
ReadyTableExact ==
  /\ \A t \in Thread, l \in Level :
       Count(ready.queue[l], t) =
         IF stat[t] = "READY" /\ prio[t] = l /\ ~Leaving(t) THEN 1 ELSE 0
  /\ GroupExact

(* The hart's thread is the only one that is RUNNING or marked as on the    *)
(* hart, and it is RUNNING except on its way into rt_schedule or while it   *)
(* has the scheduler locked, where a thread that sleeps or ends runs on.    *)
RunningIsCurrent ==
  \A t \in Thread :
    /\ oncpu[t] <=> t = current
    /\ stat[t] = "RUNNING" => t = current
    /\ t = current /\ stat[t] # "RUNNING" =>
         doing[t].at = "schedule" \/ nest[t].crit > 0

(* The counters that lock the scheduler are balanced over every path in and *)
(* out of rt_schedule and of interrupts: a thread outside the kernel has    *)
(* exactly its own rt_enter_critical calls on them.                         *)
NestsBalanced ==
  \A t \in Thread :
    LET own == nest[t].crit
        n   == IF doing[t].at = "return" THEN doing[t].enables ELSE 0
    IN  /\ nest[t].cpus = own + n
        /\ nest[t].sched = (IF own + n = 0 THEN 0 ELSE 1) + own

(* RT_ASSERT in rt_thread_timeout: a thread whose timer may expire waits.   *)
TimeoutFindsSuspended == \A t \in Thread : armed[t] => stat[t] = "SUSPEND"

(* A switch goes to the ready thread that waited longest at the highest     *)
(* ready level, and never past a thread that locked the scheduler.          *)
SwitchRespectsOrder ==
  [][current # NoThread /\ current' # current =>
       /\ nest[current].crit = 0
       /\ \A v \in Thread : stat'[v] = "READY" => prio'[current'] <= prio'[v]
       /\ \A i \in DOMAIN ready.queue[prio'[current']] :
            ready.queue[prio'[current']][i] = current' => i = 1]_vars

(* When an unlocked thread comes out of rt_schedule no ready thread is more *)
(* urgent than the thread that then has the hart.                           *)
ScheduleServesUrgent ==
  [][\A t \in Thread :
       Calls(t, "schedule") /\ doing'[t].at # "schedule" /\ nest[t].crit = 0 =>
         \A v \in Thread : stat'[v] = "READY" => prio'[current'] <= prio'[v]]_vars

(* Every thread that is ready at the most urgent level gets the hart, by    *)
(* preemption at the next tick or by its turn in the time slices.           *)
UrgentRuns ==
  \A t \in Thread :
    stat[t] = "READY" /\ prio[t] = 0 ~> current = t \/ stat[t] # "READY" \/ prio[t] # 0

(* A deleted or ended thread stays closed and out of the ready table for    *)
(* good: rt_thread_delete promises that it is removed from the thread queue *)
(* before the idle thread gives its memory back.                            *)
ClosedForGood ==
  [][\A t \in Thread :
       /\ stat[t] = "CLOSE" => stat'[t] = "CLOSE"
       /\ stat'[t] = "CLOSE" =>
            \A l \in Level : Count(ready'.queue[l], t) = 0]_vars
=============================================================================
