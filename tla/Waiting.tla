------------------------------ MODULE Waiting ------------------------------
(***************************************************************************)
(* How a thread waits at an IPC object: the helpers of rt-thread/ipc.c that *)
(* put it into a wait list and take it out, and what they do to it          *)
(* (rt_thread_suspend, rt_thread_resume, rt_thread_timeout).                *)
(*                                                                         *)
(* One hart.  A section under rt_spin_lock or rt_hw_interrupt_disable is    *)
(* one step; between the sections any thread that is not suspended, or a    *)
(* handler, goes on.  Module Scheduler says which threads really may.       *)
(***************************************************************************)
EXTENDS IntrusiveList, FiniteSets, SequencesExt

CONSTANTS
  Thread,       \* the threads
  Isr,          \* the interrupt handlers: they call, but never wait
  BasePriority, \* the priority each thread is made with, 0 the most urgent
  Uses,         \* the objects to look at, each with the contexts that call it
  Limits,       \* the time limits calls are made with
  None          \* RT_NULL

ASSUME WaitingConstants ==
  /\ IsFiniteSet(Thread)
  /\ Thread \intersect Isr = {}
  /\ None \notin Thread \union Isr
  /\ BasePriority \in [Thread -> Nat]
  /\ \A o \in DOMAIN Uses : Uses[o] \subseteq Thread \union Isr
  /\ Limits \subseteq {"forever", "ticks", "zero"}

Context == Thread \union Isr

\* The wait lists; as a location, "in the call that waits in this list".
List == {"mutex", "event", "mbRecv", "mbSend", "mqRecv", "mqSend", "pool"}

VARIABLES
  object,  \* the object in use; None once it is detached
  waiters, \* the wait lists: suspend_thread, suspend_sender_thread
  flag,    \* the object's RT_IPC_FLAG_PRIO or RT_IPC_FLAG_FIFO
  stat,    \* thread->stat: suspended, or READY or RUNNING
  error,   \* thread->error, from the wait to the test behind rt_schedule
  armed,   \* thread->thread_timer is started
  prio,    \* thread->current_priority
  limit,   \* the time a call may still wait: RT_WAITING_FOREVER, some ticks, none
  at       \* where each context is; "idle" is outside the objects

threadVars == <<waiters, stat, error, armed>>

\* Context c is outside the objects and may call.
Idle(c) == at[c] = "idle" /\ object # None /\ c \in Uses[object]

\* The call is over.
Return(c) ==
  /\ at' = [at EXCEPT ![c] = "idle"]
  /\ limit' = [t \in Thread |-> IF t = c THEN "zero" ELSE limit[t]]

Goto(c, to) == at' = [at EXCEPT ![c] = to] /\ UNCHANGED limit

-----------------------------------------------------------------------------
\* Mutant: among its equals the thread goes to the front, and past others.
PlaceFront(l, t) == 0

\* _ipc_list_suspend: how many waiters t goes behind, those at least as urgent
\* or all.
Place(l, t) ==
  IF flag = "FIFO" /\ l # "mutex" THEN Len(waiters[l])
  ELSE Cardinality({i \in DOMAIN waiters[l] : prio[waiters[l][i]] <= prio[t]})

\* rt_thread_suspend of the caller, into list l behind n others, and its timer.
Wait(t, l, n, lim) ==
  /\ lim # "zero"
  /\ waiters' = [waiters EXCEPT ![l] = LinkBehind(@, n, t)]
  /\ stat' = [stat EXCEPT ![t] = "SUSPEND"]
  /\ error' = [error EXCEPT ![t] = "EOK"]
  /\ armed' = [armed EXCEPT ![t] = lim = "ticks"]
  /\ limit' = [limit EXCEPT ![t] = lim]
  /\ at' = [at EXCEPT ![t] = l]

\* rt_thread_resume of some waiters of list l; each now has error[t] = e.
Resume(l, ts, e) ==
  /\ waiters' = [waiters EXCEPT ![l] = UnlinkAll(@, ts)]
  /\ stat' = [t \in Thread |-> IF t \in ts THEN "READY" ELSE stat[t]]
  /\ armed' = [t \in Thread |-> armed[t] /\ t \notin ts]
  /\ error' = [t \in Thread |-> IF t \in ts THEN e ELSE error[t]]

\* _ipc_list_resume, where the list is not empty.
ResumeFirst(l) ==
  IF waiters[l] = <<>> THEN UNCHANGED threadVars
  ELSE Resume(l, {Head(waiters[l])}, error[Head(waiters[l])])

\* Mutant: a woken thread's timer keeps running.
ResumeAllTimed(ls) ==
  LET ts == UNION {ToSet(waiters[l]) : l \in ls} IN
  /\ waiters' = [l \in List |-> IF l \in ls THEN <<>> ELSE waiters[l]]
  /\ stat' = [t \in Thread |-> IF t \in ts THEN "READY" ELSE stat[t]]
  /\ error' = [t \in Thread |-> IF t \in ts THEN "ERROR" ELSE error[t]]
  /\ UNCHANGED armed

\* _ipc_list_resume_all of some lists, where the caller masked interrupts.
ResumeAll(ls) ==
  LET ts == UNION {ToSet(waiters[l]) : l \in ls} IN
  /\ waiters' = [l \in List |-> IF l \in ls THEN <<>> ELSE waiters[l]]
  /\ stat' = [t \in Thread |-> IF t \in ts THEN "READY" ELSE stat[t]]
  /\ error' = [t \in Thread |-> IF t \in ts THEN "ERROR" ELSE error[t]]
  /\ armed' = [t \in Thread |-> armed[t] /\ t \notin ts]

\* The tick: rt_timer_check takes the timer off, rt_thread_timeout follows.
Timeout(t) ==
  /\ armed[t]
  /\ waiters' = [l \in List |-> Unlink(waiters[l], t)]
  /\ stat' = [stat EXCEPT ![t] = "READY"]
  /\ error' = [error EXCEPT ![t] = "ETIMEOUT"]
  /\ armed' = [armed EXCEPT ![t] = FALSE]
  /\ UNCHANGED <<limit, at>>

\* Back from rt_schedule with thread->error = RT_EOK, or with an error.
Woken(t, l)  == at[t] = l /\ stat[t] = "READY" /\ error[t] = "EOK"
Failed(t, l) == at[t] = l /\ stat[t] = "READY" /\ error[t] # "EOK"

\* if (thread->error != RT_EOK) return thread->error;
GiveUp(t) ==
  /\ \E l \in List : Failed(t, l)
  /\ error' = [error EXCEPT ![t] = "EOK"]
  /\ Return(t)
  /\ UNCHANGED <<waiters, stat, armed>>

\* timeout -= tick_delta, not below zero, before a call tries once more.
Remaining(t) == IF limit[t] = "ticks" THEN {"ticks", "zero"} ELSE {limit[t]}

-----------------------------------------------------------------------------
WaitingInit ==
  /\ object \in DOMAIN Uses
  /\ waiters = [l \in List |-> <<>>]
  /\ flag \in {"PRIO", "FIFO"}
  /\ stat = [t \in Thread |-> "READY"]
  /\ error = [t \in Thread |-> "EOK"]
  /\ armed = [t \in Thread |-> FALSE]
  /\ prio = BasePriority
  /\ limit = [t \in Thread |-> "zero"]
  /\ at = [c \in Context |-> "idle"]

WaitingTypeOK ==
  /\ object \in DOMAIN Uses \union {None}
  /\ waiters \in [List -> Seq(Thread)]
  /\ flag \in {"PRIO", "FIFO"}
  /\ stat \in [Thread -> {"READY", "SUSPEND"}]
  /\ error \in [Thread -> {"EOK", "ETIMEOUT", "ERROR"}]
  /\ armed \in [Thread -> BOOLEAN]
  /\ prio \in [Thread -> Nat]
  /\ limit \in [Thread -> {"forever", "ticks", "zero"}]
=============================================================================
