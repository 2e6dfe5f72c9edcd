------------------------------- MODULE Timer -------------------------------
(***************************************************************************)
(* The hard timers (rt-thread/timer.c) on hart 1, the hart whose tick runs  *)
(* rt_timer_check: the list ordered by time-out, a tick counter that wraps, *)
(* and time-out functions that start, stop, change or delete timers, their  *)
(* own included, while rt_timer_check is in the middle of its loop.         *)
(*                                                                         *)
(* The skip list has one level (RT_TIMER_SKIP_LIST_LEVEL).  Calls mask      *)
(* interrupts and are one action; rt_timer_check is masked as a whole and   *)
(* is one action per pass and per time-out function, between which only     *)
(* the calls of that function happen.  Calls from other harts, which        *)
(* nothing keeps out of the list, are not modelled.                         *)
(***************************************************************************)
EXTENDS IntrusiveList, FiniteSets

CONSTANTS
  Timer,      \* timer objects
  Duration,   \* values of init_tick the programs use
  TickValues, \* number of values of rt_tick_t, RT_TICK_MAX + 1
  Unset,      \* no timer
  OwnOneshot  \* whether a time-out function may make its own timer one-shot

\* The comparison of two ticks tells before from after up to this distance.
Half == (TickValues - 1) \div 2

\* RT_ASSERT(timer->init_tick < RT_TICK_MAX / 2) in rt_timer_start; a timer
\* of no ticks that restarts in its own time-out function never lets
\* rt_timer_check end.
ASSUME TimerConstants ==
  /\ TickValues \in Nat \ {0}
  /\ Duration \subseteq 1 .. Half - 1
  /\ Duration # {}
  /\ Unset \notin Timer
  /\ OwnOneshot \in BOOLEAN

Tick == 0 .. TickValues - 1

VARIABLES
  tick,     \* rt_cpu_index(1)->tick
  list,     \* _timer_list[0]
  timeout,  \* timer->timeout_tick; 0 outside the list, where nothing reads it
  init,     \* timer->init_tick
  active,   \* RT_TIMER_FLAG_ACTIVATED
  periodic, \* RT_TIMER_FLAG_PERIODIC
  exists,   \* the timer is initialised and neither detached nor deleted
  phase,    \* "idle", in the loop of rt_timer_check: "check", "callback"
  running,  \* t of rt_timer_check while its time-out function runs
  inLocal   \* t is linked in the local list of rt_timer_check

vars == <<tick, list, timeout, init, active, periodic, exists, phase, running,
          inLocal>>

Listed == Members(list)

\* a - b in rt_tick_t
Minus(a, b) == (a - b) % TickValues

Init ==
  /\ tick = TickValues - 1
  /\ list = <<>>
  /\ timeout = [t \in Timer |-> 0]
  /\ init = [t \in Timer |-> CHOOSE d \in Duration : TRUE]
  /\ active = [t \in Timer |-> FALSE]
  /\ periodic = [t \in Timer |-> FALSE]
  /\ exists = [t \in Timer |-> FALSE]
  /\ phase = "idle"
  /\ running = Unset
  /\ inLocal = FALSE

-----------------------------------------------------------------------------
(* The list *)

\* Mutant: behind no timer that ends at the same tick.
PositionFirst(s, to) ==
  Cardinality({i \in DOMAIN s :
     \A j \in 1 .. i : Minus(timeout[s[j]], to) >= Half})

\* Mutant: the ticks are compared as numbers.
PositionUnwrapped(s, to) ==
  Cardinality({i \in DOMAIN s : \A j \in 1 .. i : timeout[s[j]] <= to})

\* The number of timers the search in rt_timer_start passes: up to the first
\* that ends after to.
Position(s, to) ==
  Cardinality({i \in DOMAIN s :
     \A j \in 1 .. i : \/ Minus(timeout[s[j]], to) = 0
                       \/ Minus(timeout[s[j]], to) >= Half})

\* Mutant: the sum does not wrap.
EndUnwrapped(t) == tick + init[t]

\* Mutant: the timer ends at once.
EndNow(t) == tick

\* rt_tick_get() + timer->init_tick
End(t) == (tick + init[t]) % TickValues

\* rt_timer_start: t leaves the list it is in, then goes behind the timers
\* that end no later.
Started(t) ==
  LET s == Unlink(list, t)
  IN  /\ list' = LinkBehind(s, Position(s, End(t)), t)
      /\ timeout' = [timeout EXCEPT ![t] = End(t)]
      /\ active' = [active EXCEPT ![t] = TRUE]

\* _timer_remove and the flag: out of _timer_list or of the local list.
Removed(t) ==
  /\ list' = Unlink(list, t)
  /\ timeout' = [timeout EXCEPT ![t] = 0]
  /\ active' = [active EXCEPT ![t] = FALSE]
  /\ inLocal' = (inLocal /\ t # running)

-----------------------------------------------------------------------------
(* Calls, by a program with interrupts on or by a time-out function *)

MayCall == phase \in {"idle", "callback"}

\* rt_timer_init, rt_timer_create
Initialise(t, d, p) ==
  /\ MayCall
  /\ ~exists[t]
  /\ exists' = [exists EXCEPT ![t] = TRUE]
  /\ init' = [init EXCEPT ![t] = d]
  /\ periodic' = [periodic EXCEPT ![t] = p]
  /\ UNCHANGED <<tick, list, timeout, active, phase, running, inLocal>>

\* rt_timer_start
Start(t) ==
  /\ MayCall
  /\ exists[t]
  /\ Started(t)
  /\ inLocal' = (inLocal /\ t # running)
  /\ UNCHANGED <<tick, init, periodic, exists, phase, running>>

\* rt_timer_stop
Stop(t) ==
  /\ MayCall
  /\ exists[t]
  /\ active[t]
  /\ Removed(t)
  /\ UNCHANGED <<tick, init, periodic, exists, phase, running>>

\* Mutant: a timer that is not active is thought to be in no list.
DetachActive(t) ==
  /\ MayCall
  /\ exists[t]
  /\ IF active[t] THEN Removed(t)
     ELSE UNCHANGED <<list, timeout, active, inLocal>>
  /\ exists' = [exists EXCEPT ![t] = FALSE]
  /\ UNCHANGED <<tick, init, periodic, phase, running>>

\* rt_timer_detach, rt_timer_delete
Detach(t) ==
  /\ MayCall
  /\ exists[t]
  /\ Removed(t)
  /\ exists' = [exists EXCEPT ![t] = FALSE]
  /\ UNCHANGED <<tick, init, periodic, phase, running>>

\* rt_timer_control(RT_TIMER_CTRL_SET_TIME)
SetTime(t, d) ==
  /\ MayCall
  /\ exists[t]
  /\ init' = [init EXCEPT ![t] = d]
  /\ UNCHANGED <<tick, list, timeout, active, periodic, exists, phase, running,
                 inLocal>>

\* rt_timer_control(RT_TIMER_CTRL_SET_ONESHOT, RT_TIMER_CTRL_SET_PERIODIC)
SetPeriodic(t, p) ==
  /\ MayCall
  /\ exists[t]
  /\ t = running /\ ~p => OwnOneshot
  /\ periodic' = [periodic EXCEPT ![t] = p]
  /\ UNCHANGED <<tick, list, timeout, init, active, exists, phase, running,
                 inLocal>>

-----------------------------------------------------------------------------
(* rt_tick_increase on hart 1, and rt_timer_check *)

TickIncrease ==
  /\ phase = "idle"
  /\ tick' = (tick + 1) % TickValues
  /\ phase' = "check"
  /\ UNCHANGED <<list, timeout, init, active, periodic, exists, running,
                 inLocal>>

\* Mutant: a timer is due only once its tick is over.
DueLate(t) == Minus(tick, timeout[t]) \in 1 .. Half - 1

\* (current_tick - t->timeout_tick) < RT_TICK_MAX / 2
Due(t) == Minus(tick, timeout[t]) < Half

\* The first timer is due: it moves to the local list and its time-out
\* function is called.
Fire ==
  /\ phase = "check"
  /\ list # <<>>
  /\ Due(Head(list))
  /\ LET t == Head(list) IN
     /\ list' = Tail(list)
     /\ timeout' = [timeout EXCEPT ![t] = 0]
     /\ active' = [active EXCEPT ![t] = periodic[t]]
     /\ running' = t
  /\ inLocal' = TRUE
  /\ phase' = "callback"
  /\ UNCHANGED <<tick, init, periodic, exists>>

\* Mutant: the timer is unlinked without a look at the local list.
CallbackReturnsBlind ==
  /\ phase = "callback"
  /\ IF periodic[running] /\ active[running]
     THEN Started(running)
     ELSE list' = Unlink(list, running) /\ UNCHANGED <<timeout, active>>
  /\ phase' = "check"
  /\ running' = Unset
  /\ inLocal' = FALSE
  /\ UNCHANGED <<tick, init, periodic, exists>>

\* The time-out function is over.  A timer it started, stopped or deleted is
\* out of the local list and is left alone.
CallbackReturns ==
  /\ phase = "callback"
  /\ IF inLocal /\ periodic[running] /\ active[running]
     THEN Started(running)
     ELSE UNCHANGED <<list, timeout, active>>
  /\ phase' = "check"
  /\ running' = Unset
  /\ inLocal' = FALSE
  /\ UNCHANGED <<tick, init, periodic, exists>>

\* The list is empty or its first timer is not due.
CheckEnds ==
  /\ phase = "check"
  /\ list # <<>> => ~Due(Head(list))
  /\ phase' = "idle"
  /\ UNCHANGED <<tick, list, timeout, init, active, periodic, exists, running,
                 inLocal>>

Next ==
  \/ TickIncrease
  \/ Fire
  \/ CallbackReturns
  \/ CheckEnds
  \/ \E t \in Timer :
       \/ Start(t)
       \/ Stop(t)
       \/ Detach(t)
       \/ \E d \in Duration : \/ SetTime(t, d)
                              \/ \E p \in BOOLEAN : Initialise(t, d, p)
       \/ \E p \in BOOLEAN : SetPeriodic(t, p)

Spec == Init /\ [][Next]_vars

(***************************************************************************)
(* The tick interrupt keeps coming, rt_timer_check goes on, a time-out      *)
(* function returns.  No call is fair.                                      *)
(***************************************************************************)
Fairness ==
  /\ WF_vars(TickIncrease)
  /\ WF_vars(Fire)
  /\ WF_vars(CallbackReturns)
  /\ WF_vars(CheckEnds)

FairSpec == Spec /\ Fairness

-----------------------------------------------------------------------------
(* Every variable holds values of its C type. *)
TypeOK ==
  /\ tick \in Tick
  /\ list \in Seq(Timer)
  /\ timeout \in [Timer -> Tick]
  /\ init \in [Timer -> Duration]
  /\ active \in [Timer -> BOOLEAN]
  /\ periodic \in [Timer -> BOOLEAN]
  /\ exists \in [Timer -> BOOLEAN]
  /\ phase \in {"idle", "check", "callback"}
  /\ running \in Timer \union {Unset}
  /\ inLocal \in BOOLEAN

\* Ticks until t is due, as long as it is not overdue.
Left(t) == Minus(timeout[t], tick)

(* The list is in the order of the time-outs across the wrap of the tick,   *)
(* each timer once, none overdue: the first timer decides for all.          *)
ListSorted ==
  /\ \A i \in DOMAIN list : Left(list[i]) < Half
  /\ \A i, j \in DOMAIN list : i < j =>
       list[i] # list[j] /\ Left(list[i]) <= Left(list[j])

\* A deleted timer is in no list, not even when its own time-out function
\* deleted it.
DeletedUntouched ==
  \A t \in Timer : ~exists[t] => t \notin Listed /\ ~(t = running /\ inLocal)

(* The flag that rt_timer_stop and RT_TIMER_CTRL_GET_STATE go by says of    *)
(* every timer whether it will fire again: it is in the list, or its own    *)
(* time-out function runs and rt_timer_check will put it back.  A deleted   *)
(* timer never is.                                                          *)
ActiveWillFire ==
  /\ \A t \in Timer :
       /\ t \in Listed => active[t]
       /\ active[t] => \/ t \in Listed
                       \/ t = running /\ inLocal /\ periodic[t]
  /\ DeletedUntouched

(* A time-out function is called at the very tick its timer was set to.     *)
FiresOnTime ==
  [][phase = "check" /\ phase' = "callback" =>
       timeout[running'] = tick]_vars

(* Of timers that end at the same tick the one started first comes first.   *)
EqualInOrder ==
  [][\A i, j \in DOMAIN list' :
       /\ i < j
       /\ timeout'[list'[i]] = timeout'[list'[j]]
       /\ list'[j] \in Listed /\ timeout'[list'[j]] = timeout[list'[j]]
       => /\ list'[i] \in Listed
          /\ timeout'[list'[i]] = timeout[list'[i]]]_vars

(* rt_timer_check ends, and the tick goes on, whatever the time-out         *)
(* functions start, stop and delete.                                        *)
CheckFinishes == phase # "idle" ~> phase = "idle"
=============================================================================
