------------------------------- MODULE Mutex -------------------------------
(***************************************************************************)
(* rt_mutex_take and rt_mutex_release (rt-thread/ipc.c): one mutex, taken   *)
(* again by its owner, with priority inheritance.                           *)
(***************************************************************************)
EXTENDS Waiting

CONSTANT HoldMax \* RT_MUTEX_HOLD_MAX

ASSUME MutexConstants == HoldMax \in Nat \ {0}

VARIABLES
  owner,    \* mutex->owner
  value,    \* mutex->value: 1 while it is free
  hold,     \* mutex->hold: how often its owner took it
  original  \* mutex->original_priority; None is 0xFF

mutexVars == <<owner, value, hold, original>>

\* rt_mutex_init, rt_mutex_create
MutexFresh(o, v, h, p) ==
  /\ o = None
  /\ v = 1
  /\ h = 0
  /\ p = None

\* rt_thread_control(t, RT_THREAD_CTRL_CHANGE_PRIORITY, &p)
ChangePriority(t, p) == prio' = [prio EXCEPT ![t] = p]

MutexTake(t) ==
  /\ Idle(t)
  /\ owner # t
  /\ value > 0
  /\ value' = value - 1
  /\ owner' = t
  /\ original' = prio[t]
  /\ hold' = hold + 1
  /\ UNCHANGED <<threadVars, prio, limit, at>>

\* Its owner takes it once more; at RT_MUTEX_HOLD_MAX that is -RT_EFULL.
MutexTakeAgain(t) ==
  /\ Idle(t)
  /\ owner = t
  /\ hold < HoldMax
  /\ hold' = hold + 1
  /\ UNCHANGED <<owner, value, original, threadVars, prio, limit, at>>

\* The owner runs with the caller's priority if that is more urgent.
MutexBlock(t, lim) ==
  /\ Idle(t)
  /\ owner # t
  /\ value = 0
  /\ IF prio[t] < prio[owner] THEN ChangePriority(owner, prio[t])
                              ELSE UNCHANGED prio
  /\ Wait(t, "mutex", Place("mutex", t), lim)
  /\ UNCHANGED mutexVars

\* A waiter that was given the mutex returns.
MutexTaken(t) ==
  /\ Woken(t, "mutex")
  /\ Return(t)
  /\ UNCHANGED <<mutexVars, threadVars, prio>>

MutexReleaseOne(t) ==
  /\ Idle(t)
  /\ owner = t
  /\ hold > 1
  /\ hold' = hold - 1
  /\ UNCHANGED <<owner, value, original, threadVars, prio, limit, at>>

\* Mutant: the owner keeps the priority it inherited.
MutexHandOverBoosted(t) ==
  /\ Idle(t)
  /\ owner = t
  /\ hold = 1
  /\ waiters["mutex"] # <<>>
  /\ owner' = Head(waiters["mutex"])
  /\ original' = prio[owner']
  /\ ResumeFirst("mutex")
  /\ UNCHANGED <<value, hold, prio, limit, at>>

\* The last release gives the mutex to the first waiter.
MutexHandOver(t) ==
  /\ Idle(t)
  /\ owner = t
  /\ hold = 1
  /\ waiters["mutex"] # <<>>
  /\ ChangePriority(t, original)
  /\ owner' = Head(waiters["mutex"])
  /\ original' = prio[owner']
  /\ ResumeFirst("mutex")
  /\ UNCHANGED <<value, hold, limit, at>>

MutexFree(t) ==
  /\ Idle(t)
  /\ owner = t
  /\ hold = 1
  /\ waiters["mutex"] = <<>>
  /\ ChangePriority(t, original)
  /\ hold' = 0
  /\ value' = value + 1
  /\ owner' = None
  /\ original' = None
  /\ UNCHANGED <<threadVars, limit, at>>

MutexNext ==
  \E t \in Thread :
    \/ MutexTake(t)
    \/ MutexTakeAgain(t)
    \/ \E lim \in Limits : MutexBlock(t, lim)
    \/ MutexTaken(t)
    \/ MutexReleaseOne(t)
    \/ MutexHandOver(t)
    \/ MutexFree(t)

MutexTypeOK ==
  /\ owner \in Thread \union {None}
  /\ value \in 0 .. 1
  /\ hold \in 0 .. HoldMax
  /\ original \in Nat \union {None}
  /\ (owner = None) <=> (value = 1)
  /\ (owner = None) <=> (hold = 0)
=============================================================================
