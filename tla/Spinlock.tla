------------------------------ MODULE Spinlock ------------------------------
(***************************************************************************)
(* rt_spin_lock and rt_spin_unlock (rt-thread/cpu.c), one action for every  *)
(* load or store of the shared lock.                                        *)
(*                                                                         *)
(* Contexts are the threads and, on every hart, the trap handler: a handler *)
(* runs on top of the thread it interrupted and rt_thread_self() gives it   *)
(* that thread's identity.  A thread is taken off its hart only while the   *)
(* hart's interrupts are on, and only for a thread of at least its own      *)
(* priority unless it is outside the lock and gives way itself.             *)
(***************************************************************************)
EXTENDS Integers

CONSTANTS
  Thread,        \* the threads that use the lock
  Hart,          \* the harts; as a context, a hart is its trap handler
  HartOf,        \* the hart each thread is bound to
  Priority,      \* a thread's priority, 0 the most urgent
  First,         \* the thread each hart starts with
  MaskingCaller, \* threads that call with local interrupts already masked
  LockingTrap,   \* harts whose trap handler takes the lock (rt_kprintf)
  NoOwner        \* RT_NULL in lock->owner

ASSUME ThreadsAndHarts ==
  /\ Thread \intersect Hart = {}
  /\ NoOwner \notin Thread \union Hart
  /\ HartOf \in [Thread -> Hart]
  /\ Priority \in [Thread -> Nat]
  /\ First \in [Hart -> Thread]
  /\ \A h \in Hart : HartOf[First[h]] = h
  /\ MaskingCaller \subseteq Thread
  /\ LockingTrap \subseteq Hart

Context == Thread \union Hart

VARIABLES
  lock,     \* lock->lock: 0 free, -1 taken
  owner,    \* lock->owner
  pc,       \* where each context is in the two functions
  level,    \* the interrupt state a context saved in rt_spin_lock
  irq,      \* whether the hart takes interrupts (mstatus.MIE)
  current   \* the thread each hart runs (pcpu->current_thread)

vars == <<lock, owner, pc, level, irq, current>>

(***************************************************************************)
(* "idle" is a context outside the lock and "off" a handler that is not     *)
(* running; the others name the next statement of the two functions.        *)
(***************************************************************************)
InLock   == {"mask", "own", "held"}            \* has the lock word
Masked   == {"own", "held", "disown", "unmask"} \* after rt_hw_local_irq_disable
Location == {"off", "idle", "test", "swap", "exit"}
              \union InLock \union Masked

HartOn(c)  == IF c \in Thread THEN HartOf[c] ELSE c
Self(c)    == IF c \in Thread THEN c ELSE current[c]
Running(c) == IF c \in Thread
              THEN current[HartOf[c]] = c /\ pc[HartOf[c]] = "off"
              ELSE pc[c] # "off"

At(c, from)   == Running(c) /\ pc[c] = from
Goto(c, to)   == pc' = [pc EXCEPT ![c] = to]

Init ==
  /\ lock = 0
  /\ owner = NoOwner
  /\ pc = [c \in Context |-> IF c \in Thread THEN "idle" ELSE "off"]
  /\ level = [c \in Context |-> TRUE]
  /\ irq = [h \in Hart |-> TRUE]
  /\ current = First

-----------------------------------------------------------------------------
(* rt_spin_lock *)

\* A caller such as rt_thread_delete masks interrupts before it calls
\* rt_sem_release (rt_thread_defunct_enqueue).
Call(c) ==
  /\ At(c, "idle")
  /\ c \in Hart => c \in LockingTrap
  /\ Goto(c, "test")
  /\ irq' = [irq EXCEPT ![HartOn(c)] = @ /\ c \notin MaskingCaller]
  /\ UNCHANGED <<lock, owner, level, current>>

\* if(lock->owner != rt_thread_self())
TestOwner(c) ==
  /\ At(c, "test")
  /\ Goto(c, IF owner # Self(c) THEN "swap" ELSE "mask")
  /\ UNCHANGED <<lock, owner, level, irq, current>>

\* Mutant: what the swap found is not looked at.
SwapUnchecked(c) ==
  /\ At(c, "swap")
  /\ lock' = -1
  /\ Goto(c, "mask")
  /\ UNCHANGED <<owner, level, irq, current>>

\* while(spinlock_trylock(lock)); the swap finds 0 or leaves the lock as it is.
Swap(c) ==
  /\ At(c, "swap")
  /\ lock' = -1
  /\ Goto(c, IF lock = 0 THEN "mask" ELSE "swap")
  /\ UNCHANGED <<owner, level, irq, current>>

\* Mutant: interrupts stay as they are.
DisableIrqForgotten(c) ==
  /\ At(c, "mask")
  /\ level' = [level EXCEPT ![c] = irq[HartOn(c)]]
  /\ Goto(c, "own")
  /\ UNCHANGED <<lock, owner, irq, current>>

\* int level = rt_hw_local_irq_disable();
DisableIrq(c) ==
  /\ At(c, "mask")
  /\ level' = [level EXCEPT ![c] = irq[HartOn(c)]]
  /\ irq' = [irq EXCEPT ![HartOn(c)] = FALSE]
  /\ Goto(c, "own")
  /\ UNCHANGED <<lock, owner, current>>

\* Mutant: a handler enters itself as the owner.
SetOwnerHandler(c) ==
  /\ At(c, "own")
  /\ owner' = c
  /\ Goto(c, "held")
  /\ UNCHANGED <<lock, level, irq, current>>

\* lock->owner = rt_thread_self();
SetOwner(c) ==
  /\ At(c, "own")
  /\ owner' = Self(c)
  /\ Goto(c, "held")
  /\ UNCHANGED <<lock, level, irq, current>>

-----------------------------------------------------------------------------
(* rt_spin_unlock *)

\* Mutant: the store that frees the word is lost.
ClearWordForgotten(c) ==
  /\ At(c, "held")
  /\ Goto(c, "disown")
  /\ UNCHANGED <<lock, owner, level, irq, current>>

\* lock->lock = 0;
ClearWord(c) ==
  /\ At(c, "held")
  /\ lock' = 0
  /\ Goto(c, "disown")
  /\ UNCHANGED <<owner, level, irq, current>>

\* Mutant: the owner is not reset.
ClearOwnerForgotten(c) ==
  /\ At(c, "disown")
  /\ Goto(c, "unmask")
  /\ UNCHANGED <<lock, owner, level, irq, current>>

\* lock->owner = RT_NULL;
ClearOwner(c) ==
  /\ At(c, "disown")
  /\ owner' = NoOwner
  /\ Goto(c, "unmask")
  /\ UNCHANGED <<lock, level, irq, current>>

\* Mutant: interrupts are enabled whatever the saved level.
RestoreIrqOn(c) ==
  /\ At(c, "unmask")
  /\ irq' = [irq EXCEPT ![HartOn(c)] = TRUE]
  /\ Goto(c, IF c \in MaskingCaller THEN "exit" ELSE "idle")
  /\ UNCHANGED <<lock, owner, level, current>>

\* rt_hw_local_irq_enable(level);
RestoreIrq(c) ==
  /\ At(c, "unmask")
  /\ irq' = [irq EXCEPT ![HartOn(c)] = level[c]]
  /\ Goto(c, IF c \in MaskingCaller THEN "exit" ELSE "idle")
  /\ UNCHANGED <<lock, owner, level, current>>

\* A masking caller unmasks: rt_hw_interrupt_enable in rt_thread_delete.
CallerUnmasks(c) ==
  /\ At(c, "exit")
  /\ irq' = [irq EXCEPT ![HartOn(c)] = TRUE]
  /\ Goto(c, "idle")
  /\ UNCHANGED <<lock, owner, level, current>>

-----------------------------------------------------------------------------
(* Interrupts and context switches *)

\* A trap is taken; the hardware masks interrupts.
TakeTrap(h) ==
  /\ irq[h]
  /\ pc[h] = "off"
  /\ h \in LockingTrap
  /\ irq' = [irq EXCEPT ![h] = FALSE]
  /\ Goto(h, "idle")
  /\ UNCHANGED <<lock, owner, level, current>>

\* mret
LeaveTrap(h) ==
  /\ pc[h] = "idle"
  /\ irq' = [irq EXCEPT ![h] = TRUE]
  /\ Goto(h, "off")
  /\ UNCHANGED <<lock, owner, level, current>>

\* The hart goes over to thread t: a time slice ended, t became ready, or the
\* running thread, outside the lock, gave way.
Dispatch(t) ==
  LET h == HartOf[t] IN
  /\ irq[h]
  /\ pc[h] = "off"
  /\ current[h] # t
  /\ Priority[t] <= Priority[current[h]] \/ pc[current[h]] = "idle"
  /\ current' = [current EXCEPT ![h] = t]
  /\ UNCHANGED <<lock, owner, pc, level, irq>>

Step(c) ==
  \/ TestOwner(c)
  \/ DisableIrq(c)
  \/ SetOwner(c)
  \/ ClearWord(c)
  \/ ClearOwner(c)
  \/ RestoreIrq(c)
  \/ CallerUnmasks(c)

Next ==
  \/ \E c \in Context : Call(c) \/ Swap(c) \/ Step(c)
  \/ \E h \in Hart : TakeTrap(h) \/ LeaveTrap(h)
  \/ \E t \in Thread : Dispatch(t)

Spec == Init /\ [][Next]_vars

(***************************************************************************)
(* A context that runs takes its next statement, the scheduler's time       *)
(* slices bring every thread that may be dispatched back, a handler         *)
(* returns.  Nothing is fair about Call (a thread need not take the lock)   *)
(* or about Swap (the swap instruction promises no winner).                 *)
(***************************************************************************)
Fairness ==
  /\ \A c \in Context : SF_vars(Step(c))
  /\ \A t \in Thread : SF_vars(Dispatch(t))
  /\ \A h \in Hart : SF_vars(LeaveTrap(h))

FairSpec == Spec /\ Fairness

-----------------------------------------------------------------------------
(* Every variable holds values the C objects can hold. *)
TypeOK ==
  /\ lock \in {0, -1}
  /\ owner \in Thread \union {NoOwner}
  /\ pc \in [Context -> Location]
  /\ level \in [Context -> BOOLEAN]
  /\ irq \in [Hart -> BOOLEAN]
  /\ current \in [Hart -> Thread]
  /\ \A h \in Hart : HartOf[current[h]] = h

(* At most one context is between taking the lock word and clearing it, the *)
(* shortcut for lock->owner == rt_thread_self() included.                   *)
MutualExclusion ==
  \A c, d \in Context : pc[c] \in InLock /\ pc[d] \in InLock => c = d

(* The lock word is -1 exactly while some context has the lock: no holder's *)
(* lock is free for others, and no lock stays taken without a holder.       *)
WordMatchesHolder ==
  lock = -1 <=> \E c \in Context : pc[c] \in InLock

(* lock->owner never names a thread that has left the lock: a later call of *)
(* that thread would skip the swap.                                         *)
OwnerNotStale ==
  owner # NoOwner =>
    \E c \in Context : pc[c] \in {"held", "disown"} /\ Self(c) = owner

(* From the masking of interrupts in rt_spin_lock to their restoration in   *)
(* rt_spin_unlock the context keeps its hart: nothing preempts it there.    *)
HolderKeepsHart ==
  \A c \in Context : pc[c] \in Masked => Running(c) /\ ~irq[HartOn(c)]

(* rt_spin_unlock gives back the interrupt state its caller had: a thread   *)
(* runs outside the lock with interrupts on, a trap handler with them off.  *)
IrqRestored ==
  \A c \in Context : At(c, "idle") => (irq[HartOn(c)] <=> c \in Thread)

(* A taken lock is given back: the holder gets as far as the store that     *)
(* frees the word, so the contexts that poll it do not poll for ever.       *)
LockFreed == lock = -1 ~> lock = 0

(* So it does once its hart takes no interrupts, masked by rt_spin_lock or  *)
(* by its caller, or as a handler, whatever threads and handlers wait.      *)
MaskedFreed ==
  (\E c \in Context : pc[c] \in InLock /\ Running(c) /\ ~irq[HartOn(c)]) ~> lock = 0

(* The two functions implement the lock callers rely on. *)
Holder == IF \E c \in Context : pc[c] \in InLock
          THEN CHOOSE c \in Context : pc[c] \in InLock
          ELSE NoOwner

Abstract == INSTANCE LockSpec WITH Free <- NoOwner, holder <- Holder

ImplementsLock == Abstract!Spec
=============================================================================
