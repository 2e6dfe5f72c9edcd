--------------------------- MODULE SpinlockProofs ---------------------------
(***************************************************************************)
(* Proofs about Spinlock for any threads, harts, priorities and callers:    *)
(* type correctness, mutual exclusion, and that the two functions implement *)
(* the lock of LockSpec.  The argument: from the masking of interrupts on,  *)
(* a context keeps its hart (HolderKeepsHart); so no other context of that  *)
(* hart runs, and lock->owner can never equal the identity of a context     *)
(* that is about to call rt_spin_lock (ShortcutNotTaken).                   *)
(***************************************************************************)
EXTENDS Spinlock, TLAPS

\* A trap handler runs with its hart's interrupts off, a thread is never "off".
TrapsMasked ==
  /\ \A h \in Hart : pc[h] # "off" => ~irq[h]
  /\ \A t \in Thread : pc[t] # "off"

\* How the interrupt state follows the two functions: a masking caller holds
\* its hart until it unmasks, the saved level is on exactly for the other
\* threads, and a thread outside the masked part runs with interrupts on.
IrqFlow ==
  \A c \in Context :
    /\ pc[c] = "exit" => c \in MaskingCaller
    /\ \/ pc[c] = "exit"
       \/ pc[c] \in {"test", "swap", "mask"} /\ c \in MaskingCaller
       => Running(c) /\ ~irq[HartOn(c)]
    /\ pc[c] \in Masked => (level[c] <=> c \in Thread \ MaskingCaller)
    /\ /\ c \in Thread
       /\ Running(c)
       /\ \/ pc[c] = "idle"
          \/ pc[c] \in {"test", "swap", "mask"} /\ c \notin MaskingCaller
       => irq[HartOn(c)]

IInv ==
  /\ TypeOK
  /\ MutualExclusion
  /\ WordMatchesHolder
  /\ OwnerNotStale
  /\ HolderKeepsHart
  /\ TrapsMasked
  /\ IrqFlow

(* At most one context runs on a hart. *)
LEMMA OneRunning ==
  ASSUME TypeOK, TrapsMasked, NEW c \in Context, NEW d \in Context,
         Running(c), Running(d), HartOn(c) = HartOn(d)
  PROVE  c = d
BY ThreadsAndHarts DEF TypeOK, TrapsMasked, Context, Running, HartOn

(* The identity of a context belongs to the context's hart. *)
LEMMA IdentityOnHart ==
  ASSUME TypeOK, NEW c \in Context
  PROVE  Self(c) \in Thread /\ HartOf[Self(c)] = HartOn(c)
BY ThreadsAndHarts DEF TypeOK, Context, Self, HartOn

(* A context that tests lock->owner never finds itself there. *)
LEMMA ShortcutNotTaken ==
  ASSUME IInv, NEW c \in Context, At(c, "test")
  PROVE  owner # Self(c)
<1> SUFFICES ASSUME owner = Self(c) PROVE FALSE
  OBVIOUS
<1>1. owner # NoOwner
  BY IdentityOnHart, ThreadsAndHarts DEF IInv
<1>2. PICK d \in Context : pc[d] \in {"held", "disown"} /\ Self(d) = owner
  BY <1>1 DEF IInv, OwnerNotStale
<1>3. Running(d)
  BY <1>2 DEF IInv, HolderKeepsHart, Masked
<1>4. HartOn(c) = HartOn(d)
  BY <1>2, IdentityOnHart DEF IInv
<1>5. c = d
  BY <1>3, <1>4, OneRunning DEF IInv, At
<1> QED
  BY <1>2, <1>5 DEF At

-----------------------------------------------------------------------------
\* Nobody is inside at the start.
LEMMA InitIInv == Init => IInv
<1> SUFFICES ASSUME Init PROVE IInv
  OBVIOUS
<1>1. TypeOK
  BY ThreadsAndHarts DEF Init, TypeOK, Context, Location, InLock, Masked
<1>2. \A c \in Context : pc[c] \in {"idle", "off"}
  BY DEF Init
<1>3. MutualExclusion /\ WordMatchesHolder /\ OwnerNotStale /\ HolderKeepsHart
  BY <1>2 DEF Init, MutualExclusion, WordMatchesHolder, OwnerNotStale,
              HolderKeepsHart, InLock, Masked
<1>4. TrapsMasked
  BY ThreadsAndHarts DEF Init, TrapsMasked, Context
<1>5. IrqFlow
  BY <1>2, ThreadsAndHarts
     DEF Init, IrqFlow, Running, HartOn, Masked, Context
<1> QED
  BY <1>1, <1>3, <1>4, <1>5 DEF IInv
(* The variables keep their types. *)
LEMMA TypeStep == TypeOK /\ TrapsMasked /\ [Next]_vars => TypeOK'
<1> SUFFICES ASSUME TypeOK, TrapsMasked, [Next]_vars PROVE TypeOK'
  OBVIOUS
<1> USE ThreadsAndHarts DEF TypeOK, Context, Location, InLock, Masked, HartOn, Goto
<1>1. ASSUME NEW c \in Context, Call(c) PROVE TypeOK'
  BY <1>1 DEF Call, At
<1>2. ASSUME NEW c \in Context, Swap(c) PROVE TypeOK'
  BY <1>2 DEF Swap, At
<1>3. ASSUME NEW c \in Context, TestOwner(c) PROVE TypeOK'
  BY <1>3 DEF TestOwner, At
<1>4. ASSUME NEW c \in Context, DisableIrq(c) PROVE TypeOK'
  BY <1>4 DEF DisableIrq, At
<1>5. ASSUME NEW c \in Context, SetOwner(c) PROVE TypeOK'
  BY <1>5 DEF SetOwner, At, Running, Self
<1>6. ASSUME NEW c \in Context, ClearWord(c) PROVE TypeOK'
  BY <1>6 DEF ClearWord, At
<1>7. ASSUME NEW c \in Context, ClearOwner(c) PROVE TypeOK'
  BY <1>7 DEF ClearOwner, At
<1>8. ASSUME NEW c \in Context, RestoreIrq(c) PROVE TypeOK'
  BY <1>8 DEF RestoreIrq, At
<1>9. ASSUME NEW c \in Context, CallerUnmasks(c) PROVE TypeOK'
  BY <1>9 DEF CallerUnmasks, At
<1>10. ASSUME NEW h \in Hart, TakeTrap(h) PROVE TypeOK'
  BY <1>10 DEF TakeTrap
<1>11. ASSUME NEW h \in Hart, LeaveTrap(h) PROVE TypeOK'
  BY <1>11 DEF LeaveTrap
<1>12. ASSUME NEW t \in Thread, Dispatch(t) PROVE TypeOK'
  BY <1>12 DEF Dispatch
<1>13. CASE UNCHANGED vars
  BY <1>13 DEF vars
<1> QED
  BY <1>1, <1>2, <1>3, <1>4, <1>5, <1>6, <1>7, <1>8, <1>9, <1>10, <1>11, <1>12, <1>13 DEF Next, Step

(* A handler keeps its hart's interrupts off until mret. *)
LEMMA TrapsStep == IInv /\ [Next]_vars => TrapsMasked'
<1> SUFFICES ASSUME IInv, [Next]_vars PROVE TrapsMasked'
  OBVIOUS
<1> USE ThreadsAndHarts DEF IInv, TypeOK, TrapsMasked, Context, Masked, HartOn, Goto
<1>1. ASSUME NEW c \in Context, Call(c) PROVE TrapsMasked'
  BY <1>1 DEF Call, At
<1>2. ASSUME NEW c \in Context, Swap(c) PROVE TrapsMasked'
  BY <1>2 DEF Swap, At
<1>3. ASSUME NEW c \in Context, TestOwner(c) PROVE TrapsMasked'
  BY <1>3 DEF TestOwner, At
<1>4. ASSUME NEW c \in Context, DisableIrq(c) PROVE TrapsMasked'
  BY <1>4 DEF DisableIrq, At
<1>5. ASSUME NEW c \in Context, SetOwner(c) PROVE TrapsMasked'
  BY <1>5 DEF SetOwner, At
<1>6. ASSUME NEW c \in Context, ClearWord(c) PROVE TrapsMasked'
  BY <1>6 DEF ClearWord, At
<1>7. ASSUME NEW c \in Context, ClearOwner(c) PROVE TrapsMasked'
  BY <1>7 DEF ClearOwner, At
<1>8. ASSUME NEW c \in Context, RestoreIrq(c) PROVE TrapsMasked'
  BY <1>8 DEF RestoreIrq, At, Running, IrqFlow
<1>9. ASSUME NEW c \in Context, CallerUnmasks(c) PROVE TrapsMasked'
  BY <1>9 DEF CallerUnmasks, At, Running, IrqFlow
<1>10. ASSUME NEW h \in Hart, TakeTrap(h) PROVE TrapsMasked'
  BY <1>10 DEF TakeTrap
<1>11. ASSUME NEW h \in Hart, LeaveTrap(h) PROVE TrapsMasked'
  BY <1>11 DEF LeaveTrap
<1>12. ASSUME NEW t \in Thread, Dispatch(t) PROVE TrapsMasked'
  BY <1>12 DEF Dispatch
<1>13. CASE UNCHANGED vars
  BY <1>13 DEF vars
<1> QED
  BY <1>1, <1>2, <1>3, <1>4, <1>5, <1>6, <1>7, <1>8, <1>9, <1>10, <1>11, <1>12, <1>13 DEF Next, Step

(* A context past DisableIrq keeps its hart. *)
LEMMA HartStep == IInv /\ [Next]_vars => HolderKeepsHart'
<1> SUFFICES ASSUME IInv, [Next]_vars PROVE HolderKeepsHart'
  OBVIOUS
<1> USE ThreadsAndHarts DEF IInv, TypeOK, TrapsMasked, HolderKeepsHart, Context, Masked, HartOn, Goto, Running
<1>1. ASSUME NEW c \in Context, Call(c) PROVE HolderKeepsHart'
  BY <1>1 DEF Call, At
<1>2. ASSUME NEW c \in Context, Swap(c) PROVE HolderKeepsHart'
  BY <1>2 DEF Swap, At
<1>3. ASSUME NEW c \in Context, TestOwner(c) PROVE HolderKeepsHart'
  BY <1>3 DEF TestOwner, At
<1>4. ASSUME NEW c \in Context, DisableIrq(c) PROVE HolderKeepsHart'
  BY <1>4 DEF DisableIrq, At
<1>5. ASSUME NEW c \in Context, SetOwner(c) PROVE HolderKeepsHart'
  BY <1>5 DEF SetOwner, At
<1>6. ASSUME NEW c \in Context, ClearWord(c) PROVE HolderKeepsHart'
  BY <1>6 DEF ClearWord, At
<1>7. ASSUME NEW c \in Context, ClearOwner(c) PROVE HolderKeepsHart'
  BY <1>7 DEF ClearOwner, At
<1>8. ASSUME NEW c \in Context, RestoreIrq(c) PROVE HolderKeepsHart'
  BY <1>8 DEF RestoreIrq, At
<1>9. ASSUME NEW c \in Context, CallerUnmasks(c) PROVE HolderKeepsHart'
  BY <1>9 DEF CallerUnmasks, At
<1>10. ASSUME NEW h \in Hart, TakeTrap(h) PROVE HolderKeepsHart'
  BY <1>10 DEF TakeTrap
<1>11. ASSUME NEW h \in Hart, LeaveTrap(h) PROVE HolderKeepsHart'
  BY <1>11 DEF LeaveTrap
<1>12. ASSUME NEW t \in Thread, Dispatch(t) PROVE HolderKeepsHart'
  BY <1>12 DEF Dispatch
<1>13. CASE UNCHANGED vars
  BY <1>13 DEF vars
<1> QED
  BY <1>1, <1>2, <1>3, <1>4, <1>5, <1>6, <1>7, <1>8, <1>9, <1>10, <1>11, <1>12, <1>13 DEF Next, Step

(* The interrupt state follows the two functions. *)
LEMMA IrqStep == IInv /\ [Next]_vars => IrqFlow'
<1> SUFFICES ASSUME IInv, [Next]_vars PROVE IrqFlow'
  OBVIOUS
<1> USE ThreadsAndHarts DEF IInv, TypeOK, TrapsMasked, HolderKeepsHart, IrqFlow, Context, Masked, HartOn, Goto, Running
<1>1. ASSUME NEW c \in Context, Call(c) PROVE IrqFlow'
  <2> USE DEF Call, At
  <2>1. CASE c \in MaskingCaller
    <3>1. c \in Thread /\ irq' = [irq EXCEPT ![HartOf[c]] = FALSE]
      BY <1>1, <2>1
    <3>2. \A d \in Context : d # c /\ HartOn(d) = HartOf[c] => ~Running(d)
      BY <1>1, <3>1
    <3> QED
      BY <1>1, <2>1, <3>1, <3>2
  <2>2. CASE c \notin MaskingCaller
    <3>1. irq' = irq
      BY <1>1, <2>2
    <3> QED
      BY <1>1, <2>2, <3>1
  <2> QED
    BY <2>1, <2>2
<1>2. ASSUME NEW c \in Context, Swap(c) PROVE IrqFlow'
  BY <1>2 DEF Swap, At
<1>3. ASSUME NEW c \in Context, TestOwner(c) PROVE IrqFlow'
  BY <1>3 DEF TestOwner, At
<1>4. ASSUME NEW c \in Context, DisableIrq(c) PROVE IrqFlow'
  BY <1>4 DEF DisableIrq, At
<1>5. ASSUME NEW c \in Context, SetOwner(c) PROVE IrqFlow'
  BY <1>5 DEF SetOwner, At
<1>6. ASSUME NEW c \in Context, ClearWord(c) PROVE IrqFlow'
  BY <1>6 DEF ClearWord, At
<1>7. ASSUME NEW c \in Context, ClearOwner(c) PROVE IrqFlow'
  BY <1>7 DEF ClearOwner, At
<1>8. ASSUME NEW c \in Context, RestoreIrq(c) PROVE IrqFlow'
  BY <1>8 DEF RestoreIrq, At
<1>9. ASSUME NEW c \in Context, CallerUnmasks(c) PROVE IrqFlow'
  BY <1>9 DEF CallerUnmasks, At
<1>10. ASSUME NEW h \in Hart, TakeTrap(h) PROVE IrqFlow'
  BY <1>10 DEF TakeTrap
<1>11. ASSUME NEW h \in Hart, LeaveTrap(h) PROVE IrqFlow'
  BY <1>11 DEF LeaveTrap
<1>12. ASSUME NEW t \in Thread, Dispatch(t) PROVE IrqFlow'
  BY <1>12 DEF Dispatch
<1>13. CASE UNCHANGED vars
  BY <1>13 DEF vars
<1> QED
  BY <1>1, <1>2, <1>3, <1>4, <1>5, <1>6, <1>7, <1>8, <1>9, <1>10, <1>11, <1>12, <1>13 DEF Next, Step

(* lock->owner names a context that holds the lock or is leaving it. *)
LEMMA OwnerStep == IInv /\ [Next]_vars => OwnerNotStale'
<1> SUFFICES ASSUME IInv, [Next]_vars PROVE OwnerNotStale'
  OBVIOUS
<1> USE ThreadsAndHarts DEF IInv, TypeOK, OwnerNotStale, Context, Goto, Self
<1>1. ASSUME NEW c \in Context, Call(c) PROVE OwnerNotStale'
  BY <1>1 DEF Call, At
<1>2. ASSUME NEW c \in Context, Swap(c) PROVE OwnerNotStale'
  BY <1>2 DEF Swap, At
<1>3. ASSUME NEW c \in Context, TestOwner(c) PROVE OwnerNotStale'
  BY <1>3 DEF TestOwner, At
<1>4. ASSUME NEW c \in Context, DisableIrq(c) PROVE OwnerNotStale'
  BY <1>4 DEF DisableIrq, At
<1>5. ASSUME NEW c \in Context, SetOwner(c) PROVE OwnerNotStale'
  BY <1>5 DEF SetOwner, At
<1>6. ASSUME NEW c \in Context, ClearWord(c) PROVE OwnerNotStale'
  BY <1>6 DEF ClearWord, At
<1>7. ASSUME NEW c \in Context, ClearOwner(c) PROVE OwnerNotStale'
  BY <1>7 DEF ClearOwner, At
<1>8. ASSUME NEW c \in Context, RestoreIrq(c) PROVE OwnerNotStale'
  BY <1>8 DEF RestoreIrq, At
<1>9. ASSUME NEW c \in Context, CallerUnmasks(c) PROVE OwnerNotStale'
  BY <1>9 DEF CallerUnmasks, At
<1>10. ASSUME NEW h \in Hart, TakeTrap(h) PROVE OwnerNotStale'
  BY <1>10 DEF TakeTrap
<1>11. ASSUME NEW h \in Hart, LeaveTrap(h) PROVE OwnerNotStale'
  BY <1>11 DEF LeaveTrap
<1>12. ASSUME NEW t \in Thread, Dispatch(t) PROVE OwnerNotStale'
  BY <1>12 DEF Dispatch
<1>13. CASE UNCHANGED vars
  BY <1>13 DEF vars
<1> QED
  BY <1>1, <1>2, <1>3, <1>4, <1>5, <1>6, <1>7, <1>8, <1>9, <1>10, <1>11, <1>12, <1>13 DEF Next, Step

(* The word is -1 exactly while a context has the lock, and one at most has it. *)
LEMMA WordStep == IInv /\ [Next]_vars => (MutualExclusion /\ WordMatchesHolder)'
<1> SUFFICES ASSUME IInv, [Next]_vars PROVE (MutualExclusion /\ WordMatchesHolder)'
  OBVIOUS
<1> USE ThreadsAndHarts DEF IInv, TypeOK, MutualExclusion, WordMatchesHolder, Context, InLock, Goto
<1>1. ASSUME NEW c \in Context, Call(c) PROVE (MutualExclusion /\ WordMatchesHolder)'
  BY <1>1 DEF Call, At
<1>2. ASSUME NEW c \in Context, Swap(c) PROVE (MutualExclusion /\ WordMatchesHolder)'
  BY <1>2 DEF Swap, At
<1>3. ASSUME NEW c \in Context, TestOwner(c) PROVE (MutualExclusion /\ WordMatchesHolder)'
  BY <1>3, ShortcutNotTaken DEF TestOwner, At
<1>4. ASSUME NEW c \in Context, DisableIrq(c) PROVE (MutualExclusion /\ WordMatchesHolder)'
  BY <1>4 DEF DisableIrq, At
<1>5. ASSUME NEW c \in Context, SetOwner(c) PROVE (MutualExclusion /\ WordMatchesHolder)'
  BY <1>5 DEF SetOwner, At
<1>6. ASSUME NEW c \in Context, ClearWord(c) PROVE (MutualExclusion /\ WordMatchesHolder)'
  BY <1>6 DEF ClearWord, At
<1>7. ASSUME NEW c \in Context, ClearOwner(c) PROVE (MutualExclusion /\ WordMatchesHolder)'
  BY <1>7 DEF ClearOwner, At
<1>8. ASSUME NEW c \in Context, RestoreIrq(c) PROVE (MutualExclusion /\ WordMatchesHolder)'
  BY <1>8 DEF RestoreIrq, At
<1>9. ASSUME NEW c \in Context, CallerUnmasks(c) PROVE (MutualExclusion /\ WordMatchesHolder)'
  BY <1>9 DEF CallerUnmasks, At
<1>10. ASSUME NEW h \in Hart, TakeTrap(h) PROVE (MutualExclusion /\ WordMatchesHolder)'
  BY <1>10 DEF TakeTrap
<1>11. ASSUME NEW h \in Hart, LeaveTrap(h) PROVE (MutualExclusion /\ WordMatchesHolder)'
  BY <1>11 DEF LeaveTrap
<1>12. ASSUME NEW t \in Thread, Dispatch(t) PROVE (MutualExclusion /\ WordMatchesHolder)'
  BY <1>12 DEF Dispatch
<1>13. CASE UNCHANGED vars
  BY <1>13 DEF vars
<1> QED
  BY <1>1, <1>2, <1>3, <1>4, <1>5, <1>6, <1>7, <1>8, <1>9, <1>10, <1>11, <1>12, <1>13 DEF Next, Step

(* The inductive invariant is preserved, so it holds for ever. *)
LEMMA StepIInv == IInv /\ [Next]_vars => IInv'
BY TypeStep, TrapsStep, HartStep, IrqStep, OwnerStep, WordStep DEF IInv

\* The invariant holds in every behaviour.
LEMMA InvariantHolds == Spec => []IInv
BY InitIInv, StepIInv, PTL DEF Spec

-----------------------------------------------------------------------------
(* The variables of the lock keep the values the C objects can hold. *)
THEOREM TypeCorrect == Spec => []TypeOK
<1>1. IInv => TypeOK
  BY DEF IInv
<1> QED
  BY <1>1, InvariantHolds, PTL

(* rt_spin_lock lets one context at a time into the section it protects, on *)
(* any number of harts and with trap handlers among the callers.            *)
THEOREM SpinlockExcludes == Spec => []MutualExclusion
<1>1. IInv => MutualExclusion
  BY DEF IInv
<1> QED
  BY <1>1, InvariantHolds, PTL

(* Between rt_spin_lock and rt_spin_unlock a context is never taken off its *)
(* hart: the sections of the IPC objects run undisturbed on their hart.     *)
THEOREM SectionKeepsHart == Spec => []HolderKeepsHart
<1>1. IInv => HolderKeepsHart
  BY DEF IInv
<1> QED
  BY <1>1, InvariantHolds, PTL

(* A caller of the pair of functions gets its interrupt state back. *)
THEOREM CallerIrqRestored == Spec => []IrqRestored
<1>1. IInv => IrqRestored
  BY ThreadsAndHarts
     DEF IInv, IrqFlow, TrapsMasked, IrqRestored, At, Context, HartOn, Running
<1> QED
  BY <1>1, InvariantHolds, PTL

-----------------------------------------------------------------------------
(* The context that has the lock is the one the refinement mapping names. *)
LEMMA HolderIs ==
  ASSUME MutualExclusion, NEW c \in Context, pc[c] \in InLock
  PROVE  Holder = c
BY DEF MutualExclusion, Holder

\* With nobody inside there is no holder.
LEMMA HolderNone ==
  ASSUME \A c \in Context : pc[c] \notin InLock
  PROVE  Holder = NoOwner
BY DEF Holder

(* A step that changes nobody's membership of InLock leaves Holder alone. *)
LEMMA HolderSame ==
  ASSUME TypeOK, \A c \in Context : pc[c] \in InLock <=> pc'[c] \in InLock,
         MutualExclusion, MutualExclusion'
  PROVE  Holder' = Holder
<1>1. CASE \E c \in Context : pc[c] \in InLock
  <2>1. PICK c \in Context : pc[c] \in InLock
    BY <1>1
  <2>2. Holder = c /\ Holder' = c
    BY <2>1 DEF MutualExclusion, Holder
  <2> QED
    BY <2>2
<1>2. CASE \A c \in Context : pc[c] \notin InLock
  BY <1>2 DEF Holder
<1> QED
  BY <1>1, <1>2

(* Every step of the two functions is a Take, a Give or nothing to LockSpec: *)
(* the lock is taken by the swap and given back by the store of 0.           *)
LEMMA StepTakesOrGives ==
  IInv /\ IInv' /\ [Next]_vars => [Abstract!Next]_Holder
<1> SUFFICES ASSUME IInv, IInv', [Next]_vars PROVE [Abstract!Next]_Holder
  OBVIOUS
<1> USE DEF IInv
<1>1. ASSUME NEW c \in Context, Swap(c), lock = 0 PROVE Abstract!Next
  <2>1. \A d \in Context : pc[d] \notin InLock
    BY <1>1 DEF Swap, WordMatchesHolder
  <2>2. pc'[c] \in InLock
    BY <1>1 DEF Swap, Goto, InLock, TypeOK
  <2>3. Holder = NoOwner /\ Holder' = c
    BY <2>1, <2>2 DEF Holder, MutualExclusion
  <2> QED
    BY <2>3 DEF Abstract!Next, Abstract!Take
<1>2. ASSUME NEW c \in Context, ClearWord(c) PROVE Abstract!Next
  <2>1. Holder = c
    BY <1>2, HolderIs DEF ClearWord, At, InLock
  <2>2. lock' = 0 /\ \A d \in Context : pc'[d] \notin InLock
    BY <1>2 DEF ClearWord, WordMatchesHolder
  <2>3. Holder' = NoOwner
    BY <2>2 DEF Holder
  <2> QED
    BY <2>1, <2>3 DEF Abstract!Next, Abstract!Give
<1>3. ASSUME NEW c \in Context,
             \/ Call(c)
             \/ TestOwner(c)
             \/ DisableIrq(c)
             \/ SetOwner(c)
             \/ ClearOwner(c)
             \/ RestoreIrq(c)
             \/ CallerUnmasks(c)
      PROVE Holder' = Holder
  <2>1. TestOwner(c) => owner # Self(c)
    BY ShortcutNotTaken DEF TestOwner
  <2>2. \A d \in Context : pc[d] \in InLock <=> pc'[d] \in InLock
    BY <1>3, <2>1 DEF Call, TestOwner, DisableIrq, SetOwner, ClearOwner,
                      RestoreIrq, CallerUnmasks, At, Goto, InLock, TypeOK
  <2> QED
    BY <2>2, HolderSame
<1>4. ASSUME NEW h \in Hart, TakeTrap(h) \/ LeaveTrap(h) PROVE Holder' = Holder
  <2>1. \A d \in Context : pc[d] \in InLock <=> pc'[d] \in InLock
    BY <1>4 DEF TakeTrap, LeaveTrap, Goto, InLock, TypeOK, Context
  <2> QED
    BY <2>1, HolderSame
<1>5. ASSUME NEW t \in Thread, Dispatch(t) PROVE Holder' = Holder
  BY <1>5 DEF Dispatch, Holder
<1>6. ASSUME NEW c \in Context, Swap(c), lock # 0 PROVE Holder' = Holder
  <2>1. pc' = pc
    BY <1>6 DEF Swap, At, Goto, TypeOK
  <2> QED
    BY <2>1 DEF Holder
<1>7. CASE UNCHANGED vars
  BY <1>7 DEF vars, Holder
<1> QED
  BY <1>1, <1>2, <1>3, <1>4, <1>5, <1>6, <1>7 DEF Next, Step

(* rt_spin_lock and rt_spin_unlock implement the lock of LockSpec. *)
THEOREM SpinlockImplementsLock == Spec => ImplementsLock
<1>1. Init => Abstract!Init
  <2>1. Init => \A c \in Context : pc[c] \notin InLock
    BY DEF Init, InLock
  <2> QED
    BY <2>1, HolderNone DEF Abstract!Init
<1> QED
  BY <1>1, StepTakesOrGives, InvariantHolds, PTL
     DEF Spec, ImplementsLock, Abstract!Spec
=============================================================================
