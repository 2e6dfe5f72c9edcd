-------------------------- MODULE SemaphoreProofs --------------------------
(***************************************************************************)
(* Proofs about the semaphore, for every number of threads and every        *)
(* priority they have: what was released and not taken is in the value or   *)
(* with a thread that will return RT_EOK, the waiters stay in the order of  *)
(* their priorities and of their arrival, and no thread is forgotten.       *)
(*                                                                         *)
(* Three layers.  Structure holds on any number of harts.  Story is about   *)
(* the threads that wait and needs Undisturbed, since rt_thread_timeout and *)
(* RT_IPC_CMD_RESET take no lock.  Custody, that no thread is lost, needs   *)
(* one hart: see the run Semaphore_lostwake.                                *)
(***************************************************************************)
EXTENDS Semaphore, IntrusiveListProofs

-----------------------------------------------------------------------------
(* The inductive invariant *)

\* A context in the middle of a call or of rt_thread_timeout.
Section  == Location \ {"off", "user", "schedule", "return"}
\* It has a thread to resume.
Resuming == Section \ {"blocked", "sweep", "swept"}

PlacesFit ==
  /\ \A t \in Thread : pc[t] \notin {"off", "expired", "unwait", "halt"}
  /\ \A h \in Hart : pc[h] \notin {"user", "blocked", "schedule", "return",
                                  "sweep", "swept"}

TargetKnown == \A c \in Context : pc[c] \in Resuming => target[c] \in Thread

\* Who has the lock: a call of the semaphore, but neither rt_thread_timeout,
\* which is a hart's, nor a reset, which is a thread's.
LockHeld ==
  \A c \in Context :
    /\ pc[c] \in {"blocked", "done"} => lock = c
    /\ c \in Hart /\ pc[c] \in {"first", "unlink"} => lock = c
    /\ lock = c => pc[c] \in {"blocked", "first", "unlink", "done"} \union Inserting
    /\ pc[c] \in {"sweep", "swept"} => c \in Resetter
    /\ c \in Thread /\ pc[c] \in {"first", "unlink"} \union Inserting /\ lock # c =>
         c \in Resetter

\* A section is masked: neither a handler nor a switch comes between.
Masked ==
  /\ \A t \in Thread : pc[t] \in Section =>
       /\ current[HartOf[t]] = t
       /\ ~next[HartOf[t]].on
       /\ pc[HartOf[t]] = "off"
  /\ \A h \in Hart : pc[h] # "off" => ~next[h].on

\* A hart runs its own threads, and switches to one of its ready table.
SwitchFits ==
  \A h \in Hart :
    /\ current[h] # None => HartOf[current[h]] = h
    /\ next[h].on /\ next[h].to # None =>
         next[h].to \in queued /\ HartOf[next[h].to] = h

\* A thread counts as being on its hart until it starts to leave.
OnCpuExact ==
  \A t \in Thread :
    oncpu[t] <=> current[HartOf[t]] = t /\ ~next[HartOf[t]].on

\* Without time limits and resets no timer is started, and every section has
\* the lock.
PlainHasLock ==
  TRUE \notin Timeouts /\ Resetter = {} =>
    /\ \A t \in Thread : ~armed[t]
    /\ \A c \in Context : pc[c] \in Section => lock = c

Structure ==
  /\ TypeOK
  /\ PlacesFit
  /\ TargetKnown
  /\ LockHeld
  /\ Masked
  /\ SwitchFits
  /\ OnCpuExact
  /\ PlainHasLock

\* The waiters are on one hart, or nothing but takes and releases happens.
Undisturbed ==
  \/ Hart = {TimerHart}
  \/ TRUE \notin Timeouts /\ Resetter = {}

\* A thread in rt_sem_take that can not go on.
Asleep(t) ==
  /\ stat[t] = "SUSPEND"
  /\ t \notin queued
  /\ pc[t] \in {"blocked", "schedule", "return"}
  /\ pc[t] = "return" => current[HartOf[t]] # t

\* A reset is about to wake t.
Dismissed(t) ==
  \E c \in Context : target[c] = t /\ pc[c] \in {"first", "unlink"} /\ lock # c

WaitersAsleep ==
  \A t \in Waiting : Asleep(t) /\ (error[t] = "EOK" \/ Dismissed(t))

\* A thread that is being resumed waits, and is still asleep once unlinked.
TargetAsleep ==
  \A c \in Context :
    /\ pc[c] \in {"first", "unlink", "expired", "unwait"} => target[c] \in Waiting
    /\ pc[c] \in Inserting => target[c] \notin Waiting /\ Asleep(target[c])
    /\ pc[c] = "ready" => ~oncpu[target[c]]
    /\ pc[c] \in {"first", "unlink"} /\ lock # c => error[target[c]] = "ERROR"

\* A thread in the ready table can be switched to, and is not the one that
\* runs unless that one is just leaving.
QueuedReady ==
  /\ \A t \in queued : /\ stat[t] = "READY"
                       /\ current[HartOf[t]] = t => next[HartOf[t]].on
  /\ \A h \in Hart : next[h].on /\ next[h].to # None => next[h].to # current[h]

\* A timer runs only for a thread that waits, and only until it expires.
ArmedWaits ==
  \A t \in Thread : armed[t] =>
    /\ t \in Waiting
    /\ \A c \in Context : pc[c] \in {"expired", "unwait"} => target[c] # t

Story ==
  /\ WaitersInOrder
  /\ WaitersAsleep
  /\ TargetAsleep
  /\ QueuedReady
  /\ ArmedWaits
  /\ TimeoutAsserted
  /\ TokensConserved

\* Somebody has the thread: the waiters, the ready table, its hart, or the
\* context that resumes it.
Kept(t) ==
  \/ t \in Waiting
  \/ t \in queued
  \/ stat[t] = "RUNNING" /\ current[HartOf[t]] = t
  \/ \E c \in Context : target[c] = t /\ pc[c] \in Inserting

Custody ==
  /\ \A t \in Thread : Kept(t)
  /\ \A c \in Context : pc[c] = "running" => oncpu[target[c]]

-----------------------------------------------------------------------------
(* Threads, harts and None are different things.                            *)
LEMMA Kinds ==
  /\ \A t \in Thread : t \in Context /\ t \notin Hart /\ t # None /\ HartOf[t] \in Hart
  /\ \A h \in Hart : h \in Context /\ h \notin Thread /\ h # None
  /\ \A c \in Context : c \in Thread \/ c \in Hart
  /\ TimerHart \in Hart
  /\ None \notin Context /\ None \notin Thread /\ None \notin Hart
BY SemaphoreConstants DEF Context

(* A waiter list of another length is still a list of threads.              *)
LEMMA WaitersType ==
  ASSUME waiters \in Seq(Thread), NEW t \in Thread
  PROVE  /\ Position(t) \in 0 .. Len(waiters)
         /\ LinkBehind(waiters, Position(t), t) \in Seq(Thread)
<1> DEFINE B == {i \in DOMAIN waiters : Priority[waiters[i]] <= Priority[t]}
<1>1. DOMAIN waiters = 1 .. Len(waiters) /\ Len(waiters) \in Nat
  BY LenProperties
<1>2. IsFiniteSet(1 .. Len(waiters)) /\ Cardinality(1 .. Len(waiters)) = Len(waiters)
  BY <1>1, FS_Interval, SMTT(30)
<1>3. B \subseteq 1 .. Len(waiters)
  BY <1>1
<1> HIDE DEF B
<1>4. IsFiniteSet(B) /\ Cardinality(B) <= Len(waiters)
  BY <1>2, <1>3, FS_Subset
<1>5. Cardinality(B) \in Nat
  BY <1>4, FS_CardinalityType
<1>6. Position(t) \in 0 .. Len(waiters)
  BY <1>4, <1>5 DEF Position, B
<1> QED
  BY <1>6, LinkBehindProperties

(* The same of a list that lost a node; here it may hold one twice.         *)
LEMMA UnlinkType ==
  ASSUME NEW s \in Seq(Thread), NEW t
  PROVE  Unlink(s, t) \in Seq(Thread)
<1>1. CASE \E i \in DOMAIN s : s[i] = t
  <2> DEFINE p == CHOOSE i \in DOMAIN s : s[i] = t
  <2>1. p \in DOMAIN s
    BY <1>1
  <2>2. Unlink(s, t) = SubSeq(s, 1, p - 1) \o SubSeq(s, p + 1, Len(s))
    BY <1>1 DEF Unlink
  <2> QED
    BY <2>1, <2>2, WithoutPlace
<1>2. CASE ~(\E i \in DOMAIN s : s[i] = t)
  BY <1>2 DEF Unlink
<1> QED
  BY <1>1, <1>2

(* The end of rt_schedule moves the thread that was in it.                  *)
LEMMA ScheduledPlaces ==
  ASSUME TypeOK, NEW h \in Hart, Scheduled(current[h])
  PROVE  /\ pc' \in [Context -> Location]
         /\ \A c \in Context :
              \/ pc'[c] = pc[c]
              \/ c = current[h] /\ c \in Thread /\ pc[c] = "schedule" /\ pc'[c] = "return"
<1>1. pc \in [Context -> Location] /\ current[h] \in Thread \union {None}
  BY DEF TypeOK
<1>2. \A c \in Context :
        pc'[c] = IF c = current[h] /\ pc[current[h]] = "schedule"
                 THEN "return" ELSE pc[c]
  BY DEF Scheduled
<1>3. "return" \in Location
  BY DEF Location
<1>4. pc' \in [Context -> Location]
  BY <1>1, <1>3 DEF Scheduled
<1> QED
  BY <1>1, <1>2, <1>4, Kinds


(* Where a context goes once its thread is inserted.                        *)
LEMMA InsertedPlaces ==
  ASSUME TypeOK, NEW c \in Context, Inserted(c)
  PROVE  /\ pc' = [pc EXCEPT ![c] = Behind(c)]
         /\ target' = [target EXCEPT ![c] = IF lock = c THEN target[c] ELSE None]
<1>1. target \in [Context -> Thread \union {None}]
  BY DEF TypeOK
<1>2. CASE lock = c
  BY <1>1 DEF Inserted, Goto
<1>3. CASE lock # c
  BY <1>3 DEF Inserted, Goto
<1> QED
  BY <1>2, <1>3

(* Who waits is a thread.                                                   *)
LEMMA WaitingThreads == ASSUME TypeOK PROVE Waiting \subseteq Thread
BY DEF TypeOK, Waiting, Members

\* rt_sem_take that needs not wait, or may not.
LEMMA TakeStructure ==
  ASSUME Structure, NEW t \in Thread, TakeFreely(t)
  PROVE  Structure'
<1>1. TypeOK'
  BY SemaphoreConstants DEF Structure, TypeOK, TakeFreely, threads
<1>2. PlacesFit' /\ TargetKnown' /\ LockHeld'
  BY DEF Structure, PlacesFit, TargetKnown, LockHeld, TakeFreely
<1>3. Masked' /\ SwitchFits' /\ OnCpuExact'
  BY DEF Structure, Masked, SwitchFits, OnCpuExact, TakeFreely, threads
<1>4. PlainHasLock'
  BY DEF Structure, PlainHasLock, TakeFreely, threads
<1> QED
  BY <1>1, <1>2, <1>3, <1>4 DEF Structure

\* rt_sem_take lists the thread.
LEMMA BlockStructure ==
  ASSUME Structure, NEW t \in Thread, NEW timed \in Timeouts, Block(t, timed)
  PROVE  Structure'
<1>1. TypeOK'
  BY WaitersType, Kinds, SemaphoreConstants
     DEF Structure, TypeOK, Location, Block, Goto
<1>2. PlacesFit' /\ TargetKnown' /\ LockHeld'
  BY Kinds
     DEF Structure, TypeOK, PlacesFit, TargetKnown, LockHeld, Resuming, Block,
         Goto
<1>3. Masked' /\ SwitchFits' /\ OnCpuExact'
  BY DEF Structure, Masked, SwitchFits, OnCpuExact, Block, Idle, At, Goto
<1>4. PlainHasLock'
  <2>1. SUFFICES ASSUME TRUE \notin Timeouts, Resetter = {}
                 PROVE  /\ \A u \in Thread : ~armed'[u]
                        /\ \A c \in Context : pc'[c] \in Section => lock' = c
    BY DEF PlainHasLock
  <2>2. timed = FALSE
    BY <2>1, SemaphoreConstants
  <2>3. \A u \in Thread : ~armed'[u]
    BY <2>1, <2>2 DEF Structure, PlainHasLock, Block
  <2>4. \A c \in Context : pc'[c] \in Section => lock' = c
    BY Kinds, <2>1 DEF Structure, PlainHasLock, Block, Goto
  <2> QED
    BY <2>3, <2>4
<1> QED
  BY <1>1, <1>2, <1>3, <1>4 DEF Structure

\* It gives the lock back before rt_schedule.
LEMMA BlockUnlockStructure ==
  ASSUME Structure, NEW t \in Thread, BlockUnlock(t)
  PROVE  Structure'
<1>1. TypeOK'
  BY DEF Structure, TypeOK, Location, BlockUnlock, Goto, threads
<1>2. PlacesFit' /\ TargetKnown' /\ LockHeld'
  BY Kinds
     DEF Structure, TypeOK, PlacesFit, TargetKnown, LockHeld, Section,
         Resuming, Inserting, BlockUnlock, At, Goto
<1>3. Masked' /\ SwitchFits' /\ OnCpuExact'
  BY DEF Structure, Masked, SwitchFits, OnCpuExact, BlockUnlock, At, Goto,
         threads
<1>4. PlainHasLock'
  BY Kinds
     DEF Structure, TypeOK, LockHeld, PlainHasLock, Section, BlockUnlock, At,
         Goto, threads
<1> QED
  BY <1>1, <1>2, <1>3, <1>4 DEF Structure

\* A wait is over, with a token or an error.
LEMMA ReturnStructure ==
  ASSUME Structure, NEW t \in Thread, Return(t)
  PROVE  Structure'
<1>1. TypeOK'
  BY Kinds DEF Structure, TypeOK, Location, Return, Goto, threads
<1>2. PlacesFit' /\ TargetKnown' /\ LockHeld'
  BY DEF Structure, PlacesFit, TargetKnown, LockHeld, Section, Resuming,
         Inserting, Return, At, Goto
<1>3. Masked' /\ SwitchFits' /\ OnCpuExact'
  BY DEF Structure, Masked, SwitchFits, OnCpuExact, Return, At, Goto, threads
<1>4. PlainHasLock'
  BY DEF Structure, PlainHasLock, Section, Return, Goto, threads
<1> QED
  BY <1>1, <1>2, <1>3, <1>4 DEF Structure

\* rt_sem_control masks the interrupts,
LEMMA ResetStructure ==
  ASSUME Structure, NEW t \in Thread, Reset(t)
  PROVE  Structure'
<1>1. TypeOK'
  BY DEF Structure, TypeOK, Location, Reset, Goto, threads
<1>2. PlacesFit' /\ TargetKnown' /\ LockHeld'
  BY Kinds
     DEF Structure, TypeOK, PlacesFit, TargetKnown, LockHeld, Section,
         Resuming, Inserting, Reset, Idle, At, Goto
<1>3. Masked' /\ SwitchFits' /\ OnCpuExact'
  BY Kinds
     DEF Structure, Masked, SwitchFits, OnCpuExact, Reset, Idle, At, Goto,
         threads
<1>4. PlainHasLock'
  BY DEF Structure, PlainHasLock, Reset, Goto, threads
<1> QED
  BY <1>1, <1>2, <1>3, <1>4 DEF Structure

\* wakes one waiter after the other with an error,
LEMMA ResetNextStructure ==
  ASSUME Structure, NEW t \in Thread, ResetNext(t)
  PROVE  Structure'
<1>0. Head(waiters) \in Thread
  BY DEF ResetNext, Structure, TypeOK
<1>1. TypeOK'
  BY <1>0 DEF Structure, TypeOK, Location, ResetNext, Goto
<1>2. PlacesFit' /\ TargetKnown' /\ LockHeld'
  BY <1>0, Kinds
     DEF Structure, TypeOK, PlacesFit, TargetKnown, LockHeld, Section,
         Resuming, Inserting, ResetNext, At, Goto
<1>3. Masked' /\ SwitchFits' /\ OnCpuExact'
  BY DEF Structure, Masked, SwitchFits, OnCpuExact, Section, Location,
         ResetNext, At, Goto
<1>4. PlainHasLock'
  BY DEF Structure, LockHeld, PlainHasLock, ResetNext, At, Goto
<1> QED
  BY <1>1, <1>2, <1>3, <1>4 DEF Structure

\* finds that nobody waits,
LEMMA ResetEmptyStructure ==
  ASSUME Structure, NEW t \in Thread, ResetEmpty(t)
  PROVE  Structure'
<1>1. TypeOK'
  BY DEF Structure, TypeOK, Location, ResetEmpty, Goto, threads
<1>2. PlacesFit' /\ TargetKnown' /\ LockHeld'
  BY Kinds
     DEF Structure, TypeOK, PlacesFit, TargetKnown, LockHeld, Section,
         Resuming, Inserting, ResetEmpty, At, Goto
<1>3. Masked' /\ SwitchFits' /\ OnCpuExact'
  BY DEF Structure, Masked, SwitchFits, OnCpuExact, Section, Location,
         ResetEmpty, At, Goto, threads
<1>4. PlainHasLock'
  BY DEF Structure, LockHeld, PlainHasLock, ResetEmpty, At, Goto, threads
<1> QED
  BY <1>1, <1>2, <1>3, <1>4 DEF Structure

\* and sets the value.
LEMMA ResetValueStructure ==
  ASSUME Structure, NEW t \in Thread, NEW v \in 0 .. MaxValue, ResetValue(t, v)
  PROVE  Structure'
<1>1. TypeOK'
  <2>1. balance' \in Int /\ value' \in 0 .. MaxValue
    BY SemaphoreConstants DEF Structure, TypeOK, ResetValue
  <2>2. pc' \in [Context -> Location]
    BY DEF Structure, TypeOK, Location, ResetValue, Goto
  <2> QED
    BY <2>1, <2>2 DEF Structure, TypeOK, ResetValue, threads
<1>2. PlacesFit' /\ TargetKnown' /\ LockHeld'
  BY Kinds
     DEF Structure, TypeOK, PlacesFit, TargetKnown, LockHeld, Section,
         Resuming, Inserting, ResetValue, At, Goto
<1>3. Masked' /\ SwitchFits' /\ OnCpuExact'
  BY DEF Structure, Masked, SwitchFits, OnCpuExact, Section, ResetValue, At,
         Goto, threads
<1>4. PlainHasLock'
  BY DEF Structure, PlainHasLock, Section, ResetValue, Goto, threads
<1> QED
  BY <1>1, <1>2, <1>3, <1>4 DEF Structure

\* The tick finds the timer of a waiter.
LEMMA ExpireStructure ==
  ASSUME Structure, NEW t \in Thread, Expire(t)
  PROVE  Structure'
<1>1. TypeOK'
  BY DEF Structure, TypeOK, Location, Expire, Goto
<1>2. PlacesFit' /\ TargetKnown' /\ LockHeld'
  BY DEF Structure, TypeOK, PlacesFit, TargetKnown, LockHeld, Inserting,
         Expire, Open, Goto
<1>3. Masked' /\ SwitchFits' /\ OnCpuExact'
  BY SemaphoreConstants
     DEF Structure, Masked, SwitchFits, OnCpuExact, Section, MayBeInterrupted,
         Expire, Open, Goto
<1>4. PlainHasLock'
  BY DEF Structure, PlainHasLock, Expire
<1> QED
  BY <1>1, <1>2, <1>3, <1>4 DEF Structure

\* rt_sem_release with nobody waiting.
LEMMA GiveValueStructure ==
  ASSUME Structure, NEW c \in Context, GiveValue(c)
  PROVE  Structure'
<1>1. TypeOK'
  BY SemaphoreConstants DEF Structure, TypeOK, GiveValue, threads
<1>2. PlacesFit' /\ TargetKnown' /\ LockHeld'
  BY DEF Structure, PlacesFit, TargetKnown, LockHeld, GiveValue
<1>3. Masked' /\ SwitchFits' /\ OnCpuExact'
  BY DEF Structure, Masked, SwitchFits, OnCpuExact, GiveValue, threads
<1>4. PlainHasLock'
  BY DEF Structure, PlainHasLock, GiveValue, threads
<1> QED
  BY <1>1, <1>2, <1>3, <1>4 DEF Structure

\* rt_sem_release with a waiter.
LEMMA GiveWaiterStructure ==
  ASSUME Structure, NEW c \in Context, GiveWaiter(c)
  PROVE  Structure'
<1>0. Head(waiters) \in Thread
  BY DEF GiveWaiter, Structure, TypeOK
<1>1. TypeOK'
  BY DEF Structure, TypeOK, Location, GiveWaiter, Goto, threads
<1>2. PlacesFit' /\ TargetKnown' /\ LockHeld'
  BY Kinds
     DEF Structure, TypeOK, PlacesFit, TargetKnown, LockHeld, GiveWaiter, Goto
<1>3. Masked' /\ SwitchFits' /\ OnCpuExact'
  BY SemaphoreConstants
     DEF Structure, Masked, SwitchFits, OnCpuExact, Section, MayBeInterrupted,
         GiveWaiter, Idle, At, Open, Goto, threads
<1>4. PlainHasLock'
  BY Kinds DEF Structure, PlainHasLock, GiveWaiter, Goto, threads
<1> QED
  BY <1>1, <1>2, <1>3, <1>4 DEF Structure

\* rt_thread_resume tests the state,
LEMMA ResumeTestStructure ==
  ASSUME Structure, NEW c \in Context, ResumeTest(c)
  PROVE  Structure'
<1>1. TypeOK'
  BY DEF Structure, TypeOK, Location, Inserting, ResumeTest, Behind, Goto, threads
<1>2. PlacesFit' /\ TargetKnown' /\ LockHeld'
  BY Kinds
     DEF Structure, TypeOK, PlacesFit, TargetKnown, LockHeld, Section, Resuming,
         Location, Inserting, ResumeTest, Behind, At, Goto
<1>3. Masked' /\ SwitchFits' /\ OnCpuExact'
  BY Kinds
     DEF Structure, Section, Location, Masked, SwitchFits, OnCpuExact, ResumeTest, Behind, At, Goto,
         threads
<1>4. PlainHasLock'
  BY Kinds
     DEF Structure, PlainHasLock, Section, Location, Inserting, ResumeTest, Behind, At, Goto,
         threads
<1> QED
  BY <1>1, <1>2, <1>3, <1>4 DEF Structure

\* takes the thread off the wait list,
LEMMA ResumeUnlinkStructure ==
  ASSUME Structure, NEW c \in Context, ResumeUnlink(c)
  PROVE  Structure'
<1>1. TypeOK'
  BY UnlinkType DEF Structure, TypeOK, Location, Inserting, ResumeUnlink, Goto
<1>2. PlacesFit' /\ TargetKnown' /\ LockHeld'
  BY DEF Structure, PlacesFit, TargetKnown, LockHeld, Section, Resuming,
         Location, Inserting, ResumeUnlink, At, Goto
<1>3. Masked' /\ SwitchFits' /\ OnCpuExact'
  BY DEF Structure, Masked, SwitchFits, OnCpuExact, ResumeUnlink, At, Goto
<1>4. PlainHasLock'
  BY DEF Structure, PlainHasLock, Section, Location, ResumeUnlink, At, Goto
<1> QED
  BY <1>1, <1>2, <1>3, <1>4 DEF Structure

\* reads oncpu,
LEMMA InsertTestStructure ==
  ASSUME Structure, NEW c \in Context, InsertTest(c)
  PROVE  Structure'
<1>1. TypeOK'
  BY DEF Structure, TypeOK, Location, Inserting, InsertTest, Goto, threads
<1>2. PlacesFit' /\ TargetKnown' /\ LockHeld'
  BY DEF Structure, PlacesFit, TargetKnown, LockHeld, Section, Resuming,
         Location, Inserting, InsertTest, At, Goto
<1>3. Masked' /\ SwitchFits' /\ OnCpuExact'
  BY DEF Structure, Masked, SwitchFits, OnCpuExact, InsertTest, At, Goto,
         threads
<1>4. PlainHasLock'
  BY DEF Structure, PlainHasLock, Section, Location, Inserting, InsertTest,
         At, Goto, threads
<1> QED
  BY <1>1, <1>2, <1>3, <1>4 DEF Structure

\* marks a thread that has a hart,
LEMMA InsertRunningStructure ==
  ASSUME Structure, NEW c \in Context, InsertRunning(c)
  PROVE  Structure'
<1>0. /\ pc' = [pc EXCEPT ![c] = Behind(c)]
      /\ target' = [target EXCEPT ![c] = IF lock = c THEN target[c] ELSE None]
  BY InsertedPlaces DEF Structure, InsertRunning
<1>1. TypeOK'
  BY <1>0, Kinds DEF Structure, TypeOK, Location, InsertRunning, Behind
<1>2. PlacesFit' /\ TargetKnown' /\ LockHeld'
  BY <1>0, Kinds
     DEF Structure, TypeOK, PlacesFit, TargetKnown, LockHeld, Section,
         Resuming, Location, Inserting, InsertRunning, Behind, At
<1>3. Masked' /\ SwitchFits' /\ OnCpuExact'
  BY <1>0, Kinds DEF Structure, Masked, SwitchFits, OnCpuExact, Section,
         Location, Inserting, InsertRunning, Behind, At
<1>4. PlainHasLock'
  BY <1>0, Kinds DEF Structure, PlainHasLock, Section, Location,
         Inserting, InsertRunning, Behind, At
<1> QED
  BY <1>1, <1>2, <1>3, <1>4 DEF Structure

\* or puts it into the ready table.
LEMMA InsertReadyStructure ==
  ASSUME Structure, NEW c \in Context, InsertReady(c)
  PROVE  Structure'
<1>1. /\ pc' = [pc EXCEPT ![c] = Behind(c)]
      /\ target' = [target EXCEPT ![c] = IF lock = c THEN target[c] ELSE None]
  BY InsertedPlaces DEF Structure, InsertReady
<1>2. target[c] \in Thread
  BY DEF Structure, TargetKnown, Resuming, Section, Location, Inserting,
         InsertReady, At
<1>3. TypeOK'
  BY <1>2, <1>1 DEF Structure, TypeOK, Location, InsertReady, Behind
<1>4. PlacesFit' /\ TargetKnown' /\ LockHeld'
  BY <1>1, Kinds
     DEF Structure, TypeOK, PlacesFit, TargetKnown, LockHeld, Section,
         Resuming, Location, Inserting, InsertReady, Behind, At
<1>5. Masked' /\ SwitchFits' /\ OnCpuExact'
  BY <1>1, Kinds DEF Structure, Masked, SwitchFits, OnCpuExact, Section,
         Location, Inserting, InsertReady, Behind, At
<1>6. PlainHasLock'
  BY <1>1, Kinds DEF Structure, PlainHasLock, Section, Location,
         Inserting, InsertReady, Behind, At
<1> QED
  BY <1>3, <1>4, <1>5, <1>6 DEF Structure

\* The lock is given back.
LEMMA GiveUnlockStructure ==
  ASSUME Structure, NEW c \in Context, GiveUnlock(c)
  PROVE  Structure'
<1>1. TypeOK'
  BY DEF Structure, TypeOK, Location, GiveUnlock, After, Goto, threads
<1>2. PlacesFit' /\ TargetKnown' /\ LockHeld'
  BY Kinds
     DEF Structure, TypeOK, PlacesFit, TargetKnown, LockHeld, Section,
         Resuming, Inserting, GiveUnlock, After, At, Goto
<1>3. Masked' /\ SwitchFits' /\ OnCpuExact'
  BY DEF Structure, Masked, SwitchFits, OnCpuExact, GiveUnlock, At, Goto,
         threads
<1>4. PlainHasLock'
  BY DEF Structure, TypeOK, LockHeld, PlainHasLock, Section, GiveUnlock,
         After, At, Goto, threads
<1> QED
  BY <1>1, <1>2, <1>3, <1>4 DEF Structure

\* rt_thread_timeout asserts that the thread waits,
LEMMA ExpireTestStructure ==
  ASSUME Structure, NEW h \in Hart, ExpireTest(h)
  PROVE  Structure'
<1>1. TypeOK'
  BY DEF Structure, TypeOK, Location, ExpireTest, Goto, threads
<1>2. PlacesFit' /\ TargetKnown' /\ LockHeld'
  BY DEF Structure, PlacesFit, TargetKnown, LockHeld, Section, Resuming,
         Location, Inserting, ExpireTest, At, Goto
<1>3. Masked' /\ SwitchFits' /\ OnCpuExact'
  BY DEF Structure, Masked, SwitchFits, OnCpuExact, ExpireTest, At, Goto,
         threads
<1>4. PlainHasLock'
  BY DEF Structure, PlainHasLock, Section, Location, ExpireTest, At, Goto,
         threads
<1> QED
  BY <1>1, <1>2, <1>3, <1>4 DEF Structure

\* and takes it off the wait list.
LEMMA ExpireUnlinkStructure ==
  ASSUME Structure, NEW h \in Hart, ExpireUnlink(h)
  PROVE  Structure'
<1>1. TypeOK'
  BY UnlinkType DEF Structure, TypeOK, Location, Inserting, ExpireUnlink, Goto
<1>2. PlacesFit' /\ TargetKnown' /\ LockHeld'
  BY DEF Structure, PlacesFit, TargetKnown, LockHeld, Section, Resuming,
         Location, Inserting, ExpireUnlink, At, Goto
<1>3. Masked' /\ SwitchFits' /\ OnCpuExact'
  BY DEF Structure, Masked, SwitchFits, OnCpuExact, ExpireUnlink, At, Goto
<1>4. PlainHasLock'
  BY DEF Structure, PlainHasLock, Section, Location, ExpireUnlink, At, Goto
<1> QED
  BY <1>1, <1>2, <1>3, <1>4 DEF Structure

\* rt_schedule detaches the thread from its hart,
LEMMA LeaveStructure ==
  ASSUME Structure, NEW h \in Hart, Leave(h)
  PROVE  Structure'
<1>1. TypeOK'
  BY DEF Structure, TypeOK, Leave, MostUrgent
<1>2. PlacesFit' /\ TargetKnown' /\ LockHeld'
  BY DEF Structure, PlacesFit, TargetKnown, LockHeld, Leave
<1>3. Masked' /\ SwitchFits' /\ OnCpuExact'
  BY SemaphoreConstants
     DEF Structure, TypeOK, Masked, SwitchFits, OnCpuExact, Section,
         MayBeInterrupted, Leave, Open, MostUrgent
<1>4. PlainHasLock'
  BY DEF Structure, PlainHasLock, Leave
<1> QED
  BY <1>1, <1>2, <1>3, <1>4 DEF Structure

\* finds that it need not leave,
LEMMA StayStructure ==
  ASSUME Structure, NEW h \in Hart, Stay(h)
  PROVE  Structure'
<1>0. /\ pc' \in [Context -> Location]
      /\ \A c \in Context :
           \/ pc'[c] = pc[c]
           \/ c = current[h] /\ c \in Thread /\ pc[c] = "schedule" /\ pc'[c] = "return"
  BY ScheduledPlaces DEF Structure, Stay
<1>1. TypeOK'
  BY <1>0 DEF Structure, TypeOK, Stay, NotSwitching
<1>2. PlacesFit' /\ TargetKnown' /\ LockHeld'
  BY <1>0, Kinds
     DEF Structure, PlacesFit, TargetKnown, LockHeld, Section, Resuming,
         Inserting, Stay
<1>3. Masked' /\ SwitchFits' /\ OnCpuExact'
  BY <1>0, Kinds
     DEF Structure, TypeOK, Masked, SwitchFits, OnCpuExact, Section, Stay,
         NotSwitching
<1>4. PlainHasLock'
  BY <1>0 DEF Structure, PlainHasLock, Section, Stay
<1> QED
  BY <1>1, <1>2, <1>3, <1>4 DEF Structure

\* or gives the hart to another.
LEMMA ArriveStructure ==
  ASSUME Structure, NEW h \in Hart, Arrive(h)
  PROVE  Structure'
<1>0. /\ pc' \in [Context -> Location]
      /\ \A c \in Context :
           \/ pc'[c] = pc[c]
           \/ c = current[h] /\ c \in Thread /\ pc[c] = "schedule" /\ pc'[c] = "return"
  BY ScheduledPlaces DEF Structure, Arrive
<1>1. TypeOK'
  BY <1>0 DEF Structure, TypeOK, Arrive, NotSwitching
<1>2. PlacesFit' /\ TargetKnown' /\ LockHeld'
  BY <1>0, Kinds
     DEF Structure, PlacesFit, TargetKnown, LockHeld, Section, Resuming,
         Inserting, Arrive
<1>3. Masked' /\ SwitchFits' /\ OnCpuExact'
  BY <1>0, Kinds
     DEF Structure, TypeOK, Masked, SwitchFits, OnCpuExact, Section, Arrive,
         NotSwitching
<1>4. PlainHasLock'
  BY <1>0 DEF Structure, PlainHasLock, Section, Arrive
<1> QED
  BY <1>1, <1>2, <1>3, <1>4 DEF Structure

(* On any number of harts Structure is inductive.                           *)
LEMMA InitStructure == Init => Structure
<1> SUFFICES ASSUME Init PROVE Structure
  OBVIOUS
<1>1. TypeOK
  BY SemaphoreConstants DEF Init, TypeOK, Location, NotSwitching
<1>2. PlacesFit /\ TargetKnown /\ LockHeld /\ Masked
  BY Kinds
     DEF Init, PlacesFit, TargetKnown, LockHeld, Masked, Resuming, Section,
         Inserting
<1>3. SwitchFits /\ OnCpuExact /\ PlainHasLock
  BY Kinds
     DEF Init, SwitchFits, OnCpuExact, PlainHasLock, Section, NotSwitching
<1> QED
  BY <1>1, <1>2, <1>3 DEF Structure

\* Every step keeps the structure.
LEMMA StepStructure == Structure /\ [Next]_vars => Structure'
<1> SUFFICES ASSUME Structure, [Next]_vars PROVE Structure'
  OBVIOUS
<1>1. CASE Next
  <2>1. ASSUME NEW t \in Thread,
               \/ TakeFreely(t)
               \/ \E timed \in Timeouts : Block(t, timed)
               \/ BlockUnlock(t)
               \/ Return(t)
               \/ Reset(t) \/ ResetNext(t) \/ ResetEmpty(t)
               \/ \E v \in 0 .. MaxValue : ResetValue(t, v)
               \/ Expire(t)
        PROVE  Structure'
    BY <2>1, TakeStructure, BlockStructure, BlockUnlockStructure,
       ReturnStructure, ResetStructure, ResetNextStructure,
       ResetEmptyStructure, ResetValueStructure, ExpireStructure
  <2>2. ASSUME NEW c \in Context, GiveValue(c) \/ GiveWaiter(c) \/ Resume(c)
        PROVE  Structure'
    BY <2>2, GiveValueStructure, GiveWaiterStructure, ResumeTestStructure,
       ResumeUnlinkStructure, InsertTestStructure, InsertRunningStructure,
       InsertReadyStructure, GiveUnlockStructure
       DEF Resume
  <2>3. ASSUME NEW h \in Hart,
               \/ ExpireTest(h) \/ ExpireUnlink(h)
               \/ Leave(h) \/ Stay(h) \/ Arrive(h)
        PROVE  Structure'
    BY <2>3, ExpireTestStructure, ExpireUnlinkStructure, LeaveStructure,
       StayStructure, ArriveStructure
  <2> QED
    BY <1>1, <2>1, <2>2, <2>3 DEF Next
<1>2. CASE UNCHANGED vars
  BY <1>2
     DEF vars, Structure, TypeOK, PlacesFit, TargetKnown, LockHeld, Masked,
         SwitchFits, OnCpuExact, PlainHasLock
<1> QED
  BY <1>1, <1>2

\* The structure holds in every behaviour.
LEMMA StructureHolds == Spec => []Structure
BY InitStructure, StepStructure, PTL DEF Spec


-----------------------------------------------------------------------------
(* The threads that wait, one step at a time *)

(* No two contexts are in the middle of something.                          *)
LEMMA OneInside ==
  ASSUME Structure, Undisturbed, NEW c \in Context, NEW d \in Context,
         pc[c] \in Section, pc[d] \in Section
  PROVE  c = d
<1>1. CASE Hart = {TimerHart}
  <2>1. ASSUME NEW t \in Thread, pc[t] \in Section
        PROVE  t = current[TimerHart] /\ pc[TimerHart] = "off"
    BY <1>1, <2>1, Kinds DEF Structure, Masked
  <2>2. \A h \in Hart : h = TimerHart
    BY <1>1
  <2>3. "off" \notin Section
    BY DEF Section
  <2> QED
    BY <2>1, <2>2, <2>3, Kinds
<1>2. CASE TRUE \notin Timeouts /\ Resetter = {}
  BY <1>2 DEF Structure, PlainHasLock
<1> QED
  BY <1>1, <1>2 DEF Undisturbed

(* A call starts only when no context is in the middle of something.        *)
LEMMA NoneInside ==
  ASSUME Structure, Undisturbed, lock = None \/ Hart = {TimerHart},
         NEW c \in Context, Idle(c)
  PROVE  \A d \in Context : pc[d] \notin Section
<1>1. SUFFICES ASSUME NEW d \in Context, pc[d] \in Section PROVE FALSE
  OBVIOUS
<1>2. CASE Hart = {TimerHart}
  BY <1>1, <1>2, Kinds
     DEF Structure, Masked, Idle, At, Open, Section, MayBeInterrupted
<1>3. CASE lock = None /\ TRUE \notin Timeouts /\ Resetter = {}
  BY <1>1, <1>3, Kinds DEF Structure, PlainHasLock
<1> QED
  BY <1>2, <1>3 DEF Undisturbed

(* The list is in order, and who waits is in it once.                       *)
LEMMA WaitersDistinct ==
  ASSUME TypeOK, WaitersInOrder
  PROVE  /\ InOrder(waiters, Priority)
         /\ waiters \in Seq(Thread)
         /\ Distinct(waiters)
<1>1. InOrder(waiters, Priority) /\ waiters \in Seq(Thread)
  BY DEF TypeOK, WaitersInOrder, InOrder
<1> QED
  BY <1>1, InOrderDistinct

(* Unlinking leaves the others waiting, in order.                           *)
LEMMA UnlinkWaiter ==
  ASSUME TypeOK, WaitersInOrder, NEW t, waiters' = Unlink(waiters, t)
  PROVE  Waiting' = Waiting \ {t} /\ WaitersInOrder'
<1>1. Members(Unlink(waiters, t)) = Members(waiters) \ {t}
  BY WaitersDistinct, UnlinkProperties
<1>2. InOrder(waiters', Priority)
  BY WaitersDistinct, UnlinkInOrder
<1> QED
  BY <1>1, <1>2 DEF Waiting, InOrder, WaitersInOrder

(* The tokens under way can be counted.                                     *)
LEMMA CountsFinite ==
  ASSUME LockHeld
  PROVE  /\ IsFiniteSet(Granted) /\ Cardinality(Granted) \in Nat
         /\ IsFiniteSet(Giving) /\ Cardinality(Giving) \in Nat
<1>1. IsFiniteSet(Granted)
  <2>1. Granted \subseteq Thread
    BY DEF Granted
  <2> QED
    BY <2>1, FS_Subset, SemaphoreConstants
<1>2. IsFiniteSet(Giving)
  <2>1. Giving \subseteq {lock}
    BY DEF Giving
  <2>2. IsFiniteSet({lock})
    BY FS_Singleton
  <2> QED
    BY <2>1, <2>2, FS_Subset
<1> QED
  BY <1>1, <1>2, FS_CardinalityType

(* A step that changes no count of tokens.                                  *)
LEMMA TokensKept ==
  ASSUME TypeOK, LockHeld, TokensConserved, Granted' = Granted, Giving' = Giving,
         value' \in Int, balance' = balance - value + value'
  PROVE  TokensConserved'
<1>1. value \in Int /\ balance \in Int
  BY DEF TypeOK
<1> QED
  BY <1>1, CountsFinite DEF TokensConserved

(* A take of what is there.                                                 *)
LEMMA TakeStory ==
  ASSUME Structure, Story, Undisturbed, NEW t \in Thread, TakeFreely(t)
  PROVE  Story'
<1>1. Waiting' = Waiting
  BY DEF Waiting, TakeFreely, threads
<1>2. WaitersInOrder'
  BY DEF Story, WaitersInOrder, TakeFreely
<1>3. WaitersAsleep'
  BY <1>1 DEF Story, WaitersAsleep, Asleep, Dismissed, TakeFreely, threads
<1>4. TargetAsleep'
  BY <1>1 DEF Story, TargetAsleep, Asleep, TakeFreely, threads
<1>5. QueuedReady'
  BY DEF Story, QueuedReady, TakeFreely, threads
<1>6. ArmedWaits'
  BY <1>1 DEF Story, ArmedWaits, TakeFreely, threads
<1>7. TimeoutAsserted'
  BY DEF Story, TimeoutAsserted, TakeFreely
<1>8. TokensConserved'
  <2>1. Granted' = Granted
    BY <1>1 DEF Granted, TakeFreely, threads
  <2>2. Giving' = Giving
    BY DEF Giving, TakeFreely
  <2>3. value' \in Int /\ balance' = balance - value + value'
    BY DEF Structure, TypeOK, TakeFreely
  <2> QED
    BY <2>1, <2>2, <2>3, TokensKept DEF Structure, Story
<1> QED
  BY <1>2, <1>3, <1>4, <1>5, <1>6, <1>7, <1>8 DEF Story

(* A thread that waits goes to its place in the list.                       *)
LEMMA BlockStory ==
  ASSUME Structure, Story, Undisturbed, NEW t \in Thread, NEW timed \in Timeouts, Block(t, timed)
  PROVE  Story'
<1>1. Waiting' = Waiting \union {t} /\ t \notin Waiting /\ t \notin queued
  <2>1. t \notin Waiting /\ t \notin queued
    BY DEF Story, WaitersAsleep, Asleep, Dismissed, QueuedReady, Block, Idle, At
  <2>2. Members(waiters') = Members(waiters) \union {t}
    BY WaitersType, LinkBehindMembers DEF Structure, TypeOK, Block
  <2> QED
    BY <2>1, <2>2 DEF Waiting
<1>2. \A d \in Context : pc[d] \notin Section
  BY NoneInside, Kinds DEF Block
<1>3. WaitersInOrder'
  <2>1. InOrder(LinkBehind(waiters, Position(t), t), Priority)
    <3>1. t \notin Members(waiters)
      BY <1>1 DEF Waiting
    <3>2. Priority \in [Thread -> Nat]
      BY SemaphoreConstants
    <3> QED
      BY <3>1, <3>2, WaitersDistinct, LinkInOrder
         DEF Structure, Story, Position
  <2> QED
    BY <2>1 DEF Block, InOrder, WaitersInOrder
<1>4. WaitersAsleep'
  <2>1. ASSUME NEW u \in Waiting PROVE error[u] = "EOK"
    BY <1>2, <2>1 DEF Story, WaitersAsleep, Dismissed, Section, Location
  <2>2. ASSUME NEW u \in Waiting' PROVE Asleep(u)' /\ error'[u] = "EOK"
    BY <1>1, <2>1, <2>2, Kinds
       DEF Structure, TypeOK, Story, WaitersAsleep, Asleep, Block, Goto
  <2> QED
    BY <2>2 DEF WaitersAsleep
<1>5. TargetAsleep'
  BY <1>2 DEF TargetAsleep, Section, Location, Inserting, Block, Goto
<1>6. QueuedReady'
  BY <1>1 DEF Story, QueuedReady, Block
<1>7. ArmedWaits'
  BY <1>1, <1>2 DEF Story, ArmedWaits, Section, Location, Block, Goto
<1>8. TimeoutAsserted'
  BY DEF Story, TimeoutAsserted, Block, Goto
<1>9. TokensConserved'
  <2>1. Granted' = Granted
    BY <1>1 DEF Granted, Block, At, Goto, Idle
  <2>2. Giving' = Giving
    BY Kinds DEF Giving, Block, At, Goto, Idle
  <2>3. value' \in Int /\ balance' = balance - value + value'
    BY DEF Structure, TypeOK, Block
  <2> QED
    BY <2>1, <2>2, <2>3, TokensKept DEF Structure, Story
<1> QED
  BY <1>3, <1>4, <1>5, <1>6, <1>7, <1>8, <1>9 DEF Story

(* It gives the lock back.                                                  *)
LEMMA BlockUnlockStory ==
  ASSUME Structure, Story, Undisturbed, NEW t \in Thread, BlockUnlock(t)
  PROVE  Story'
<1>1. Waiting' = Waiting
  BY DEF Waiting, BlockUnlock
<1>0. \A d \in Context : pc[d] \in Section => d = t
  BY OneInside, Kinds DEF BlockUnlock, At, Section, Location
<1>2. WaitersInOrder'
  BY DEF Story, WaitersInOrder, BlockUnlock
<1>3. WaitersAsleep'
  BY <1>0, <1>1
     DEF Structure, TypeOK, Story, WaitersAsleep, Asleep, Dismissed, Section,
         Location, BlockUnlock, At, Goto, threads
<1>4. TargetAsleep'
  BY <1>0, <1>1
     DEF Structure, TypeOK, Story, TargetAsleep, Asleep, Section, Location,
         Inserting, BlockUnlock, At, Goto, threads
<1>5. QueuedReady'
  BY DEF Story, QueuedReady, BlockUnlock, threads
<1>6. ArmedWaits'
  BY <1>1 DEF Story, ArmedWaits, BlockUnlock, Goto, threads
<1>7. TimeoutAsserted'
  BY DEF Story, TimeoutAsserted, BlockUnlock, Goto
<1>8. TokensConserved'
  <2>1. Granted' = Granted
    BY <1>1 DEF Granted, BlockUnlock, At, Goto, threads
  <2>2. Giving' = Giving
    BY Kinds DEF Structure, LockHeld, Giving, BlockUnlock, At
  <2>3. value' \in Int /\ balance' = balance - value + value'
    BY DEF Structure, TypeOK, BlockUnlock
  <2> QED
    BY <2>1, <2>2, <2>3, TokensKept DEF Structure, Story
<1> QED
  BY <1>2, <1>3, <1>4, <1>5, <1>6, <1>7, <1>8 DEF Story

(* Back from rt_schedule it waits no longer.                                *)
LEMMA ReturnStory ==
  ASSUME Structure, Story, Undisturbed, NEW t \in Thread, Return(t)
  PROVE  Story'
<1>1. Waiting' = Waiting
  BY DEF Waiting, Return
<1>2. WaitersInOrder'
  BY DEF Story, WaitersInOrder, Return
<1>3. WaitersAsleep'
  BY <1>1 DEF Story, WaitersAsleep, Asleep, Dismissed, Return, At, Goto, threads
<1>4. TargetAsleep'
  BY <1>1
     DEF Story, TargetAsleep, Asleep, Inserting, Return, At, Goto, threads
<1>5. QueuedReady'
  BY DEF Story, QueuedReady, Return, threads
<1>6. ArmedWaits'
  BY <1>1 DEF Story, ArmedWaits, Return, Goto, threads
<1>7. TimeoutAsserted'
  BY DEF Story, TimeoutAsserted, Return, Goto
<1>8. TokensConserved'
  <2>1. t \notin Waiting
    BY DEF Story, WaitersAsleep, Asleep, Dismissed, Return, At
  <2>2. Granted' = Granted \ {t}
    BY <1>1, Kinds DEF Structure, TypeOK, Granted, Return, Goto, threads
  <2>3. Giving' = Giving
    BY DEF Giving, Return, At, Goto
  <2>4. CASE error[t] = "EOK"
    <3>1. t \in Granted
      BY <2>1, <2>4 DEF Granted, Return, At
    <3>2. Cardinality(Granted') = Cardinality(Granted) - 1
      BY <2>2, <3>1, CountsFinite, FS_RemoveElement DEF Structure
    <3> QED
      BY <2>3, <2>4, <3>2, CountsFinite
         DEF Structure, TypeOK, Story, TokensConserved, Return
  <2>5. CASE error[t] # "EOK"
    <3>1. Granted' = Granted
      BY <2>2, <2>5 DEF Granted
    <3>2. value' \in Int /\ balance' = balance - value + value'
      BY <2>5 DEF Structure, TypeOK, Return
    <3> QED
      BY <2>3, <3>1, <3>2, TokensKept DEF Structure, Story
  <2> QED
    BY <2>4, <2>5
<1> QED
  BY <1>2, <1>3, <1>4, <1>5, <1>6, <1>7, <1>8 DEF Story

(* A reset starts.                                                          *)
LEMMA ResetStory ==
  ASSUME Structure, Story, Undisturbed, NEW t \in Thread, Reset(t)
  PROVE  Story'
<1>1. Waiting' = Waiting
  BY DEF Waiting, Reset
<1>2. WaitersInOrder'
  BY DEF Story, WaitersInOrder, Reset
<1>3. WaitersAsleep'
  BY <1>1, Kinds
     DEF Structure, TypeOK, Story, WaitersAsleep, Asleep, Dismissed, Reset,
         Idle, At, Goto, threads
<1>4. TargetAsleep'
  BY <1>1, Kinds
     DEF Structure, TypeOK, TargetKnown, Resuming, Section, Location, Story,
         TargetAsleep, Asleep, Inserting, Reset, Idle, At, Goto, threads
<1>5. QueuedReady'
  BY DEF Story, QueuedReady, Reset, threads
<1>6. ArmedWaits'
  BY <1>1 DEF Story, ArmedWaits, Reset, Goto, threads
<1>7. TimeoutAsserted'
  BY DEF Story, TimeoutAsserted, Reset, Goto
<1>8. TokensConserved'
  <2>1. Granted' = Granted
    BY <1>1 DEF Granted, Reset, Idle, At, Goto, threads
  <2>2. Giving' = Giving
    BY DEF Structure, LockHeld, Giving, Reset, Idle, At, Goto
  <2>3. value' \in Int /\ balance' = balance - value + value'
    BY DEF Structure, TypeOK, Reset
  <2> QED
    BY <2>1, <2>2, <2>3, TokensKept DEF Structure, Story
<1> QED
  BY <1>2, <1>3, <1>4, <1>5, <1>6, <1>7, <1>8 DEF Story

(* A reset takes up the first waiter, which will have an error.             *)
LEMMA ResetNextStory ==
  ASSUME Structure, Story, Undisturbed, NEW t \in Thread, ResetNext(t)
  PROVE  Story'
<1>1. Waiting' = Waiting
  BY DEF Waiting, ResetNext
<1>2. \A d \in Context : pc[d] \in Section => d = t
  BY OneInside, Kinds DEF ResetNext, At, Section, Location
<1>3. Head(waiters) \in Thread /\ Head(waiters) \in Waiting
  BY WaitersDistinct, TailMembers DEF Structure, Story, Waiting, ResetNext
<1>4. lock # t /\ t \in Context
  BY Kinds DEF Structure, LockHeld, Inserting, ResetNext, At
<1>5. WaitersInOrder'
  BY DEF Story, WaitersInOrder, ResetNext
<1>6. WaitersAsleep'
  <2>1. ASSUME NEW u \in Waiting PROVE Asleep(u)'
    BY <1>2, <2>1, WaitingThreads
       DEF Structure, TypeOK, Story, WaitersAsleep, Asleep, ResetNext, At, Goto
  <2>2. ASSUME NEW u \in Waiting PROVE error'[u] = "EOK" \/ Dismissed(u)'
    <3>1. CASE u = Head(waiters)
      <4>1. target'[t] = u /\ pc'[t] = "first" /\ lock' # t
        BY <1>4, <3>1 DEF Structure, TypeOK, ResetNext, Goto
      <4> QED
        BY <1>4, <4>1 DEF Dismissed
    <3>2. CASE u # Head(waiters)
      <4>1. \A c \in Context : pc[c] \notin {"first", "unlink"}
        BY <1>2 DEF ResetNext, At, Section, Location
      <4> QED
        BY <3>2, <4>1 DEF Structure, TypeOK, Story, WaitersAsleep, Dismissed, ResetNext
    <3> QED
      BY <3>1, <3>2
  <2> QED
    BY <1>1, <2>1, <2>2 DEF WaitersAsleep
<1>7. TargetAsleep'
  BY <1>1, <1>2, <1>3, <1>4
     DEF Structure, TypeOK, TargetAsleep, Section, Location, Inserting,
         ResetNext, Goto
<1>8. QueuedReady'
  BY DEF Story, QueuedReady, ResetNext
<1>9. ArmedWaits'
  BY <1>1, <1>2 DEF Story, ArmedWaits, ResetNext, Section, Location, At, Goto
<1>10. TimeoutAsserted'
  BY DEF Story, TimeoutAsserted, ResetNext, Goto
<1>11. TokensConserved'
  <2>1. Granted' = Granted
    BY <1>1, <1>3 DEF Granted, ResetNext, At, Goto
  <2>2. Giving' = Giving
    BY <1>4 DEF Giving, ResetNext, At, Goto
  <2>3. value' \in Int /\ balance' = balance - value + value'
    BY DEF Structure, TypeOK, ResetNext
  <2> QED
    BY <2>1, <2>2, <2>3, TokensKept DEF Structure, Story
<1> QED
  BY <1>5, <1>6, <1>7, <1>8, <1>9, <1>10, <1>11 DEF Story

(* It finds the list empty.                                                 *)
LEMMA ResetEmptyStory ==
  ASSUME Structure, Story, Undisturbed, NEW t \in Thread, ResetEmpty(t)
  PROVE  Story'
<1>1. Waiting' = Waiting
  BY DEF Waiting, ResetEmpty
<1>2. WaitersInOrder'
  BY DEF Story, WaitersInOrder, ResetEmpty
<1>3. WaitersAsleep'
  BY <1>1, Kinds
     DEF Structure, TypeOK, Story, WaitersAsleep, Asleep, Dismissed, ResetEmpty,
         Idle, At, Goto, threads
<1>4. TargetAsleep'
  BY <1>1, Kinds
     DEF Structure, TypeOK, TargetKnown, Resuming, Section, Location, Story,
         TargetAsleep, Asleep, Inserting, ResetEmpty, Idle, At, Goto, threads
<1>5. QueuedReady'
  BY DEF Story, QueuedReady, ResetEmpty, threads
<1>6. ArmedWaits'
  BY <1>1 DEF Story, ArmedWaits, ResetEmpty, Goto, threads
<1>7. TimeoutAsserted'
  BY DEF Story, TimeoutAsserted, ResetEmpty, Goto
<1>8. TokensConserved'
  <2>1. Granted' = Granted
    BY <1>1 DEF Granted, ResetEmpty, Idle, At, Goto, threads
  <2>2. Giving' = Giving
    BY DEF Structure, LockHeld, Giving, ResetEmpty, Idle, At, Goto
  <2>3. value' \in Int /\ balance' = balance - value + value'
    BY DEF Structure, TypeOK, ResetEmpty
  <2> QED
    BY <2>1, <2>2, <2>3, TokensKept DEF Structure, Story
<1> QED
  BY <1>2, <1>3, <1>4, <1>5, <1>6, <1>7, <1>8 DEF Story

(* It sets the value.                                                       *)
LEMMA ResetValueStory ==
  ASSUME Structure, Story, Undisturbed, NEW t \in Thread,
         NEW v \in 0 .. MaxValue, ResetValue(t, v)
  PROVE  Story'
<1>1. Waiting' = Waiting
  BY DEF Waiting, ResetValue
<1>2. WaitersInOrder'
  BY DEF Story, WaitersInOrder, ResetValue
<1>3. WaitersAsleep'
  BY <1>1, Kinds
     DEF Structure, TypeOK, Story, WaitersAsleep, Asleep, Dismissed, ResetValue,
         Idle, At, Goto, threads
<1>4. TargetAsleep'
  BY <1>1, Kinds
     DEF Structure, TypeOK, TargetKnown, Resuming, Section, Location, Story,
         TargetAsleep, Asleep, Inserting, ResetValue, Idle, At, Goto, threads
<1>5. QueuedReady'
  BY DEF Story, QueuedReady, ResetValue, threads
<1>6. ArmedWaits'
  BY <1>1 DEF Story, ArmedWaits, ResetValue, Goto, threads
<1>7. TimeoutAsserted'
  BY DEF Story, TimeoutAsserted, ResetValue, Goto
<1>8. TokensConserved'
  <2>1. Granted' = Granted
    BY <1>1 DEF Granted, ResetValue, Idle, At, Goto, threads
  <2>2. Giving' = Giving
    BY DEF Structure, LockHeld, Giving, ResetValue, Idle, At, Goto
  <2>3. value' \in Int /\ balance' = balance - value + value'
    BY DEF Structure, TypeOK, ResetValue
  <2> QED
    BY <2>1, <2>2, <2>3, TokensKept DEF Structure, Story
<1> QED
  BY <1>2, <1>3, <1>4, <1>5, <1>6, <1>7, <1>8 DEF Story

(* A timer that expires has a thread that waits.                            *)
LEMMA ExpireStory ==
  ASSUME Structure, Story, Undisturbed, NEW t \in Thread, Expire(t)
  PROVE  Story'
<1>1. Waiting' = Waiting
  BY DEF Waiting, Expire, Goto
<1>2. \A d \in Context : pc[d] \notin Section
  <2>1. ~(TRUE \notin Timeouts /\ Resetter = {})
    BY DEF Structure, PlainHasLock, Expire
  <2>2. Hart = {TimerHart} /\ Idle(TimerHart)
    BY <2>1, Kinds DEF Undisturbed, Expire, Idle
  <2> QED
    BY <2>2, NoneInside, Kinds
<1>3. t \in Waiting
  BY DEF Story, ArmedWaits, Expire
<1>4. WaitersInOrder'
  BY DEF Story, WaitersInOrder, Expire
<1>5. WaitersAsleep'
  <2>1. ASSUME NEW u \in Waiting PROVE error[u] = "EOK"
    BY <1>2, <2>1 DEF Story, WaitersAsleep, Dismissed, Section, Location
  <2>2. ASSUME NEW u \in Waiting PROVE Asleep(u)'
    BY <2>2, Kinds, WaitingThreads
       DEF Structure, Story, WaitersAsleep, Asleep, Expire, Goto
  <2> QED
    BY <1>1, <2>1, <2>2 DEF WaitersAsleep, Expire
<1>6. TargetAsleep'
  BY <1>1, <1>2, <1>3
     DEF Structure, TypeOK, TargetAsleep, Section, Location, Inserting,
         Expire, Goto
<1>7. QueuedReady'
  BY DEF Story, QueuedReady, Expire
<1>8. ArmedWaits'
  BY <1>1 DEF Structure, TypeOK, Story, ArmedWaits, Expire, Goto
<1>9. TimeoutAsserted'
  BY DEF Story, TimeoutAsserted, Expire, Goto
<1>10. TokensConserved'
  <2>1. Granted' = Granted
    BY <1>1, Kinds DEF Granted, Expire, Goto
  <2>2. Giving' = Giving
    BY <1>2 DEF Giving, Section, Location, Expire, Goto
  <2>3. value' \in Int /\ balance' = balance - value + value'
    BY DEF Structure, TypeOK, Expire
  <2> QED
    BY <2>1, <2>2, <2>3, TokensKept DEF Structure, Story
<1> QED
  BY <1>4, <1>5, <1>6, <1>7, <1>8, <1>9, <1>10 DEF Story

(* A release that nobody waits for.                                         *)
LEMMA GiveValueStory ==
  ASSUME Structure, Story, Undisturbed, NEW c \in Context, GiveValue(c)
  PROVE  Story'
<1>1. Waiting' = Waiting
  BY DEF Waiting, GiveValue, threads
<1>2. WaitersInOrder'
  BY DEF WaitersInOrder, GiveValue
<1>3. WaitersAsleep'
  BY <1>1 DEF Story, WaitersAsleep, Asleep, Dismissed, GiveValue, threads
<1>4. TargetAsleep'
  BY <1>1 DEF Story, TargetAsleep, Asleep, GiveValue, threads
<1>5. QueuedReady'
  BY DEF Story, QueuedReady, GiveValue, threads
<1>6. ArmedWaits'
  BY <1>1 DEF Story, ArmedWaits, GiveValue, threads
<1>7. TimeoutAsserted'
  BY DEF Story, TimeoutAsserted, GiveValue
<1>8. TokensConserved'
  <2>1. Granted' = Granted
    BY <1>1 DEF Granted, GiveValue, threads
  <2>2. Giving' = Giving
    BY DEF Giving, GiveValue
  <2>3. value' \in Int /\ balance' = balance - value + value'
    BY DEF Structure, TypeOK, GiveValue
  <2> QED
    BY <2>1, <2>2, <2>3, TokensKept DEF Structure, Story
<1> QED
  BY <1>2, <1>3, <1>4, <1>5, <1>6, <1>7, <1>8 DEF Story

(* A release to the first waiter.                                           *)
LEMMA GiveWaiterStory ==
  ASSUME Structure, Story, Undisturbed, NEW c \in Context, GiveWaiter(c)
  PROVE  Story'
<1>1. Waiting' = Waiting
  BY DEF Waiting, GiveWaiter
<1>2. \A d \in Context : pc[d] \notin Section
  BY NoneInside DEF GiveWaiter
<1>3. Head(waiters) \in Thread /\ Head(waiters) \in Waiting
  BY WaitersDistinct, TailMembers DEF Structure, Story, Waiting, GiveWaiter
<1>4. WaitersInOrder'
  BY DEF Story, WaitersInOrder, GiveWaiter
<1>5. WaitersAsleep'
  BY <1>1, <1>2
     DEF Story, WaitersAsleep, Asleep, Dismissed, Section, Location, GiveWaiter,
         Idle, At, Open, Goto, threads
<1>6. TargetAsleep'
  BY <1>1, <1>2, <1>3, Kinds
     DEF Structure, TypeOK, TargetAsleep, Section, Location, Inserting,
         GiveWaiter, Idle, Goto
<1>7. QueuedReady'
  BY DEF Story, QueuedReady, GiveWaiter, threads
<1>8. ArmedWaits'
  BY <1>1 DEF Story, ArmedWaits, GiveWaiter, Idle, At, Open, Goto, threads
<1>9. TimeoutAsserted'
  BY DEF Story, TimeoutAsserted, GiveWaiter, Goto
<1>10. TokensConserved'
  <2>1. Granted' = Granted
    BY <1>1 DEF Granted, GiveWaiter, Idle, At, Goto, threads
  <2>2. Giving = {} /\ Giving' = {c}
    BY Kinds DEF Structure, TypeOK, Giving, GiveWaiter, Goto
  <2>3. Cardinality(Giving) = 0 /\ Cardinality(Giving') = 1
    BY <2>2, FS_EmptySet, FS_Singleton
  <2> QED
    BY <2>1, <2>3, CountsFinite
       DEF Structure, TypeOK, Story, TokensConserved, GiveWaiter
<1> QED
  BY <1>4, <1>5, <1>6, <1>7, <1>8, <1>9, <1>10 DEF Story

(* That thread waits indeed.                                                *)
LEMMA ResumeTestStory ==
  ASSUME Structure, Story, Undisturbed, NEW c \in Context, ResumeTest(c)
  PROVE  Story'
<1>1. Waiting' = Waiting
  BY DEF Waiting, ResumeTest
<1>2. \A d \in Context : pc[d] \in Section => d = c
  BY OneInside DEF ResumeTest, At, Section, Location
<1>3. pc' = [pc EXCEPT ![c] = "unlink"]
  BY DEF Story, TargetAsleep, WaitersAsleep, Asleep, Dismissed, ResumeTest, At, Goto
<1>4. WaitersInOrder'
  BY DEF Story, WaitersInOrder, ResumeTest
<1>5. WaitersAsleep'
  BY <1>1, <1>3 DEF Story, WaitersAsleep, Asleep, Dismissed, ResumeTest, At, threads
<1>6. TargetAsleep'
  BY <1>1, <1>2, <1>3
     DEF Story, TargetAsleep, Asleep, Section, Location, Inserting, ResumeTest, At,
         threads
<1>7. QueuedReady'
  BY DEF Story, QueuedReady, ResumeTest, threads
<1>8. ArmedWaits'
  BY <1>1, <1>3 DEF Story, ArmedWaits, ResumeTest, threads
<1>9. TimeoutAsserted'
  BY <1>3 DEF Story, TimeoutAsserted
<1>10. TokensConserved'
  <2>1. Granted' = Granted
    BY <1>1, <1>3 DEF Granted, ResumeTest, At, threads
  <2>2. Giving' = Giving
    BY <1>3 DEF Giving, ResumeTest, At
  <2>3. value' \in Int /\ balance' = balance - value + value'
    BY DEF Structure, TypeOK, ResumeTest
  <2> QED
    BY <2>1, <2>2, <2>3, TokensKept DEF Structure, Story
<1> QED
  BY <1>4, <1>5, <1>6, <1>7, <1>8, <1>9, <1>10 DEF Story

(* It is given the semaphore when it is unlinked.                           *)
LEMMA ResumeUnlinkStory ==
  ASSUME Structure, Story, Undisturbed, NEW c \in Context, ResumeUnlink(c)
  PROVE  Story'
<1>1. Waiting' = Waiting \ {target[c]} /\ WaitersInOrder'
  BY UnlinkWaiter DEF Structure, Story, ResumeUnlink
<1>2. \A d \in Context : pc[d] \in Section => d = c
  BY OneInside DEF ResumeUnlink, At, Section, Location
<1>3. WaitersInOrder'
  BY <1>1
<1>4. WaitersAsleep'
  BY <1>1 DEF Story, WaitersAsleep, Asleep, Dismissed, ResumeUnlink, At, Goto
<1>5. TargetAsleep'
  BY <1>1, <1>2
     DEF Structure, TypeOK, Story, TargetAsleep, WaitersAsleep, Asleep, Dismissed,
         Section, ResumeUnlink, At, Goto
<1>6. QueuedReady'
  BY DEF Story, QueuedReady, ResumeUnlink
<1>7. ArmedWaits'
  BY <1>1 DEF Structure, TypeOK, Story, ArmedWaits, ResumeUnlink, Goto
<1>8. TimeoutAsserted'
  BY DEF Story, TimeoutAsserted, ResumeUnlink, Goto
<1>9. TokensConserved'
  <2>1. target[c] \in Waiting /\ target[c] \in Thread
    BY WaitingThreads DEF Structure, Story, TargetAsleep, ResumeUnlink, At
  <2>2. CASE lock = c
    <3>1. error[target[c]] = "EOK"
      BY <1>2, <2>1, <2>2
         DEF Story, WaitersAsleep, Dismissed, Section, Location
    <3>2. Granted' = Granted \union {target[c]} /\ target[c] \notin Granted
      BY <1>1, <2>1, <3>1
         DEF Story, WaitersAsleep, Asleep, Granted, ResumeUnlink, At, Goto
    <3>3. Cardinality(Granted') = Cardinality(Granted) + 1
      BY <3>2, CountsFinite, FS_AddElement DEF Structure
    <3>4. Giving' = {} /\ Giving = {c}
      BY <2>2 DEF Structure, TypeOK, Giving, ResumeUnlink, At, Goto
    <3>5. Cardinality(Giving) = 1 /\ Cardinality(Giving') = 0
      BY <3>4, FS_EmptySet, FS_Singleton
    <3> QED
      BY <3>3, <3>5, CountsFinite
         DEF Structure, TypeOK, Story, TokensConserved, ResumeUnlink
  <2>3. CASE lock # c
    <3>1. error[target[c]] = "ERROR"
      BY <2>3 DEF Story, TargetAsleep, ResumeUnlink, At
    <3>2. Granted' = Granted
      BY <1>1, <2>1, <3>1 DEF Granted, ResumeUnlink, At, Goto
    <3>3. Giving' = Giving
      BY <2>3 DEF Giving, ResumeUnlink, Goto
    <3>4. value' \in Int /\ balance' = balance - value + value'
      BY DEF Structure, TypeOK, ResumeUnlink
    <3> QED
      BY <3>2, <3>3, <3>4, TokensKept DEF Structure, Story
  <2> QED
    BY <2>2, <2>3
<1> QED
  BY <1>3, <1>4, <1>5, <1>6, <1>7, <1>8, <1>9 DEF Story

(* rt_schedule_insert_thread looks where the thread is.                     *)
LEMMA InsertTestStory ==
  ASSUME Structure, Story, Undisturbed, NEW c \in Context, InsertTest(c)
  PROVE  Story'
<1>1. Waiting' = Waiting
  BY DEF Waiting, InsertTest
<1>2. \A d \in Context : pc[d] \in Section => d = c
  BY OneInside DEF InsertTest, At, Section, Location, Inserting
<1>3. WaitersInOrder'
  BY DEF Story, WaitersInOrder, InsertTest
<1>4. WaitersAsleep'
  BY <1>1 DEF Story, WaitersAsleep, Asleep, Dismissed, InsertTest, At, Goto, threads
<1>5. TargetAsleep'
  BY <1>1
     DEF Story, TargetAsleep, Asleep, Inserting, InsertTest, At, Goto, threads
<1>6. QueuedReady'
  BY DEF Story, QueuedReady, InsertTest, threads
<1>7. ArmedWaits'
  BY <1>1 DEF Story, ArmedWaits, InsertTest, Goto, threads
<1>8. TimeoutAsserted'
  BY DEF Story, TimeoutAsserted, InsertTest, Goto
<1>9. TokensConserved'
  <2>1. Granted' = Granted
    BY <1>1 DEF Granted, InsertTest, At, Goto, threads
  <2>2. Giving' = Giving
    BY DEF Giving, InsertTest, At, Goto
  <2>3. value' \in Int /\ balance' = balance - value + value'
    BY DEF Structure, TypeOK, InsertTest
  <2> QED
    BY <2>1, <2>2, <2>3, TokensKept DEF Structure, Story
<1> QED
  BY <1>3, <1>4, <1>5, <1>6, <1>7, <1>8, <1>9 DEF Story

(* The thread is awake.                                                     *)
LEMMA InsertRunningStory ==
  ASSUME Structure, Story, Undisturbed, NEW c \in Context, InsertRunning(c)
  PROVE  Story'
<1>1. Waiting' = Waiting
  BY DEF Waiting, InsertRunning, At
<1>2. \A d \in Context : pc[d] \in Section => d = c
  BY OneInside DEF InsertRunning, At, Section, Location, Inserting
<1>3. /\ pc' = [pc EXCEPT ![c] = Behind(c)]
      /\ target' = [target EXCEPT ![c] = IF lock = c THEN target[c] ELSE None]
  BY InsertedPlaces DEF Structure, InsertRunning
<1>b. Behind(c) \in {"done", "sweep", "off"}
  BY DEF Behind
<1>4. /\ target[c] \in Thread /\ target[c] \notin Waiting /\ target[c] \notin queued
      /\ stat[target[c]] = "SUSPEND"
  BY DEF Structure, TargetKnown, Resuming, Story, TargetAsleep, Asleep,
         InsertRunning, At, Section, Location, Inserting
<1>5. WaitersInOrder'
  BY DEF Story, WaitersInOrder, InsertRunning
<1>6. WaitersAsleep'
  BY <1>b, <1>1, <1>3, <1>4 DEF Story, WaitersAsleep, Asleep, Dismissed, InsertRunning, At
<1>7. TargetAsleep'
  BY <1>b, <1>2, <1>3
     DEF Structure, TypeOK, Story, TargetAsleep, WaitersAsleep, Asleep, Dismissed,
         Section, Location, Inserting, InsertRunning, At
<1>8. QueuedReady'
  BY <1>4 DEF Story, QueuedReady, InsertRunning
<1>9. ArmedWaits'
  BY <1>b, <1>1, <1>3, Kinds DEF Story, ArmedWaits, InsertRunning
<1>10. TimeoutAsserted'
  BY <1>b, <1>3 DEF Story, TimeoutAsserted
<1>11. TokensConserved'
  <2>1. Granted' = Granted
    BY <1>b, <1>1, <1>3 DEF Granted, InsertRunning, At
  <2>2. Giving' = Giving
    BY <1>b, <1>3 DEF Giving, InsertRunning, At
  <2>3. value' \in Int /\ balance' = balance - value + value'
    BY DEF Structure, TypeOK, InsertRunning
  <2> QED
    BY <2>1, <2>2, <2>3, TokensKept DEF Structure, Story
<1> QED
  BY <1>5, <1>6, <1>7, <1>8, <1>9, <1>10, <1>11 DEF Story

(* The thread is in the ready table.                                        *)
LEMMA InsertReadyStory ==
  ASSUME Structure, Story, Undisturbed, NEW c \in Context, InsertReady(c)
  PROVE  Story'
<1>1. Waiting' = Waiting
  BY DEF Waiting, InsertReady, At
<1>2. \A d \in Context : pc[d] \in Section => d = c
  BY OneInside DEF InsertReady, At, Section, Location, Inserting
<1>3. /\ pc' = [pc EXCEPT ![c] = Behind(c)]
      /\ target' = [target EXCEPT ![c] = IF lock = c THEN target[c] ELSE None]
  BY InsertedPlaces DEF Structure, InsertReady
<1>b. Behind(c) \in {"done", "sweep", "off"}
  BY DEF Behind
<1>4. /\ target[c] \in Thread /\ target[c] \notin Waiting /\ target[c] \notin queued
      /\ stat[target[c]] = "SUSPEND"
  BY DEF Structure, TargetKnown, Resuming, Story, TargetAsleep, Asleep,
         InsertReady, At, Section, Location, Inserting
<1>5. ~oncpu[target[c]]
  BY DEF Story, TargetAsleep, InsertReady, At
<1>6. WaitersInOrder'
  BY DEF Story, WaitersInOrder, InsertReady
<1>7. WaitersAsleep'
  BY <1>b, <1>1, <1>3, <1>4 DEF Story, WaitersAsleep, Asleep, Dismissed, InsertReady, At
<1>8. TargetAsleep'
  BY <1>b, <1>2, <1>3
     DEF Structure, TypeOK, TargetKnown, Resuming, Story, TargetAsleep,
         Section, Location, Inserting
<1>9. QueuedReady'
  BY <1>4, <1>5
     DEF Structure, TypeOK, OnCpuExact, Story, QueuedReady, InsertReady
<1>10. ArmedWaits'
  BY <1>b, <1>1, <1>3, Kinds DEF Story, ArmedWaits, InsertReady
<1>11. TimeoutAsserted'
  BY <1>b, <1>3 DEF Story, TimeoutAsserted
<1>12. TokensConserved'
  <2>1. Granted' = Granted
    BY <1>b, <1>1, <1>3 DEF Granted, InsertReady, At
  <2>2. Giving' = Giving
    BY <1>b, <1>3 DEF Giving, InsertReady, At
  <2>3. value' \in Int /\ balance' = balance - value + value'
    BY DEF Structure, TypeOK, InsertReady
  <2> QED
    BY <2>1, <2>2, <2>3, TokensKept DEF Structure, Story
<1> QED
  BY <1>6, <1>7, <1>8, <1>9, <1>10, <1>11, <1>12 DEF Story

(* The end of a release.                                                    *)
LEMMA GiveUnlockStory ==
  ASSUME Structure, Story, Undisturbed, NEW c \in Context, GiveUnlock(c)
  PROVE  Story'
<1>1. Waiting' = Waiting
  BY DEF Waiting, GiveUnlock
<1>0. \A d \in Context : pc[d] \in Section => d = c
  BY OneInside, Kinds DEF GiveUnlock, At, Section, Location
<1>2. WaitersInOrder'
  BY DEF Story, WaitersInOrder, GiveUnlock
<1>3. WaitersAsleep'
  BY <1>0, <1>1
     DEF Structure, TypeOK, Story, WaitersAsleep, Asleep, Dismissed, Section,
         Location, GiveUnlock, At, Goto, threads
<1>4. TargetAsleep'
  BY <1>0, <1>1
     DEF Structure, TypeOK, Story, TargetAsleep, Asleep, Section, Location,
         Inserting, GiveUnlock, After, At, Goto, threads
<1>5. QueuedReady'
  BY DEF Story, QueuedReady, GiveUnlock, threads
<1>6. ArmedWaits'
  BY <1>1, Kinds DEF Story, ArmedWaits, GiveUnlock, After, Goto, threads
<1>7. TimeoutAsserted'
  BY DEF Story, TimeoutAsserted, GiveUnlock, After, Goto
<1>8. TokensConserved'
  <2>1. Granted' = Granted
    BY <1>1 DEF Granted, GiveUnlock, After, At, Goto, threads
  <2>2. Giving' = Giving
    BY Kinds DEF Structure, LockHeld, Giving, GiveUnlock, At
  <2>3. value' \in Int /\ balance' = balance - value + value'
    BY DEF Structure, TypeOK, GiveUnlock
  <2> QED
    BY <2>1, <2>2, <2>3, TokensKept DEF Structure, Story
<1> QED
  BY <1>2, <1>3, <1>4, <1>5, <1>6, <1>7, <1>8 DEF Story

(* The assertion of rt_thread_timeout.                                      *)
LEMMA ExpireTestStory ==
  ASSUME Structure, Story, Undisturbed, NEW h \in Hart, ExpireTest(h)
  PROVE  Story'
<1>1. Waiting' = Waiting
  BY DEF Waiting, ExpireTest
<1>2. \A d \in Context : pc[d] \in Section => d = h
  BY OneInside, Kinds DEF ExpireTest, At, Section, Location
<1>3. pc' = [pc EXCEPT ![h] = "unwait"]
  BY Kinds
     DEF Story, TargetAsleep, WaitersAsleep, Asleep, Dismissed, ExpireTest, At, Goto
<1>4. WaitersInOrder'
  BY DEF Story, WaitersInOrder, ExpireTest
<1>5. WaitersAsleep'
  BY <1>1, <1>3 DEF Story, WaitersAsleep, Asleep, Dismissed, ExpireTest, At, threads
<1>6. TargetAsleep'
  BY <1>1, <1>2, <1>3
     DEF Story, TargetAsleep, Section, Location, Inserting, ExpireTest, At
<1>7. QueuedReady'
  BY DEF Story, QueuedReady, ExpireTest, threads
<1>8. ArmedWaits'
  BY <1>1, <1>3 DEF Story, ArmedWaits, ExpireTest, At, threads
<1>9. TimeoutAsserted'
  BY <1>3 DEF Story, TimeoutAsserted
<1>10. TokensConserved'
  <2>1. Granted' = Granted
    BY <1>1, <1>3, Kinds DEF Granted, ExpireTest, threads
  <2>2. Giving' = Giving
    BY <1>3 DEF Giving, ExpireTest, At
  <2>3. value' \in Int /\ balance' = balance - value + value'
    BY DEF Structure, TypeOK, ExpireTest
  <2> QED
    BY <2>1, <2>2, <2>3, TokensKept DEF Structure, Story
<1> QED
  BY <1>4, <1>5, <1>6, <1>7, <1>8, <1>9, <1>10 DEF Story

(* A thread whose time is over is given nothing.                            *)
LEMMA ExpireUnlinkStory ==
  ASSUME Structure, Story, Undisturbed, NEW h \in Hart, ExpireUnlink(h)
  PROVE  Story'
<1>1. Waiting' = Waiting \ {target[h]} /\ WaitersInOrder'
  BY UnlinkWaiter DEF Structure, Story, ExpireUnlink
<1>2. \A d \in Context : pc[d] \in Section => d = h
  BY OneInside, Kinds DEF ExpireUnlink, At, Section, Location
<1>3. target[h] \in Thread /\ target[h] \in Waiting
  BY Kinds, WaitingThreads
     DEF Structure, Story, TargetAsleep, ExpireUnlink, At
<1>4. WaitersInOrder'
  BY <1>1
<1>5. WaitersAsleep'
  BY <1>1 DEF Story, WaitersAsleep, Asleep, Dismissed, ExpireUnlink, At, Goto
<1>6. TargetAsleep'
  BY <1>1, <1>2, <1>3, Kinds
     DEF Structure, TypeOK, Story, TargetAsleep, WaitersAsleep, Asleep, Dismissed,
         Section, Location, Inserting, ExpireUnlink, Goto
<1>7. QueuedReady'
  BY DEF Story, QueuedReady, ExpireUnlink
<1>8. ArmedWaits'
  BY <1>1, Kinds DEF Story, ArmedWaits, ExpireUnlink, At, Goto
<1>9. TimeoutAsserted'
  BY DEF Story, TimeoutAsserted, ExpireUnlink, Goto
<1>10. TokensConserved'
  <2>1. Granted' = Granted
    BY <1>1, <1>3, Kinds DEF Structure, TypeOK, Granted, ExpireUnlink, Goto
  <2>2. Giving' = Giving
    BY DEF Giving, ExpireUnlink, At, Goto
  <2>3. value' \in Int /\ balance' = balance - value + value'
    BY DEF Structure, TypeOK, ExpireUnlink
  <2> QED
    BY <2>1, <2>2, <2>3, TokensKept DEF Structure, Story
<1> QED
  BY <1>4, <1>5, <1>6, <1>7, <1>8, <1>9, <1>10 DEF Story

(* A hart starts to switch.                                                 *)
LEMMA LeaveStory ==
  ASSUME Structure, Story, Undisturbed, NEW h \in Hart, Leave(h)
  PROVE  Story'
<1>1. Waiting' = Waiting
  BY DEF Waiting, Leave
<1>2. WaitersInOrder'
  BY DEF Story, WaitersInOrder, Leave
<1>3. WaitersAsleep'
  BY <1>1 DEF Story, WaitersAsleep, Asleep, Dismissed, Leave
<1>4. TargetAsleep'
  BY <1>1
     DEF Structure, TargetKnown, Resuming, Story, TargetAsleep, Asleep,
         Section, Location, Inserting, Leave
<1>5. QueuedReady'
  BY DEF Story, QueuedReady, Leave, Open, MostUrgent
<1>6. ArmedWaits'
  BY <1>1 DEF Story, ArmedWaits, Leave
<1>7. TimeoutAsserted'
  BY DEF Story, TimeoutAsserted, Leave
<1>8. TokensConserved'
  <2>1. Granted' = Granted
    BY <1>1 DEF Granted, Leave
  <2>2. Giving' = Giving
    BY DEF Giving, Leave
  <2>3. value' \in Int /\ balance' = balance - value + value'
    BY DEF Structure, TypeOK, Leave
  <2> QED
    BY <2>1, <2>2, <2>3, TokensKept DEF Structure, Story
<1> QED
  BY <1>2, <1>3, <1>4, <1>5, <1>6, <1>7, <1>8 DEF Story

(* A thread that was woken meanwhile keeps its hart.                        *)
LEMMA StayStory ==
  ASSUME Structure, Story, Undisturbed, NEW h \in Hart, Stay(h)
  PROVE  Story'
<1>1. Waiting' = Waiting
  BY DEF Waiting, Stay
<1>2. /\ pc' \in [Context -> Location]
      /\ \A c \in Context :
           \/ pc'[c] = pc[c]
           \/ c = current[h] /\ c \in Thread /\ pc[c] = "schedule" /\ pc'[c] = "return"
  BY ScheduledPlaces DEF Structure, Stay
<1>3. WaitersInOrder'
  BY DEF Story, WaitersInOrder, Stay
<1>4. WaitersAsleep'
  BY <1>1, <1>2, Kinds, WaitingThreads
     DEF Structure, Story, WaitersAsleep, Asleep, Dismissed, Stay, Keeps
<1>5. TargetAsleep'
  BY <1>1, <1>2, Kinds
     DEF Structure, TargetKnown, Resuming, Story, TargetAsleep, Asleep,
         Section, Inserting, Stay, Keeps
<1>6. QueuedReady'
  BY DEF Story, QueuedReady, Stay, Keeps, NotSwitching
<1>7. ArmedWaits'
  BY <1>1, <1>2 DEF Story, ArmedWaits, Stay
<1>8. TimeoutAsserted'
  BY <1>2, Kinds DEF Story, TimeoutAsserted
<1>9. TokensConserved'
  <2>1. Granted' = Granted
    BY <1>1, <1>2, Kinds DEF Granted, Stay
  <2>2. Giving' = Giving
    BY <1>2 DEF Giving, Stay
  <2>3. value' \in Int /\ balance' = balance - value + value'
    BY DEF Structure, TypeOK, Stay
  <2> QED
    BY <2>1, <2>2, <2>3, TokensKept DEF Structure, Story
<1> QED
  BY <1>3, <1>4, <1>5, <1>6, <1>7, <1>8, <1>9 DEF Story

(* A switch is over.                                                        *)
LEMMA ArriveStory ==
  ASSUME Structure, Story, Undisturbed, NEW h \in Hart, Arrive(h)
  PROVE  Story'
<1>1. Waiting' = Waiting
  BY DEF Waiting, Arrive
<1>2. /\ pc' \in [Context -> Location]
      /\ \A c \in Context :
           \/ pc'[c] = pc[c]
           \/ c = current[h] /\ c \in Thread /\ pc[c] = "schedule" /\ pc'[c] = "return"
  BY ScheduledPlaces DEF Structure, Arrive
<1>3. next[h].to # None =>
        /\ next[h].to \in Thread /\ next[h].to \in queued
        /\ HartOf[next[h].to] = h /\ stat[next[h].to] = "READY"
  BY DEF Structure, TypeOK, SwitchFits, Story, QueuedReady, Arrive
<1>4. current[h] # None => current[h] \in Thread /\ HartOf[current[h]] = h
  BY DEF Structure, TypeOK, SwitchFits
<1>5. WaitersInOrder'
  BY DEF Story, WaitersInOrder, Arrive
<1>6. WaitersAsleep'
  BY <1>1, <1>2, <1>3, <1>4, Kinds, WaitingThreads
     DEF Structure, TypeOK, Story, WaitersAsleep, Asleep, Dismissed, Arrive
<1>7. TargetAsleep'
  <2> SUFFICES ASSUME NEW c \in Context
               PROVE  /\ pc'[c] \in {"first", "unlink", "expired", "unwait"} =>
                           target'[c] \in Waiting'
                      /\ pc'[c] \in Inserting =>
                           target'[c] \notin Waiting' /\ Asleep(target[c])'
                      /\ pc'[c] = "ready" => ~oncpu'[target'[c]]
                      /\ pc'[c] \in {"first", "unlink"} /\ lock' # c =>
                           error'[target'[c]] = "ERROR"
    BY DEF TargetAsleep
  <2>1. target' = target /\ lock' = lock /\ error' = error
    BY DEF Arrive
  <2>2. pc'[c] # "return" => pc'[c] = pc[c]
    BY <1>2
  <2>3. /\ pc[c] \in {"first", "unlink", "expired", "unwait"} => target[c] \in Waiting
        /\ pc[c] \in Inserting => target[c] \notin Waiting /\ Asleep(target[c])
        /\ pc[c] = "ready" => ~oncpu[target[c]]
        /\ pc[c] \in {"first", "unlink"} /\ lock # c => error[target[c]] = "ERROR"
    BY DEF Story, TargetAsleep
  <2>4. pc[c] \in Inserting => target[c] \in Thread
    BY DEF Structure, TargetKnown, Resuming, Section, Location, Inserting
  <2>5. ASSUME NEW u \in Thread, Asleep(u)
        PROVE  Asleep(u)' /\ oncpu'[u] = oncpu[u]
    <3>1. stat[u] = "SUSPEND" /\ u \notin queued
      BY <2>5 DEF Asleep
    <3>2. u # next[h].to
      BY <1>3, <3>1, Kinds
    <3>3. stat'[u] = "SUSPEND"
      BY <3>1, <3>2 DEF Arrive
    <3>4. u \notin queued'
      BY <3>1 DEF Arrive
    <3>5. u \in Context
      BY Kinds
    <3>6. pc'[u] \in {"blocked", "schedule", "return"}
      BY <1>2, <2>5, <3>5 DEF Asleep
    <3>7. current'[h] # u
      BY <3>2 DEF Structure, TypeOK, Arrive
    <3>8. ASSUME pc'[u] = "return" PROVE current'[HartOf[u]] # u
      <4>1. CASE HartOf[u] = h
        BY <3>7, <4>1
      <4>2. CASE HartOf[u] # h
        <5>1. u # current[h]
          BY <1>4, <4>2, Kinds
        <5>2. pc[u] = "return"
          BY <1>2, <3>5, <3>8, <5>1
        <5>3. current'[HartOf[u]] = current[HartOf[u]]
          BY <4>2, Kinds DEF Structure, TypeOK, Arrive
        <5> QED
          BY <2>5, <5>2, <5>3 DEF Asleep
      <4> QED
        BY <4>1, <4>2
    <3>9. oncpu'[u] = oncpu[u]
      BY <3>2 DEF Structure, TypeOK, Arrive
    <3> QED
      BY <3>3, <3>4, <3>6, <3>8, <3>9 DEF Asleep
  <2>6. pc'[c] \in {"first", "unlink", "expired", "unwait"} =>
          target'[c] \in Waiting'
    BY <1>1, <2>1, <2>2, <2>3
  <2>7. pc'[c] \in Inserting =>
          target'[c] \notin Waiting' /\ Asleep(target[c])'
    <3> SUFFICES ASSUME pc'[c] \in Inserting
                 PROVE  target'[c] \notin Waiting' /\ Asleep(target[c])'
      OBVIOUS
    <3>1. pc[c] \in Inserting
      BY <2>2 DEF Inserting
    <3> QED
      BY <1>1, <2>1, <2>3, <2>4, <2>5, <3>1 DEF Asleep
  <2>8. pc'[c] = "ready" => ~oncpu'[target'[c]]
    BY <2>1, <2>2, <2>3, <2>4, <2>5 DEF Inserting
  <2>9. pc'[c] \in {"first", "unlink"} /\ lock' # c =>
          error'[target'[c]] = "ERROR"
    BY <2>1, <2>2, <2>3
  <2> QED
    BY <2>6, <2>7, <2>8, <2>9
<1>8. QueuedReady'
  BY <1>4 DEF Structure, TypeOK, Story, QueuedReady, Arrive, NotSwitching
<1>9. ArmedWaits'
  BY <1>1, <1>2 DEF Story, ArmedWaits, Arrive
<1>10. TimeoutAsserted'
  BY <1>2, Kinds DEF Story, TimeoutAsserted
<1>11. TokensConserved'
  <2>1. Granted' = Granted
    BY <1>1, <1>2, Kinds DEF Granted, Arrive
  <2>2. Giving' = Giving
    BY <1>2 DEF Giving, Arrive
  <2>3. value' \in Int /\ balance' = balance - value + value'
    BY DEF Structure, TypeOK, Arrive
  <2> QED
    BY <2>1, <2>2, <2>3, TokensKept DEF Structure, Story
<1> QED
  BY <1>5, <1>6, <1>7, <1>8, <1>9, <1>10, <1>11 DEF Story

\* Nobody waits or is on the way at the start.
LEMMA InitStory == Init => Story
<1> SUFFICES ASSUME Init PROVE Story
  OBVIOUS
<1>1. Waiting = {}
  BY DEF Init, Waiting, Members
<1>2. WaitersInOrder /\ WaitersAsleep /\ ArmedWaits
  BY <1>1 DEF Init, WaitersInOrder, WaitersAsleep, ArmedWaits
<1>3. TargetAsleep /\ QueuedReady /\ TimeoutAsserted
  BY Kinds DEF Init, TargetAsleep, QueuedReady, TimeoutAsserted, Inserting
<1>4. TokensConserved
  <2>1. Granted = {} /\ Giving = {}
    BY Kinds DEF Init, Granted, Giving
  <2>2. Cardinality(Granted) = 0 /\ Cardinality(Giving) = 0
    BY <2>1, FS_EmptySet
  <2> QED
    BY <2>2, SemaphoreConstants DEF Init, TokensConserved
<1> QED
  BY <1>2, <1>3, <1>4 DEF Story

\* Every step keeps the account of tokens and waiters.
LEMMA StepStory ==
  ASSUME Undisturbed
  PROVE  Structure /\ Story /\ [Next]_vars => Story'
<1> SUFFICES ASSUME Structure, Story, [Next]_vars PROVE Story'
  OBVIOUS
<1>1. CASE Next
  <2>1. ASSUME NEW t \in Thread,
               \/ TakeFreely(t)
               \/ \E timed \in Timeouts : Block(t, timed)
               \/ BlockUnlock(t)
               \/ Return(t)
               \/ Reset(t) \/ ResetNext(t) \/ ResetEmpty(t)
               \/ \E v \in 0 .. MaxValue : ResetValue(t, v)
               \/ Expire(t)
        PROVE  Story'
    BY <2>1, TakeStory, BlockStory, BlockUnlockStory, ReturnStory, ResetStory,
       ResetNextStory, ResetEmptyStory, ResetValueStory, ExpireStory
  <2>2. ASSUME NEW c \in Context, GiveValue(c) \/ GiveWaiter(c) \/ Resume(c)
        PROVE  Story'
    BY <2>2, GiveValueStory, GiveWaiterStory, ResumeTestStory,
       ResumeUnlinkStory, InsertTestStory, InsertRunningStory,
       InsertReadyStory, GiveUnlockStory
       DEF Resume
  <2>3. ASSUME NEW h \in Hart,
               \/ ExpireTest(h) \/ ExpireUnlink(h)
               \/ Leave(h) \/ Stay(h) \/ Arrive(h)
        PROVE  Story'
    BY <2>3, ExpireTestStory, ExpireUnlinkStory, LeaveStory, StayStory,
       ArriveStory
  <2> QED
    BY <1>1, <2>1, <2>2, <2>3 DEF Next
<1>2. CASE UNCHANGED vars
  BY <1>2
     DEF vars, Story, WaitersInOrder, WaitersAsleep, Asleep, Dismissed, Waiting,
         TargetAsleep, QueuedReady, ArmedWaits, TimeoutAsserted,
         TokensConserved, Granted, Giving
<1> QED
  BY <1>1, <1>2

\* It holds in every behaviour.
LEMMA StoryHolds ==
  ASSUME Undisturbed
  PROVE  Spec => []Story
BY InitStory, StepStory, StructureHolds, PTL DEF Spec

-----------------------------------------------------------------------------
(* No thread is lost *)

(* A thread that blocks is among the waiters.                               *)
LEMMA BlockedWaiting ==
  ASSUME TypeOK, NEW t \in Thread, NEW timed, Block(t, timed)
  PROVE  Waiting' = Waiting \union {t}
BY WaitersType, LinkBehindMembers DEF TypeOK, Block, Waiting

(* On one hart no step lets go of a thread before another takes it.         *)
LEMMA StepCustody ==
  ASSUME Structure, Story, Hart = {TimerHart}, Custody, Next
  PROVE  Custody'
<1>1. ASSUME NEW t \in Thread, TakeFreely(t) PROVE Custody'
  BY <1>1 DEF Custody, Kept, Waiting, TakeFreely, threads
<1>2. ASSUME NEW t \in Thread, NEW timed \in Timeouts, Block(t, timed) PROVE Custody'
  <2>1. Waiting' = Waiting \union {t}
    BY <1>2, BlockedWaiting DEF Structure
  <2>2. ASSUME NEW u \in Thread PROVE Kept(u)'
    <3>1. CASE u = t
      BY <2>1, <3>1 DEF Kept
    <3>2. CASE u # t
      BY <1>2, <2>1 DEF Custody, Kept, Inserting, Block, Idle, At, Goto
    <3> QED
      BY <3>1, <3>2
  <2>3. \A c \in Context : pc'[c] = "running" => oncpu'[target'[c]]
    BY <1>2 DEF Custody, Block, Goto
  <2> QED
    BY <2>2, <2>3 DEF Custody
<1>3. ASSUME NEW t \in Thread, BlockUnlock(t) PROVE Custody'
  BY <1>3
     DEF Custody, Kept, Inserting, Waiting, BlockUnlock, At, Goto, threads
<1>4. ASSUME NEW t \in Thread, Return(t) PROVE Custody'
  BY <1>4 DEF Custody, Kept, Inserting, Waiting, Return, At, Goto, threads
<1>5. ASSUME NEW t \in Thread,
             \/ Reset(t) \/ ResetNext(t) \/ ResetEmpty(t)
             \/ \E v \in 0 .. MaxValue : ResetValue(t, v)
      PROVE  Custody'
  <2>1. CASE Reset(t)
    BY <2>1
       DEF Custody, Kept, Inserting, Waiting, Reset, Idle, At, Goto, threads
  <2>2. CASE ResetNext(t)
    BY <2>2 DEF Custody, Kept, Inserting, Waiting, ResetNext, At, Goto
  <2>3. CASE ResetEmpty(t)
    BY <2>3 DEF Custody, Kept, Inserting, Waiting, ResetEmpty, At, Goto, threads
  <2>4. CASE \E v \in 0 .. MaxValue : ResetValue(t, v)
    BY <2>4 DEF Custody, Kept, Inserting, Waiting, ResetValue, At, Goto, threads
  <2> QED
    BY <1>5, <2>1, <2>2, <2>3, <2>4
<1>6. ASSUME NEW t \in Thread, Expire(t) PROVE Custody'
  BY <1>6 DEF Custody, Kept, Inserting, Waiting, Expire, Open, Goto
<1>7. ASSUME NEW c \in Context, GiveValue(c) PROVE Custody'
  BY <1>7 DEF Custody, Kept, Waiting, GiveValue, threads
<1>8. ASSUME NEW c \in Context, GiveWaiter(c) PROVE Custody'
  BY <1>8
     DEF Custody, Kept, Inserting, Waiting, GiveWaiter, Idle, At, Open, Goto,
         threads
<1>9. ASSUME NEW c \in Context, ResumeTest(c) PROVE Custody'
  BY <1>9
     DEF Custody, Kept, Inserting, Waiting, ResumeTest, Behind, At, Goto,
         threads
<1>10. ASSUME NEW c \in Context, ResumeUnlink(c) PROVE Custody'
  BY <1>10, UnlinkWaiter
     DEF Structure, TypeOK, Custody, Kept, Inserting, Story, ResumeUnlink,
         Goto
<1>11. ASSUME NEW c \in Context, InsertTest(c) PROVE Custody'
  BY <1>11 DEF Custody, Kept, Inserting, Waiting, InsertTest, Goto, threads
<1>12. ASSUME NEW c \in Context, InsertRunning(c) PROVE Custody'
  <2>1. /\ pc' = [pc EXCEPT ![c] = Behind(c)]
        /\ target' = [target EXCEPT ![c] = IF lock = c THEN target[c] ELSE None]
    BY <1>12, InsertedPlaces DEF Structure, InsertRunning
  <2>2. Behind(c) \in {"done", "sweep", "off"}
    BY DEF Behind
  <2>3. target[c] \in Thread /\ oncpu[target[c]]
    BY <1>12
       DEF Structure, TargetKnown, Resuming, Section, Location, Inserting,
           Custody, InsertRunning, At
  <2>4. ASSUME NEW u \in Thread PROVE Kept(u)'
    <3>1. CASE u = target[c]
      BY <1>12, <2>3, <3>1
         DEF Structure, TypeOK, OnCpuExact, Kept, InsertRunning
    <3>2. CASE u # target[c]
      BY <1>12, <2>1, <3>2
         DEF Structure, TypeOK, Custody, Kept, Waiting, InsertRunning
    <3> QED
      BY <3>1, <3>2
  <2>5. \A d \in Context : pc'[d] = "running" => oncpu'[target'[d]]
    BY <1>12, <2>1, <2>2 DEF Structure, TypeOK, Custody, InsertRunning
  <2> QED
    BY <2>4, <2>5 DEF Custody
<1>13. ASSUME NEW c \in Context, InsertReady(c) PROVE Custody'
  BY <1>13, Kinds, InsertedPlaces, SMTT(30)
     DEF Structure, TypeOK, Custody, Kept, Inserting, Waiting, TargetKnown,
         Resuming, Section, Location, InsertReady, Behind, At
<1>14. ASSUME NEW c \in Context, GiveUnlock(c) PROVE Custody'
  BY <1>14
     DEF Custody, Kept, Inserting, Waiting, GiveUnlock, After, At, Goto,
         threads
<1>15. ASSUME NEW h \in Hart, ExpireTest(h) PROVE Custody'
  BY <1>15
     DEF Custody, Kept, Inserting, Waiting, ExpireTest, At, Goto, threads
<1>16. ASSUME NEW h \in Hart, ExpireUnlink(h) PROVE Custody'
  BY <1>16, Kinds, UnlinkWaiter
     DEF Structure, TypeOK, Custody, Kept, Inserting, Story, ExpireUnlink,
         Goto
<1>17. ASSUME NEW h \in Hart, Leave(h) PROVE Custody'
  <2>1. \A c \in Context : pc[c] \notin Section
    BY <1>17, NoneInside, Kinds DEF Undisturbed, Leave, Idle
  <2>2. \A c \in Context : pc[c] # "running"
    BY <2>1 DEF Section, Location, Inserting
  <2> QED
    BY <1>17, <2>2 DEF Custody, Kept, Waiting, Leave
<1>18. ASSUME NEW h \in Hart, Stay(h) PROVE Custody'
  BY <1>18, ScheduledPlaces
     DEF Structure, Custody, Kept, Inserting, Waiting, Stay
<1>19. ASSUME NEW h \in Hart, Arrive(h) PROVE Custody'
  <2> DEFINE t == current[h]
             to == next[h].to
  <2>1. /\ pc' \in [Context -> Location]
        /\ \A c \in Context : pc[c] \in Inserting => pc'[c] = pc[c]
        /\ \A c \in Context : pc'[c] = "running" => pc[c] = "running"
    BY <1>19, ScheduledPlaces DEF Structure, Arrive, Inserting
  <2>2. to \in Thread \union {None} /\ (to # None => HartOf[to] = h)
    BY <1>19 DEF Structure, TypeOK, SwitchFits, Arrive
  <2>3. /\ queued' = (queued \union {u \in {t} \ {None} : stat[u] = "RUNNING"}) \ {to}
        /\ \A u \in Thread : stat'[u] = IF u = to THEN "RUNNING"
                                        ELSE IF u = t /\ stat[t] = "RUNNING"
                                             THEN "READY" ELSE stat[u]
        /\ \A u \in Thread : oncpu'[u] = (oncpu[u] \/ u = to)
        /\ current' = [current EXCEPT ![h] = to]
        /\ waiters' = waiters /\ target' = target
    BY <1>19 DEF Arrive
  <2> HIDE DEF to
  <2>4. ASSUME NEW u \in Thread PROVE Kept(u)'
    <3>1. CASE u = to
      BY <2>3, <3>1, Kinds DEF Structure, TypeOK, Kept
    <3>2. CASE u # to /\ u \in Waiting
      BY <2>3, <3>2 DEF Kept, Waiting
    <3>3. CASE u # to /\ u \in queued
      BY <2>3, <3>3 DEF Kept
    <3>4. CASE u # to /\ stat[u] = "RUNNING" /\ current[HartOf[u]] = u
      BY <2>3, <3>4, Kinds DEF Kept
    <3>5. CASE u # to /\ \E c \in Context : target[c] = u /\ pc[c] \in Inserting
      BY <2>1, <2>3, <3>5 DEF Kept
    <3> QED
      BY <3>1, <3>2, <3>3, <3>4, <3>5 DEF Custody, Kept
  <2>5. \A c \in Context : pc'[c] = "running" => oncpu'[target'[c]]
    <3>1. \A c \in Context : pc[c] = "running" => target[c] \in Thread
      BY DEF Structure, TargetKnown, Resuming, Section, Location, Inserting
    <3> QED
      BY <2>1, <2>3, <3>1 DEF Custody
  <2> QED
    BY <2>4, <2>5 DEF Custody
<1> QED
  BY <1>1, <1>2, <1>3, <1>4, <1>5, <1>6, <1>7, <1>8, <1>9, <1>10, <1>11,
     <1>12, <1>13, <1>14, <1>15, <1>16, <1>17, <1>18, <1>19
     DEF Next, Resume

\* On one hart everybody is accounted for in every behaviour.
LEMMA CustodyHolds ==
  ASSUME Hart = {TimerHart}
  PROVE  Spec => []Custody
<1>1. Init => Custody
  BY DEF Init, Custody, Kept
<1>2. Undisturbed
  BY DEF Undisturbed
<1>3. Structure /\ Story /\ Custody /\ [Next]_vars => Custody'
  BY StepCustody DEF vars, Custody, Kept, Waiting
<1>4. Spec => []Story
  BY <1>2, StoryHolds
<1> QED
  BY <1>1, <1>3, <1>4, StructureHolds, PTL DEF Spec

-----------------------------------------------------------------------------
(* The theorems *)

(* Every variable keeps to its C type, on any number of harts: the value is *)
(* never below 0 nor above RT_SEM_VALUE_MAX (rt_sem_take, rt_sem_release,   *)
(* rt_sem_control).                                                         *)
THEOREM TypeCorrect == Spec => []TypeOK
BY StructureHolds, PTL DEF Structure

(* While a thread waits in rt_sem_take the semaphore is not available,      *)
(* whatever times out; on any number of harts if nobody resets the          *)
(* semaphore, and on one hart if somebody does: rt_sem_control sets the     *)
(* value without the lock, so another hart's thread may wait by then.       *)
THEOREM NoneWaitsPastToken ==
  ASSUME Resetter = {} \/ Hart = {TimerHart}
  PROVE  Spec => []NoTokenPastWaiter
<1> DEFINE Swept == \A c \in Context : pc[c] = "swept" => waiters = <<>>
           Inv == NoTokenPastWaiter /\ Swept
<1>1. Init => Inv
  BY DEF Init, NoTokenPastWaiter
<1>2. ASSUME Structure, NoTokenPastWaiter, Swept, [Next]_vars PROVE Inv'
  <2> USE DEF NoTokenPastWaiter
  <2> HIDE DEF Inv
  <2>0. ASSUME NEW t \in Thread PROVE t \in Context
    BY Kinds
  <2>1. ASSUME NEW t \in Thread, NEW timed, Block(t, timed) PROVE Inv'
    <3>1. \A c \in Context : pc[c] # "swept"
      <4>1. CASE Resetter = {}
        BY <1>2, <4>1 DEF Structure, LockHeld
      <4>2. CASE Hart = {TimerHart}
        <5>1. \A c \in Context : pc[c] \notin Section
          BY <1>2, <2>0, <2>1, <4>2, NoneInside DEF Block, Undisturbed
        <5> QED
          BY <5>1 DEF Section, Location
      <4> QED
        BY <4>1, <4>2
    <3> QED
      BY <2>1, <3>1 DEF Inv, Block, Goto
  <2>2. ASSUME NEW t \in Thread, TakeFreely(t) PROVE Inv'
    BY <1>2, <2>2 DEF Inv, TakeFreely
  <2>3. ASSUME NEW t \in Thread, ResetEmpty(t) PROVE Inv'
    BY <1>2, <2>3 DEF Inv, ResetEmpty
  <2>4. ASSUME NEW t \in Thread, NEW v \in 0 .. MaxValue, ResetValue(t, v)
        PROVE  Inv'
    BY <1>2, <2>0, <2>4 DEF Inv, ResetValue, At, Goto
  <2>5. ASSUME NEW c \in Context, GiveValue(c) PROVE Inv'
    BY <1>2, <2>5 DEF Inv, GiveValue
  <2>6. ASSUME NEW t, Unlink(waiters, t) # <<>> PROVE waiters # <<>>
    BY <2>6 DEF Unlink
  <2>7. ASSUME NEW c \in Context, ResumeUnlink(c) PROVE Inv'
    BY <1>2, <2>6, <2>7 DEF Inv, ResumeUnlink, Goto
  <2>8. ASSUME NEW h \in Hart, ExpireUnlink(h) PROVE Inv'
    BY <1>2, <2>6, <2>8 DEF Inv, ExpireUnlink, Goto
  <2>9. CASE /\ waiters' = waiters /\ value' = value
             /\ \A c \in Context : pc'[c] = "swept" => pc[c] = "swept"
    BY <1>2, <2>9 DEF Inv
  <2>10. ASSUME NEW h \in Hart, Stay(h) \/ Arrive(h) PROVE Inv'
    BY <1>2, <2>9, <2>10, ScheduledPlaces DEF Structure, Stay, Arrive
  <2>11. ASSUME NEW t \in Thread,
                BlockUnlock(t) \/ Return(t) \/ Reset(t) \/ ResetNext(t) \/ Expire(t)
         PROVE  Inv'
    BY <1>2, <2>9, <2>11
       DEF Structure, TypeOK, BlockUnlock, Return, Reset, ResetNext, Expire, Goto
  <2>12. ASSUME NEW c \in Context,
                \/ GiveWaiter(c) \/ ResumeTest(c) \/ InsertTest(c)
                \/ InsertRunning(c) \/ InsertReady(c) \/ GiveUnlock(c)
         PROVE  Inv'
    BY <1>2, <2>9, <2>12
       DEF Structure, TypeOK, GiveWaiter, ResumeTest, InsertTest,
           InsertRunning, InsertReady, GiveUnlock, Inserted, Behind, After, Goto
  <2>13. ASSUME NEW h \in Hart, ExpireTest(h) \/ Leave(h) PROVE Inv'
    BY <1>2, <2>9, <2>13 DEF Structure, TypeOK, ExpireTest, Leave, Goto
  <2>14. CASE UNCHANGED vars
    BY <2>9, <2>14 DEF vars
  <2> QED
    BY <1>2, <2>1, <2>2, <2>3, <2>4, <2>5, <2>7, <2>8, <2>10, <2>11, <2>12,
       <2>13, <2>14
       DEF Next, Resume
<1> QED
  BY <1>1, <1>2, StructureHolds, PTL DEF Spec

(* _ipc_list_suspend and the removals of rt_thread_resume and               *)
(* rt_thread_timeout keep the waiters in the order of their priorities,     *)
(* each in the list once.                                                   *)
THEOREM WaitersStayInOrder ==
  ASSUME Undisturbed
  PROVE  Spec => []WaitersInOrder
BY StoryHolds, PTL DEF Story

\* A list that is the same, or lost a node, is in the order it was.
LEMMA UnlinkKeepsPlaces ==
  ASSUME TypeOK, WaitersInOrder, NEW u, waiters' \in {waiters, Unlink(waiters, u)},
         NEW i \in DOMAIN waiters', NEW j \in DOMAIN waiters', i < j
  PROVE  \E k, m \in DOMAIN waiters :
           k < m /\ waiters[k] = waiters'[i] /\ waiters[m] = waiters'[j]
<1>1. CASE waiters' = waiters
  BY <1>1
<1>2. CASE waiters' = Unlink(waiters, u)
  BY <1>2, WaitersDistinct, UnlinkProperties
<1> QED
  BY <1>1, <1>2

\* Where everybody is once t is linked behind the first m waiters.
LEMMA LinkedPlaces ==
  ASSUME waiters \in Seq(Thread), NEW m \in 0 .. Len(waiters), NEW t \in Thread
  PROVE  /\ LinkBehind(waiters, m, t) \in Seq(Thread)
         /\ Len(LinkBehind(waiters, m, t)) = Len(waiters) + 1
         /\ \A k \in 1 .. Len(waiters) + 1 :
              LinkBehind(waiters, m, t)[k] =
                IF k <= m THEN waiters[k]
                ELSE IF k = m + 1 THEN t ELSE waiters[k - 1]
<1>1. LinkBehind(waiters, m, t) \in Seq(Thread)
  BY LinkBehindProperties
<1>2. Len(LinkBehind(waiters, m, t)) = Len(waiters) + 1
  BY LinkBehindProperties
<1>3. \A k \in 1 .. Len(waiters) + 1 :
        LinkBehind(waiters, m, t)[k] =
          IF k <= m THEN waiters[k]
          ELSE IF k = m + 1 THEN t ELSE waiters[k - 1]
  BY LinkBehindProperties
<1> QED
  BY <1>1, <1>2, <1>3

\* A newcomer goes behind all that are as urgent, and moves nobody.
LEMMA BlockTakesPlace ==
  ASSUME Structure, Story, NEW t \in Thread, NEW timed, Block(t, timed),
         NEW i \in DOMAIN waiters', NEW j \in DOMAIN waiters', i < j
  PROVE  \/ waiters'[j] \notin Waiting
         \/ /\ waiters'[i] \notin Waiting
            /\ Priority[waiters'[i]] < Priority[waiters'[j]]
         \/ \E k, m \in DOMAIN waiters :
              k < m /\ waiters[k] = waiters'[i] /\ waiters[m] = waiters'[j]
<1> DEFINE n == Position(t)
<1>1. t \notin Waiting
  BY DEF Story, WaitersAsleep, Asleep, Block, Idle, At
<1>2. /\ n \in 0 .. Len(waiters)
      /\ \A p \in n + 1 .. Len(waiters) : Priority[t] < Priority[waiters[p]]
  BY WaitersDistinct, PlaceInOrder, SemaphoreConstants
     DEF Structure, Story, Position
<1>3. waiters' = LinkBehind(waiters, n, t)
  BY DEF Block
<1> HIDE DEF n
<1>4. /\ waiters' \in Seq(Thread)
      /\ Len(waiters') = Len(waiters) + 1
      /\ \A p \in 1 .. Len(waiters) + 1 :
           waiters'[p] = IF p <= n THEN waiters[p]
                         ELSE IF p = n + 1 THEN t ELSE waiters[p - 1]
  <2>1. ASSUME NEW m \in 0 .. Len(waiters)
        PROVE  /\ LinkBehind(waiters, m, t) \in Seq(Thread)
               /\ Len(LinkBehind(waiters, m, t)) = Len(waiters) + 1
               /\ \A k \in 1 .. Len(waiters) + 1 :
                    LinkBehind(waiters, m, t)[k] =
                      IF k <= m THEN waiters[k]
                      ELSE IF k = m + 1 THEN t ELSE waiters[k - 1]
    BY LinkedPlaces DEF Structure, TypeOK
  <2> QED
    BY <1>2, <1>3, <2>1
<1>5. /\ Len(waiters) \in Nat /\ DOMAIN waiters = 1 .. Len(waiters)
      /\ DOMAIN waiters' = 1 .. Len(waiters) + 1
  BY <1>4, LenProperties DEF Structure, TypeOK
<1>6. CASE j = n + 1
  BY <1>1, <1>2, <1>4, <1>5, <1>6
<1>7. CASE i = n + 1
  <2>1. waiters'[i] = t /\ waiters'[j] = waiters[j - 1]
    BY <1>2, <1>4, <1>5, <1>7
  <2>2. j - 1 \in n + 1 .. Len(waiters)
    BY <1>2, <1>5, <1>7
  <2> QED
    BY <1>1, <1>2, <2>1, <2>2
<1>8. CASE i # n + 1 /\ j # n + 1
  <2> DEFINE from(p) == IF p <= n THEN p ELSE p - 1
  <2>1. /\ from(i) \in DOMAIN waiters /\ waiters'[i] = waiters[from(i)]
        /\ from(j) \in DOMAIN waiters /\ waiters'[j] = waiters[from(j)]
    BY <1>2, <1>4, <1>5, <1>8
  <2>2. from(i) < from(j)
    BY <1>2, <1>5, <1>8
  <2> QED
    BY <2>1, <2>2
<1> QED
  BY <1>6, <1>7, <1>8

(* First come, first served among waiters as urgent (_ipc_list_suspend with *)
(* RT_IPC_FLAG_PRIO): whoever waits keeps his place, and a newcomer goes    *)
(* ahead only of less urgent ones.                                          *)
THEOREM WaitersServedInOrder ==
  ASSUME Undisturbed
  PROVE  Spec => FirstComeFirst
<1> DEFINE Fair(i, j) ==
             \/ waiters'[j] \notin Waiting
             \/ /\ waiters'[i] \notin Waiting
                /\ Priority[waiters'[i]] < Priority[waiters'[j]]
             \/ \E k, m \in DOMAIN waiters :
                  k < m /\ waiters[k] = waiters'[i] /\ waiters[m] = waiters'[j]
           Served == \A i, j \in DOMAIN waiters' : i < j => Fair(i, j)
<1>1. ASSUME Structure, Story, [Next]_vars PROVE Served
  <2>1. SUFFICES ASSUME NEW i \in DOMAIN waiters', NEW j \in DOMAIN waiters', i < j
                 PROVE  Fair(i, j)
    OBVIOUS
  <2>2. ASSUME NEW t \in Thread, NEW timed, Block(t, timed) PROVE Fair(i, j)
    BY <1>1, <2>1, <2>2, BlockTakesPlace
  <2>3. ASSUME NEW u, waiters' \in {waiters, Unlink(waiters, u)} PROVE Fair(i, j)
    BY <1>1, <2>1, <2>3, UnlinkKeepsPlaces DEF Structure, Story
  <2> HIDE DEF Fair
  <2>4. CASE waiters' = waiters
    BY <2>3, <2>4
  <2>5. ASSUME NEW c \in Context, ResumeUnlink(c) PROVE Fair(i, j)
    BY <2>3, <2>5 DEF ResumeUnlink
  <2>6. ASSUME NEW h \in Hart, ExpireUnlink(h) PROVE Fair(i, j)
    BY <2>3, <2>6 DEF ExpireUnlink
  <2> QED
    BY <1>1, <2>2, <2>4, <2>5, <2>6
       DEF Next, Resume, vars, TakeFreely, BlockUnlock, Return, Reset, ResetNext,
           ResetEmpty, ResetValue, Expire, GiveValue, GiveWaiter, ResumeTest,
           InsertTest, InsertRunning, InsertReady, GiveUnlock, ExpireTest,
           Leave, Stay, Arrive
<1>2. Structure /\ Story /\ [Next]_vars => [Served]_vars
  BY <1>1
<1> QED
  BY <1>2, StructureHolds, StoryHolds, PTL DEF Spec, FirstComeFirst

(* No release is lost and none counts twice: every one of them is in the    *)
(* value, or with a thread whose rt_sem_take will return RT_EOK.            *)
THEOREM TokensAreConserved ==
  ASSUME Undisturbed
  PROVE  Spec => []TokensConserved
BY StoryHolds, PTL DEF Story

(* RT_ASSERT in rt_thread_timeout: a timer fires only for a thread that is  *)
(* suspended.                                                               *)
THEOREM TimeoutAssertionHolds ==
  ASSUME Undisturbed
  PROVE  Spec => []TimeoutAsserted
BY StoryHolds, PTL DEF Story

(* On one hart rt_thread_resume, rt_thread_timeout, RT_IPC_CMD_RESET and    *)
(* rt_schedule never leave a thread where nobody will find it.              *)
THEOREM NoThreadIsLost ==
  ASSUME Hart = {TimerHart}
  PROVE  Spec => []NoThreadLost
<1>1. Custody => NoThreadLost
  BY DEF Custody, Kept, NoThreadLost
<1> QED
  BY <1>1, CustodyHolds, PTL
=============================================================================
