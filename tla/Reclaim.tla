------------------------------ MODULE Reclaim ------------------------------
(***************************************************************************)
(* The life of dynamic threads and their memory: rt_thread_create takes the *)
(* object and the stack from the heap and lists the object in its container *)
(* (object.c), a closed thread goes to the defunct list, and the system     *)
(* thread (idle.c) gives everything back.  One user program allocates and   *)
(* reallocates a buffer beside them.                                        *)
(*                                                                         *)
(* Every thread of Thread has one creator at a time, and creators, callers  *)
(* of rt_thread_delete, the user and the system thread interleave between   *)
(* any two sections: a heap call (under heap_sem), a masked section and an  *)
(* unmasked test are one step each.                                         *)
(***************************************************************************)
EXTENDS Heap, SequencesExt

CONSTANTS
  Thread,     \* the dynamic threads that may exist at once
  ObjectSize, \* information->object_size of the thread class
  StackSize,  \* stack_size of rt_thread_create
  UserSizes,  \* the sizes the user asks for
  SemMax,     \* RT_SEM_VALUE_MAX
  Deleter,    \* the callers of rt_thread_delete
  EndsAlone,  \* nobody deletes a thread that another is deleting, and no
              \* thread exits while it is deleted
  None

ASSUME ReclaimConstants ==
  /\ ObjectSize \in Nat \ {0} /\ StackSize \in Nat \ {0}
  /\ UserSizes \subseteq Nat \ {0}
  /\ SemMax \in Nat \ {0}
  /\ EndsAlone \in BOOLEAN
  /\ None \notin Nat \union Thread

VARIABLES
  heap,      \* the state of mem.c
  stage,     \* [Thread -> Stages]: how far a thread's life has come
  object,    \* the block of struct rt_thread
  stack,     \* the block at thread->stack_addr
  container, \* the threads in rt_object_container[...].object_list
  target,    \* [Deleter -> Thread or None]: the thread it deletes
  step,      \* [Deleter -> Deletion]: how far it has come
  defunct,   \* _rt_thread_defunct
  sem,       \* system_sem.value
  system,    \* where the system thread stands
  victim,    \* the thread it took from the defunct list
  buffer,    \* the user's block
  length,    \* how much of it the user may use
  moved      \* the new block while rt_realloc copies the old one

threadVars == <<stage, object, stack, container>>
deleteVars == <<target, step>>
systemVars == <<defunct, sem, system, victim>>
userVars   == <<buffer, length, moved>>
vars       == <<heap, threadVars, deleteVars, systemVars, userVars>>

Stages == {"none", "allocated", "listed", "undo", "unlisted", "made", "live", "closed"}
Deletion == {"test", "remove", "close"}
Steps  == {"take", "drain", "stack", "unlist", "object"}

TypeOK ==
  LET Offsets == 0 .. End - 1 IN
  /\ DOMAIN heap.mem \subseteq 0 .. End
  /\ heap \in [mem : [DOMAIN heap.mem -> Headers], lfree : 0 .. End, used : 0 .. End]
  /\ stage \in [Thread -> Stages]
  /\ object \in [Thread -> Offsets \union {None}]
  /\ stack \in [Thread -> Offsets \union {None}]
  /\ container \subseteq Thread
  /\ target \in [Deleter -> Thread \union {None}]
  /\ step \in [Deleter -> Deletion]
  /\ defunct \in Seq(Thread)
  /\ sem \in 0 .. SemMax
  /\ system \in Steps
  /\ victim \in Thread \union {None}
  /\ buffer \in Offsets \union {None} /\ moved \in Offsets \union {None}
  /\ length \in UserSizes \union {0}

Init ==
  /\ heap = NewHeap
  /\ stage = [t \in Thread |-> "none"]
  /\ object = [t \in Thread |-> None]
  /\ stack = [t \in Thread |-> None]
  /\ container = {}
  /\ target = [d \in Deleter |-> None]
  /\ step = [d \in Deleter |-> "test"]
  /\ defunct = <<>>
  /\ sem = 1
  /\ system = "take"
  /\ victim = None
  /\ buffer = None /\ length = 0 /\ moved = None

-----------------------------------------------------------------------------
(* rt_thread_create *)

\* rt_object_allocate: the memory for the object.
CreateObject(t) ==
  /\ stage[t] = "none"
  /\ ~MallocFails(heap, ObjectSize)
  /\ heap' = Malloc(heap, ObjectSize)
  /\ object' = [object EXCEPT ![t] = MallocAt(heap, ObjectSize)]
  /\ stage' = [stage EXCEPT ![t] = "allocated"]
  /\ UNCHANGED <<stack, container, deleteVars, systemVars, userVars>>

\* rt_object_allocate: the container.
CreateList(t) ==
  /\ stage[t] = "allocated"
  /\ container' = container \union {t}
  /\ stage' = [stage EXCEPT ![t] = "listed"]
  /\ UNCHANGED <<heap, object, stack, deleteVars, systemVars, userVars>>

\* Mutant: without memory for the stack the object is forgotten.
CreateStackOnly(t) ==
  /\ stage[t] = "listed"
  /\ IF MallocFails(heap, StackSize)
     THEN /\ stage' = [stage EXCEPT ![t] = "none"]
          /\ UNCHANGED <<heap, stack>>
     ELSE /\ heap' = Malloc(heap, StackSize)
          /\ stack' = [stack EXCEPT ![t] = MallocAt(heap, StackSize)]
          /\ stage' = [stage EXCEPT ![t] = "made"]
  /\ UNCHANGED <<object, container, deleteVars, systemVars, userVars>>

\* The stack; without it the object is deleted again.
CreateStack(t) ==
  /\ stage[t] = "listed"
  /\ IF MallocFails(heap, StackSize)
     THEN /\ stage' = [stage EXCEPT ![t] = "undo"]
          /\ UNCHANGED <<heap, stack>>
     ELSE /\ heap' = Malloc(heap, StackSize)
          /\ stack' = [stack EXCEPT ![t] = MallocAt(heap, StackSize)]
          /\ stage' = [stage EXCEPT ![t] = "made"]
  /\ UNCHANGED <<object, container, deleteVars, systemVars, userVars>>

\* rt_object_delete of the object that got no stack, in its two sections.
UndoList(t) ==
  /\ stage[t] = "undo"
  /\ container' = container \ {t}
  /\ stage' = [stage EXCEPT ![t] = "unlisted"]
  /\ UNCHANGED <<heap, object, stack, deleteVars, systemVars, userVars>>

UndoObject(t) ==
  /\ stage[t] = "unlisted"
  /\ heap' = Free(heap, object[t])
  /\ object' = [object EXCEPT ![t] = None]
  /\ stage' = [stage EXCEPT ![t] = "none"]
  /\ UNCHANGED <<stack, container, deleteVars, systemVars, userVars>>

Undisturbed(t) == \A d \in Deleter : target[d] # t

\* rt_thread_startup, before anybody deletes the thread.
Startup(t) ==
  /\ stage[t] = "made" /\ Undisturbed(t)
  /\ stage' = [stage EXCEPT ![t] = "live"]
  /\ UNCHANGED <<heap, object, stack, container, deleteVars, systemVars, userVars>>

-----------------------------------------------------------------------------
(* The end of a thread *)

\* Mutant: nobody tells the system thread.
EnqueueSilent(t) ==
  /\ defunct' = <<t>> \o defunct
  /\ UNCHANGED sem

\* Mutant: the semaphore has no limit.
EnqueueUnlimited(t) ==
  /\ defunct' = <<t>> \o defunct
  /\ sem' = sem + 1

\* rt_thread_defunct_enqueue: at the front of the list; the semaphore stays
\* as it is at its limit.
Enqueue(t) ==
  /\ defunct' = <<t>> \o defunct
  /\ sem' = IF sem < SemMax THEN sem + 1 ELSE sem

\* _thread_exit, in one masked section that includes the switch; a thread
\* that was taken off the schedule does not run.
Exit(t) ==
  /\ stage[t] = "live"
  /\ \A d \in Deleter : target[d] = t => step[d] = "remove"
  /\ EndsAlone => Undisturbed(t)
  /\ stage' = [stage EXCEPT ![t] = "closed"]
  /\ Enqueue(t)
  /\ UNCHANGED <<heap, object, stack, container, deleteVars, system, victim, userVars>>

\* rt_thread_delete: a closed thread is left alone, one that was never started
\* can be deleted.  The test masks nothing.
DeleteTest(d, t) ==
  /\ target[d] = None /\ stage[t] \in {"made", "live"}
  /\ EndsAlone => Undisturbed(t)
  /\ target' = [target EXCEPT ![d] = t]
  /\ step' = [step EXCEPT ![d] = "remove"]
  /\ UNCHANGED <<heap, threadVars, systemVars, userVars>>

\* The thread that d works on exists: what rt_thread_delete does to the memory
\* of one that is gone is left out.
Deletes(d) ==
  target[d] # None /\ stage[target[d]] \in {"made", "live", "closed"}

\* rt_schedule_remove_thread takes thread->tlist out of whatever list it is in,
\* unless the thread was never started.
DeleteRemove(d) ==
  /\ Deletes(d) /\ step[d] = "remove"
  /\ defunct' = IF stage[target[d]] = "closed" THEN Remove(defunct, target[d]) ELSE defunct
  /\ step' = [step EXCEPT ![d] = "close"]
  /\ UNCHANGED <<heap, threadVars, target, sem, system, victim, userVars>>

\* The masked section that ends rt_thread_delete, which tests nothing.
DeleteClose(d) ==
  /\ Deletes(d) /\ step[d] = "close"
  /\ stage' = [stage EXCEPT ![target[d]] = "closed"]
  /\ Enqueue(target[d])
  /\ target' = [target EXCEPT ![d] = None]
  /\ step' = [step EXCEPT ![d] = "test"]
  /\ UNCHANGED <<heap, object, stack, container, system, victim, userVars>>

DeleteNext ==
  \E d \in Deleter : DeleteRemove(d) \/ DeleteClose(d) \/ \E t \in Thread : DeleteTest(d, t)

-----------------------------------------------------------------------------
(* rt_thread_system_entry and rt_defunct_execute *)

SystemTake ==
  /\ system = "take" /\ sem > 0
  /\ sem' = sem - 1
  /\ system' = "drain"
  /\ UNCHANGED <<heap, threadVars, deleteVars, defunct, victim, userVars>>

\* rt_thread_defunct_dequeue, until nothing is left.
SystemDequeue ==
  /\ system = "drain"
  /\ IF defunct = <<>>
     THEN /\ system' = "take"
          /\ UNCHANGED <<defunct, victim>>
     ELSE /\ victim' = Head(defunct)
          /\ defunct' = Tail(defunct)
          /\ system' = "stack"
  /\ UNCHANGED <<heap, threadVars, deleteVars, sem, userVars>>

SystemFreeStack ==
  /\ system = "stack"
  /\ heap' = Free(heap, stack[victim])
  /\ stack' = [stack EXCEPT ![victim] = None]
  /\ system' = "unlist"
  /\ UNCHANGED <<stage, object, container, deleteVars, defunct, sem, victim, userVars>>

\* rt_object_delete
SystemUnlist ==
  /\ system = "unlist"
  /\ container' = container \ {victim}
  /\ system' = "object"
  /\ UNCHANGED <<heap, stage, object, stack, deleteVars, defunct, sem, victim, userVars>>

\* Mutant: one thread for each take of the semaphore.
SystemFreeObjectOnce ==
  /\ system = "object"
  /\ heap' = Free(heap, object[victim])
  /\ object' = [object EXCEPT ![victim] = None]
  /\ stage' = [stage EXCEPT ![victim] = "none"]
  /\ victim' = None
  /\ system' = "take"
  /\ UNCHANGED <<stack, container, deleteVars, defunct, sem, userVars>>

SystemFreeObject ==
  /\ system = "object"
  /\ heap' = Free(heap, object[victim])
  /\ object' = [object EXCEPT ![victim] = None]
  /\ stage' = [stage EXCEPT ![victim] = "none"]
  /\ victim' = None
  /\ system' = "drain"
  /\ UNCHANGED <<stack, container, deleteVars, defunct, sem, userVars>>

SystemNext ==
  SystemTake \/ SystemDequeue \/ SystemFreeStack \/ SystemUnlist \/ SystemFreeObject

-----------------------------------------------------------------------------
(* The user *)

Idle == moved = None

UserMalloc(size) ==
  /\ Idle /\ buffer = None
  /\ ~MallocFails(heap, size)
  /\ heap' = Malloc(heap, size)
  /\ buffer' = MallocAt(heap, size)
  /\ length' = size
  /\ UNCHANGED <<threadVars, deleteVars, systemVars, moved>>

\* rt_free, and rt_realloc to nothing.
UserFree ==
  /\ Idle /\ buffer # None
  /\ heap' = Free(heap, buffer)
  /\ buffer' = None /\ length' = 0
  /\ UNCHANGED <<threadVars, deleteVars, systemVars, moved>>

\* rt_realloc in place: the block has this size, or is cut.
UserReallocInPlace(size) ==
  /\ Idle /\ buffer # None /\ size <= Size
  /\ \/ size = Room(heap, buffer) /\ UNCHANGED heap
     \/ Shrinks(heap, buffer, size) /\ heap' = Shrunk(heap, buffer, size)
  /\ length' = size
  /\ UNCHANGED <<threadVars, deleteVars, systemVars, buffer, moved>>

\* rt_realloc to a new block; without memory for it the old one stays.
UserReallocMove(size) ==
  /\ Idle /\ buffer # None
  /\ size # Room(heap, buffer) /\ ~Shrinks(heap, buffer, size)
  /\ ~MallocFails(heap, size)
  /\ heap' = Malloc(heap, size)
  /\ moved' = MallocAt(heap, size)
  /\ length' = size
  /\ UNCHANGED <<threadVars, deleteVars, systemVars, buffer>>

\* The old block is copied and freed.
UserReallocDone ==
  /\ ~Idle
  /\ heap' = Free(heap, buffer)
  /\ buffer' = moved /\ moved' = None
  /\ UNCHANGED <<threadVars, deleteVars, systemVars, length>>

UserNext ==
  \/ UserFree
  \/ UserReallocDone
  \/ \E size \in UserSizes :
       UserMalloc(size) \/ UserReallocInPlace(size) \/ UserReallocMove(size)

-----------------------------------------------------------------------------
ThreadNext ==
  \E t \in Thread :
    \/ CreateObject(t) \/ CreateList(t) \/ CreateStack(t)
    \/ UndoList(t) \/ UndoObject(t)
    \/ Startup(t) \/ Exit(t)

Next == ThreadNext \/ DeleteNext \/ SystemNext \/ UserNext

\* The system thread runs again and again: its hart's other threads wait now
\* and then, and whoever holds heap_sem gives it back.
Spec == Init /\ [][Next]_vars /\ WF_vars(SystemNext)

-----------------------------------------------------------------------------
(* Properties *)

\* Those who may have a pointer to a block, the block each has, and the size
\* it is needed for.
Owner == Thread \X {"object", "stack"} \union {None} \X {"buffer", "moved"}

Own == [o \in Owner |-> CASE o[2] = "object" -> object[o[1]]
                          [] o[2] = "stack"  -> stack[o[1]]
                          [] o[2] = "buffer" -> buffer
                          [] o[2] = "moved"  -> moved]

Need == [o \in Owner |-> CASE o[2] = "object" -> ObjectSize
                           [] o[2] = "stack"  -> StackSize
                           [] o[2] = "buffer" -> IF Idle THEN length ELSE 0
                           [] o[2] = "moved"  -> length]

\* Every block in use has exactly one owner, and every owner its room.
BlocksOwned ==
  /\ \A o \in Owner : Own[o] # None =>
       Own[o] \in UsedBlocks(heap.mem) /\ Room(heap, Own[o]) >= Need[o]
  /\ \A o, q \in Owner : Own[o] = Own[q] /\ Own[o] # None => o = q
  /\ \A p \in UsedBlocks(heap.mem) : \E o \in Owner : Own[o] = p

\* An object is in its container from its creation to its deletion, and a
\* thread that can run or is still to be reclaimed has what it needs.
ObjectsListed ==
  \A t \in Thread :
    /\ t \in container <=> \/ stage[t] \in {"listed", "undo", "made", "live"}
                           \/ stage[t] = "closed" /\ ~(t = victim /\ system = "object")
    /\ t \in container => object[t] # None
    /\ stack[t] # None <=> \/ stage[t] \in {"made", "live"}
                           \/ stage[t] = "closed" /\ ~(t = victim /\ system # "stack")

\* A closed thread waits once in the defunct list or is being reclaimed.
ClosedQueued ==
  /\ \A i, j \in DOMAIN defunct : defunct[i] = defunct[j] => i = j
  /\ \A i \in DOMAIN defunct : defunct[i] # victim
  /\ \A t \in Thread : stage[t] = "closed" <=>
       t = victim \/ \E i \in DOMAIN defunct : defunct[i] = t
  /\ defunct # <<>> /\ system = "take" => sem > 0

\* The heap's list, lfree and used_mem stay right through every order of
\* allocating, cutting, joining and freeing (rt_malloc, rt_realloc, rt_free).
HeapExact == Sound(heap)

\* However creation, its failure for want of memory, deletion, rt_realloc and
\* the system thread interleave, no block leaks or is given twice, no object
\* outlives its entry in the container or the other way round, and no closed
\* thread is lost to the system thread, counted twice or left unannounced.
NothingLeaked == BlocksOwned /\ ObjectsListed /\ ClosedQueued

\* rt_free asserts that the block is in use: nothing of a thread is given back
\* twice by the system thread.
FreesInUse ==
  /\ system = "stack" => stack[victim] \in UsedBlocks(heap.mem)
  /\ system = "object" => object[victim] \in UsedBlocks(heap.mem)

\* rt_thread_delete promises that the thread is deleted by a system thread.
\* The defunct list serves the thread closed last first, so an earlier one
\* may wait for as long as others keep closing: once that ends, every closed
\* thread is given back.
ClosedReclaimed ==
  <>[][\A t \in Thread : stage'[t] = "closed" => stage[t] = "closed"]_vars
    => \A t \in Thread : stage[t] = "closed" ~> stage[t] = "none"
=============================================================================
