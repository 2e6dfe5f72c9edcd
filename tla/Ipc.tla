-------------------------------- MODULE Ipc --------------------------------
(***************************************************************************)
(* The IPC objects of rt-thread/ipc.c and mempool.c other than the          *)
(* semaphore, each with the threads that wait at it, their timeouts, and    *)
(* its end (rt_xxx_detach, rt_xxx_delete).  A behaviour uses one object:    *)
(* the objects share nothing but the threads.                               *)
(***************************************************************************)
EXTENDS Mutex, Event, Mailbox, MessageQueue, MemPool

CONSTANT MbRaces \* whether others go on while a thread that waited at the
                 \* mailbox works on it without the lock

\* The wait lists of each object.
ListsOf == [mutex   |-> {"mutex"},
            event   |-> {"event"},
            mailbox |-> {"mbRecv", "mbSend"},
            queue   |-> {"mqRecv", "mqSend"},
            pool    |-> {"pool"}]

ASSUME IpcConstants ==
  /\ MbRaces \in BOOLEAN
  /\ DOMAIN Uses \subseteq DOMAIN ListsOf
  /\ None \notin DOMAIN ListsOf

objectVars == <<mutexVars, eventVars, mailboxVars, messageQueueVars, memPoolVars>>
vars == <<object, flag, prio, threadVars, limit, at, objectVars>>

Init ==
  /\ WaitingInit
  /\ MutexFresh(owner, value, hold, original)
  /\ EventFresh(set, posted)
  /\ MailboxFresh(msgPool, inOffset, outOffset, mbEntry)
  /\ MessageQueueFresh(head, tail, free, link, data, mqEntry)
  /\ MemPoolFresh(blockList, freeCount, held)
  /\ eventSet = [t \in Thread |-> {}]
  /\ info = [t \in Thread |-> NoInfo]
  /\ asked = [t \in Thread |-> {}]
  /\ mail = [c \in Context |-> None]
  /\ message = [c \in Context |-> None]
  /\ cell = [c \in Context |-> None]

\* Nobody is inside the mailbox without its lock, unless that is looked at.
Quiet == MbRaces \/ \A c \in Context : at[c] \notin Unlocked

\* A thread inside goes on, and if it shall be alone only it does.
MailboxStep ==
  /\ MailboxNext
  /\ Quiet \/ \E t \in Thread : at[t] \in Unlocked /\ at'[t] # at[t]

UseMutex ==
  /\ object = "mutex"
  /\ MutexNext
  /\ UNCHANGED <<eventVars, mailboxVars, messageQueueVars, memPoolVars>>

UseEvent ==
  /\ object = "event"
  /\ EventNext
  /\ UNCHANGED <<prio, mutexVars, mailboxVars, messageQueueVars, memPoolVars>>

UseMailbox ==
  /\ object = "mailbox"
  /\ MailboxStep
  /\ UNCHANGED <<prio, mutexVars, eventVars, messageQueueVars, memPoolVars>>

UseQueue ==
  /\ object = "queue"
  /\ MessageQueueNext
  /\ UNCHANGED <<prio, mutexVars, eventVars, mailboxVars, memPoolVars>>

UsePool ==
  /\ object = "pool"
  /\ MemPoolNext
  /\ UNCHANGED <<prio, mutexVars, eventVars, mailboxVars, messageQueueVars>>

\* An assertion that fails loops for ever, with interrupts masked.
Halted == \E c \in Context : at[c] = "halt"

\* rt_thread_timeout takes no notice of the object.
Expire(t) ==
  /\ Quiet
  /\ ~Halted
  /\ Timeout(t)
  /\ UNCHANGED <<object, flag, prio, objectVars>>

\* A call whose wait ended with an error returns it, touching no object.
ReturnError(t) ==
  /\ Quiet
  /\ ~Halted
  /\ GiveUp(t)
  /\ eventSet' = [eventSet EXCEPT ![t] = {}]
  /\ info' = [info EXCEPT ![t] = NoInfo]
  /\ asked' = [asked EXCEPT ![t] = {}]
  /\ mail' = [mail EXCEPT ![t] = None]
  /\ message' = [message EXCEPT ![t] = None]
  /\ UNCHANGED <<object, flag, prio, set, posted, mutexVars, msgPool, inOffset, outOffset,
                 mbEntry, head, tail, free, link, data, mqEntry, cell, memPoolVars>>

-----------------------------------------------------------------------------
\* Every call on the object waits in a list or is about to return an error.
NoCallInside ==
  /\ \A c \in Isr : at[c] = "idle"
  /\ \A t \in Thread : at[t] = "idle" \/ stat[t] = "SUSPEND" \/ error[t] # "EOK"

\* The lists an object's end empties, in their order.
FirstList  == [mutex |-> "mutex", event |-> "event", mailbox |-> "mbRecv",
               queue |-> "mqRecv", pool |-> "pool"]
SecondList == [mailbox |-> "mbSend", queue |-> "mqSend"]

\* Where a thread is that ends the object: at a loop's test, inside the loop,
\* or in an assertion that failed.
Ending == {"end", "wakeFirst", "wakeSecond", "halt"}

\* Nobody ends the object.
Open == \A c \in Context : at[c] \notin Ending

\* rt_xxx_detach or rt_xxx_delete, by a thread.  Its callers must see to
\* NoCallInside, that no priority is inherited through a mutex, and that
\* nobody calls any more.
Detach(t) ==
  /\ Open
  /\ Idle(t)
  /\ NoCallInside
  /\ owner # None => prio[owner] = original
  /\ Goto(t, "end")
  /\ UNCHANGED <<object, flag, prio, threadVars, objectVars>>

\* while (!rt_list_isempty(list)) of _ipc_list_resume_all: nothing is masked.
EndTest(t) ==
  /\ at[t] = "end"
  /\ IF waiters[FirstList[object]] # <<>> THEN Goto(t, "wakeFirst")
     ELSE /\ object \in DOMAIN SecondList
          /\ waiters[SecondList[object]] # <<>>
          /\ Goto(t, "wakeSecond")
  /\ UNCHANGED <<object, flag, prio, threadVars, objectVars>>

\* The list whose first waiter the loop is about to wake.
EndList(t) == IF at[t] = "wakeFirst" THEN FirstList[object] ELSE SecondList[object]

\* Mutant: a woken thread's timer runs on.
EndWakeTimed(t) ==
  /\ at[t] \in {"wakeFirst", "wakeSecond"}
  /\ waiters[EndList(t)] # <<>>
  /\ waiters' = [waiters EXCEPT ![EndList(t)] = Tail(@)]
  /\ stat' = [stat EXCEPT ![Head(waiters[EndList(t)])] = "READY"]
  /\ error' = [error EXCEPT ![Head(waiters[EndList(t)])] = "ERROR"]
  /\ Goto(t, "end")
  /\ UNCHANGED <<object, flag, prio, armed, objectVars>>

\* The masked part of the loop.
EndWake(t) ==
  /\ at[t] \in {"wakeFirst", "wakeSecond"}
  /\ waiters[EndList(t)] # <<>>
  /\ Resume(EndList(t), {Head(waiters[EndList(t)])}, "ERROR")
  /\ Goto(t, "end")
  /\ UNCHANGED <<object, flag, prio, objectVars>>

\* The same, once a timeout has emptied the list: it takes the list itself for
\* a thread, and rt_thread_resume asserts that it is one.
EndFail(t) ==
  /\ at[t] \in {"wakeFirst", "wakeSecond"}
  /\ waiters[EndList(t)] = <<>>
  /\ Goto(t, "halt")
  /\ UNCHANGED <<object, flag, prio, threadVars, objectVars>>

EndOver(t) ==
  /\ at[t] = "end"
  /\ \A l \in ListsOf[object] : waiters[l] = <<>>
  /\ object' = None
  /\ Return(t)
  /\ UNCHANGED <<flag, prio, threadVars, objectVars>>

\* rt_xxx_init or rt_xxx_create of another object.
Create ==
  /\ object = None
  /\ \A t \in Thread : at[t] = "idle"
  /\ object' \in DOMAIN Uses
  /\ flag' \in {"PRIO", "FIFO"}
  /\ MutexFresh(owner', value', hold', original')
  /\ EventFresh(set', posted')
  /\ MailboxFresh(msgPool', inOffset', outOffset', mbEntry')
  /\ MessageQueueFresh(head', tail', free', link', data', mqEntry')
  /\ MemPoolFresh(blockList', freeCount', held')
  /\ UNCHANGED <<threadVars, prio, limit, at, eventSet, info, asked, mail, message,
                 cell>>

Next ==
  \/ /\ UseMutex \/ UseEvent \/ UseMailbox \/ UseQueue \/ UsePool
     /\ Open
     /\ UNCHANGED <<object, flag>>
  \/ \E t \in Thread : \/ Expire(t) \/ ReturnError(t)
                      \/ Detach(t) \/ EndTest(t) \/ EndWake(t) \/ EndFail(t) \/ EndOver(t)
  \/ Create
  \/ Halted /\ UNCHANGED vars

Spec == Init /\ [][Next]_vars

-----------------------------------------------------------------------------
(* Every variable holds values of its C type; the counters fit their ranges.*)
TypeOK ==
  /\ WaitingTypeOK
  /\ MutexTypeOK
  /\ EventTypeOK
  /\ MailboxTypeOK
  /\ MessageQueueTypeOK
  /\ MemPoolTypeOK

(* _ipc_list_suspend, _ipc_list_resume(_all) and rt_thread_timeout agree: a  *)
(* thread is suspended exactly while it is in one wait list, once; its      *)
(* timer runs only then, so that no timeout hits a thread that goes on; and *)
(* a list with RT_IPC_FLAG_PRIO has the most urgent waiter first.           *)
WaitListsExact ==
  /\ \A t \in Thread :
       /\ Cardinality({p \in List \X (1 .. Cardinality(Thread)) :
                         p[2] \in DOMAIN waiters[p[1]] /\ waiters[p[1]][p[2]] = t})
            = (IF stat[t] = "SUSPEND" THEN 1 ELSE 0)
       /\ armed[t] => stat[t] = "SUSPEND"
  /\ \A l \in List \ {"pool"} : flag = "PRIO" \/ l = "mutex" =>
       \A i, j \in DOMAIN waiters[l] : i < j => prio[waiters[l][i]] <= prio[waiters[l][j]]

(* rt_mutex_take and rt_mutex_release: no waiter of a mutex is more urgent  *)
(* than its owner runs, through any timeouts and hand-overs; whoever has no *)
(* mutex has its own priority back.                                         *)
MutexInheritance ==
  /\ \A t \in ToSet(waiters["mutex"]) : prio[owner] <= prio[t]
  /\ \A t \in Thread \ {owner} : prio[t] = BasePriority[t]

(* No thread sleeps in rt_event_recv while the events it waits for are      *)
(* there, whatever was sent, taken and cleared meanwhile.                   *)
EventsServed ==
  \A t \in ToSet(waiters["event"]) :
    IF info[t].all THEN ~(asked[t] \subseteq set) ELSE asked[t] \intersect set = {}

\* Waiters that a send wakes, and those of them that clear what they get.
Served  == {t \in ToSet(waiters["event"]) : stat'[t] = "READY" /\ error'[t] = "EOK"}
Takers  == {t \in Served : info[t].clear}

(* rt_event_send among several waiters:                                     *)
(* a waiter gets nothing but what it asked for and what happened, with      *)
(* RT_EVENT_FLAG_AND all of it; with RT_EVENT_FLAG_CLEAR no other such      *)
(* waiter gets the same; and every event is kept until somebody clears it.  *)
EventsTakenOnce ==
  [][posted' # {} /\ (posted' # posted \/ Served # {}) =>
       /\ \A t \in Served : /\ eventSet'[t] # {}
                            /\ eventSet'[t] \subseteq asked[t] \intersect posted'
                            /\ info[t].all => eventSet'[t] = asked[t]
       /\ \A t, u \in Takers : t # u => eventSet'[t] \intersect eventSet'[u] = {}
       /\ set' = posted' \ UNION {eventSet'[t] : t \in Takers}]_vars

MailboxChannel ==
  INSTANCE Channel WITH Item <- Mail, Capacity <- MbSize,
                        buffer <- MbContent, sending <- MbSending,
                        receiving <- MbReceiving

(* rt_mb_send_wait, rt_mb_urgent and rt_mb_recv implement a bounded channel:*)
(* a mailbox hands out every mail once and in order, and takes as many as   *)
(* it has room for, also when calls had to wait.                            *)
MailboxImplementsChannel == MailboxChannel!Spec

QueueChannel ==
  INSTANCE Channel WITH Item <- Message, Capacity <- Cardinality(Cell),
                        buffer <- MqContent, sending <- MqSending,
                        receiving <- MqReceiving

(* So do rt_mq_send_wait, rt_mq_urgent and rt_mq_recv, although cells are   *)
(* filled and copied without the lock and rt_mq_control may come between.   *)
QueueImplementsChannel == QueueChannel!Spec

(* No block of a pool and no cell of a message queue is lost or in two      *)
(* places: it is free, queued, or with one call; the counters agree.        *)
CellsExact ==
  /\ LET all == Chain(link, free) \o Chain(link, head)
         inHand == {c \in Context : cell[c] # None}
     IN  /\ ToSet(all) \union {cell[c] : c \in inHand} = Cell
         /\ Len(all) + Cardinality(inHand) = Cardinality(Cell)
         /\ Len(Chain(link, head)) = mqEntry
         /\ head # None => tail = Last(Chain(link, head))
  /\ /\ ToSet(blockList) \union held = Block
     /\ Len(blockList) + Cardinality(held) = Cardinality(Block)
     /\ Len(blockList) = freeCount

\* Threads woken for what list l waits for that have yet to look for it, and
\* calls that made it available and have yet to wake one.
OnTheWay(l) ==
  LET waking == CASE l = "mbRecv" -> {"mbOut", "mbCountDown", "mbWakeRecv"}
                  [] l = "mbSend" -> {"mbStore", "mbIn", "mbCountUp", "mbWakeSend"}
                  [] OTHER -> {}
  IN  {c \in Context : at[c] \in waking \/ (c \in Thread /\ Woken(c, l))}

\* How much of it there is.
Available(l) ==
  CASE l = "mbRecv" -> mbEntry
    [] l = "mbSend" -> MbSize - mbEntry
    [] l = "mqRecv" -> mqEntry
    [] l = "mqSend" -> Len(Chain(link, free))
    [] OTHER        -> freeCount

(* No wake-up is lost: while a thread sleeps for mail, room, a message, a   *)
(* cell or a block, all there is of it has a woken thread on its way to it. *)
NoneForgotten ==
  \A l \in List \ {"mutex", "event"} :
    waiters[l] # <<>> => Available(l) <= Cardinality(OnTheWay(l))

(* A mailbox never counts more mails than it has slots: a sender that finds *)
(* it full waits, also when it was woken before.                            *)
MailboxBounded == mbEntry <= MbSize
=============================================================================
