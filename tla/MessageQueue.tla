---------------------------- MODULE MessageQueue ----------------------------
(***************************************************************************)
(* rt_mq_send_wait, rt_mq_urgent, rt_mq_recv and RT_IPC_CMD_RESET           *)
(* (rt-thread/ipc.c).  Cells of the queue's pool are in its free list, in   *)
(* its message list, or with a context that fills or empties one: it does   *)
(* so between two locked sections, with interrupts on.                      *)
(***************************************************************************)
EXTENDS Waiting

CONSTANTS
  Cell,    \* the cells of mq->msg_pool
  Message  \* the contents sent

ASSUME MessageQueueConstants ==
  /\ IsFiniteSet(Cell) /\ Cell # {}
  /\ None \notin Cell \union Message

VARIABLES
  head,    \* mq->msg_queue_head
  tail,    \* mq->msg_queue_tail
  free,    \* mq->msg_queue_free
  link,    \* msg->next of each cell
  data,    \* what rt_memcpy wrote behind it
  mqEntry, \* mq->entry
  cell,    \* msg of a call that is between its two sections
  message  \* the buffer of a sending call that waits or waited

messageQueueVars == <<head, tail, free, link, data, mqEntry, cell, message>>

\* The cells from a first one on, by the links next.
Chain(next, first) ==
  LET nth[i \in 0 .. Cardinality(Cell)] ==
        IF i = 0 THEN first
        ELSE IF nth[i - 1] = None THEN None ELSE next[nth[i - 1]]
      length == Cardinality({i \in 0 .. Cardinality(Cell) : nth[i] # None})
  IN  [i \in 1 .. length |-> nth[i - 1]]

\* rt_mq_init, rt_mq_create: every cell is in the free list.
MessageQueueFresh(h, t, f, ln, d, entry) ==
  LET order == CHOOSE s \in SetToSeqs(Cell) : TRUE
      Next1(m) == LET i == CHOOSE j \in DOMAIN order : order[j] = m
                  IN  IF i = Len(order) THEN None ELSE order[i + 1]
  IN
  /\ h = None
  /\ t = None
  /\ f = order[1]
  /\ ln = [m \in Cell |-> Next1(m)]
  /\ d = [m \in Cell |-> None]
  /\ entry = 0

-----------------------------------------------------------------------------
(* Sending *)

\* The caller comes with message v, or tries again with it after a wait.
Sender(c, v) ==
  \/ Idle(c)
  \/ c \in Thread /\ Woken(c, "mqSend") /\ v = message[c]

\* First section: a free cell.  Then it is filled, without the lock.
MqTake(c, v, urgent) ==
  /\ Sender(c, v)
  /\ urgent => Idle(c)
  /\ free # None
  /\ cell' = [cell EXCEPT ![c] = free]
  /\ free' = link[free]
  /\ data' = [data EXCEPT ![free] = v]
  /\ link' = IF urgent THEN link ELSE [link EXCEPT ![free] = None]
  /\ message' = [message EXCEPT ![c] = v]
  /\ Goto(c, IF urgent THEN "mqUrgent" ELSE "mqFill")
  /\ UNCHANGED <<head, tail, mqEntry, threadVars>>

\* No cell: the call waits, for the first time or again.
MqSendWait(t, v, lim) ==
  /\ Sender(t, v)
  /\ Woken(t, "mqSend") => lim \in Remaining(t)
  /\ free = None
  /\ message' = [message EXCEPT ![t] = v]
  /\ Wait(t, "mqSend", Place("mqSend", t), lim)
  /\ UNCHANGED <<head, tail, free, link, data, mqEntry, cell>>

\* Second section: the cell goes to the end of the message list.
MqLink(c) ==
  LET m == cell[c] IN
  /\ at[c] = "mqFill"
  /\ link' = IF tail # None THEN [link EXCEPT ![tail] = m] ELSE link
  /\ tail' = m
  /\ head' = IF head = None THEN m ELSE head
  /\ mqEntry' = mqEntry + 1
  /\ ResumeFirst("mqRecv")
  /\ cell' = [cell EXCEPT ![c] = None]
  /\ message' = [message EXCEPT ![c] = None]
  /\ Return(c)
  /\ UNCHANGED <<free, data>>

\* Mutant: the only message is not the last one.
MqLinkUrgentOnly(c) ==
  LET m == cell[c] IN
  /\ at[c] = "mqUrgent"
  /\ link' = [link EXCEPT ![m] = head]
  /\ head' = m
  /\ mqEntry' = mqEntry + 1
  /\ ResumeFirst("mqRecv")
  /\ cell' = [cell EXCEPT ![c] = None]
  /\ message' = [message EXCEPT ![c] = None]
  /\ Return(c)
  /\ UNCHANGED <<tail, free, data>>

\* The same for rt_mq_urgent: to the front.
MqLinkUrgent(c) ==
  LET m == cell[c] IN
  /\ at[c] = "mqUrgent"
  /\ link' = [link EXCEPT ![m] = head]
  /\ head' = m
  /\ tail' = IF tail = None THEN m ELSE tail
  /\ mqEntry' = mqEntry + 1
  /\ ResumeFirst("mqRecv")
  /\ cell' = [cell EXCEPT ![c] = None]
  /\ message' = [message EXCEPT ![c] = None]
  /\ Return(c)
  /\ UNCHANGED <<free, data>>

-----------------------------------------------------------------------------
(* Receiving *)

\* First section: the first cell.  Then it is copied, without the lock.
MqUnlink(c) ==
  /\ Idle(c) \/ (c \in Thread /\ Woken(c, "mqRecv"))
  /\ mqEntry > 0
  /\ cell' = [cell EXCEPT ![c] = head]
  /\ head' = link[head]
  /\ tail' = IF tail = head THEN None ELSE tail
  /\ mqEntry' = mqEntry - 1
  /\ Goto(c, "mqCopy")
  /\ UNCHANGED <<free, link, data, message, threadVars>>

MqRecvWait(t, lim) ==
  /\ Idle(t) \/ (Woken(t, "mqRecv") /\ lim \in Remaining(t))
  /\ mqEntry = 0
  /\ Wait(t, "mqRecv", Place("mqRecv", t), lim)
  /\ UNCHANGED messageQueueVars

\* Second section: the cell is free again.
MqFree(c) ==
  LET m == cell[c] IN
  /\ at[c] = "mqCopy"
  /\ link' = [link EXCEPT ![m] = free]
  /\ free' = m
  /\ ResumeFirst("mqSend")
  /\ cell' = [cell EXCEPT ![c] = None]
  /\ Return(c)
  /\ UNCHANGED <<head, tail, data, mqEntry, message>>

-----------------------------------------------------------------------------
\* Woken, but others were faster and no time is left.
MqTooLate(t) ==
  /\ \/ Woken(t, "mqSend") /\ free = None
     \/ Woken(t, "mqRecv") /\ mqEntry = 0
  /\ "zero" \in Remaining(t)
  /\ message' = [message EXCEPT ![t] = None]
  /\ Return(t)
  /\ UNCHANGED <<head, tail, free, link, data, mqEntry, cell, threadVars>>

\* Mutant: the messages are forgotten, their cells not freed.
MqResetLeaking(c) ==
  /\ Idle(c)
  /\ ResumeAll({"mqRecv", "mqSend"})
  /\ head' = None
  /\ tail' = None
  /\ mqEntry' = 0
  /\ UNCHANGED <<free, link, data, cell, message, limit, at>>

\* Interrupts masked, no lock: one by one the messages' cells are freed.
MqReset(c) ==
  LET queued == Chain(link, head) IN
  /\ Idle(c)
  /\ ResumeAll({"mqRecv", "mqSend"})
  /\ link' = [m \in Cell |->
                IF m \notin ToSet(queued) THEN link[m]
                ELSE IF m = queued[1] THEN free
                ELSE CHOOSE p \in ToSet(queued) : link[p] = m]
  /\ free' = IF queued = <<>> THEN free ELSE Last(queued)
  /\ head' = None
  /\ tail' = IF tail \in ToSet(queued) THEN None ELSE tail
  /\ mqEntry' = 0
  /\ UNCHANGED <<data, cell, message, limit, at>>

MessageQueueNext ==
  \/ \E c \in Context : \/ \E v \in Message, urgent \in BOOLEAN : MqTake(c, v, urgent)
                        \/ MqLink(c)
                        \/ MqLinkUrgent(c)
                        \/ MqUnlink(c)
                        \/ MqFree(c)
                        \/ MqReset(c)
  \/ \E t \in Thread :
       \/ \E lim \in Limits : \/ \E v \in Message : MqSendWait(t, v, lim)
                             \/ MqRecvWait(t, lim)
       \/ MqTooLate(t)

MessageQueueTypeOK ==
  /\ {head, tail, free} \subseteq Cell \union {None}
  /\ link \in [Cell -> Cell \union {None}]
  /\ data \in [Cell -> Message \union {None}]
  /\ mqEntry \in 0 .. Cardinality(Cell)
  /\ cell \in [Context -> Cell \union {None}]
  /\ message \in [Context -> Message \union {None}]

\* The messages in the queue, from the next one to be received.
MqContent ==
  LET queued == Chain(link, head) IN [i \in DOMAIN queued |-> data[queued[i]]]

\* A message that has its cell but is not linked, and one that is copied out.
MqSending == [c \in Context |-> IF at[c] \in {"mqFill", "mqUrgent"}
                                THEN message[c] ELSE None]
MqReceiving == [c \in Context |-> IF at[c] = "mqCopy" THEN data[cell[c]] ELSE None]
=============================================================================
