------------------------------ MODULE Mailbox ------------------------------
(***************************************************************************)
(* rt_mb_send_wait, rt_mb_urgent, rt_mb_recv and RT_IPC_CMD_RESET           *)
(* (rt-thread/ipc.c): a ring of mails with waiting senders and receivers.   *)
(*                                                                         *)
(* A call that need not wait is one section under the spin lock.  One that  *)
(* waited does the rest without the lock and with interrupts on (the code   *)
(* calls rt_spin_unlock where it means to lock), so each of its accesses to *)
(* the mailbox is a step of its own.                                        *)
(***************************************************************************)
EXTENDS Waiting

CONSTANTS
  MbSize,  \* mb->size
  Mail     \* the values sent

ASSUME MailboxConstants == MbSize \in Nat \ {0} /\ None \notin Mail

VARIABLES
  msgPool,   \* mb->msg_pool
  inOffset,  \* mb->in_offset
  outOffset, \* mb->out_offset
  mbEntry,   \* mb->entry
  mail       \* the value of a call that waits or waited

mailboxVars == <<msgPool, inOffset, outOffset, mbEntry, mail>>

\* A context that works on the mailbox without its lock.
Unlocked == {"mbSendAgain", "mbStore", "mbIn", "mbCountUp", "mbWakeRecv",
             "mbRecvAgain", "mbOut", "mbCountDown", "mbWakeSend"}

\* rt_mb_init, rt_mb_create
MailboxFresh(pool, in, out, entry) ==
  /\ pool = [i \in 0 .. MbSize - 1 |-> None]
  /\ in = 0
  /\ out = 0
  /\ entry = 0

Full  == mbEntry = MbSize

\* Mutant: the offset runs one slot past the end before it wraps.
AfterOffByOne(offset) == IF offset > MbSize THEN 0 ELSE offset + 1

After(offset)  == IF offset + 1 >= MbSize THEN 0 ELSE offset + 1
Before(offset) == IF offset > 0 THEN offset - 1 ELSE MbSize - 1

-----------------------------------------------------------------------------
(* One locked section. *)

MbSend(c, v) ==
  /\ Idle(c)
  /\ ~Full
  /\ msgPool' = [msgPool EXCEPT ![inOffset] = v]
  /\ inOffset' = After(inOffset)
  /\ mbEntry' = mbEntry + 1
  /\ ResumeFirst("mbRecv")
  /\ UNCHANGED <<outOffset, mail, limit, at>>

MbSendWait(t, v, lim) ==
  /\ Idle(t)
  /\ Full
  /\ mail' = [mail EXCEPT ![t] = v]
  /\ Wait(t, "mbSend", Place("mbSend", t), lim)
  /\ UNCHANGED <<msgPool, inOffset, outOffset, mbEntry>>

MbUrgent(c, v) ==
  /\ Idle(c)
  /\ ~Full
  /\ outOffset' = Before(outOffset)
  /\ msgPool' = [msgPool EXCEPT ![outOffset'] = v]
  /\ mbEntry' = mbEntry + 1
  /\ ResumeFirst("mbRecv")
  /\ UNCHANGED <<inOffset, mail, limit, at>>

\* Mutant: no sender is told that there is room.
MbRecvSilent(c) ==
  /\ Idle(c)
  /\ mbEntry > 0
  /\ outOffset' = After(outOffset)
  /\ mbEntry' = mbEntry - 1
  /\ UNCHANGED <<msgPool, inOffset, mail, threadVars, limit, at>>

MbRecv(c) ==
  /\ Idle(c)
  /\ mbEntry > 0
  /\ outOffset' = After(outOffset)
  /\ mbEntry' = mbEntry - 1
  /\ ResumeFirst("mbSend")
  /\ UNCHANGED <<msgPool, inOffset, mail, limit, at>>

MbRecvWait(t, lim) ==
  /\ Idle(t)
  /\ mbEntry = 0
  /\ Wait(t, "mbRecv", Place("mbRecv", t), lim)
  /\ UNCHANGED mailboxVars

\* Interrupts masked, no lock.
MbReset(c) ==
  /\ Idle(c)
  /\ ResumeAll({"mbRecv", "mbSend"})
  /\ mbEntry' = 0
  /\ inOffset' = 0
  /\ outOffset' = 0
  /\ UNCHANGED <<msgPool, mail, limit, at>>

-----------------------------------------------------------------------------
(* A sender behind its wait. *)

\* The loop's test: there is room, or no time is left, or wait again.
MbSendRetest(t) ==
  /\ Woken(t, "mbSend")
  /\ \E lim \in Remaining(t) :
       IF ~Full THEN Goto(t, "mbStore") /\ UNCHANGED mail
       ELSE IF lim = "zero" THEN Return(t) /\ mail' = [mail EXCEPT ![t] = None]
       ELSE /\ at' = [at EXCEPT ![t] = "mbSendAgain"]
            /\ limit' = [limit EXCEPT ![t] = lim]
            /\ UNCHANGED mail
  /\ UNCHANGED <<msgPool, inOffset, outOffset, mbEntry, threadVars>>

MbSendAgain(t) ==
  /\ at[t] = "mbSendAgain"
  /\ Wait(t, "mbSend", Place("mbSend", t), limit[t])
  /\ UNCHANGED mailboxVars

MbStore(t) ==
  /\ at[t] = "mbStore"
  /\ msgPool' = [msgPool EXCEPT ![inOffset] = mail[t]]
  /\ Goto(t, "mbIn")
  /\ UNCHANGED <<inOffset, outOffset, mbEntry, mail, threadVars>>

MbIn(t) ==
  /\ at[t] = "mbIn"
  /\ inOffset' = After(inOffset)
  /\ Goto(t, "mbCountUp")
  /\ UNCHANGED <<msgPool, outOffset, mbEntry, mail, threadVars>>

MbCountUp(t) ==
  /\ at[t] = "mbCountUp"
  /\ mbEntry' = mbEntry + 1
  /\ mail' = [mail EXCEPT ![t] = None]
  /\ Goto(t, "mbWakeRecv")
  /\ UNCHANGED <<msgPool, inOffset, outOffset, threadVars>>

MbWakeRecv(t) ==
  /\ at[t] = "mbWakeRecv"
  /\ ResumeFirst("mbRecv")
  /\ Return(t)
  /\ UNCHANGED mailboxVars

-----------------------------------------------------------------------------
(* A receiver behind its wait. *)

\* Mutant: the mailbox is not tested again.
MbRecvTrusting(t) ==
  /\ Woken(t, "mbRecv")
  /\ mail' = [mail EXCEPT ![t] = msgPool[outOffset]]
  /\ Goto(t, "mbOut")
  /\ UNCHANGED <<msgPool, inOffset, outOffset, mbEntry, threadVars>>

\* The loop's test; with a mail there, it is read.
MbRecvRetest(t) ==
  /\ Woken(t, "mbRecv")
  /\ \E lim \in Remaining(t) :
       IF mbEntry > 0 THEN /\ mail' = [mail EXCEPT ![t] = msgPool[outOffset]]
                           /\ Goto(t, "mbOut")
       ELSE /\ IF lim = "zero" THEN Return(t)
               ELSE /\ at' = [at EXCEPT ![t] = "mbRecvAgain"]
                    /\ limit' = [limit EXCEPT ![t] = lim]
            /\ UNCHANGED mail
  /\ UNCHANGED <<msgPool, inOffset, outOffset, mbEntry, threadVars>>

MbRecvAgain(t) ==
  /\ at[t] = "mbRecvAgain"
  /\ Wait(t, "mbRecv", Place("mbRecv", t), limit[t])
  /\ UNCHANGED mailboxVars

MbOut(t) ==
  /\ at[t] = "mbOut"
  /\ outOffset' = After(outOffset)
  /\ Goto(t, "mbCountDown")
  /\ UNCHANGED <<msgPool, inOffset, mbEntry, mail, threadVars>>

MbCountDown(t) ==
  /\ at[t] = "mbCountDown"
  /\ mbEntry' = IF mbEntry > 0 THEN mbEntry - 1 ELSE 0
  /\ mail' = [mail EXCEPT ![t] = None]
  /\ Goto(t, "mbWakeSend")
  /\ UNCHANGED <<msgPool, inOffset, outOffset, threadVars>>

MbWakeSend(t) ==
  /\ at[t] = "mbWakeSend"
  /\ ResumeFirst("mbSend")
  /\ Return(t)
  /\ UNCHANGED mailboxVars

-----------------------------------------------------------------------------
MailboxNext ==
  \/ \E c \in Context : \/ \E v \in Mail : MbSend(c, v) \/ MbUrgent(c, v)
                        \/ MbRecv(c)
                        \/ MbReset(c)
  \/ \E t \in Thread :
       \/ \E lim \in Limits : \/ \E v \in Mail : MbSendWait(t, v, lim)
                             \/ MbRecvWait(t, lim)
       \/ MbSendRetest(t) \/ MbSendAgain(t)
       \/ MbStore(t) \/ MbIn(t) \/ MbCountUp(t) \/ MbWakeRecv(t)
       \/ MbRecvRetest(t) \/ MbRecvAgain(t)
       \/ MbOut(t) \/ MbCountDown(t) \/ MbWakeSend(t)

MailboxTypeOK ==
  /\ msgPool \in [0 .. MbSize - 1 -> Mail \union {None}]
  /\ inOffset \in 0 .. MbSize - 1
  /\ outOffset \in 0 .. MbSize - 1
  /\ mbEntry \in Nat
  /\ mail \in [Context -> Mail \union {None}]

\* A receiver that moved the offset and has yet to count.
Leaving == Cardinality({t \in Thread : at[t] = "mbCountDown"})

\* The mails in the ring, from the next one to be received.
MbContent == [i \in 1 .. mbEntry - Leaving |-> msgPool[(outOffset + i - 1) % MbSize]]

\* A mail that has its slot but is not counted yet, and one that is no longer.
MbSending == [c \in Context |-> IF at[c] \in {"mbStore", "mbIn", "mbCountUp"}
                                THEN mail[c] ELSE None]
MbReceiving == [c \in Context |-> IF at[c] = "mbCountDown" THEN mail[c] ELSE None]
=============================================================================
