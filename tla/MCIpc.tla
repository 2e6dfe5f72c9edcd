------------------------------- MODULE MCIpc -------------------------------
(***************************************************************************)
(* Instances of Ipc for TLC: three threads, one handler, two of whatever    *)
(* an object holds.                                                         *)
(***************************************************************************)
EXTENDS Ipc

CONSTANTS t1, t2, t3, isr

\* Three levels, so that a priority can be inherited twice.
ThreeLevels == (t1 :> 0) @@ (t2 :> 1) @@ (t3 :> 2)
\* Who uses which object: three threads where two wait for one (mutex,
\* mailbox, pool), two and a handler for the event and the queue.
AllObjects == [mutex   |-> {t1, t2, t3},
               event   |-> {t1, t2, isr},
               mailbox |-> {t1, t2, t3},
               queue   |-> {t1, t2, isr},
               pool    |-> {t1, t2, t3, isr}]

\* Senders and receivers of a mailbox that may come in between.
MailboxOnly == [mailbox |-> {t1, t2, isr}]
=============================================================================
