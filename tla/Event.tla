------------------------------- MODULE Event -------------------------------
(***************************************************************************)
(* rt_event_send, rt_event_recv and RT_IPC_CMD_RESET (rt-thread/ipc.c).     *)
(* A set of events is a subset of Bit instead of a 32-bit word.             *)
(***************************************************************************)
EXTENDS Waiting

CONSTANT Bit \* the events

VARIABLES
  set,      \* event->set
  eventSet, \* thread->event_set: what the thread waits for, then what it got
  info,     \* thread->event_info: RT_EVENT_FLAG_AND or OR, and CLEAR
  asked,    \* the set a waiting call asked for: its argument
  posted    \* event->set in the last call, if that was a send, before the
            \* waiters took theirs

eventVars == <<set, eventSet, info, asked, posted>>

Info == [all : BOOLEAN, clear : BOOLEAN]
NoInfo == [all |-> FALSE, clear |-> FALSE]

\* rt_event_init, rt_event_create
EventFresh(s, p) == s = {} /\ p = {}

\* What the option asks for is there.
Satisfied(all, want, have) ==
  IF all THEN want \subseteq have ELSE want \intersect have # {}

-----------------------------------------------------------------------------
(* rt_event_send goes through the waiters in their order, each sees what     *)
(* the ones before it left.                                                  *)

\* The events left once the first i waiters have been looked at.
Left(sent) ==
  LET queue == waiters["event"]
      left[i \in 0 .. Len(queue)] ==
        IF i = 0 THEN set \union sent
        ELSE LET t == queue[i] IN
             IF info[t].clear /\ Satisfied(info[t].all, eventSet[t], left[i - 1])
             THEN left[i - 1] \ eventSet[t]
             ELSE left[i - 1]
  IN  left

\* Mutant: the search ends at the first waiter that is satisfied.
ToWakeFirst(left) ==
  LET queue == waiters["event"]
      hit   == {i \in DOMAIN queue :
                  Satisfied(info[queue[i]].all, eventSet[queue[i]], left[i - 1])}
  IN  {i \in hit : \A j \in hit : i <= j}

\* The places of the waiters that are satisfied by what they are shown.
ToWake(left) ==
  LET queue == waiters["event"] IN
  {i \in DOMAIN queue : Satisfied(info[queue[i]].all, eventSet[queue[i]], left[i - 1])}

\* Mutant: an OR waiter is told of all it asked for, not of what happened.
GotAll(t, have) == eventSet[t]

\* What waiter t gets of the events it is shown.
Got(t, have) == IF info[t].all THEN eventSet[t] ELSE eventSet[t] \intersect have

EventSend(c, sent) ==
  LET queue  == waiters["event"]
      left   == Left(sent)
      places == ToWake(left)
      Place1(t) == CHOOSE i \in DOMAIN queue : queue[i] = t
      served == {queue[i] : i \in places}
  IN
  /\ Idle(c)
  /\ sent # {}
  /\ posted' = set \union sent
  /\ set' = left[Len(queue)]
  /\ eventSet' = [t \in Thread |-> IF t \in served THEN Got(t, left[Place1(t) - 1])
                                                   ELSE eventSet[t]]
  /\ Resume("event", served, "EOK")
  /\ UNCHANGED <<info, asked, limit, at>>

-----------------------------------------------------------------------------
(* rt_event_recv *)

\* Satisfied at once; thread->event_set is not used again.
EventRecv(t, want, how) ==
  /\ Idle(t)
  /\ want # {}
  /\ Satisfied(how.all, want, set)
  /\ posted' = {}
  /\ set' = IF how.clear THEN set \ want ELSE set
  /\ UNCHANGED <<eventSet, info, asked, threadVars, limit, at>>

EventWait(t, want, how, lim) ==
  /\ Idle(t)
  /\ want # {}
  /\ ~Satisfied(how.all, want, set)
  /\ eventSet' = [eventSet EXCEPT ![t] = want]
  /\ info' = [info EXCEPT ![t] = how]
  /\ asked' = [asked EXCEPT ![t] = want]
  /\ posted' = {}
  /\ Wait(t, "event", Place("event", t), lim)
  /\ UNCHANGED set

\* Back from the wait, the events are the thread's; the two unlocks behind
\* rt_schedule free nothing on one hart.
EventReturn(t) ==
  /\ Woken(t, "event")
  /\ posted' = {}
  /\ eventSet' = [eventSet EXCEPT ![t] = {}]
  /\ info' = [info EXCEPT ![t] = NoInfo]
  /\ asked' = [asked EXCEPT ![t] = {}]
  /\ Return(t)
  /\ UNCHANGED <<set, threadVars>>

\* rt_event_control(event, RT_IPC_CMD_RESET)
EventReset(c) ==
  /\ Idle(c)
  /\ ResumeAll({"event"})
  /\ set' = {}
  /\ posted' = {}
  /\ UNCHANGED <<eventSet, info, asked, limit, at>>

EventNext ==
  \/ \E c \in Context : \/ \E sent \in SUBSET Bit : EventSend(c, sent)
                        \/ EventReset(c)
  \/ \E t \in Thread :
       \/ \E want \in SUBSET Bit, how \in Info :
            \/ EventRecv(t, want, how)
            \/ \E lim \in Limits : EventWait(t, want, how, lim)
       \/ EventReturn(t)

EventTypeOK ==
  /\ set \subseteq Bit
  /\ eventSet \in [Thread -> SUBSET Bit]
  /\ info \in [Thread -> Info]
  /\ asked \in [Thread -> SUBSET Bit]
  /\ posted \subseteq Bit
=============================================================================
