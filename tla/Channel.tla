------------------------------ MODULE Channel ------------------------------
(***************************************************************************)
(* What a mailbox and a message queue promise: a bounded buffer that hands  *)
(* out each accepted item once, in the order of acceptance, urgent ones     *)
(* first.  A sender may have an item on its way in, which it can no longer  *)
(* take back, and a receiver one on its way out.                            *)
(***************************************************************************)
EXTENDS Naturals, Sequences

CONSTANTS Context,  \* who sends and receives
          Item,     \* what is sent
          None,     \* nothing on its way
          Capacity  \* how many items the buffer holds

VARIABLES buffer,   \* the accepted items
          sending,  \* the item each context is about to add
          receiving \* the item each context just took

vars == <<buffer, sending, receiving>>

Init ==
  /\ buffer = <<>>
  /\ sending = [c \in Context |-> None]
  /\ receiving = [c \in Context |-> None]

AddLast(item)  == Len(buffer) < Capacity /\ buffer' = Append(buffer, item)
AddFirst(item) == Len(buffer) < Capacity /\ buffer' = <<item>> \o buffer
Remove         == buffer # <<>> /\ buffer' = Tail(buffer)

\* Sending and receiving in one step.
Send(item)   == AddLast(item) /\ UNCHANGED <<sending, receiving>>
Urgent(item) == AddFirst(item) /\ UNCHANGED <<sending, receiving>>
Receive      == Remove /\ UNCHANGED <<sending, receiving>>

\* Sending in two steps.
Offer(c) ==
  /\ sending[c] = None
  /\ \E item \in Item : sending' = [sending EXCEPT ![c] = item]
  /\ UNCHANGED <<buffer, receiving>>

Put(c) ==
  /\ sending[c] # None
  /\ AddLast(sending[c]) \/ AddFirst(sending[c])
  /\ sending' = [sending EXCEPT ![c] = None]
  /\ UNCHANGED receiving

\* Receiving in two steps; the item stays what it was in between.
Get(c) ==
  /\ receiving[c] = None
  /\ Remove
  /\ receiving' = [receiving EXCEPT ![c] = Head(buffer)]
  /\ UNCHANGED sending

Deliver(c) ==
  /\ receiving[c] # None
  /\ receiving' = [receiving EXCEPT ![c] = None]
  /\ UNCHANGED <<buffer, sending>>

Clear == buffer' = <<>> /\ UNCHANGED <<sending, receiving>>

Next ==
  \/ \E item \in Item : Send(item) \/ Urgent(item)
  \/ Receive
  \/ \E c \in Context : Offer(c) \/ Put(c) \/ Get(c) \/ Deliver(c)
  \/ Clear

Spec == Init /\ [][Next]_vars
=============================================================================
