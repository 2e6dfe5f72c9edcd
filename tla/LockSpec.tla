------------------------------ MODULE LockSpec ------------------------------
(***************************************************************************)
(* What a lock of the kernel promises its callers, whatever the bit-level   *)
(* protocol: it is free or held by one execution context, it is taken only  *)
(* when it is free and given back only by its holder.                       *)
(***************************************************************************)
CONSTANTS Context,   \* the execution contexts that use the lock
          Free       \* the value of holder, not a context, when nobody has the lock

VARIABLE holder

Init == holder = Free

Take(c) == /\ holder = Free
           /\ holder' = c

Give(c) == /\ holder = c
           /\ holder' = Free

Next == \E c \in Context : Take(c) \/ Give(c)

Spec == Init /\ [][Next]_holder
=============================================================================
