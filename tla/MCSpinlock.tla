---------------------------- MODULE MCSpinlock ----------------------------
(***************************************************************************)
(* Instances of Spinlock for TLC: two harts, two threads on the first one.  *)
(***************************************************************************)
EXTENDS Spinlock, TLC

CONSTANTS t1, t2, t3, h1, h2

MCThread == {t1, t2, t3}
MCHart   == {h1, h2}
MCHartOf == (t1 :> h1) @@ (t2 :> h1) @@ (t3 :> h2)
MCFirst  == (h1 :> t1) @@ (h2 :> t3)

\* t2 may preempt t1, not the other way round.
MCUrgentT2 == (t1 :> 1) @@ (t2 :> 0) @@ (t3 :> 0)
\* One priority: time slices only.
MCEqual    == [t \in MCThread |-> 0]
===========================================================================
