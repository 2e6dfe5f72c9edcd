---------------------------- MODULE MCSemaphore ----------------------------
(***************************************************************************)
(* Instances of Semaphore for TLC: three threads of two priorities on one   *)
(* hart, or one thread on each of two harts.                                *)
(***************************************************************************)
EXTENDS Semaphore, TLC

CONSTANTS t1, t2, t3, h1, h2

\* One hart: t1 is the most urgent, t2 and t3 take turns.
OneHart       == [t \in {t1, t2, t3} |-> h1]
OneHartLevels == (t1 :> 0) @@ (t2 :> 1) @@ (t3 :> 1)

\* Two harts: t1 on the one with the tick, t2 on the other.
TwoHarts      == (t1 :> h1) @@ (t2 :> h2)
TwoHartLevels == (t1 :> 0) @@ (t2 :> 0)
=============================================================================
