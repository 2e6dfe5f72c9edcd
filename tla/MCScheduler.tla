---------------------------- MODULE MCScheduler ----------------------------
(***************************************************************************)
(* The instance of Scheduler for TLC: the idle thread and two others on two *)
(* or three priority levels, so that preemption, turns at one level and the *)
(* idle level all occur.                                                    *)
(***************************************************************************)
EXTENDS Scheduler, TLC

CONSTANTS idle, a, b

TwoThreads == {idle, a, b}
Priorities == [t \in Thread |-> IF t = idle THEN Levels - 1 ELSE 0]
============================================================================
