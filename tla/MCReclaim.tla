----------------------------- MODULE MCReclaim -----------------------------
(***************************************************************************)
(* An instance of Reclaim for TLC: a heap that holds one thread and a       *)
(* buffer, or two threads, but seldom both.                                 *)
(***************************************************************************)
EXTENDS Reclaim

CONSTANTS t1, t2, d1, d2

FewSizes == {2,5}
=============================================================================
