------------------------------ MODULE MCTimer ------------------------------
(***************************************************************************)
(* Instances of Timer for TLC: a tick of eight values, so that it wraps     *)
(* within a few time-outs and timers on both sides of the wrap are in the   *)
(* list together.                                                           *)
(***************************************************************************)
EXTENDS Timer, TLC

CONSTANTS x, y, z
=============================================================================
