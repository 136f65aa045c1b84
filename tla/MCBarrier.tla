----------------------------- MODULE MCBarrier -----------------------------
(* Model of the likwid-bench barrier for TLC. *)
EXTENDS Barrier, TLC
=============================================================================
