------------------------------ MODULE MCSched ------------------------------
(***************************************************************************)
(* Three user processes, as kmain starts them, and slices of two ticks.    *)
(***************************************************************************)
EXTENDS Sched
=============================================================================
