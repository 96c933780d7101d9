------------------------------ MODULE MCTimer ------------------------------
(***************************************************************************)
(* Small instances of Timer: two threads and the CPU, a time of few ticks. *)
(***************************************************************************)
EXTENDS Timer

CONSTANTS t1, t2, cpu0

===========================================================================
