------------------------- MODULE MCSignalReceiver -------------------------
(***************************************************************************)
(* Small instances of SignalReceiver: threads t1, t2 and contexts x1, x2   *)
(* at one receiver r.                                                      *)
(***************************************************************************)
EXTENDS SignalReceiver

CONSTANTS t1, t2, x1, x2, r1

OneReceiver == [c \in Context |-> r1]

===========================================================================
