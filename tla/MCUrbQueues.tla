------------------------------ MODULE MCUrbQueues ------------------------------
(***************************************************************************)
(* UrbQueues with a ring of two entries, so that transfers find it full.   *)
(***************************************************************************)
EXTENDS UrbQueues

CONSTANTS t1, t2, s1, l1, p1

===============================================================================
