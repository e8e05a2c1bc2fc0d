------------------------------- MODULE MCDpcLoop -------------------------------
(***************************************************************************)
(* DpcLoop with the DPC of the event channel and the watchdog.             *)
(***************************************************************************)
EXTENDS DpcLoop

CONSTANTS d1, w1

MCDpcs == {d1}
MCTimers == {w1}
===============================================================================
