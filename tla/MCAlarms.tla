-------------------------------- MODULE MCAlarms --------------------------------
(***************************************************************************)
(* Alarms with a clock more urgent than another device, and a tick counter *)
(* that wraps at 4.                                                        *)
(***************************************************************************)
EXTENDS Alarms

CONSTANTS a1, a2

=============================================================================
