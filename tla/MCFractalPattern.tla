---------------------------- MODULE MCFractalPattern ----------------------------
(* A memory of two words, each of them a pixel of the picture; the one at   *)
(* address 0 is also where READ and the unread output register point.       *)
EXTENDS FractalPattern

MCPoint == 0 .. ADDRESSES - 1
=============================================================================
