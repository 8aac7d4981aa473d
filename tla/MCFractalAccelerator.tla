-------------------------- MODULE MCFractalAccelerator --------------------------
(* Two pixels, to tell a pixel that is lost from one that is duplicated.   *)
EXTENDS FractalAccelerator

MCPoint == {"p0", "p1"}
MCOrigin == "p0"
=============================================================================
