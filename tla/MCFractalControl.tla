--------------------------- MODULE MCFractalControl ---------------------------
(* A screen of 3 x 2 pixels and 3-bit numbers: the real part wraps along a  *)
(* row, as it does in the code on its way from -2 to 2.                     *)
EXTENDS FractalControl
=============================================================================
