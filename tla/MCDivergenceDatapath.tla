-------------------------- MODULE MCDivergenceDatapath --------------------------
(* One node; two pixels are enough to mix up their constants.              *)
EXTENDS DivergenceDatapath

MCNode == {0}
MCPoint == {"p0", "p1"}
MCOrigin == "p0"
=============================================================================
