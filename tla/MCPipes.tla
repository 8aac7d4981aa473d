-------------------------------- MODULE MCPipes --------------------------------
(* One pixel value: the control of the pipes does not look at the data.    *)
EXTENDS Pipes

MCPoint == {"p0"}
MCOrigin == "p0"
=============================================================================
