------------------------------- MODULE MCJtagUart -------------------------------
(***************************************************************************)
(* JtagUart with a ring of three slots, small enough to wrap and to fill   *)
(* within the characters that are sent.                                    *)
(***************************************************************************)
EXTENDS JtagUart
=============================================================================
