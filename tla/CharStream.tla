------------------------------- MODULE CharStream -------------------------------
(***************************************************************************)
(* What a serial link promises, whatever buffers lie on the way: the       *)
(* characters put in at one end come out at the other in the same order,   *)
(* none lost, none invented and none twice.                                *)
(***************************************************************************)
EXTENDS SequencesExt

VARIABLES sent, received

Init == sent = << >> /\ received = << >>

\* Characters are added behind those already sent.
Put ==
  /\ IsStrictPrefix(sent, sent')
  /\ UNCHANGED received

\* The next characters of the stream come out.
Get ==
  /\ IsStrictPrefix(received, received')
  /\ IsPrefix(received', sent)
  /\ UNCHANGED sent

Next == Put \/ Get

Spec == Init /\ [][Next]_<< sent, received >>
=============================================================================
