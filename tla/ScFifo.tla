--------------------------------- MODULE ScFifo ---------------------------------
(***************************************************************************)
(* The single-clock FIFO of the lab 4 wrappers fifo_in.v, fifo_node.v and  *)
(* fifo_out.v: the vendor's scfifo with lpm_showahead OFF and overflow and *)
(* underflow checking ON.  A FIFO is the sequence of its words and an      *)
(* output register q.  There is no clear input, so a system reset leaves   *)
(* the words and q alone.                                                  *)
(***************************************************************************)
EXTENDS Integers, Sequences

\* The words after a clock edge.  A read of an empty FIFO and a write to a full
\* one are ignored; full is judged before the read of the same edge.
NextWords(fifo, words, wrreq, data, rdreq) ==
  LET rest == IF rdreq /\ fifo # << >> THEN Tail(fifo) ELSE fifo
  IN  IF wrreq /\ Len(fifo) < words THEN Append(rest, data) ELSE rest

\* Without show-ahead the oldest word reaches q at the edge that reads it.
NextQ(fifo, q, rdreq) == IF rdreq /\ fifo # << >> THEN Head(fifo) ELSE q
=============================================================================
