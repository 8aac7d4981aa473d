------------------------------ MODULE PixelService ------------------------------
(***************************************************************************)
(* What the Mandelbrot accelerator of lab 4 promises its user: it is an    *)
(* unordered, loss-free and duplication-free service.  Every pixel written *)
(* in is held until it is delivered, once, as a result on q; results may   *)
(* overtake one another, because a pixel stays in its node for as many     *)
(* iterations as its orbit needs.  A reset may drop pixels, never invent   *)
(* one.                                                                    *)
(***************************************************************************)
EXTENDS Naturals

CONSTANTS Point, Origin

VARIABLES
  reset_n,
  data_in_write, point_in,   \* a pixel is written
  data_out_read,             \* a result is asked for
  fifo_out_q,                \* the last result delivered
  held                       \* how often each pixel is inside

vars == << reset_n, data_in_write, point_in, data_out_read, fifo_out_q, held >>

\* Wires the user drives freely.
User ==
  /\ data_in_write' \in BOOLEAN
  /\ point_in' \in Point
  /\ data_out_read' \in BOOLEAN

\* What is inside once the pixel now being written has been accepted.
accepted == [p \in Point |->
  IF data_in_write /\ point_in = p THEN held[p] + 1 ELSE held[p]]

Accept == held' = accepted /\ UNCHANGED fifo_out_q

\* Only a pixel that was inside before can be delivered, and only on demand.
AcceptAndDeliver ==
  /\ data_out_read
  /\ \E p \in Point :
       /\ held[p] > 0
       /\ fifo_out_q' = p
       /\ held' = [accepted EXCEPT ![p] = @ - 1]

\* reset_n falling may drop pixels.
Drop ==
  /\ reset_n /\ reset_n' = FALSE
  /\ \A p \in Point : held'[p] \in 0 .. held[p]
  /\ held' = [p \in Point |-> held'[p]]
  /\ UNCHANGED << data_in_write, point_in, data_out_read, fifo_out_q >>

Recover ==
  /\ ~reset_n /\ reset_n' = TRUE
  /\ UNCHANGED << data_in_write, point_in, data_out_read, fifo_out_q, held >>

Init ==
  /\ reset_n = TRUE
  /\ held = [p \in Point |-> 0]
  /\ fifo_out_q = Origin
  /\ data_in_write = FALSE
  /\ point_in = Origin
  /\ data_out_read = FALSE

Next ==
  \/ User /\ (Accept \/ AcceptAndDeliver) /\ UNCHANGED reset_n
  \/ Drop
  \/ Recover

Spec == Init /\ [][Next]_vars
=============================================================================
