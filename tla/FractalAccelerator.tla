--------------------------- MODULE FractalAccelerator ---------------------------
(***************************************************************************)
(* The Mandelbrot accelerator of lab 4 (fractal_accelerator.v): an input   *)
(* FIFO, the pipes, and an output FIFO.  The pipes see the input FIFO's    *)
(* output register, its empty flag and the output FIFO's almost-full flag. *)
(*                                                                         *)
(* The user drives data_in_write, point_in and data_out_read.  It writes   *)
(* only when it has seen data_in_full low, as Fractal_control does, and it *)
(* reads whenever it likes: the FIFO ignores reads while it is empty.      *)
(***************************************************************************)
EXTENDS ScFifo, FiniteSets

CONSTANTS
  PIPE_SIZE, ADD_PIPEL_SIZE, MULT_PIPEL_SIZE, MAX_ITERATIONS, Point, Origin,
  FIFO_NODE_WORDS, FIFO_NODE_ALMOST_FULL,
  FIFO_IN_WORDS, FIFO_IN_ALMOST_FULL,    \* 128 and 80
  FIFO_OUT_WORDS, FIFO_OUT_ALMOST_FULL   \* 256 and 200

VARIABLES
  reset_n, data_in_write, point_in, data_out_read,   \* the user's wires
  fifo_in, fifo_in_q, fifo_out, fifo_out_q,
  next_state_1_load, data_in_read, start_select, node_select,
  next_state_2_unload, read_count, write_out, rdreq_select, fifo_select,
  fifo_node, fifo_node_q,
  r0, r1, r2, data_ready, point_start, in_process_q, count_iterations_q,
  coord_q, node_write_out, node_data_out, node_busy, counter_processes

data_in_full       == Len(fifo_in) >= FIFO_IN_ALMOST_FULL
data_out_available == fifo_out # << >>
pipes_space_ahead  == ~(Len(fifo_out) >= FIFO_OUT_ALMOST_FULL)

P == INSTANCE Pipes WITH
       data_in <- fifo_in_q,
       data_in_available <- (fifo_in # << >>),
       space_ahead <- pipes_space_ahead

userWires == << data_in_write, point_in, data_out_read >>
fifoVars  == << fifo_in, fifo_in_q, fifo_out, fifo_out_q >>
pipesVars ==
  << next_state_1_load, data_in_read, start_select, node_select,
     next_state_2_unload, read_count, write_out, rdreq_select, fifo_select,
     fifo_node, fifo_node_q,
     r0, r1, r2, data_ready, point_start, in_process_q, count_iterations_q,
     coord_q, node_write_out, node_data_out, node_busy, counter_processes >>
vars == << reset_n, userWires, fifoVars, pipesVars >>

\* What the pipes may still deliver once space_ahead is low: all that the nodes
\* and their FIFOs hold, and the word on its way to the output FIFO.
InFlight == PIPE_SIZE * (FIFO_NODE_ALMOST_FULL + P!N!ALL_PIPEL_SIZE - 3) + 1

ASSUME AcceleratorAssumption ==
  /\ P!PipesAssumption
  /\ FIFO_IN_WORDS \in Nat /\ FIFO_OUT_WORDS \in Nat
  /\ FIFO_IN_ALMOST_FULL \in 1 .. FIFO_IN_WORDS - 1
  /\ FIFO_OUT_ALMOST_FULL \in 1 .. FIFO_OUT_WORDS
  /\ FIFO_OUT_ALMOST_FULL - 1 + InFlight <= FIFO_OUT_WORDS
-----------------------------------------------------------------------------
FifoIn ==
  /\ fifo_in' = NextWords(fifo_in, FIFO_IN_WORDS, data_in_write, point_in, data_in_read)
  /\ fifo_in_q' = NextQ(fifo_in, fifo_in_q, data_in_read)

FifoOut ==
  /\ fifo_out' = NextWords(fifo_out, FIFO_OUT_WORDS, write_out, P!data_out, data_out_read)
  /\ fifo_out_q' = NextQ(fifo_out, fifo_out_q, data_out_read)

Clock == P!Clock /\ FifoIn /\ FifoOut

AcceleratorInit ==
  /\ P!PipesInit
  /\ fifo_in = << >> /\ fifo_in_q = Origin
  /\ fifo_out = << >> /\ fifo_out_q = Origin

User ==
  /\ data_in_write' \in BOOLEAN /\ (data_in_write' => ~data_in_full)
  /\ IF data_in_write' THEN point_in' \in Point ELSE point_in' = Origin
  /\ data_out_read' \in BOOLEAN

Init ==
  /\ AcceleratorInit /\ reset_n = TRUE
  /\ data_in_write = FALSE /\ point_in = Origin /\ data_out_read = FALSE

Tick == reset_n /\ Clock /\ User /\ UNCHANGED reset_n

ResetDown ==
  /\ reset_n /\ reset_n' = FALSE
  /\ P!PipesReset /\ UNCHANGED << fifoVars, userWires >>

\* The outer FIFOs have no reset: the user goes on writing and reading.
TickInReset ==
  /\ ~reset_n
  /\ FifoIn /\ FifoOut /\ User
  /\ UNCHANGED << reset_n, pipesVars >>

ResetUp == ~reset_n /\ reset_n' = TRUE /\ UNCHANGED << userWires, fifoVars, pipesVars >>

Next == Tick \/ ResetDown \/ TickInReset \/ ResetUp

Spec == Init /\ [][Next]_vars

\* The clock never stops, and a result that stays available is read.
FairSpec == /\ Spec /\ WF_vars(Tick)
            /\ []<>(data_out_available => data_out_read)
-----------------------------------------------------------------------------
\* The pixel the load machine has fetched and no node has sampled yet.
Fetched ==
  \/ next_state_1_load \in {"END_LOAD", "NEXT_NODE"}
  \/ next_state_1_load = "BEGIN_LOAD" /\ ~data_in_read

Occurrences(s, p) == Cardinality({i \in DOMAIN s : s[i] = p})
One(b) == IF b THEN 1 ELSE 0

\* How often pixel p is somewhere inside node n or its FIFO.
HeldByNode(n, p) ==
    One((r0[n] \/ r1[n] \/ data_ready[n]) /\ point_start[n] = p)
  + Cardinality({i \in P!N!InProcess(n) : coord_q[n][i] = p})
  + One(node_write_out[n] /\ node_data_out[n].point = p)
  + Occurrences(fifo_node[n], p)

\* The sum of f over the nodes: one place for each that f[n] counts.
SumNodes(f) == Cardinality(UNION {{n} \X (1 .. f[n]) : n \in P!Node})

held == [p \in Point |->
    Occurrences(fifo_in, p)
  + One(Fetched /\ fifo_in_q = p)
  + SumNodes([n \in P!Node |-> HeldByNode(n, p)])
  + One(write_out /\ P!data_out = p)
  + Occurrences(fifo_out, p)]

Service == INSTANCE PixelService

\* Wherever a pixel is -- input FIFO, load machine, input registers, ring, node
\* FIFO, merge, output FIFO -- it is in one place, and the accelerator as a
\* whole is the unordered service: what comes out was written in and has not
\* come out before, and what was written in is lost only when reset_n falls.
ExactlyOnce == Service!Spec

\* The pipes look at the output FIFO only when they fetch a pixel; whatever is
\* in flight then still fits, so no result is lost at a full output FIFO.
FifoOutNoOverflow == write_out => Len(fifo_out) < FIFO_OUT_WORDS

\* The load machine fetches a pixel two clocks after seeing one: it is there.
FetchFindsPixel == data_in_read => fifo_in # << >>

\* Nothing stays inside for ever: once reset_n stays high, a pixel that is not
\* written any more has eventually left, as often as it was written.
Delivery == \A p \in Point :
  <>[](reset_n /\ ~(data_in_write /\ point_in = p)) => <>[](held[p] = 0)
=============================================================================
