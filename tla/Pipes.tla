---------------------------------- MODULE Pipes ----------------------------------
(***************************************************************************)
(* The pipes of the Mandelbrot accelerator (lab 4, pipes.v): PIPE_SIZE     *)
(* iteration nodes, each with a FIFO behind it, a state machine that deals *)
(* incoming pixels to the nodes, and one that merges the node FIFOs into   *)
(* the output.  The nodes are DivergenceNode, driven by node_start instead *)
(* of its generic host.                                                    *)
(*                                                                         *)
(* The two state machines, the FIFOs and the nodes share one clock: a Tick *)
(* is one step of each of them, all reading the registers before the edge. *)
(* The wires data_in, data_in_available and space_ahead come from the      *)
(* FIFOs around the pipes; here they move as freely as those FIFOs allow,  *)
(* FractalAccelerator connects the real ones.  A result word is            *)
(* represented by its pixel.                                               *)
(***************************************************************************)
EXTENDS ScFifo, FiniteSets

CONSTANTS
  PIPE_SIZE,              \* number of nodes (1 in the code, at most 32)
  ADD_PIPEL_SIZE, MULT_PIPEL_SIZE, MAX_ITERATIONS, Point, Origin,
  FIFO_NODE_WORDS,        \* lpm_numwords of fifo_node      (25)
  FIFO_NODE_ALMOST_FULL   \* almost_full_value of fifo_node (12)

Node == 0 .. PIPE_SIZE - 1

VARIABLES
  reset_n, data_in, data_in_available, space_ahead,    \* input wires
  next_state_1_load, data_in_read, start_select, node_select,
  next_state_2_unload, read_count, write_out, rdreq_select, fifo_select,
  fifo_node, fifo_node_q,                              \* per node
  r0, r1, r2, data_ready, point_start, in_process_q, count_iterations_q,
  coord_q, node_write_out, node_data_out, node_busy, counter_processes

\* Only the selected node sees start.
node_start == [n \in Node |-> start_select /\ node_select = n]

N == INSTANCE DivergenceNode WITH
       start <- node_start, write_out <- node_write_out,
       data_out <- node_data_out, busy <- node_busy

\* PIPE_SELECT_WIDTH and the 5-bit usedw bound the sizes; the room a node FIFO
\* keeps above its almost-full mark takes what its node may still deliver.
ASSUME PipesAssumption ==
  /\ N!PipelineAssumption /\ N!IterationAssumption /\ N!PointAssumption
  /\ PIPE_SIZE \in 1 .. 32
  /\ FIFO_NODE_WORDS \in 1 .. 31
  /\ FIFO_NODE_ALMOST_FULL \in 1 .. FIFO_NODE_WORDS
  /\ FIFO_NODE_ALMOST_FULL + N!ALL_PIPEL_SIZE - 3 <= FIFO_NODE_WORDS

wires      == << data_in, data_in_available, space_ahead >>
loadVars   == << next_state_1_load, data_in_read, start_select, node_select >>
unloadVars == << next_state_2_unload, read_count, write_out, rdreq_select,
                 fifo_select >>
fifoVars   == << fifo_node, fifo_node_q >>
nodeVars   == << r0, r1, r2, data_ready, point_start, in_process_q,
                 count_iterations_q, coord_q, node_write_out, node_data_out,
                 node_busy, counter_processes >>
vars == << reset_n, wires, loadVars, unloadVars, fifoVars, nodeVars >>

\* Both select registers go round the nodes.
NextIndex(i) == IF i < PIPE_SIZE - 1 THEN i + 1 ELSE 0

busy_select        == node_busy[node_select]
almost_full_select == Len(fifo_node[node_select]) >= FIFO_NODE_ALMOST_FULL
fifo_node_rdreq    == [n \in Node |-> rdreq_select /\ fifo_select = n]
usedw              == Len(fifo_node[fifo_select])
data_out           == fifo_node_q[fifo_select]
-----------------------------------------------------------------------------
(* FSM 1: load data into the pipes.                                        *)

LoadReset ==
  /\ next_state_1_load = "RESET"
  /\ next_state_1_load' = "IDLE"
  /\ UNCHANGED << data_in_read, start_select, node_select >>

\* Fetch a pixel.
LoadIdleIf(possible) ==
  /\ next_state_1_load = "IDLE"
  /\ IF possible
       THEN next_state_1_load' = "BEGIN_LOAD" /\ data_in_read' = TRUE
       ELSE UNCHANGED << next_state_1_load, data_in_read >>
  /\ UNCHANGED << start_select, node_select >>

\* Faulty forms of LoadIdle: the FIFO behind, or the FIFO before, is not looked at.
LoadIdleIgnoreSpace == LoadIdleIf(data_in_available)
LoadIdleIgnoreEmpty == LoadIdleIf(space_ahead)

\* There must be a pixel, and room in the FIFO behind the pipes.
LoadIdle == LoadIdleIf(data_in_available /\ space_ahead)

\* Start the selected node if it is free; if not, go on to another state.
BeginLoadIf(free, otherwise) ==
  /\ next_state_1_load = "BEGIN_LOAD"
  /\ data_in_read' = FALSE
  /\ start_select' = free
  /\ next_state_1_load' = IF free THEN "END_LOAD" ELSE otherwise
  /\ UNCHANGED node_select

\* Faulty forms of BeginLoad: almost_full is not looked at; busy is not looked
\* at; the pixel is given up when its node cannot take it.
BeginLoadIgnoreFull == BeginLoadIf(~busy_select, "NEXT_NODE")
BeginLoadIgnoreBusy == BeginLoadIf(~almost_full_select, "NEXT_NODE")
BeginLoadGiveUp == BeginLoadIf(~busy_select /\ ~almost_full_select, "END_LOAD")

\* The node must be able to take a pixel, and its FIFO the result.
BeginLoad == BeginLoadIf(~busy_select /\ ~almost_full_select, "NEXT_NODE")

EndLoad ==
  /\ next_state_1_load = "END_LOAD"
  /\ next_state_1_load' = "IDLE"
  /\ node_select' = NextIndex(node_select)
  /\ start_select' = FALSE
  /\ UNCHANGED data_in_read

NextNode ==
  /\ next_state_1_load = "NEXT_NODE"
  /\ next_state_1_load' = "BEGIN_LOAD"
  /\ node_select' = NextIndex(node_select)
  /\ start_select' = FALSE
  /\ UNCHANGED data_in_read

LoadFsm == LoadReset \/ LoadIdle \/ BeginLoad \/ EndLoad \/ NextNode
-----------------------------------------------------------------------------
(* FSM 2: merge the node FIFOs into one.                                   *)

UnloadReset ==
  /\ next_state_2_unload = "RESET"
  /\ next_state_2_unload' = "CHECK_FIFO_FILL"
  /\ UNCHANGED << read_count, write_out, rdreq_select, fifo_select >>

\* Read the selected FIFO if it holds enough, or go to the next FIFO.
CheckFifoFillFor(enough, count) ==
  /\ next_state_2_unload = "CHECK_FIFO_FILL"
  /\ write_out' = FALSE
  /\ IF enough
       THEN /\ next_state_2_unload' = "READ_WRITE"
            /\ read_count' = count
            /\ rdreq_select' = TRUE
            /\ UNCHANGED fifo_select
       ELSE /\ rdreq_select' = FALSE
            /\ fifo_select' = NextIndex(fifo_select)
            /\ UNCHANGED << next_state_2_unload, read_count >>

\* Faulty forms of CheckFifoFill: one word too many is counted; the last word of a
\* FIFO is left behind.
CheckFifoFillOneMore  == CheckFifoFillFor(usedw > 0, usedw)
CheckFifoFillLeaveOne == CheckFifoFillFor(usedw > 1, usedw - 1)

\* Take the words the selected FIFO holds now; the first is requested here.
CheckFifoFill == CheckFifoFillFor(usedw > 0, usedw - 1)

\* One word per clock: the word just read is written while the next is read.
ReadWrite ==
  /\ next_state_2_unload = "READ_WRITE"
  /\ write_out' = TRUE
  /\ rdreq_select' = (read_count > 0)
  /\ IF read_count > 0
       THEN read_count' = read_count - 1 /\ UNCHANGED next_state_2_unload
       ELSE next_state_2_unload' = "END_WRITE" /\ UNCHANGED read_count
  /\ UNCHANGED fifo_select

EndWrite ==
  /\ next_state_2_unload = "END_WRITE"
  /\ next_state_2_unload' = "CHECK_FIFO_FILL"
  /\ fifo_select' = NextIndex(fifo_select)
  /\ write_out' = FALSE
  /\ UNCHANGED << read_count, rdreq_select >>

UnloadFsm == UnloadReset \/ CheckFifoFill \/ ReadWrite \/ EndWrite
-----------------------------------------------------------------------------
\* Each node FIFO is written by its node and read by the unload machine.
NodeFifos ==
  /\ fifo_node' = [n \in Node |->
       NextWords(fifo_node[n], FIFO_NODE_WORDS, node_write_out[n],
                 node_data_out[n].point, fifo_node_rdreq[n])]
  /\ fifo_node_q' = [n \in Node |->
       NextQ(fifo_node[n], fifo_node_q[n], fifo_node_rdreq[n])]

Clock == LoadFsm /\ UnloadFsm /\ NodeFifos /\ N!Clock

PipesInit ==
  /\ next_state_1_load = "RESET"
  /\ data_in_read = FALSE
  /\ start_select = FALSE
  /\ node_select = 0
  /\ next_state_2_unload = "RESET"
  /\ read_count = 0
  /\ write_out = FALSE
  /\ rdreq_select = FALSE
  /\ fifo_select = 0
  /\ fifo_node = [n \in Node |-> << >>]
  /\ fifo_node_q = [n \in Node |-> Origin]
  /\ N!NodeInit

\* reset_n clears the state machines and the nodes, not the FIFOs.
PipesReset ==
  /\ next_state_1_load' = "RESET"
  /\ data_in_read' = FALSE
  /\ start_select' = FALSE
  /\ node_select' = 0
  /\ next_state_2_unload' = "RESET"
  /\ read_count' = 0
  /\ write_out' = FALSE
  /\ rdreq_select' = FALSE
  /\ fifo_select' = 0
  /\ N!NodeReset
  /\ UNCHANGED fifoVars

\* The FIFOs around the pipes: only data_in_read empties the one before and
\* moves its output register, only write_out fills the one behind.
Surroundings ==
  /\ data_in_available' \in BOOLEAN
  /\ data_in_available /\ ~data_in_available' => data_in_read
  /\ space_ahead' \in BOOLEAN
  /\ space_ahead /\ ~space_ahead' => write_out
  /\ IF data_in_read THEN data_in' \in Point ELSE UNCHANGED data_in

Init ==
  /\ PipesInit
  /\ reset_n = TRUE
  /\ data_in = Origin /\ data_in_available = FALSE /\ space_ahead = TRUE

Tick == reset_n /\ Clock /\ Surroundings /\ UNCHANGED reset_n

ResetDown == reset_n /\ reset_n' = FALSE /\ PipesReset /\ UNCHANGED wires

\* While reset_n is low nothing is written or read: the FIFOs stand still.
ResetUp ==
  /\ ~reset_n /\ reset_n' = TRUE
  /\ UNCHANGED << wires, loadVars, unloadVars, fifoVars, nodeVars >>

Next == Tick \/ ResetDown \/ ResetUp

Spec == Init /\ [][Next]_vars

\* The clock never stops.
FairSpec == Spec /\ WF_vars(Tick)
-----------------------------------------------------------------------------
\* Everything node n has accepted and not yet passed on, its FIFO included.
Load(n) == counter_processes[n] + (IF N!Pending(n) THEN 1 ELSE 0)
             + Len(fifo_node[n])

\* almost_full is looked at only when a pixel is dealt, while up to a whole
\* ring of pixels may still be on its way: the FIFO's headroom takes them all,
\* so no result is lost at a full node FIFO.
NodeFifoHeadroom == \A n \in Node :
  Load(n) <= FIFO_NODE_ALMOST_FULL + N!ALL_PIPEL_SIZE - 3

\* The unload machine takes the fill of a FIFO once and then counts down: it
\* never reads an empty FIFO, and whatever it writes out it has just read.
UnloadReadsWords ==
  /\ next_state_2_unload = "READ_WRITE" =>
       rdreq_select /\ read_count < Len(fifo_node[fifo_select])
  /\ rdreq_select => next_state_2_unload = "READ_WRITE"
  /\ write_out => next_state_2_unload \in {"READ_WRITE", "END_WRITE"}

\* The load machine is a host the nodes can live with: it starts a node for
\* one clock only, and only after seeing it not busy.
NodeProtocol == N!Spec

\* Unless reset_n intervenes, a pixel that was fetched is dealt to a node, and
\* every node FIFO is drained.
EveryPixelDealt == data_in_read ~> start_select \/ ~reset_n
EveryFifoDrained == \A n \in Node :
  Len(fifo_node[n]) > 0 ~> fifo_node_rdreq[n] \/ ~reset_n
=============================================================================
