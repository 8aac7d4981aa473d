---------------------------- MODULE DivergenceNode ----------------------------
(***************************************************************************)
(* The control path of the Mandelbrot iteration nodes of lab 4             *)
(* (divergence_node.v).  A node keeps up to ALL_PIPEL_SIZE pixels in a     *)
(* ring-shaped pipeline: a pixel enters stage 0, reaches the last stage    *)
(* ALL_PIPEL_SIZE-1 clocks later, and there either leaves as a result or   *)
(* goes round once more for its next iteration.                            *)
(*                                                                         *)
(* Every register is an array over Node, the way "generate" replicates the *)
(* node in pipes.v.  One step of the module is one rising clock edge, in   *)
(* which every always block of the node fires: Clock is the conjunction of *)
(* one operator per always block, each reading the registers before the    *)
(* edge.  The wires that enter a node are the variables start and data_in, *)
(* driven here by the weakest host the handshake allows and, in Pipes, by  *)
(* the load state machine.                                                 *)
(*                                                                         *)
(* Data.  A pixel is a member of Point, which stands for its screen        *)
(* coordinates and the complex constant c computed from them.  Whether the *)
(* orbit diverged (comparator or adder overflow) is an arbitrary Boolean   *)
(* per node and clock.  A pipeline slot that is not in process holds       *)
(* leftovers nothing reads; they are written as Origin and 0.              *)
(***************************************************************************)
EXTENDS Integers, FiniteSets

CONSTANTS
  Node,             \* the nodes: gen_node[0 .. PIPE_SIZE-1]
  ADD_PIPEL_SIZE,   \* latency of an adder      (3 in the code)
  MULT_PIPEL_SIZE,  \* latency of a multiplier  (5 in the code)
  MAX_ITERATIONS,   \* iterations before a pixel counts as bounded (24)
  Point,            \* pixels
  Origin            \* the pixel whose coordinates are all zero (reset value)

ALL_PIPEL_SIZE == ADD_PIPEL_SIZE * 2 + MULT_PIPEL_SIZE + 1

\* The 11-bit iteration count and the 5-bit process counter, which wrap.
IterCount == 0 .. 2047
ProcCount == 0 .. 31
NextIter(k) == (k + 1) % 2048
Up(k)   == (k + 1) % 32
Down(k) == (k + 31) % 32

\* counter_processes has 5 bits and must be able to hold ALL_PIPEL_SIZE-2;
\* count_iterations_q has 11 bits.
ASSUME PipelineAssumption ==
  /\ ADD_PIPEL_SIZE \in Nat \ {0}
  /\ MULT_PIPEL_SIZE \in Nat \ {0}
  /\ ALL_PIPEL_SIZE <= 33
ASSUME IterationAssumption == MAX_ITERATIONS \in IterCount
ASSUME PointAssumption == Origin \in Point

VARIABLES
  reset_n, start, data_in,                       \* input wires
  r0, r1, r2, data_ready, point_start,           \* input registers
  in_process_q, count_iterations_q, coord_q,     \* the pipeline
  write_out, data_out,                           \* output registers
  busy, counter_processes

nodeVars == << r0, r1, r2, data_ready, point_start, in_process_q,
               count_iterations_q, coord_q, write_out, data_out,
               busy, counter_processes >>
vars == << reset_n, start, data_in, nodeVars >>

Stage == 0 .. ALL_PIPEL_SIZE - 1
Last  == ALL_PIPEL_SIZE - 1

\* data_out: the pixel, its iteration count and whether it diverged.
Result   == [point : Point, iter : IterCount, diverge : BOOLEAN]
NoResult == [point |-> Origin, iter |-> 0, diverge |-> FALSE]
-----------------------------------------------------------------------------
(* Combinational signals.                                                  *)

\* A waiting pixel enters the ring when the slot coming round is free.
load(n) == ~in_process_q[n][Last] /\ data_ready[n]

\* Rising edge of the synchronised start.
start_sys(n) == r1[n] /\ ~r2[n]

\* A faulty done: one iteration too many.
doneLate(n, diverge) == diverge[n] \/ count_iterations_q[n][Last] > MAX_ITERATIONS

\* The slot in the last stage is finished.
done(n, diverge) == diverge[n] \/ count_iterations_q[n][Last] >= MAX_ITERATIONS

finished(n, diverge) == in_process_q[n][Last] /\ done(n, diverge)
recirculates(n, diverge) == in_process_q[n][Last] /\ ~done(n, diverge)
-----------------------------------------------------------------------------
(* The always blocks.                                                      *)

\* A faulty InputAccept: a waiting pixel is forgotten after one clock.
InputAcceptNoHold ==
  data_ready' = [n \in Node |-> ~load(n) /\ start_sys(n)]

InputAccept ==
  data_ready' = [n \in Node |-> ~load(n) /\ (start_sys(n) \/ data_ready[n])]

StartSynchronizer ==
  /\ r0' = [n \in Node |-> start[n]]
  /\ r1' = [n \in Node |-> r0[n]]
  /\ r2' = [n \in Node |-> r1[n]]

InputRegister ==
  point_start' = [n \in Node |-> IF start[n] THEN data_in ELSE point_start[n]]

\* Stage 0 takes the loaded pixel, or the last slot for another iteration;
\* every other stage takes its neighbour.
Pipeline(diverge) ==
  /\ in_process_q' = [n \in Node |-> [i \in Stage |->
       IF i = 0 THEN load(n) \/ recirculates(n, diverge)
                ELSE in_process_q[n][i-1]]]
  /\ count_iterations_q' = [n \in Node |-> [i \in Stage |->
       IF i = 0 THEN IF recirculates(n, diverge)
                       THEN NextIter(count_iterations_q[n][Last]) ELSE 0
                ELSE count_iterations_q[n][i-1]]]
  /\ coord_q' = [n \in Node |-> [i \in Stage |->
       IF i = 0 THEN IF load(n) THEN point_start[n]
                     ELSE IF recirculates(n, diverge) THEN coord_q[n][Last]
                     ELSE Origin
                ELSE coord_q[n][i-1]]]

OutputReg(diverge) ==
  /\ write_out' = [n \in Node |-> finished(n, diverge)]
  /\ data_out' = [n \in Node |->
       IF finished(n, diverge)
         THEN [point   |-> coord_q[n][Last],
               iter    |-> count_iterations_q[n][Last],
               diverge |-> diverge[n]]
         ELSE NoResult]

\* Faulty forms of Busy: the wire start is left out; the limit is one too high.
BusyWithoutStart ==
  busy' = [n \in Node |->
    \/ data_ready[n] \/ start_sys(n) \/ r0[n] \/ r1[n] \/ r2[n]
    \/ counter_processes[n] >= ALL_PIPEL_SIZE - 2]
BusyAtRingSize ==
  busy' = [n \in Node |->
    \/ start[n] \/ data_ready[n] \/ start_sys(n) \/ r0[n] \/ r1[n] \/ r2[n]
    \/ counter_processes[n] >= ALL_PIPEL_SIZE - 1]

Busy ==
  busy' = [n \in Node |->
    \/ start[n] \/ data_ready[n] \/ start_sys(n) \/ r0[n] \/ r1[n] \/ r2[n]
    \/ counter_processes[n] >= ALL_PIPEL_SIZE - 2]

\* A faulty CounterProcesses: a clock that loads and delivers only counts down,
\* and the counter is not confined to its 5 bits.
CountDownFirst ==
  counter_processes' = [n \in Node |->
    IF write_out[n] THEN counter_processes[n] - 1
    ELSE IF load(n) THEN counter_processes[n] + 1
    ELSE counter_processes[n]]

CounterProcesses ==
  counter_processes' = [n \in Node |->
    IF load(n) /\ ~write_out[n] THEN Up(counter_processes[n])
    ELSE IF ~load(n) /\ write_out[n] THEN Down(counter_processes[n])
    ELSE counter_processes[n]]

\* One rising edge of the clock.
Clock == \E diverge \in [Node -> BOOLEAN] :
  /\ InputAccept
  /\ StartSynchronizer
  /\ InputRegister
  /\ Pipeline(diverge)
  /\ OutputReg(diverge)
  /\ Busy
  /\ CounterProcesses
-----------------------------------------------------------------------------
Low == [n \in Node |-> FALSE]

\* The registers at power-up, and when reset_n goes low.
NodeInit ==
  /\ r0 = Low
  /\ r1 = Low
  /\ r2 = Low
  /\ data_ready = Low
  /\ point_start = [n \in Node |-> Origin]
  /\ in_process_q = [n \in Node |-> [i \in Stage |-> FALSE]]
  /\ count_iterations_q = [n \in Node |-> [i \in Stage |-> 0]]
  /\ coord_q = [n \in Node |-> [i \in Stage |-> Origin]]
  /\ write_out = Low
  /\ data_out = [n \in Node |-> NoResult]
  /\ busy = Low
  /\ counter_processes = [n \in Node |-> 0]

NodeReset ==
  /\ r0' = Low
  /\ r1' = Low
  /\ r2' = Low
  /\ data_ready' = Low
  /\ point_start' = [n \in Node |-> Origin]
  /\ in_process_q' = [n \in Node |-> [i \in Stage |-> FALSE]]
  /\ count_iterations_q' = [n \in Node |-> [i \in Stage |-> 0]]
  /\ coord_q' = [n \in Node |-> [i \in Stage |-> Origin]]
  /\ write_out' = Low
  /\ data_out' = [n \in Node |-> NoResult]
  /\ busy' = Low
  /\ counter_processes' = [n \in Node |-> 0]

\* The host: like the load state machine of pipes.v it raises the start of a
\* node it has seen not busy, for one clock, with any pixel on data_in.
Host ==
  /\ start' \in [Node -> BOOLEAN]
  /\ \A n \in Node : start'[n] => ~busy[n] /\ ~start[n]
  /\ data_in' \in Point

Init ==
  /\ NodeInit
  /\ reset_n = TRUE
  /\ start = Low
  /\ data_in = Origin

Tick == reset_n /\ Clock /\ Host /\ UNCHANGED reset_n

\* reset_n is asynchronous and a level: its registers are cleared when it goes
\* low, the host's start_select with them, and no clock moves them while it is.
ResetDown ==
  /\ reset_n /\ reset_n' = FALSE
  /\ NodeReset /\ start' = Low /\ UNCHANGED data_in

ResetUp == ~reset_n /\ reset_n' = TRUE /\ UNCHANGED << start, data_in, nodeVars >>

Next == Tick \/ ResetDown \/ ResetUp

Spec == Init /\ [][Next]_vars

\* The clock never stops.
FairSpec == Spec /\ WF_vars(Tick)
-----------------------------------------------------------------------------
TypeOK ==
  /\ reset_n \in BOOLEAN
  /\ start \in [Node -> BOOLEAN]
  /\ data_in \in Point
  /\ r0 \in [Node -> BOOLEAN]
  /\ r1 \in [Node -> BOOLEAN]
  /\ r2 \in [Node -> BOOLEAN]
  /\ data_ready \in [Node -> BOOLEAN]
  /\ point_start \in [Node -> Point]
  /\ in_process_q \in [Node -> [Stage -> BOOLEAN]]
  /\ count_iterations_q \in [Node -> [Stage -> IterCount]]
  /\ coord_q \in [Node -> [Stage -> Point]]
  /\ write_out \in [Node -> BOOLEAN]
  /\ data_out \in [Node -> Result]
  /\ busy \in [Node -> BOOLEAN]
  /\ counter_processes \in [Node -> ProcCount]

\* The stages of node n that hold a live pixel.
InProcess(n) == {i \in Stage : in_process_q[n][i]}

\* A pixel has been handed to node n and has not entered its ring yet.
Pending(n) == start[n] \/ r0[n] \/ r1[n] \/ data_ready[n]

\* The counter that throttles the host is exact: the live slots of the ring,
\* plus the result in the output register that has not been counted down yet.
ProcessCount == \A n \in Node :
  counter_processes[n] =
    Cardinality(InProcess(n)) + IF write_out[n] THEN 1 ELSE 0

\* The busy signal comes two clocks after the pixel it accounts for, yet the
\* node never holds more than ALL_PIPEL_SIZE-2 pixels, waiting one included.
Capacity == \A n \in Node :
  counter_processes[n] + (IF Pending(n) THEN 1 ELSE 0) <= ALL_PIPEL_SIZE - 2

\* The input registers of node n are free and a place is left in its ring.
Ready(n) ==
  /\ ~r0[n] /\ ~r1[n] /\ ~r2[n] /\ ~data_ready[n]
  /\ counter_processes[n] <= ALL_PIPEL_SIZE - 3

\* A node whose (registered) busy is low is ready, so a start always meets a
\* ready node and never overwrites point_start before an earlier pixel entered
\* the ring; at most one pixel travels through r0, r1 and data_ready.
Handshake == \A n \in Node :
  /\ ~busy[n] => Ready(n)
  /\ start[n] => Ready(n)
  /\ r0[n] => ~r1[n] /\ ~r2[n] /\ ~data_ready[n]
  /\ r1[n] => ~r2[n] /\ ~data_ready[n]

\* No pixel in the ring counts beyond MAX_ITERATIONS, so the 11-bit count never
\* wraps, and a pixel that leaves undiverged has counted to exactly that.
IterationBound == \A n \in Node :
  /\ \A i \in InProcess(n) : count_iterations_q[n][i] <= MAX_ITERATIONS
  /\ write_out[n] /\ ~data_out[n].diverge => data_out[n].iter = MAX_ITERATIONS

\* Every pixel handed to a node comes out of it: a waiting pixel finds a free
\* slot, and no pixel goes round for ever; unless reset_n drops it.
Completion == \A n \in Node, p \in Point :
  start[n] /\ data_in = p ~> (write_out[n] /\ data_out[n].point = p) \/ ~reset_n
=============================================================================
