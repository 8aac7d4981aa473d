------------------------------ MODULE Pipes_proofs ------------------------------
(***************************************************************************)
(* Proofs about Pipes, for every number of nodes, pipeline length and size *)
(* of the node FIFOs that the assumptions admit.                           *)
(*                                                                         *)
(* The nodes' own invariant is not proved again: NP is the instance of the *)
(* theorems of DivergenceNode_proofs for the nodes inside the pipes, and   *)
(* what has to be shown is that the load machine is the host those         *)
(* theorems assume (Hosted).  Then the account of a node, its FIFO         *)
(* included, grows only by the pixel the machine deals, at a moment when   *)
(* busy and almost_full are low -- which bounds it by the FIFO's headroom. *)
(*                                                                         *)
(* A second account is that of one pixel (HeldByNode): what a node and its *)
(* FIFO hold of it changes by what is dealt and what is merged.            *)
(*                                                                         *)
(* The step lemmas speak of Move, a step of the pipes in any surroundings, *)
(* so that FractalAccelerator can use them with the real FIFOs around.     *)
(***************************************************************************)
EXTENDS Pipes, FiniteSetTheorems, SequenceTheorems, TLAPS

NP == INSTANCE DivergenceNode_proofs WITH
        start <- node_start, write_out <- node_write_out,
        data_out <- node_data_out, busy <- node_busy

Bit(b) == IF b THEN 1 ELSE 0

\* What a node and its FIFO hold at most.
MaxLoad == FIFO_NODE_ALMOST_FULL + N!ALL_PIPEL_SIZE - 3

TypeOK ==
  /\ next_state_1_load \in {"RESET", "IDLE", "BEGIN_LOAD", "END_LOAD", "NEXT_NODE"}
  /\ data_in_read \in BOOLEAN /\ start_select \in BOOLEAN /\ node_select \in Node
  /\ next_state_2_unload \in {"RESET", "CHECK_FIFO_FILL", "READ_WRITE", "END_WRITE"}
  /\ read_count \in Nat /\ write_out \in BOOLEAN /\ rdreq_select \in BOOLEAN
  /\ fifo_select \in Node
  /\ fifo_node \in [Node -> Seq(Point)]
  /\ fifo_node_q \in [Node -> Point]

\* Start and data_in_read are pulses of one clock; start comes with END_LOAD.
Pulses == /\ start_select <=> next_state_1_load = "END_LOAD"
          /\ data_in_read => next_state_1_load = "BEGIN_LOAD"

\* While reset_n is low both machines and the nodes stand cleared.
Cleared == ~reset_n => /\ next_state_1_load = "RESET" /\ next_state_2_unload = "RESET"
                       /\ ~start_select /\ ~data_in_read /\ ~write_out /\ ~rdreq_select

\* The inductive invariant.
Inv == TypeOK /\ Pulses /\ Cleared /\ UnloadReadsWords /\ NodeFifoHeadroom /\ NP!IInv

\* A clock edge, the fall of reset_n, and a step in which the pipes stand still,
\* whatever surrounds them.
Edge  == reset_n /\ Clock /\ data_in' \in Point /\ UNCHANGED reset_n
Fall  == reset_n /\ reset_n' = FALSE /\ PipesReset /\ UNCHANGED data_in
Still == /\ reset_n' = reset_n \/ (~reset_n /\ reset_n' = TRUE)
         /\ UNCHANGED << data_in, loadVars, unloadVars, fifoVars, nodeVars >>
Move  == Edge \/ Fall \/ Still
-----------------------------------------------------------------------------
(* The FIFOs.                                                              *)

\* A clock edge keeps a FIFO a sequence of its words.
LEMMA FifoWords ==
  ASSUME NEW S, NEW f \in Seq(S), NEW n \in Nat,
         NEW wr \in BOOLEAN, NEW d \in S, NEW rd \in BOOLEAN
  PROVE  NextWords(f, n, wr, d, rd) \in Seq(S)
<1>1. (IF rd /\ f # << >> THEN Tail(f) ELSE f) \in Seq(S)
  BY HeadTailProperties
<1> QED BY <1>1, AppendProperties DEF NextWords

\* A FIFO of n words grows by the word written, unless it is full, and shrinks
\* by the word read, unless it is empty (fifo_node.v and the other wrappers).
LEMMA FifoEdge ==
  ASSUME NEW S, NEW f \in Seq(S), NEW n \in Nat,
         NEW wr \in BOOLEAN, NEW d \in S, NEW rd \in BOOLEAN
  PROVE  Len(NextWords(f, n, wr, d, rd)) + Bit(rd /\ f # << >>)
           = Len(f) + Bit(wr /\ Len(f) < n)
<1> DEFINE rest == IF rd /\ f # << >> THEN Tail(f) ELSE f
           read == Bit(rd /\ f # << >>)
           written == Bit(wr /\ Len(f) < n)
<1>1. /\ Len(f) \in Nat /\ rest \in Seq(S) /\ Len(rest) \in Nat
      /\ Len(rest) + read = Len(f)
  BY HeadTailProperties, LenProperties DEF Bit
<1>2. Append(rest, d) \in Seq(S) /\ Len(Append(rest, d)) = Len(rest) + 1
  BY <1>1, AppendProperties
<1>3. NextWords(f, n, wr, d, rd) = IF wr /\ Len(f) < n THEN Append(rest, d) ELSE rest
  BY DEF NextWords
<1>4. read \in Int
  BY DEF Bit
<1> HIDE DEF rest, read
<1>5. CASE wr /\ Len(f) < n
  <2>1. NextWords(f, n, wr, d, rd) = Append(rest, d) /\ written = 1
    BY <1>3, <1>5 DEF Bit
  <2> QED BY <1>1, <1>2, <1>4, <2>1 DEF read
<1>6. CASE ~(wr /\ Len(f) < n)
  <2>1. NextWords(f, n, wr, d, rd) = rest /\ written = 0
    BY <1>3, <1>6 DEF Bit
  <2> QED BY <1>1, <1>4, <2>1 DEF read
<1> QED BY <1>5, <1>6

\* It holds words exactly when it has a length; q holds the word read or stays.
LEMMA FifoRead ==
  ASSUME NEW S, NEW f \in Seq(S), NEW q, NEW rd
  PROVE  /\ f # << >> <=> Len(f) > 0
         /\ NextQ(f, q, rd) \in S \union {q}
<1>1. f # << >> => Head(f) \in S
  BY HeadTailProperties
<1> QED BY <1>1, EmptySeq, LenProperties DEF NextQ
-----------------------------------------------------------------------------
(* The nodes of Pipes and the nodes of the theorems are the same.          *)

\* The sizes.
LEMMA Sizes ==
  /\ PIPE_SIZE \in Nat /\ PIPE_SIZE >= 1 /\ 0 \in Node
  /\ FIFO_NODE_WORDS \in Nat /\ FIFO_NODE_ALMOST_FULL \in Nat /\ FIFO_NODE_ALMOST_FULL >= 1
  /\ N!ALL_PIPEL_SIZE \in Nat /\ N!ALL_PIPEL_SIZE >= 4 /\ MaxLoad \in Nat
  /\ FIFO_NODE_ALMOST_FULL + N!ALL_PIPEL_SIZE - 3 <= FIFO_NODE_WORDS
  /\ Origin \in Point
BY PipesAssumption
   DEF N!PipelineAssumption, N!PointAssumption, N!ALL_PIPEL_SIZE, MaxLoad, Node

\* What the theorems assume of the sizes.
LEMMA NodeSizes == NP!PipelineAssumption /\ NP!IterationAssumption /\ NP!PointAssumption
BY PipesAssumption
   DEF N!PipelineAssumption, N!IterationAssumption, N!PointAssumption, N!IterCount,
       N!ALL_PIPEL_SIZE, NP!PipelineAssumption, NP!IterationAssumption, NP!PointAssumption,
       NP!IterCount, NP!ALL_PIPEL_SIZE

\* The names used below mean the same.
LEMMA SameNames ==
  /\ N!ALL_PIPEL_SIZE = NP!ALL_PIPEL_SIZE
  /\ N!Low = NP!Low
  /\ \A n \in Node : N!Pending(n) <=> NP!Pending(n)
BY DEF N!ALL_PIPEL_SIZE, NP!ALL_PIPEL_SIZE, N!Low, NP!Low, N!Pending, NP!Pending

\* A clock edge of the nodes (divergence_node.v).
LEMMA SameClock == N!Clock => NP!Clock
BY DEF N!Clock, NP!Clock, N!InputAccept, NP!InputAccept,
       N!StartSynchronizer, NP!StartSynchronizer, N!InputRegister, NP!InputRegister,
       N!Pipeline, NP!Pipeline, N!OutputReg, NP!OutputReg, N!Busy, NP!Busy,
       N!CounterProcesses, NP!CounterProcesses, N!load, NP!load,
       N!start_sys, NP!start_sys, N!Last, NP!Last, N!ALL_PIPEL_SIZE, NP!ALL_PIPEL_SIZE,
       N!Stage, NP!Stage, N!recirculates, NP!recirculates, N!done, NP!done,
       N!finished, NP!finished, N!NoResult, NP!NoResult, N!Up, NP!Up, N!Down, NP!Down,
       N!NextIter, NP!NextIter

\* Their registers at power-up.
LEMMA SameInit == N!NodeInit => NP!NodeInit
BY DEF N!NodeInit, NP!NodeInit, N!Low, NP!Low, N!Stage, NP!Stage,
       N!ALL_PIPEL_SIZE, NP!ALL_PIPEL_SIZE, N!NoResult, NP!NoResult

\* Their registers when reset_n falls.
LEMMA SameReset == N!NodeReset => NP!NodeReset
BY DEF N!NodeReset, NP!NodeReset, N!Low, NP!Low, N!Stage, NP!Stage,
       N!ALL_PIPEL_SIZE, NP!ALL_PIPEL_SIZE, N!NoResult, NP!NoResult
-----------------------------------------------------------------------------
(* The load machine.                                                       *)

\* Going round the nodes stays among them.
LEMMA NextIndexType == \A i \in Node : NextIndex(i) \in Node
BY Sizes DEF Node, NextIndex

\* The load machine keeps its registers in their types and its pulses to one
\* clock (pipes.v, FSM 1).
LEMMA LoadStep ==
  ASSUME TypeOK, Pulses, LoadFsm
  PROVE  /\ next_state_1_load' \in {"RESET", "IDLE", "BEGIN_LOAD", "END_LOAD", "NEXT_NODE"}
         /\ data_in_read' \in BOOLEAN /\ start_select' \in BOOLEAN /\ node_select' \in Node
         /\ Pulses'
         /\ start_select' => /\ next_state_1_load = "BEGIN_LOAD" /\ node_select' = node_select
                             /\ ~start_select
                             /\ ~node_busy[node_select]
                             /\ ~(Len(fifo_node[node_select]) >= FIFO_NODE_ALMOST_FULL)
<1>0. /\ next_state_1_load \in {"RESET", "IDLE", "BEGIN_LOAD", "END_LOAD", "NEXT_NODE"}
      /\ data_in_read \in BOOLEAN /\ start_select \in BOOLEAN /\ node_select \in Node
  BY DEF TypeOK
<1>1. CASE LoadReset
  BY <1>0, <1>1 DEF LoadReset, Pulses
<1>2. CASE LoadIdle
  BY <1>0, <1>2 DEF LoadIdle, LoadIdleIf, Pulses
<1>3. CASE BeginLoad
  <2>1. BeginLoadIf(~busy_select /\ ~almost_full_select, "NEXT_NODE")
    BY <1>3 DEF BeginLoad
  <2> QED BY <1>0, <2>1 DEF BeginLoadIf, Pulses, busy_select, almost_full_select
<1>4. CASE EndLoad
  BY <1>0, <1>4, NextIndexType DEF EndLoad, Pulses
<1>5. CASE NextNode
  BY <1>0, <1>5, NextIndexType DEF NextNode, Pulses
<1> QED BY <1>1, <1>2, <1>3, <1>4, <1>5 DEF LoadFsm

\* A pixel has been fetched and no node has been started with it yet.
Waits == next_state_1_load \in {"BEGIN_LOAD", "NEXT_NODE"}

\* The machine fetches a pixel at this edge.
Fetches == next_state_1_load = "IDLE" /\ data_in_available /\ space_ahead

\* A pixel waits from its fetch to its start; there is one at a time.
LEMMA LoadTurn ==
  ASSUME TypeOK, Pulses, LoadFsm
  PROVE  /\ Waits' => Waits \/ Fetches
         /\ start_select' => Waits /\ ~Waits'
         /\ next_state_1_load' = "IDLE" => ~start_select'
         /\ data_in_read' => Fetches /\ ~data_in_read
<1>0. /\ next_state_1_load \in {"RESET", "IDLE", "BEGIN_LOAD", "END_LOAD", "NEXT_NODE"}
      /\ start_select \in BOOLEAN /\ data_in_read \in BOOLEAN
      /\ start_select => next_state_1_load = "END_LOAD"
      /\ data_in_read => next_state_1_load = "BEGIN_LOAD"
  BY DEF TypeOK, Pulses
<1>1. CASE LoadReset
  BY <1>0, <1>1 DEF LoadReset, Waits, Fetches
<1>2. CASE LoadIdle
  BY <1>0, <1>2 DEF LoadIdle, LoadIdleIf, Waits, Fetches
<1>3. CASE BeginLoad
  BY <1>0, <1>3 DEF BeginLoad, BeginLoadIf, Waits, Fetches, busy_select, almost_full_select
<1>4. CASE EndLoad
  BY <1>0, <1>4 DEF EndLoad, Waits, Fetches
<1>5. CASE NextNode
  BY <1>0, <1>5 DEF NextNode, Waits, Fetches
<1> QED BY <1>1, <1>2, <1>3, <1>4, <1>5 DEF LoadFsm

\* It starts a node only after seeing it not busy and its FIFO not almost full,
\* and for one clock: it is the host that the node's handshake asks for.
LEMMA Hosted ==
  ASSUME TypeOK, Pulses, LoadFsm
  PROVE  /\ node_start' \in [Node -> BOOLEAN]
         /\ \A n \in Node : node_start'[n] =>
              /\ ~node_busy[n] /\ ~node_start[n]
              /\ ~(Len(fifo_node[n]) >= FIFO_NODE_ALMOST_FULL)
<1>1. node_start' \in [Node -> BOOLEAN]
  BY LoadStep DEF node_start
<1>2. ASSUME NEW n \in Node, node_start'[n]
      PROVE  /\ ~node_busy[n] /\ ~node_start[n]
             /\ ~(Len(fifo_node[n]) >= FIFO_NODE_ALMOST_FULL)
  <2>1. start_select' /\ node_select' = n
    BY <1>2 DEF node_start
  <2> QED BY <2>1, LoadStep DEF node_start
<1> QED BY <1>1, <1>2

\* So a clock edge of the pipes is one of the nodes.
LEMMA NodeEdge ==
  ASSUME TypeOK, Pulses, Edge
  PROVE  N!Tick /\ NP!Tick
<1>1. N!Clock /\ LoadFsm /\ reset_n /\ data_in' \in Point /\ reset_n' = reset_n
  BY DEF Edge, Clock
<1>2. N!Host /\ NP!Host
  BY <1>1, Hosted DEF N!Host, NP!Host
<1> QED BY <1>1, <1>2, SameClock DEF N!Tick, NP!Tick
-----------------------------------------------------------------------------
(* The merge machine and the node FIFOs.                                   *)

\* A pop of node FIFO n at this edge.
Pops(n) == fifo_node_rdreq[n] /\ fifo_node[n] # << >>

\* What a clock edge does to the FIFO of a node.
LEMMA NodeFifoStep ==
  ASSUME TypeOK, NP!IInv, NodeFifos, NEW n \in Node
  PROVE  /\ fifo_node' \in [Node -> Seq(Point)] /\ fifo_node_q' \in [Node -> Point]
         /\ Len(fifo_node[n]) \in Nat /\ Len(fifo_node'[n]) \in Nat
         /\ fifo_node[n] # << >> <=> Len(fifo_node[n]) > 0
         /\ Len(fifo_node'[n]) + Bit(Pops(n))
              = Len(fifo_node[n])
                  + Bit(node_write_out[n] /\ Len(fifo_node[n]) < FIFO_NODE_WORDS)
<1>1. ASSUME NEW m \in Node
      PROVE  /\ fifo_node[m] \in Seq(Point) /\ fifo_node_q[m] \in Point
             /\ node_write_out[m] \in BOOLEAN /\ node_data_out[m].point \in Point
             /\ fifo_node_rdreq[m] \in BOOLEAN
  <2>1. node_write_out[m] \in BOOLEAN /\ node_data_out[m].point \in Point
    BY DEF NP!IInv, NP!TypeOK, NP!Result
  <2> QED BY <2>1 DEF TypeOK, fifo_node_rdreq
<1>2. ASSUME NEW m \in Node
      PROVE  LET f == NextWords(fifo_node[m], FIFO_NODE_WORDS, node_write_out[m],
                                node_data_out[m].point, fifo_node_rdreq[m])
             IN  /\ f \in Seq(Point)
                 /\ Len(fifo_node[m]) \in Nat /\ Len(f) \in Nat
                 /\ fifo_node[m] # << >> <=> Len(fifo_node[m]) > 0
                 /\ Len(f) + Bit(Pops(m))
                      = Len(fifo_node[m])
                          + Bit(node_write_out[m] /\ Len(fifo_node[m]) < FIFO_NODE_WORDS)
                 /\ NextQ(fifo_node[m], fifo_node_q[m], fifo_node_rdreq[m]) \in Point
  <2>1. /\ FIFO_NODE_WORDS \in Nat
        /\ fifo_node[m] \in Seq(Point) /\ fifo_node_q[m] \in Point
        /\ node_write_out[m] \in BOOLEAN /\ node_data_out[m].point \in Point
        /\ fifo_node_rdreq[m] \in BOOLEAN
    BY <1>1, Sizes
  <2>2. PICK f \in Seq(Point), q \in Point, wr \in BOOLEAN, d \in Point, rd \in BOOLEAN :
          /\ f = fifo_node[m] /\ q = fifo_node_q[m] /\ rd = fifo_node_rdreq[m]
          /\ wr = node_write_out[m] /\ d = node_data_out[m].point
    BY <2>1
  <2>3. PICK k \in Nat : k = FIFO_NODE_WORDS
    BY <2>1
  <2>4. NextWords(f, k, wr, d, rd) \in Seq(Point)
    BY FifoWords
  <2>5. Len(f) \in Nat /\ Len(NextWords(f, k, wr, d, rd)) \in Nat
    BY <2>4, LenProperties
  <2>6. Len(NextWords(f, k, wr, d, rd)) + Bit(rd /\ f # << >>)
             = Len(f) + Bit(wr /\ Len(f) < k)
    BY FifoEdge
  <2>7. /\ f # << >> <=> Len(f) > 0
        /\ NextQ(f, q, rd) \in Point \union {q}
    BY FifoRead
  <2> QED BY <2>2, <2>3, <2>4, <2>5, <2>6, <2>7 DEF Pops
<1>3. fifo_node'[n] = NextWords(fifo_node[n], FIFO_NODE_WORDS, node_write_out[n],
                                node_data_out[n].point, fifo_node_rdreq[n])
  BY DEF NodeFifos
<1>4. fifo_node' \in [Node -> Seq(Point)]
  BY <1>2 DEF NodeFifos
<1>5. fifo_node_q' \in [Node -> Point]
  BY <1>2 DEF NodeFifos
<1> QED BY <1>2, <1>3, <1>4, <1>5

\* The merge machine keeps its registers in their types and never asks a FIFO
\* for more words than it holds (pipes.v, FSM 2).
LEMMA UnloadStep ==
  ASSUME TypeOK, NP!IInv, UnloadReadsWords, UnloadFsm, NodeFifos
  PROVE  /\ next_state_2_unload' \in {"RESET", "CHECK_FIFO_FILL", "READ_WRITE", "END_WRITE"}
         /\ read_count' \in Nat /\ write_out' \in BOOLEAN /\ rdreq_select' \in BOOLEAN
         /\ fifo_select' \in Node
         /\ UnloadReadsWords'
         /\ write_out' => Pops(fifo_select)
<1>0. /\ next_state_2_unload \in {"RESET", "CHECK_FIFO_FILL", "READ_WRITE", "END_WRITE"}
      /\ read_count \in Nat /\ write_out \in BOOLEAN /\ rdreq_select \in BOOLEAN
      /\ fifo_select \in Node
  BY DEF TypeOK
<1>1. /\ Len(fifo_node[fifo_select]) \in Nat /\ Len(fifo_node'[fifo_select]) \in Nat
      /\ fifo_node[fifo_select] # << >> <=> Len(fifo_node[fifo_select]) > 0
      /\ Len(fifo_node'[fifo_select]) >= Len(fifo_node[fifo_select]) - Bit(Pops(fifo_select))
  <2>1. /\ Len(fifo_node[fifo_select]) \in Nat /\ Len(fifo_node'[fifo_select]) \in Nat
        /\ fifo_node[fifo_select] # << >> <=> Len(fifo_node[fifo_select]) > 0
        /\ Len(fifo_node'[fifo_select]) + Bit(Pops(fifo_select))
             = Len(fifo_node[fifo_select])
                 + Bit(node_write_out[fifo_select]
                         /\ Len(fifo_node[fifo_select]) < FIFO_NODE_WORDS)
    BY <1>0, NodeFifoStep
  <2>2. \A b : Bit(b) \in {0, 1}
    BY DEF Bit
  <2> QED BY <2>1, <2>2
<1>2. Pops(fifo_select) <=> rdreq_select /\ fifo_node[fifo_select] # << >>
  BY <1>0 DEF Pops, fifo_node_rdreq
<1>3. /\ next_state_2_unload = "READ_WRITE" =>
           rdreq_select /\ read_count < Len(fifo_node[fifo_select])
      /\ rdreq_select => next_state_2_unload = "READ_WRITE"
      /\ write_out => next_state_2_unload \in {"READ_WRITE", "END_WRITE"}
  BY DEF UnloadReadsWords
<1>4. CASE UnloadReset
  BY <1>0, <1>3, <1>4 DEF UnloadReset, UnloadReadsWords
<1>5. CASE CheckFifoFill
  <2>1. CheckFifoFillFor(Len(fifo_node[fifo_select]) > 0, Len(fifo_node[fifo_select]) - 1)
    BY <1>5 DEF CheckFifoFill, usedw
  <2>2. ~Pops(fifo_select)
    BY <1>2, <1>3, <2>1 DEF CheckFifoFillFor
  <2>3. Len(fifo_node'[fifo_select]) >= Len(fifo_node[fifo_select])
    BY <1>1, <2>2 DEF Bit
  <2>4. CASE Len(fifo_node[fifo_select]) > 0
    <3>1. /\ next_state_2_unload' = "READ_WRITE" /\ rdreq_select' /\ ~write_out'
          /\ read_count' = Len(fifo_node[fifo_select]) - 1 /\ fifo_select' = fifo_select
      BY <2>1, <2>4 DEF CheckFifoFillFor
    <3>2. read_count' \in Nat /\ read_count' < Len(fifo_node'[fifo_select'])
      BY <1>1, <2>3, <2>4, <3>1
    <3> QED BY <1>0, <2>1, <3>1, <3>2 DEF CheckFifoFillFor, UnloadReadsWords
  <2>5. CASE ~(Len(fifo_node[fifo_select]) > 0)
    BY <1>0, <2>1, <2>5, NextIndexType DEF CheckFifoFillFor, UnloadReadsWords
  <2> QED BY <2>4, <2>5
<1>6. CASE ReadWrite
  <2>1. Pops(fifo_select) /\ read_count < Len(fifo_node[fifo_select])
    BY <1>0, <1>1, <1>2, <1>3, <1>6 DEF ReadWrite
  <2>2. Len(fifo_node'[fifo_select]) >= Len(fifo_node[fifo_select]) - 1
    BY <1>1, <2>1 DEF Bit
  <2>3. /\ next_state_2_unload = "READ_WRITE" /\ write_out' /\ fifo_select' = fifo_select
        /\ rdreq_select' = (read_count > 0)
    BY <1>6 DEF ReadWrite
  <2>4. CASE read_count > 0
    <3>1. read_count' = read_count - 1 /\ next_state_2_unload' = "READ_WRITE"
      BY <1>6, <2>3, <2>4 DEF ReadWrite
    <3>2. read_count' \in Nat /\ read_count' < Len(fifo_node'[fifo_select'])
      BY <1>0, <1>1, <2>1, <2>2, <2>3, <2>4, <3>1
    <3> QED BY <1>0, <2>1, <2>3, <2>4, <3>1, <3>2 DEF ReadWrite, UnloadReadsWords
  <2>5. CASE ~(read_count > 0)
    <3>1. ~rdreq_select' /\ next_state_2_unload' = "END_WRITE" /\ read_count' = read_count
      BY <1>6, <2>3, <2>5 DEF ReadWrite
    <3> QED BY <1>0, <2>1, <2>3, <3>1 DEF UnloadReadsWords
  <2> QED BY <2>4, <2>5
<1>7. CASE EndWrite
  BY <1>0, <1>3, <1>7, NextIndexType DEF EndWrite, UnloadReadsWords
<1> QED BY <1>4, <1>5, <1>6, <1>7 DEF UnloadFsm
-----------------------------------------------------------------------------
(* The account of a node and its FIFO.                                     *)

\* What a node and its FIFO hold is a number.
LEMMA LoadType ==
  ASSUME TypeOK, NP!IInv, NEW n \in Node
  PROVE  /\ Load(n) \in Nat /\ counter_processes[n] \in Nat /\ Len(fifo_node[n]) \in Nat
         /\ Load(n) = counter_processes[n] + Bit(N!Pending(n)) + Len(fifo_node[n])
<1>1. counter_processes[n] \in Nat
  <2>1. counter_processes \in [Node -> NP!ProcCount]
    BY DEF NP!IInv, NP!TypeOK
  <2> QED BY <2>1 DEF NP!ProcCount
<1>2. Len(fifo_node[n]) \in Nat
  BY LenProperties DEF TypeOK
<1> QED BY <1>1, <1>2 DEF Load, Bit

\* A node that delivers finds a place in its FIFO.
LEMMA NodeFits ==
  ASSUME TypeOK, NP!IInv, NodeFifoHeadroom, NEW n \in Node, node_write_out[n]
  PROVE  Len(fifo_node[n]) < FIFO_NODE_WORDS
<1>1. counter_processes[n] >= 1
  BY NodeSizes, NP!CounterLive
<1>2. /\ Load(n) = counter_processes[n] + Bit(N!Pending(n)) + Len(fifo_node[n])
      /\ counter_processes[n] \in Nat /\ Len(fifo_node[n]) \in Nat
  BY LoadType
<1>3. Load(n) <= MaxLoad /\ MaxLoad <= FIFO_NODE_WORDS /\ MaxLoad \in Nat /\ FIFO_NODE_WORDS \in Nat
  BY Sizes DEF NodeFifoHeadroom, MaxLoad
<1>4. Bit(N!Pending(n)) \in {0, 1}
  BY DEF Bit
<1> QED BY <1>1, <1>2, <1>3, <1>4

\* It grows only by the pixel dealt, when there is a place left for it, and
\* loses each word that is popped: nothing is lost at a full node FIFO.
LEMMA LoadAccount ==
  ASSUME Inv, Edge, NEW n \in Node
  PROVE  /\ Load(n)' \in Nat
         /\ Load(n)' + Bit(Pops(n)) = Load(n) + Bit(node_start'[n])
         /\ node_start'[n] => Load(n) <= MaxLoad - 1
<1>1. /\ TypeOK /\ Pulses /\ NP!IInv /\ NP!Tick /\ NodeFifos /\ LoadFsm
      /\ NP!PipelineAssumption /\ NP!IterationAssumption /\ NP!PointAssumption
  BY NodeEdge, NodeSizes DEF Inv, Edge, Clock
<1>2. /\ counter_processes[n] \in Nat /\ counter_processes'[n] \in Nat
      /\ counter_processes'[n] + NP!Bit(NP!Pending(n)') + NP!Bit(node_write_out[n])
           = counter_processes[n] + NP!Bit(NP!Pending(n)) + NP!Bit(node_start'[n])
      /\ node_write_out[n] => counter_processes[n] >= 1
      /\ node_start'[n] => /\ ~NP!Pending(n)
                           /\ counter_processes[n] <= NP!ALL_PIPEL_SIZE - 3
  BY <1>1, NP!NodeAccount
<1>3. /\ NP!Pending(n) <=> N!Pending(n)
      /\ NP!Pending(n)' <=> N!Pending(n)'
      /\ NP!ALL_PIPEL_SIZE = N!ALL_PIPEL_SIZE
      /\ \A b : NP!Bit(b) = Bit(b)
  BY SameNames DEF N!Pending, NP!Pending, Bit, NP!Bit
<1>4. /\ Len(fifo_node[n]) \in Nat /\ Len(fifo_node'[n]) \in Nat
      /\ Len(fifo_node'[n]) + Bit(Pops(n))
           = Len(fifo_node[n])
               + Bit(node_write_out[n] /\ Len(fifo_node[n]) < FIFO_NODE_WORDS)
  BY <1>1, NodeFifoStep
<1>5. Load(n) = counter_processes[n] + Bit(N!Pending(n)) + Len(fifo_node[n])
  BY <1>1, LoadType
<1>6. Load(n)' = counter_processes'[n] + Bit(N!Pending(n)') + Len(fifo_node'[n])
  BY DEF Load, Bit
<1>7. Load(n) <= MaxLoad /\ MaxLoad <= FIFO_NODE_WORDS /\ MaxLoad \in Nat
  BY Sizes DEF Inv, NodeFifoHeadroom, MaxLoad
<1>8. \A b : Bit(b) \in {0, 1}
  BY DEF Bit
<1>9. node_write_out[n] => Len(fifo_node[n]) < FIFO_NODE_WORDS
  <2>1. Bit(N!Pending(n)) \in {0, 1}
    BY <1>8
  <2> QED BY <1>2, <1>4, <1>5, <1>7, <2>1, Sizes
<1>10. Bit(node_write_out[n] /\ Len(fifo_node[n]) < FIFO_NODE_WORDS) = Bit(node_write_out[n])
  BY <1>9 DEF Bit
<1>11. node_start'[n] => Load(n) <= MaxLoad - 1
  <2>1. node_start'[n] => /\ ~(Len(fifo_node[n]) >= FIFO_NODE_ALMOST_FULL)
                          /\ Bit(N!Pending(n)) = 0
                          /\ counter_processes[n] <= N!ALL_PIPEL_SIZE - 3
    BY <1>1, <1>2, <1>3, Hosted DEF Bit
  <2> QED BY <1>2, <1>4, <1>5, <2>1, Sizes DEF MaxLoad
<1>12. counter_processes'[n] + Bit(N!Pending(n)') + Bit(node_write_out[n])
         = counter_processes[n] + Bit(N!Pending(n)) + Bit(node_start'[n])
  <2>1. /\ NP!Bit(NP!Pending(n)') = Bit(N!Pending(n)')
        /\ NP!Bit(NP!Pending(n)) = Bit(N!Pending(n))
        /\ NP!Bit(node_write_out[n]) = Bit(node_write_out[n])
        /\ NP!Bit(node_start'[n]) = Bit(node_start'[n])
    BY <1>3 DEF Bit, NP!Bit
  <2> QED BY <1>2, <2>1
<1>13. /\ Bit(N!Pending(n)) \in {0, 1} /\ Bit(N!Pending(n)') \in {0, 1}
       /\ Bit(node_write_out[n]) \in {0, 1} /\ Bit(node_start'[n]) \in {0, 1}
       /\ Bit(Pops(n)) \in {0, 1}
  BY <1>8
<1>14. Load(n)' \in Nat
  BY <1>2, <1>4, <1>6, <1>13
<1>15. Load(n)' + Bit(Pops(n)) = Load(n) + Bit(node_start'[n])
  <2>1. Len(fifo_node'[n]) + Bit(Pops(n)) = Len(fifo_node[n]) + Bit(node_write_out[n])
    BY <1>4, <1>10
  <2>2. /\ Bit(N!Pending(n)) \in Int /\ Bit(N!Pending(n)') \in Int
        /\ Bit(node_write_out[n]) \in Int /\ Bit(node_start'[n]) \in Int
        /\ Bit(Pops(n)) \in Int
        /\ counter_processes[n] \in Int /\ counter_processes'[n] \in Int
        /\ Len(fifo_node[n]) \in Int /\ Len(fifo_node'[n]) \in Int
    BY <1>2, <1>4, <1>13
  <2> DEFINE c == counter_processes[n]   cc == counter_processes'[n]
             p == Bit(N!Pending(n))      pp == Bit(N!Pending(n)')
             k == Len(fifo_node[n])      kk == Len(fifo_node'[n])
             w == Bit(node_write_out[n]) o == Bit(Pops(n))
             e == Bit(node_start'[n])
  <2>3. cc + pp + w = c + p + e /\ kk + o = k + w
    BY <1>12, <2>1
  <2>4. /\ c \in Int /\ cc \in Int /\ p \in Int /\ pp \in Int /\ k \in Int /\ kk \in Int
        /\ w \in Int /\ o \in Int /\ e \in Int
    BY <2>2
  <2> HIDE DEF c, cc, p, pp, k, kk, w, o, e
  <2>5. cc + pp + kk + o = c + p + k + e
    BY <2>3, <2>4
  <2> QED BY <1>5, <1>6, <2>5 DEF c, cc, p, pp, k, kk, w, o, e
<1> QED BY <1>11, <1>14, <1>15
-----------------------------------------------------------------------------
(* Where a pixel is: the account of one pixel through a FIFO, the nodes and *)
(* the two machines.                                                       *)

\* How often p is among the words of a FIFO.
Count(s, p) == Cardinality({i \in DOMAIN s : s[i] = p})

\* It is a number.
LEMMA CountNat == ASSUME NEW S, NEW s \in Seq(S), NEW p PROVE Count(s, p) \in Nat
<1>1. Len(s) \in Nat /\ DOMAIN s = 1 .. Len(s)
  BY LenProperties
<1>2. IsFiniteSet(1 .. Len(s))
  BY <1>1, FS_Interval
<1>3. {i \in DOMAIN s : s[i] = p} \in SUBSET (1 .. Len(s))
  BY <1>1
<1> QED BY <1>2, <1>3, FS_Subset, FS_CardinalityType DEF Count

\* A word written behind the others is counted once.
LEMMA CountAppend ==
  ASSUME NEW S, NEW s \in Seq(S), NEW d \in S, NEW p
  PROVE  /\ Count(s, p) \in Nat
         /\ Count(Append(s, d), p) = Count(s, p) + Bit(d = p)
<1> DEFINE here == {i \in DOMAIN s : s[i] = p}
           there == {i \in DOMAIN Append(s, d) : Append(s, d)[i] = p}
           new == Len(s) + 1
<1>1. /\ Len(s) \in Nat /\ DOMAIN s = 1 .. Len(s)
      /\ Append(s, d) \in Seq(S) /\ Len(Append(s, d)) = new
      /\ Append(s, d)[new] = d
      /\ \A i \in 1 .. Len(s) : Append(s, d)[i] = s[i]
  BY AppendProperties, LenProperties
<1>2. DOMAIN Append(s, d) = 1 .. new
  BY <1>1, LenProperties
<1>3. IsFiniteSet(here) /\ Cardinality(here) \in Nat
  <2>1. IsFiniteSet(1 .. Len(s)) /\ here \in SUBSET (1 .. Len(s))
    BY <1>1, FS_Interval
  <2> QED BY <2>1, FS_Subset, FS_CardinalityType
<1>4. new \notin here
  BY <1>1
<1>5. CASE d = p
  <2>1. there = here \union {new}
    BY <1>1, <1>2, <1>5
  <2>2. Cardinality(there) = Cardinality(here) + 1
    <3> HIDE DEF here, there, new
    <3> QED BY <1>3, <1>4, <2>1, FS_AddElement
  <2> QED BY <1>3, <1>5, <2>2 DEF Count, Bit
<1>6. CASE d # p
  <2>1. there = here
    BY <1>1, <1>2, <1>6
  <2>2. Count(Append(s, d), p) = Count(s, p) /\ Count(s, p) \in Nat
    BY <1>3, <2>1 DEF Count
  <2> QED BY <1>6, <2>2 DEF Bit
<1> QED BY <1>5, <1>6

\* The word read in front of the others was counted once.
LEMMA CountTail ==
  ASSUME NEW S, NEW s \in Seq(S), s # << >>, NEW p
  PROVE  /\ Count(Tail(s), p) \in Nat
         /\ Count(Tail(s), p) + Bit(Head(s) = p) = Count(s, p)
<1> DEFINE L == Len(s)
           here == {i \in DOMAIN s : s[i] = p}
           rest == {i \in DOMAIN Tail(s) : Tail(s)[i] = p}
<1>1. /\ L \in Nat \ {0} /\ DOMAIN s = 1 .. L /\ Head(s) = s[1]
      /\ Tail(s) \in Seq(S) /\ Len(Tail(s)) = L - 1
      /\ \A i \in 1 .. L - 1 : Tail(s)[i] = s[i + 1]
  BY HeadTailProperties, LenProperties, EmptySeq
<1>2. DOMAIN Tail(s) = 1 .. L - 1
  BY <1>1, LenProperties
<1>3. /\ IsFiniteSet(here) /\ Cardinality(here) \in Nat
      /\ IsFiniteSet(rest) /\ Cardinality(rest) \in Nat
  <2>1. /\ IsFiniteSet(1 .. L) /\ here \in SUBSET (1 .. L)
        /\ IsFiniteSet(1 .. L - 1) /\ rest \in SUBSET (1 .. L - 1)
    BY <1>1, <1>2, FS_Interval
  <2> QED BY <2>1, FS_Subset, FS_CardinalityType
<1> DEFINE later == here \ {1}
           back == [i \in later |-> i - 1]
<1>4. back \in Bijection(later, rest)
  <2>1. ASSUME NEW i \in later PROVE i - 1 \in rest
    BY <1>1, <1>2
  <2>2. ASSUME NEW i \in later, NEW j \in later, i - 1 = j - 1 PROVE i = j
    BY <1>1, <2>2
  <2>3. ASSUME NEW j \in rest PROVE j + 1 \in later /\ (j + 1) - 1 = j
    BY <1>1, <1>2
  <2> HIDE DEF later, rest
  <2>4. back \in Injection(later, rest)
    BY <2>1, <2>2 DEF Injection, IsInjective
  <2>5. back \in Surjection(later, rest)
    BY <2>1, <2>3 DEF Surjection
  <2> QED BY <2>4, <2>5 DEF Bijection
<1>5. IsFiniteSet(later) /\ Cardinality(later) = Cardinality(rest)
  <2>1. IsFiniteSet(later)
    <3> HIDE DEF here
    <3> QED BY <1>3, FS_RemoveElement
  <2>2. ExistsBijection(later, rest)
    <3> HIDE DEF back, later, rest
    <3> QED BY <1>4 DEF ExistsBijection
  <2> HIDE DEF later, rest
  <2> QED BY <1>3, <2>1, <2>2, FS_Bijection
<1> DEFINE h == Cardinality(here)
           r == Cardinality(rest)
<1>0. Count(s, p) = h /\ Count(Tail(s), p) = r /\ h \in Nat /\ r \in Nat
  BY <1>3 DEF Count
<1>6. CASE Head(s) = p
  <2>1. 1 \in here
    BY <1>1, <1>6
  <2>2. Cardinality(later) = Cardinality(here) - 1
    <3> HIDE DEF here
    <3> QED BY <1>3, <2>1, FS_RemoveElement
  <2> HIDE DEF here, rest, later
  <2>3. r + 1 = h
    BY <1>3, <1>5, <2>2
  <2> HIDE DEF h, r
  <2> QED BY <1>0, <1>6, <2>3 DEF Bit
<1>7. CASE Head(s) # p
  <2>1. later = here
    BY <1>1, <1>7
  <2> HIDE DEF here, rest, later
  <2>3. r = h
    BY <1>3, <1>5, <2>1
  <2> HIDE DEF h, r
  <2> QED BY <1>0, <1>7, <2>3 DEF Bit
<1> QED BY <1>6, <1>7

\* p comes into a FIFO, or goes out of it, at a clock edge.
Comes(wr, d, p) == Bit(wr /\ d = p)
Goes(f, rd, p)  == Bit(rd /\ f # << >> /\ Head(f) = p)

\* The wires of a FIFO of pixels that is not full when it is written.
Fitting(f, n, wr, d, rd) ==
  /\ f \in Seq(Point) /\ n \in Nat /\ wr \in BOOLEAN /\ d \in Point /\ rd \in BOOLEAN
  /\ wr => Len(f) < n

\* A clock edge of a FIFO that is not full when it is written: the word written
\* comes in, the word read goes out, the others stay (scfifo).
LEMMA FifoPixel ==
  ASSUME NEW f, NEW n, NEW wr, NEW d, NEW rd, NEW p, Fitting(f, n, wr, d, rd)
  PROVE  /\ Count(f, p) \in Nat /\ Count(NextWords(f, n, wr, d, rd), p) \in Nat
         /\ Count(NextWords(f, n, wr, d, rd), p) + Goes(f, rd, p)
              = Count(f, p) + Comes(wr, d, p)
<1> USE DEF Comes, Goes
<1>0. /\ f \in Seq(Point) /\ n \in Nat /\ wr \in BOOLEAN /\ d \in Point /\ rd \in BOOLEAN
      /\ wr => Len(f) < n
  BY DEF Fitting
<1> DEFINE rest == IF rd /\ f # << >> THEN Tail(f) ELSE f
           read == Bit(rd /\ f # << >> /\ Head(f) = p)
<1>1. /\ rest \in Seq(Point) /\ Count(rest, p) \in Nat /\ Count(f, p) \in Nat
      /\ Count(rest, p) + read = Count(f, p)
  <2>1. CASE rd /\ f # << >>
    <3>1. rest = Tail(f) /\ read = Bit(Head(f) = p)
      BY <2>1 DEF Bit
    <3> HIDE DEF rest, read
    <3> QED BY <1>0, <2>1, <3>1, CountTail, CountNat, HeadTailProperties
  <2>2. CASE ~(rd /\ f # << >>)
    <3>1. rest = f /\ read = 0
      BY <2>2 DEF Bit
    <3> HIDE DEF rest, read
    <3> QED BY <1>0, <3>1, CountNat
  <2> QED BY <2>1, <2>2
<1>2. Count(Append(rest, d), p) = Count(rest, p) + Bit(d = p)
  <2> HIDE DEF rest
  <2> QED BY <1>0, <1>1, CountAppend
<1>3. NextWords(f, n, wr, d, rd) = IF wr THEN Append(rest, d) ELSE rest
  BY <1>0 DEF NextWords
<1>4. read \in Int /\ Bit(d = p) \in Nat
  BY DEF Bit
<1> HIDE DEF rest, read
<1>5. CASE wr
  BY <1>1, <1>2, <1>3, <1>4, <1>5 DEF read, Bit
<1>6. CASE ~wr
  BY <1>1, <1>3, <1>4, <1>6 DEF read, Bit
<1> QED BY <1>5, <1>6

\* How often pixel p is in node n and its FIFO.
HeldByNode(n, p) == NP!Carried(n, p) + Count(fifo_node[n], p)

\* A clock edge gives a node and its FIFO the pixel dealt to it and takes the
\* pixel the merge reads: none is lost, doubled or changed on the way.
LEMMA NodePixel ==
  ASSUME Inv, Edge, NEW n \in Node, NEW p
  PROVE  /\ HeldByNode(n, p) \in Nat /\ HeldByNode(n, p)' \in Nat
         /\ HeldByNode(n, p)' + Bit(Pops(n) /\ Head(fifo_node[n]) = p)
              = HeldByNode(n, p) + Bit(node_start[n] /\ data_in = p)
<1>1. /\ TypeOK /\ Pulses /\ NP!IInv /\ NP!Tick /\ NodeFifos
      /\ NP!PipelineAssumption /\ NP!IterationAssumption /\ NP!PointAssumption
  BY NodeEdge, NodeSizes DEF Inv, Edge, Clock
<1> DEFINE c  == NP!Carried(n, p)     cc == NP!Carried(n, p)'
           k  == Count(fifo_node[n], p)   kk == Count(fifo_node'[n], p)
           w  == Bit(node_write_out[n] /\ node_data_out[n].point = p)
           e  == Bit(node_start[n] /\ data_in = p)
           o  == Bit(Pops(n) /\ Head(fifo_node[n]) = p)
<1>2. c \in Nat /\ cc \in Nat /\ cc + w = c + e
  <2>1. /\ NP!Carried(n, p) \in Nat /\ NP!Carried(n, p)' \in Nat
        /\ NP!Carried(n, p)' + NP!Bit(node_write_out[n] /\ node_data_out[n].point = p)
             = NP!Carried(n, p) + NP!Bit(node_start[n] /\ data_in = p)
    BY <1>1, NP!PixelAccount
  <2>2. \A b : NP!Bit(b) = Bit(b)
    BY DEF Bit, NP!Bit
  <2>3. /\ NP!Bit(node_write_out[n] /\ node_data_out[n].point = p) = w
        /\ NP!Bit(node_start[n] /\ data_in = p) = e
    BY <2>2
  <2> HIDE DEF w, e
  <2> QED BY <2>1, <2>3
<1>3. /\ fifo_node[n] \in Seq(Point) /\ fifo_node_rdreq[n] \in BOOLEAN
      /\ node_write_out[n] \in BOOLEAN /\ node_data_out[n].point \in Point
  <2>1. node_write_out[n] \in BOOLEAN /\ node_data_out[n].point \in Point
    BY <1>1 DEF NP!IInv, NP!TypeOK, NP!Result
  <2> QED BY <1>1, <2>1 DEF TypeOK, fifo_node_rdreq
<1>4. node_write_out[n] => Len(fifo_node[n]) < FIFO_NODE_WORDS
  BY <1>1, NodeFits DEF Inv
<1>5. k \in Nat /\ kk \in Nat /\ kk + o = k + w
  <2>1. PICK f \in Seq(Point), wr \in BOOLEAN, d \in Point, rd \in BOOLEAN :
          /\ f = fifo_node[n] /\ rd = fifo_node_rdreq[n]
          /\ wr = node_write_out[n] /\ d = node_data_out[n].point
    BY <1>3
  <2>0. PICK words \in Nat : words = FIFO_NODE_WORDS
    BY Sizes
  <2>2. wr => Len(f) < words
    BY <1>4, <2>0, <2>1
  <2> DEFINE g == NextWords(f, words, wr, d, rd)
  <2>3. /\ Count(f, p) \in Nat /\ Count(g, p) \in Nat
        /\ Count(g, p) + Goes(f, rd, p) = Count(f, p) + Comes(wr, d, p)
    BY <2>2, FifoPixel DEF Fitting
  <2>4. fifo_node'[n] = g
    BY <1>1, <2>0, <2>1 DEF NodeFifos
  <2>5. Goes(f, rd, p) = o /\ Comes(wr, d, p) = w
    BY <2>1 DEF Pops, Bit, Goes, Comes
  <2>6. Count(f, p) = k /\ Count(g, p) = kk
    BY <2>1, <2>4
  <2> HIDE DEF g, k, kk, o, w
  <2> QED BY <2>3, <2>5, <2>6
<1>6. HeldByNode(n, p) = c + k /\ HeldByNode(n, p)' = cc + kk
  BY DEF HeldByNode, Count
<1>7. w \in {0, 1} /\ e \in {0, 1} /\ o \in {0, 1}
  BY DEF Bit
<1> HIDE DEF c, cc, k, kk, w, e, o
<1>8. c + k \in Nat /\ cc + kk \in Nat /\ cc + kk + o = c + k + e
  BY <1>2, <1>5, <1>7
<1> QED BY <1>6, <1>8 DEF o, e

\* A number of times, none at power-up.
LEMMA PixelCount ==
  ASSUME Inv, NEW n \in Node, NEW p PROVE HeldByNode(n, p) \in Nat
<1>1. NP!Carried(n, p) \in Nat
  BY NodeSizes, NP!PixelNat DEF Inv, NP!IInv
<1>2. Count(fifo_node[n], p) \in Nat
  <2>1. fifo_node[n] \in Seq(Point)
    BY DEF Inv, TypeOK
  <2> QED BY <2>1, CountNat
<1> QED BY <1>1, <1>2 DEF HeldByNode

\* At power-up no node holds a pixel.
LEMMA InitPixel ==
  ASSUME PipesInit, NEW n \in Node, NEW p PROVE HeldByNode(n, p) = 0
<1>1. NP!Carried(n, p) = 0
  <2>1. NP!NodeInit
    BY SameInit DEF PipesInit
  <2> QED BY <2>1, NodeSizes, NP!InitPixel
<1>2. fifo_node[n] = << >>
  BY DEF PipesInit
<1>3. {i \in DOMAIN << >> : << >>[i] = p} = {}
  BY EmptySeq
<1> QED BY <1>1, <1>2, <1>3, FS_EmptySet DEF HeldByNode, Count

\* The fall of reset_n may only drop pixels of a node.
LEMMA FallPixel ==
  ASSUME Inv, Fall, NEW n \in Node, NEW p
  PROVE  HeldByNode(n, p)' \in Nat /\ HeldByNode(n, p)' <= HeldByNode(n, p)
<1>0. fifo_node' = fifo_node /\ N!NodeReset
  BY DEF Fall, PipesReset, fifoVars
<1>1. NP!Carried(n, p)' = 0
  <2>1. NP!NodeReset
    BY <1>0, SameReset
  <2> QED BY <2>1, NodeSizes, NP!ResetPixel
<1>2. NP!Carried(n, p) \in Nat
  BY NodeSizes, NP!PixelNat DEF Inv, NP!IInv
<1>3. Count(fifo_node[n], p) \in Nat /\ Count(fifo_node[n], p)' = Count(fifo_node[n], p)
  <2>1. fifo_node[n] \in Seq(Point)
    BY DEF Inv, TypeOK
  <2> QED BY <1>0, <2>1, CountNat DEF Count
<1> QED BY <1>1, <1>2, <1>3 DEF HeldByNode

\* Standing still leaves them where they are.
LEMMA StillPixel ==
  ASSUME Still, NEW n, NEW p
  PROVE  HeldByNode(n, p)' = HeldByNode(n, p)
BY DEF Still, fifoVars, nodeVars, HeldByNode, Count, NP!Carried, NP!InProcess

\* The pixel the load machine has fetched and no node has sampled yet.
Fetched ==
  \/ next_state_1_load \in {"END_LOAD", "NEXT_NODE"}
  \/ next_state_1_load = "BEGIN_LOAD" /\ ~data_in_read

\* The machine holds one pixel from the clock that reads it to the clock that
\* starts a node with it (pipes.v, FSM 1).
LEMMA LoadPixel ==
  ASSUME TypeOK, Pulses, LoadFsm
  PROVE  /\ Fetched' <=> data_in_read \/ (Fetched /\ ~start_select)
         /\ data_in_read => ~Fetched
         /\ start_select => Fetched
<1>0. /\ next_state_1_load \in {"RESET", "IDLE", "BEGIN_LOAD", "END_LOAD", "NEXT_NODE"}
      /\ start_select \in BOOLEAN /\ data_in_read \in BOOLEAN
      /\ start_select <=> next_state_1_load = "END_LOAD"
      /\ data_in_read => next_state_1_load = "BEGIN_LOAD"
  BY DEF TypeOK, Pulses
<1>1. CASE LoadReset
  BY <1>0, <1>1 DEF LoadReset, Fetched
<1>2. CASE LoadIdle
  BY <1>0, <1>2 DEF LoadIdle, LoadIdleIf, Fetched
<1>3. CASE BeginLoad
  BY <1>0, <1>3 DEF BeginLoad, BeginLoadIf, Fetched, busy_select, almost_full_select
<1>4. CASE EndLoad
  BY <1>0, <1>4 DEF EndLoad, Fetched
<1>5. CASE NextNode
  BY <1>0, <1>5 DEF NextNode, Fetched
<1> QED BY <1>1, <1>2, <1>3, <1>4, <1>5 DEF LoadFsm

\* Whenever the merge reads a word it offers that word behind the pipes at the
\* next clock, and it offers nothing else (pipes.v, FSM 2).
LEMMA MergePixel ==
  ASSUME TypeOK, NP!IInv, UnloadReadsWords, UnloadFsm, NodeFifos
  PROVE  /\ write_out' <=> Pops(fifo_select)
         /\ write_out' => data_out' = Head(fifo_node[fifo_select])
<1>0. write_out' => Pops(fifo_select)
  BY UnloadStep
<1>1. Pops(fifo_select) => next_state_2_unload = "READ_WRITE"
  BY DEF Pops, fifo_node_rdreq, UnloadReadsWords, TypeOK
<1>2. next_state_2_unload = "READ_WRITE" => write_out' /\ fifo_select' = fifo_select
  BY DEF UnloadFsm, UnloadReset, CheckFifoFill, CheckFifoFillFor, ReadWrite, EndWrite
<1>3. Pops(fifo_select) => fifo_node_q'[fifo_select] = Head(fifo_node[fifo_select])
  <2>1. fifo_select \in Node
    BY DEF TypeOK
  <2> QED BY <2>1 DEF NodeFifos, Pops, NextQ
<1> QED BY <1>0, <1>1, <1>2, <1>3 DEF data_out
-----------------------------------------------------------------------------
(* The invariant.                                                          *)

\* The pipes start empty.
LEMMA StartInv ==
  ASSUME PipesInit, reset_n = TRUE, data_in = Origin
  PROVE  Inv /\ N!Init
<1>0. /\ next_state_1_load = "RESET" /\ data_in_read = FALSE /\ start_select = FALSE
      /\ node_select = 0 /\ next_state_2_unload = "RESET" /\ read_count = 0
      /\ write_out = FALSE /\ rdreq_select = FALSE /\ fifo_select = 0
      /\ fifo_node = [n \in Node |-> << >>] /\ fifo_node_q = [n \in Node |-> Origin]
      /\ N!NodeInit
  BY DEF PipesInit
<1>1. TypeOK
  BY <1>0, Sizes, EmptySeq DEF TypeOK
<1>2. Pulses /\ Cleared /\ UnloadReadsWords
  BY <1>0 DEF Pulses, Cleared, UnloadReadsWords
<1>3. node_start = NP!Low /\ node_start = N!Low
  BY <1>0 DEF node_start, NP!Low, N!Low
<1>4. NP!IInv
  BY <1>0, <1>3, SameInit, NodeSizes, NP!InitIInv DEF NP!Init
<1>5. NodeFifoHeadroom
  <2> SUFFICES ASSUME NEW n \in Node PROVE Load(n) <= MaxLoad
    BY DEF NodeFifoHeadroom, MaxLoad
  <2>1. counter_processes[n] = 0 /\ ~N!Pending(n)
    BY <1>0, <1>3 DEF N!NodeInit, N!Low, N!Pending
  <2>2. Len(fifo_node[n]) = 0
    BY <1>0, EmptySeq
  <2> QED BY <2>1, <2>2, Sizes DEF Load
<1> QED BY <1>0, <1>1, <1>2, <1>3, <1>4, <1>5 DEF Inv, N!Init

\* A clock edge keeps the invariant (every always block of pipes.v and of the
\* nodes, and the node FIFOs).
LEMMA EdgeInv == ASSUME Inv, Edge PROVE Inv'
<1>1. /\ TypeOK /\ Pulses /\ UnloadReadsWords /\ NP!IInv /\ NP!Tick
      /\ LoadFsm /\ UnloadFsm /\ NodeFifos /\ reset_n'
  BY NodeEdge DEF Inv, Edge, Clock
<1>2. /\ fifo_node' \in [Node -> Seq(Point)] /\ fifo_node_q' \in [Node -> Point]
  BY <1>1, Sizes, NodeFifoStep
<1>3. TypeOK' /\ Pulses' /\ UnloadReadsWords'
  BY <1>1, <1>2, LoadStep, UnloadStep DEF TypeOK
<1>4. NP!IInv'
  BY <1>1, NodeSizes, NP!TickIInv
<1>5. NodeFifoHeadroom'
  <2> SUFFICES ASSUME NEW n \in Node PROVE Load(n)' <= MaxLoad
    BY DEF NodeFifoHeadroom, MaxLoad
  <2>1. /\ Load(n)' \in Nat /\ Load(n) \in Nat /\ MaxLoad \in Nat
        /\ Load(n)' + Bit(Pops(n)) = Load(n) + Bit(node_start'[n])
        /\ node_start'[n] => Load(n) <= MaxLoad - 1
    BY <1>1, LoadAccount, LoadType, Sizes
  <2>2. Load(n) <= MaxLoad
    BY DEF Inv, NodeFifoHeadroom, MaxLoad
  <2> QED BY <2>1, <2>2 DEF Bit
<1> QED BY <1>1, <1>3, <1>4, <1>5 DEF Inv, Cleared

\* The fall of reset_n drops what the nodes hold and leaves their FIFOs.
LEMMA FallLoad ==
  ASSUME Inv, Fall, NEW n \in Node
  PROVE  Load(n)' \in Nat /\ Load(n)' <= Load(n)
<1>0. /\ fifo_node' = fifo_node /\ N!NodeReset /\ start_select' = FALSE
  BY DEF Fall, PipesReset, fifoVars
<1>1. counter_processes'[n] = 0 /\ ~N!Pending(n)'
  BY <1>0 DEF N!NodeReset, N!Low, N!Pending, node_start
<1>2. /\ Load(n) = counter_processes[n] + Bit(N!Pending(n)) + Len(fifo_node[n])
      /\ counter_processes[n] \in Nat /\ Len(fifo_node[n]) \in Nat
  BY LoadType DEF Inv
<1>3. Load(n)' = Len(fifo_node[n])
  BY <1>0, <1>1, <1>2 DEF Load
<1> QED BY <1>2, <1>3 DEF Bit

\* Standing still leaves the account as it is.
LEMMA StillLoad ==
  ASSUME Inv, Still, NEW n \in Node
  PROVE  Load(n)' = Load(n)
BY DEF Still, loadVars, fifoVars, nodeVars, Load, N!Pending, node_start

\* The fall of reset_n keeps it: the machines and the nodes are cleared, the
\* FIFOs keep their words.
LEMMA FallInv == ASSUME Inv, Fall PROVE Inv' /\ N!ResetDown
<1>0. /\ next_state_1_load' = "RESET" /\ data_in_read' = FALSE /\ start_select' = FALSE
      /\ node_select' = 0 /\ next_state_2_unload' = "RESET" /\ read_count' = 0
      /\ write_out' = FALSE /\ rdreq_select' = FALSE /\ fifo_select' = 0
      /\ fifo_node' = fifo_node /\ fifo_node_q' = fifo_node_q
      /\ N!NodeReset /\ reset_n /\ reset_n' = FALSE /\ data_in' = data_in
  BY DEF Fall, PipesReset, fifoVars
<1>1. TypeOK'
  BY <1>0, Sizes DEF Inv, TypeOK
<1>2. Pulses' /\ Cleared' /\ UnloadReadsWords'
  BY <1>0 DEF Pulses, Cleared, UnloadReadsWords
<1>3. node_start' = NP!Low /\ node_start' = N!Low
  BY <1>0 DEF node_start, NP!Low, N!Low
<1>4. NP!IInv'
  <2>1. NP!ResetDown
    BY <1>0, <1>3, SameReset DEF NP!ResetDown
  <2> QED BY <2>1, NodeSizes, NP!NextIInv DEF Inv, NP!Next
<1>5. NodeFifoHeadroom'
  <2> SUFFICES ASSUME NEW n \in Node PROVE Load(n)' <= MaxLoad
    BY DEF NodeFifoHeadroom, MaxLoad
  <2>1. Load(n)' \in Nat /\ Load(n)' <= Load(n) /\ Load(n) \in Nat
    BY FallLoad, LoadType DEF Inv
  <2>2. Load(n) <= MaxLoad
    BY DEF Inv, NodeFifoHeadroom, MaxLoad
  <2> QED BY <2>1, <2>2, Sizes
<1> QED BY <1>0, <1>1, <1>2, <1>3, <1>4, <1>5 DEF Inv, N!ResetDown

\* Standing still keeps it.
LEMMA StillInv ==
  ASSUME Inv, Still
  PROVE  Inv' /\ (N!ResetUp \/ UNCHANGED N!vars)
<1>0. /\ UNCHANGED << data_in, next_state_1_load, data_in_read, start_select, node_select,
                      next_state_2_unload, read_count, write_out, rdreq_select, fifo_select,
                      fifo_node, fifo_node_q >>
      /\ UNCHANGED << r0, r1, r2, data_ready, point_start, in_process_q, count_iterations_q,
                      coord_q, node_write_out, node_data_out, node_busy, counter_processes >>
      /\ reset_n' = reset_n \/ (~reset_n /\ reset_n' = TRUE)
  BY DEF Still, loadVars, unloadVars, fifoVars, nodeVars
<1>1. node_start' = node_start
  BY <1>0 DEF node_start
<1>2. TypeOK' /\ Pulses' /\ Cleared' /\ UnloadReadsWords'
  BY <1>0 DEF Inv, TypeOK, Pulses, Cleared, UnloadReadsWords
<1>3. NodeFifoHeadroom'
  BY StillLoad DEF Inv, NodeFifoHeadroom
<1>4. NP!ResetUp \/ UNCHANGED NP!vars
  BY <1>0, <1>1 DEF NP!ResetUp, NP!vars, NP!nodeVars
<1>5. N!ResetUp \/ UNCHANGED N!vars
  BY <1>0, <1>1 DEF N!ResetUp, N!vars, N!nodeVars
<1>6. NP!IInv'
  BY <1>4, NodeSizes, NP!NextIInv DEF Inv, NP!Next
<1> QED BY <1>2, <1>3, <1>5, <1>6 DEF Inv

\* Whatever surrounds the pipes, they keep the invariant, and the nodes inside
\* make the steps of DivergenceNode.
LEMMA MoveInv == ASSUME Inv, Move PROVE Inv' /\ [N!Next]_N!vars
<1>1. CASE Edge
  BY <1>1, EdgeInv, NodeEdge DEF Inv, N!Next
<1>2. CASE Fall
  BY <1>2, FallInv DEF N!Next
<1>3. CASE Still
  BY <1>3, StillInv DEF N!Next
<1> QED BY <1>1, <1>2, <1>3 DEF Move

\* Every step of Pipes is such a move.
LEMMA NextMove == Inv /\ [Next]_vars => Move
<1> SUFFICES ASSUME Inv, [Next]_vars PROVE Move
  OBVIOUS
<1>1. CASE Tick
  <2>1. data_in' \in Point
    BY <1>1 DEF Tick, Surroundings, Inv, NP!IInv, NP!TypeOK
  <2> QED BY <1>1, <2>1 DEF Tick, Edge, Move
<1>2. CASE ResetDown
  BY <1>2 DEF ResetDown, wires, Fall, Move
<1>3. CASE ResetUp
  BY <1>3 DEF ResetUp, wires, Still, Move
<1>4. CASE UNCHANGED vars
  <2>1. UNCHANGED << reset_n, wires, loadVars, unloadVars, fifoVars, nodeVars >>
    BY <1>4 DEF vars
  <2>2. data_in' = data_in /\ reset_n' = reset_n
    BY <2>1 DEF wires
  <2> QED BY <2>1, <2>2 DEF Still, Move
<1> QED BY <1>1, <1>2, <1>3, <1>4 DEF Next

\* The inductive invariant holds of every behaviour of the pipes.
THEOREM PipesInvariant == Spec => []Inv
<1>1. Init => Inv
  BY StartInv DEF Init
<1>2. Inv /\ [Next]_vars => Inv'
  BY NextMove, MoveInv
<1> QED BY <1>1, <1>2, PTL DEF Spec

\* No result is lost at a full node FIFO: what a node still holds always fits.
THEOREM HeadroomSuffices == Spec => []NodeFifoHeadroom
<1>1. Inv => NodeFifoHeadroom
  BY DEF Inv
<1> QED BY <1>1, PipesInvariant, PTL

\* The merge never reads an empty FIFO nor writes out what it has not read.
THEOREM MergeReadsWords == Spec => []UnloadReadsWords
<1>1. Inv => UnloadReadsWords
  BY DEF Inv
<1> QED BY <1>1, PipesInvariant, PTL

\* The pipes implement the host of their nodes: every behaviour of the pipes is
\* one of DivergenceNode, so what is proved of the nodes holds inside the pipes.
THEOREM PipesHostNodes == Spec => NodeProtocol
<1>1. Init => N!Init
  BY StartInv DEF Init
<1>2. Inv /\ [Next]_vars => [N!Next]_N!vars
  BY NextMove, MoveInv
<1> QED BY <1>1, <1>2, PipesInvariant, PTL DEF Spec, NodeProtocol, N!Spec
=============================================================================
