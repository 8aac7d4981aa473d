------------------------ MODULE FractalAccelerator_proofs ------------------------
(***************************************************************************)
(* Proofs about FractalAccelerator, for every number of nodes, pipeline    *)
(* length and FIFO sizes that the assumptions admit: the load machine      *)
(* finds the pixel it fetches, the output FIFO never overflows, and the    *)
(* accelerator implements PixelService: every pixel comes out once.        *)
(*                                                                         *)
(* PP is the instance of the theorems of Pipes_proofs with the real FIFOs  *)
(* around the pipes.  The output FIFO is looked at when a pixel is fetched *)
(* and never again, so the proof keeps an account of all that can still    *)
(* reach it (Fits): its own words, the word being written, all that the    *)
(* nodes and their FIFOs hold, and the pixel fetched but not started.      *)
(* Only a fetch adds to it.  The bound of AcceleratorAssumption is met     *)
(* exactly, because a word on its way out at the moment of a fetch has     *)
(* just left a node FIFO (Room).                                           *)
(*                                                                         *)
(* The refinement counts the occurrences of one pixel.  What a node and    *)
(* its FIFO hold of it is a number PP has an account of; the sum over the  *)
(* nodes is the size of a set of places, which changes where one node's    *)
(* number does.                                                            *)
(***************************************************************************)
EXTENDS FractalAccelerator, FiniteSetTheorems, SequenceTheorems, TLAPS

PP == INSTANCE Pipes_proofs WITH
        data_in <- fifo_in_q,
        data_in_available <- (fifo_in # << >>),
        space_ahead <- pipes_space_ahead

Bit(b) == IF b THEN 1 ELSE 0

\* One place for each of the M words that a member of A may hold, of which
\* f holds the first f[n].  Counting the places taken adds up what is held.
Cells(A, M, f) == {c \in A \X (1 .. M) : c[2] <= f[c[1]]}

\* All that the nodes and their FIFOs hold.
Held == Cardinality(Cells(0 .. PIPE_SIZE - 1, PP!MaxLoad,
                          [n \in 0 .. PIPE_SIZE - 1 |-> PP!Load(n)]))

WireTypes ==
  /\ data_in_write \in BOOLEAN /\ point_in \in Point /\ data_out_read \in BOOLEAN
  /\ fifo_in \in Seq(Point) /\ fifo_out \in Seq(Point)

\* All that can still reach the output FIFO has a place in it.
Fits == Len(fifo_out) + Bit(write_out) + Held + Bit(PP!Waits)
          <= FIFO_OUT_ALMOST_FULL + PIPE_SIZE * PP!MaxLoad

\* A word on its way to the output FIFO has left a place behind.
Room == next_state_1_load = "IDLE" /\ write_out => Held <= PIPE_SIZE * PP!MaxLoad - 1

\* The inductive invariant.
Inv == PP!Inv /\ WireTypes /\ FetchFindsPixel /\ Fits /\ Room
-----------------------------------------------------------------------------
(* Adding up what several nodes hold.                                      *)

\* It is a number, and at most M for each node.
LEMMA CellsBound ==
  ASSUME NEW p \in Nat, NEW M \in Nat, NEW f
  PROVE  LET A == 0 .. p - 1
         IN  /\ IsFiniteSet(Cells(A, M, f))
             /\ Cardinality(Cells(A, M, f)) \in Nat
             /\ Cardinality(Cells(A, M, f)) <= p * M
<1> DEFINE A == 0 .. p - 1
<1>1. /\ IsFiniteSet(A) /\ IsFiniteSet(1 .. M)
      /\ Cardinality(A) = p /\ Cardinality(1 .. M) = M
  BY FS_Interval
<1> HIDE DEF A
<1>2. IsFiniteSet(A \X (1 .. M)) /\ Cardinality(A \X (1 .. M)) = p * M
  BY <1>1, FS_Product
<1>3. Cells(A, M, f) \in SUBSET (A \X (1 .. M))
  BY DEF Cells
<1>4. /\ IsFiniteSet(Cells(A, M, f))
      /\ Cardinality(Cells(A, M, f)) <= Cardinality(A \X (1 .. M))
  BY <1>2, <1>3, FS_Subset
<1> QED BY <1>2, <1>4, FS_CardinalityType DEF A

\* Fewer held everywhere, fewer places taken.
LEMMA CellsFewer ==
  ASSUME NEW p \in Nat, NEW M \in Nat, NEW f, NEW g,
         \A n \in 0 .. p - 1 : f[n] \in Nat /\ g[n] \in Nat /\ f[n] <= g[n]
  PROVE  Cardinality(Cells(0 .. p - 1, M, f)) <= Cardinality(Cells(0 .. p - 1, M, g))
<1>1. Cells(0 .. p - 1, M, f) \in SUBSET Cells(0 .. p - 1, M, g)
  BY DEF Cells
<1> QED BY <1>1, CellsBound, FS_Subset

\* One held more at one node, one place more taken.
LEMMA CellsOneMore ==
  ASSUME NEW p \in Nat, NEW M \in Nat, NEW f, NEW g,
         \A n \in 0 .. p - 1 : f[n] \in Nat /\ g[n] \in 0 .. M,
         \E m \in 0 .. p - 1 : /\ g[m] = f[m] + 1
                               /\ \A n \in 0 .. p - 1 : n # m => g[n] = f[n]
  PROVE  Cardinality(Cells(0 .. p - 1, M, g)) = Cardinality(Cells(0 .. p - 1, M, f)) + 1
<1> PICK m \in 0 .. p - 1 : /\ g[m] = f[m] + 1
                            /\ \A n \in 0 .. p - 1 : n # m => g[n] = f[n]
  OBVIOUS
<1> DEFINE A == 0 .. p - 1
           new == << m, g[m] >>
<1>1. new \in A \X (1 .. M) /\ new[1] = m /\ new[2] = g[m]
  OBVIOUS
<1>2. new \notin Cells(A, M, f)
  BY <1>1 DEF Cells
<1>3. ASSUME NEW c \in A \X (1 .. M)
      PROVE  c \in Cells(A, M, g) <=> c \in Cells(A, M, f) \/ c = new
  <2>1. PICK a \in A, k \in 1 .. M : c = << a, k >>
    OBVIOUS
  <2>2. c[1] = a /\ c[2] = k
    BY <2>1
  <2>3. CASE a = m
    BY <2>1, <2>2, <2>3 DEF Cells
  <2>4. CASE a # m
    BY <2>1, <2>2, <2>4 DEF Cells
  <2> QED BY <2>3, <2>4
<1>4. Cells(A, M, g) = Cells(A, M, f) \union {new}
  BY <1>1, <1>3 DEF Cells
<1> HIDE DEF A, new
<1>5. IsFiniteSet(Cells(A, M, f))
  BY CellsBound DEF A
<1> QED BY <1>2, <1>4, <1>5, FS_AddElement DEF A

\* A step in which at most one node, b, starts a pixel and at most one, a, loses
\* a word: f holds what each has before it, and g after it.
Moves(p, M, f, g, pop, st) ==
  \E a, b \in 0 .. p - 1 :
    /\ \A n \in 0 .. p - 1 : f[n] \in 0 .. M /\ g[n] \in Nat
    /\ \A n \in 0 .. p - 1 : g[n] + Bit(pop /\ n = a) = f[n] + Bit(st /\ n = b)
    /\ st => f[b] <= M - 1

\* Over such a step the sum changes by the same.
LEMMA CellsStep ==
  ASSUME NEW p \in Nat, NEW M \in Nat, NEW f, NEW g,
         NEW pop \in BOOLEAN, NEW st \in BOOLEAN,
         Moves(p, M, f, g, pop, st)
  PROVE  Cardinality(Cells(0 .. p - 1, M, g)) + Bit(pop)
           = Cardinality(Cells(0 .. p - 1, M, f)) + Bit(st)
<1>0. PICK a \in 0 .. p - 1, b \in 0 .. p - 1 :
      /\ \A n \in 0 .. p - 1 : f[n] \in 0 .. M /\ g[n] \in Nat
      /\ \A n \in 0 .. p - 1 : g[n] + Bit(pop /\ n = a) = f[n] + Bit(st /\ n = b)
      /\ st => f[b] <= M - 1
  BY DEF Moves
<1> DEFINE h == [n \in 0 .. p - 1 |-> f[n] + Bit(st /\ n = b)]
           S(k) == Cardinality(Cells(0 .. p - 1, M, k))
<1>1. \A n \in 0 .. p - 1 : h[n] \in 0 .. M /\ h[n] = f[n] + Bit(st /\ n = b)
  BY <1>0 DEF Bit
<1>2. \A n \in 0 .. p - 1 : g[n] + Bit(pop /\ n = a) = h[n]
  BY <1>0, <1>1
<1> HIDE DEF h
<1>3. S(h) = S(f) + Bit(st)
  <2>1. CASE st
    <3>1. h[b] = f[b] + 1 /\ \A n \in 0 .. p - 1 : n # b => h[n] = f[n]
      BY <1>0, <1>1, <2>1 DEF Bit
    <3>2. \A n \in 0 .. p - 1 : f[n] \in Nat /\ h[n] \in 0 .. M
      BY <1>0, <1>1
    <3>3. \E m \in 0 .. p - 1 : /\ h[m] = f[m] + 1
                                /\ \A n \in 0 .. p - 1 : n # m => h[n] = f[n]
      BY <3>1
    <3>4. S(h) = S(f) + 1
      BY <3>2, <3>3, CellsOneMore
    <3> QED BY <2>1, <3>4 DEF Bit
  <2>2. CASE ~st
    <3>1. \A n \in 0 .. p - 1 : h[n] = f[n]
      BY <1>0, <1>1, <2>2 DEF Bit
    <3>2. Cells(0 .. p - 1, M, h) = Cells(0 .. p - 1, M, f)
      BY <3>1 DEF Cells
    <3>3. S(f) \in Nat
      BY CellsBound
    <3> QED BY <2>2, <3>2, <3>3 DEF Bit
  <2> QED BY <2>1, <2>2
<1>4. S(g) + Bit(pop) = S(h)
  <2>1. CASE pop
    <3>1. h[a] = g[a] + 1 /\ \A n \in 0 .. p - 1 : n # a => h[n] = g[n]
      BY <1>0, <1>1, <1>2, <2>1 DEF Bit
    <3>2. \A n \in 0 .. p - 1 : g[n] \in Nat /\ h[n] \in 0 .. M
      BY <1>0, <1>1
    <3>3. \E m \in 0 .. p - 1 : /\ h[m] = g[m] + 1
                                /\ \A n \in 0 .. p - 1 : n # m => h[n] = g[n]
      BY <3>1
    <3>4. S(h) = S(g) + 1
      BY <3>2, <3>3, CellsOneMore
    <3> QED BY <2>1, <3>4 DEF Bit
  <2>2. CASE ~pop
    <3>1. \A n \in 0 .. p - 1 : h[n] = g[n]
      BY <1>0, <1>1, <1>2, <2>2 DEF Bit
    <3>2. Cells(0 .. p - 1, M, h) = Cells(0 .. p - 1, M, g)
      BY <3>1 DEF Cells
    <3>3. S(g) \in Nat
      BY CellsBound
    <3> QED BY <2>2, <3>2, <3>3 DEF Bit
  <2> QED BY <2>1, <2>2
<1> QED BY <1>3, <1>4
-----------------------------------------------------------------------------
(* Adding up, over the nodes, how often they hold one pixel.               *)

\* The places that f counts.
Places(A, f) == UNION {{n} \X (1 .. f[n]) : n \in A}

\* They are finitely many.
LEMMA PlacesFinite ==
  ASSUME NEW p \in Nat, NEW f, \A n \in 0 .. p - 1 : f[n] \in Nat
  PROVE  /\ IsFiniteSet(Places(0 .. p - 1, f))
         /\ Cardinality(Places(0 .. p - 1, f)) \in Nat
<1> DEFINE A == 0 .. p - 1
           Rows == {{n} \X (1 .. f[n]) : n \in A}
<1>1. IsFiniteSet(A)
  BY FS_Interval
<1>2. IsFiniteSet(Rows)
  <2> DEFINE row == [n \in A |-> {n} \X (1 .. f[n])]
  <2>1. row \in Surjection(A, Rows)
    BY DEF Surjection
  <2> HIDE DEF row, Rows, A
  <2> QED BY <1>1, <2>1, FS_Surjection
<1>3. ASSUME NEW T \in Rows PROVE IsFiniteSet(T)
  <2>1. PICK n \in A : T = {n} \X (1 .. f[n])
    OBVIOUS
  <2>2. PICK k \in Nat : k = f[n]
    OBVIOUS
  <2>3. IsFiniteSet({n})
    BY FS_Singleton
  <2>4. IsFiniteSet(1 .. k)
    BY FS_Interval
  <2>5. T = {n} \X (1 .. k)
    BY <2>1, <2>2
  <2> QED BY <2>3, <2>4, <2>5, FS_Product
<1>4. Places(A, f) = UNION Rows
  BY DEF Places
<1> HIDE DEF A, Rows
<1>5. IsFiniteSet(Places(A, f))
  BY <1>2, <1>3, <1>4, FS_UNION
<1> QED BY <1>5, FS_CardinalityType DEF A

\* Fewer counted everywhere, fewer places.
LEMMA PlacesFewer ==
  ASSUME NEW p \in Nat, NEW f, NEW g,
         \A n \in 0 .. p - 1 : f[n] \in Nat /\ g[n] \in Nat /\ f[n] <= g[n]
  PROVE  Cardinality(Places(0 .. p - 1, f)) <= Cardinality(Places(0 .. p - 1, g))
<1>1. ASSUME NEW n \in 0 .. p - 1 PROVE {n} \X (1 .. f[n]) \subseteq {n} \X (1 .. g[n])
  OBVIOUS
<1>2. Places(0 .. p - 1, f) \in SUBSET Places(0 .. p - 1, g)
  BY <1>1 DEF Places
<1>3. IsFiniteSet(Places(0 .. p - 1, g))
  BY PlacesFinite
<1> QED BY <1>2, <1>3, FS_Subset

\* The same counted everywhere, the same places.
LEMMA PlacesSame ==
  ASSUME NEW A, NEW f, NEW g, \A n \in A : f[n] = g[n]
  PROVE  Places(A, f) = Places(A, g)
BY DEF Places

\* One more at one node, one place more.
LEMMA PlacesOneMore ==
  ASSUME NEW p \in Nat, NEW f, NEW g, NEW m \in 0 .. p - 1,
         \A n \in 0 .. p - 1 : f[n] \in Nat,
         g[m] = f[m] + 1, \A n \in 0 .. p - 1 : n # m => g[n] = f[n]
  PROVE  Cardinality(Places(0 .. p - 1, g)) = Cardinality(Places(0 .. p - 1, f)) + 1
<1> DEFINE A == 0 .. p - 1
           new == << m, f[m] + 1 >>
<1>1. f[m] \in Nat /\ m \in A
  OBVIOUS
<1>2. ASSUME NEW n \in A
      PROVE  {n} \X (1 .. g[n]) = ({n} \X (1 .. f[n])) \union (IF n = m THEN {new} ELSE {})
  <2>1. CASE n = m
    <3>1. g[n] = f[m] + 1
      BY <2>1
    <3>2. 1 .. g[n] = (1 .. f[m]) \union {f[m] + 1}
      BY <1>1, <3>1
    <3> QED BY <2>1, <3>2
  <2>2. CASE n # m
    <3>1. g[n] = f[n]
      BY <2>2
    <3> QED BY <2>2, <3>1
  <2> QED BY <2>1, <2>2
<1>3. Places(A, g) = Places(A, f) \union {new}
  <2> HIDE DEF A, new
  <2> QED BY <1>1, <1>2 DEF Places
<1>4. new \notin Places(A, f)
  <2> SUFFICES ASSUME NEW n \in A, new \in {n} \X (1 .. f[n]) PROVE FALSE
    BY DEF Places
  <2>1. n = m /\ f[m] + 1 \in 1 .. f[m]
    OBVIOUS
  <2> QED BY <1>1, <2>1
<1>5. IsFiniteSet(Places(A, f))
  BY PlacesFinite
<1> HIDE DEF A, new
<1> QED BY <1>3, <1>4, <1>5, FS_AddElement DEF A

\* A step that brings what is counted to one node, b, and takes it from one, a.
Transfer(p, f, g, out, in) ==
  \E a, b \in 0 .. p - 1 :
    /\ \A n \in 0 .. p - 1 : f[n] \in Nat /\ g[n] \in Nat
    /\ \A n \in 0 .. p - 1 : g[n] + Bit(out /\ n = a) = f[n] + Bit(in /\ n = b)

\* Over such a step the sum changes by the same.
LEMMA PlacesStep ==
  ASSUME NEW p \in Nat, NEW f, NEW g, NEW out \in BOOLEAN, NEW in \in BOOLEAN,
         Transfer(p, f, g, out, in)
  PROVE  Cardinality(Places(0 .. p - 1, g)) + Bit(out)
           = Cardinality(Places(0 .. p - 1, f)) + Bit(in)
<1>0. PICK a \in 0 .. p - 1, b \in 0 .. p - 1 :
      /\ \A n \in 0 .. p - 1 : f[n] \in Nat /\ g[n] \in Nat
      /\ \A n \in 0 .. p - 1 : g[n] + Bit(out /\ n = a) = f[n] + Bit(in /\ n = b)
  BY DEF Transfer
<1> DEFINE A == 0 .. p - 1
           h == [n \in A |-> f[n] + Bit(in /\ n = b)]
           S(k) == Cardinality(Places(A, k))
<1>1. \A n \in A : h[n] = f[n] + Bit(in /\ n = b) /\ h[n] = g[n] + Bit(out /\ n = a)
  BY <1>0
<1>2. S(f) \in Nat /\ S(g) \in Nat
  BY <1>0, PlacesFinite
<1> HIDE DEF h
<1>3. S(h) = S(f) + Bit(in)
  <2>1. CASE in
    <3>1. h[b] = f[b] + 1 /\ \A n \in A : n # b => h[n] = f[n]
      BY <1>0, <1>1, <2>1 DEF Bit
    <3>2. S(h) = S(f) + 1
      BY <1>0, <3>1, PlacesOneMore
    <3> QED BY <2>1, <3>2 DEF Bit
  <2>2. CASE ~in
    <3>1. \A n \in A : h[n] = f[n]
      BY <1>0, <1>1, <2>2 DEF Bit
    <3>2. Places(A, h) = Places(A, f)
      BY <3>1, PlacesSame
    <3> HIDE DEF A
    <3> QED BY <1>2, <2>2, <3>2 DEF Bit
  <2> QED BY <2>1, <2>2
<1>4. S(h) = S(g) + Bit(out)
  <2>1. CASE out
    <3>1. h[a] = g[a] + 1 /\ \A n \in A : n # a => h[n] = g[n]
      BY <1>0, <1>1, <2>1 DEF Bit
    <3>2. S(h) = S(g) + 1
      BY <1>0, <3>1, PlacesOneMore
    <3> QED BY <2>1, <3>2 DEF Bit
  <2>2. CASE ~out
    <3>1. \A n \in A : h[n] = g[n]
      BY <1>0, <1>1, <2>2 DEF Bit
    <3>2. Places(A, h) = Places(A, g)
      BY <3>1, PlacesSame
    <3> HIDE DEF A
    <3> QED BY <1>2, <2>2, <3>2 DEF Bit
  <2> QED BY <2>1, <2>2
<1> QED BY <1>3, <1>4
-----------------------------------------------------------------------------
(* The pipes of FractalAccelerator and the pipes of the theorems.          *)

\* The sizes, and the bound that AcceleratorAssumption puts on them.
LEMMA Sizes ==
  /\ PP!PipesAssumption
  /\ PIPE_SIZE \in Nat /\ PIPE_SIZE >= 1 /\ PP!MaxLoad \in Nat
  /\ PP!Node = 0 .. PIPE_SIZE - 1
  /\ FIFO_IN_WORDS \in Nat /\ FIFO_OUT_WORDS \in Nat /\ FIFO_OUT_ALMOST_FULL \in Nat
  /\ FIFO_OUT_ALMOST_FULL >= 1
  /\ FIFO_OUT_ALMOST_FULL + PIPE_SIZE * PP!MaxLoad <= FIFO_OUT_WORDS
  /\ PIPE_SIZE * PP!MaxLoad \in Nat
<1>1. PP!PipesAssumption
  BY AcceleratorAssumption
     DEF P!PipesAssumption, PP!PipesAssumption, P!N!PipelineAssumption,
         PP!N!PipelineAssumption, P!N!IterationAssumption, PP!N!IterationAssumption,
         P!N!PointAssumption, PP!N!PointAssumption, P!N!ALL_PIPEL_SIZE,
         PP!N!ALL_PIPEL_SIZE, P!N!IterCount, PP!N!IterCount
<1>2. PIPE_SIZE \in Nat /\ PIPE_SIZE >= 1 /\ PP!MaxLoad \in Nat
  BY <1>1, PP!Sizes
<1>3. InFlight = PIPE_SIZE * PP!MaxLoad + 1
  BY DEF InFlight, PP!MaxLoad, P!N!ALL_PIPEL_SIZE, PP!N!ALL_PIPEL_SIZE
<1>4. PIPE_SIZE * PP!MaxLoad \in Nat
  BY <1>2
<1>5. /\ FIFO_IN_WORDS \in Nat /\ FIFO_OUT_WORDS \in Nat
      /\ FIFO_OUT_ALMOST_FULL \in 1 .. FIFO_OUT_WORDS
      /\ FIFO_OUT_ALMOST_FULL - 1 + InFlight <= FIFO_OUT_WORDS
  BY AcceleratorAssumption
<1> QED BY <1>1, <1>2, <1>3, <1>4, <1>5 DEF PP!Node

\* A clock edge of the nodes (divergence_node.v).
LEMMA SameNodes == P!N!Clock => PP!N!Clock
BY DEF P!N!Clock, PP!N!Clock, P!N!InputAccept, PP!N!InputAccept,
       P!N!StartSynchronizer, PP!N!StartSynchronizer, P!N!InputRegister,
       PP!N!InputRegister, P!N!Pipeline, PP!N!Pipeline, P!N!OutputReg, PP!N!OutputReg,
       P!N!Busy, PP!N!Busy, P!N!CounterProcesses, PP!N!CounterProcesses,
       P!N!load, PP!N!load, P!N!start_sys, PP!N!start_sys, P!N!Last, PP!N!Last,
       P!N!ALL_PIPEL_SIZE, PP!N!ALL_PIPEL_SIZE, P!N!Stage, PP!N!Stage,
       P!N!recirculates, PP!N!recirculates, P!N!done, PP!N!done,
       P!N!finished, PP!N!finished, P!N!NoResult, PP!N!NoResult, P!N!Up, PP!N!Up,
       P!N!Down, PP!N!Down, P!N!NextIter, PP!N!NextIter, P!Node, PP!Node,
       P!node_start, PP!node_start

\* A clock edge of the load machine (pipes.v, FSM 1).
LEMMA SameLoad == P!LoadFsm => PP!LoadFsm
BY DEF P!LoadFsm, PP!LoadFsm, P!LoadReset, PP!LoadReset, P!LoadIdle, PP!LoadIdle,
       P!LoadIdleIf, PP!LoadIdleIf, P!BeginLoad, PP!BeginLoad, P!BeginLoadIf,
       PP!BeginLoadIf, P!EndLoad, PP!EndLoad, P!NextNode, PP!NextNode,
       P!NextIndex, PP!NextIndex, P!busy_select, PP!busy_select,
       P!almost_full_select, PP!almost_full_select

\* A clock edge of the merge (pipes.v, FSM 2).
LEMMA SameUnload == P!UnloadFsm => PP!UnloadFsm
BY DEF P!UnloadFsm, PP!UnloadFsm, P!UnloadReset, PP!UnloadReset,
       P!CheckFifoFill, PP!CheckFifoFill, P!CheckFifoFillFor, PP!CheckFifoFillFor,
       P!ReadWrite, PP!ReadWrite, P!EndWrite, PP!EndWrite, P!NextIndex, PP!NextIndex,
       P!usedw, PP!usedw

\* A clock edge of the node FIFOs.
LEMMA SameFifos == P!NodeFifos => PP!NodeFifos
BY DEF P!NodeFifos, PP!NodeFifos, P!fifo_node_rdreq, PP!fifo_node_rdreq, P!Node, PP!Node,
       P!NextWords, PP!NextWords, P!NextQ, PP!NextQ

\* A clock edge of the pipes as a whole.
LEMMA SameClock == P!Clock => PP!Clock
BY SameNodes, SameLoad, SameUnload, SameFifos DEF P!Clock, PP!Clock

\* Their registers at power-up.
LEMMA SameInit == P!PipesInit => PP!PipesInit
BY DEF P!PipesInit, PP!PipesInit, P!N!NodeInit, PP!N!NodeInit, P!N!Low, PP!N!Low,
       P!N!Stage, PP!N!Stage, P!N!ALL_PIPEL_SIZE, PP!N!ALL_PIPEL_SIZE,
       P!N!NoResult, PP!N!NoResult, P!Node, PP!Node

\* Their registers when reset_n falls.
LEMMA SameReset == P!PipesReset => PP!PipesReset
BY DEF P!PipesReset, PP!PipesReset, P!N!NodeReset, PP!N!NodeReset, P!N!Low, PP!N!Low,
       P!N!Stage, PP!N!Stage, P!N!ALL_PIPEL_SIZE, PP!N!ALL_PIPEL_SIZE,
       P!N!NoResult, PP!N!NoResult, P!Node, PP!Node, P!fifoVars, PP!fifoVars
-----------------------------------------------------------------------------
(* The FIFOs around the pipes.                                             *)

\* The FIFOs of the theorems are these.
LEMMA SameFifo ==
  /\ \A f, n, wr, d, rd : PP!NextWords(f, n, wr, d, rd) = NextWords(f, n, wr, d, rd)
  /\ \A f, q, rd : PP!NextQ(f, q, rd) = NextQ(f, q, rd)
BY DEF PP!NextWords, NextWords, PP!NextQ, NextQ

\* What a clock edge does to the input FIFO (fifo_in.v).
LEMMA FifoInStep ==
  ASSUME WireTypes, fifo_in_q \in Point, data_in_read \in BOOLEAN, FifoIn
  PROVE  fifo_in' \in Seq(Point) /\ fifo_in_q' \in Point
<1>1. PICK f \in Seq(Point), q \in Point, wr \in BOOLEAN, d \in Point, rd \in BOOLEAN,
           k \in Nat :
        /\ f = fifo_in /\ q = fifo_in_q /\ wr = data_in_write /\ d = point_in
        /\ rd = data_in_read /\ k = FIFO_IN_WORDS
  BY Sizes DEF WireTypes
<1>2. NextWords(f, k, wr, d, rd) \in Seq(Point)
  <2>1. PP!NextWords(f, k, wr, d, rd) \in Seq(Point)
    BY Sizes, PP!FifoWords
  <2> QED BY <2>1, SameFifo
<1>3. NextQ(f, q, rd) \in Point \union {q}
  <2>1. PP!NextQ(f, q, rd) \in Point \union {q}
    BY Sizes, PP!FifoRead
  <2> QED BY <2>1, SameFifo
<1> QED BY <1>1, <1>2, <1>3 DEF FifoIn

\* It loses a word only when it is read.
LEMMA FifoInKeeps ==
  ASSUME WireTypes, FifoIn, ~data_in_read, fifo_in # << >>
  PROVE  fifo_in' # << >>
<1>1. fifo_in' = IF data_in_write /\ Len(fifo_in) < FIFO_IN_WORDS
                   THEN Append(fifo_in, point_in) ELSE fifo_in
  BY DEF FifoIn, NextWords
<1>2. Append(fifo_in, point_in) # << >>
  BY AppendProperties DEF WireTypes
<1> QED BY <1>1, <1>2

\* What a clock edge does to the output FIFO (fifo_out.v).
LEMMA FifoOutStep ==
  ASSUME WireTypes, P!data_out \in Point, write_out \in BOOLEAN, FifoOut
  PROVE  /\ fifo_out' \in Seq(Point) /\ Len(fifo_out) \in Nat /\ Len(fifo_out') \in Nat
         /\ Len(fifo_out') <= Len(fifo_out) + Bit(write_out)
<1>1. PICK f \in Seq(Point), wr \in BOOLEAN, d \in Point, rd \in BOOLEAN, k \in Nat :
        /\ f = fifo_out /\ wr = write_out /\ d = P!data_out
        /\ rd = data_out_read /\ k = FIFO_OUT_WORDS
  BY Sizes DEF WireTypes
<1>2. NextWords(f, k, wr, d, rd) \in Seq(Point)
  <2>1. PP!NextWords(f, k, wr, d, rd) \in Seq(Point)
    BY Sizes, PP!FifoWords
  <2> QED BY <2>1, SameFifo
<1>3. Len(f) \in Nat /\ Len(NextWords(f, k, wr, d, rd)) \in Nat
  BY <1>2, LenProperties
<1>4. Len(NextWords(f, k, wr, d, rd)) + Bit(rd /\ f # << >>) = Len(f) + Bit(wr /\ Len(f) < k)
  <2>1. Len(PP!NextWords(f, k, wr, d, rd)) + PP!Bit(rd /\ f # << >>)
          = Len(f) + PP!Bit(wr /\ Len(f) < k)
    BY Sizes, PP!FifoEdge
  <2> QED BY <2>1, SameFifo DEF Bit, PP!Bit
<1>5. Len(NextWords(f, k, wr, d, rd)) <= Len(f) + Bit(wr)
  BY <1>3, <1>4 DEF Bit
<1> QED BY <1>1, <1>2, <1>3, <1>5 DEF FifoOut

\* What the pipes offer the output FIFO is a pixel.
LEMMA PipesWires ==
  ASSUME PP!Inv
  PROVE  /\ P!data_out \in Point /\ write_out \in BOOLEAN /\ data_in_read \in BOOLEAN
         /\ fifo_in_q \in Point
<1>1. /\ fifo_node_q \in [PP!Node -> Point] /\ fifo_select \in PP!Node
      /\ write_out \in BOOLEAN /\ data_in_read \in BOOLEAN
  BY DEF PP!Inv, PP!TypeOK
<1>2. fifo_in_q \in Point
  BY DEF PP!Inv, PP!NP!IInv, PP!NP!TypeOK
<1> QED BY <1>1, <1>2 DEF P!data_out
-----------------------------------------------------------------------------
(* The account of what the pipes hold.                                     *)

\* What each node holds, as a function.
Loads == [n \in 0 .. PIPE_SIZE - 1 |-> PP!Load(n)]

\* What the pipes hold is a number, and at most MaxLoad for each node.
LEMMA HeldBound ==
  ASSUME PP!Inv
  PROVE  /\ Held \in Nat /\ Held <= PIPE_SIZE * PP!MaxLoad
         /\ \A n \in 0 .. PIPE_SIZE - 1 : Loads[n] \in 0 .. PP!MaxLoad
<1>1. Held \in Nat /\ Held <= PIPE_SIZE * PP!MaxLoad
  BY Sizes, CellsBound DEF Held
<1>2. ASSUME NEW n \in 0 .. PIPE_SIZE - 1
      PROVE  PP!Load(n) \in Nat /\ PP!Load(n) <= PP!MaxLoad
  <2>1. n \in PP!Node /\ PP!PipesAssumption
    BY Sizes
  <2>2. PP!Load(n) \in Nat
    BY <2>1, PP!LoadType DEF PP!Inv
  <2>3. PP!Load(n) <= PP!MaxLoad
    BY <2>1 DEF PP!Inv, PP!NodeFifoHeadroom, PP!MaxLoad
  <2> QED BY <2>2, <2>3
<1> QED BY <1>1, <1>2, Sizes DEF Loads

\* A clock edge adds the pixel dealt and takes away the word popped.
LEMMA HeldEdge ==
  ASSUME PP!Inv, PP!Edge
  PROVE  Held' \in Nat /\ Held' + Bit(PP!Pops(fifo_select)) = Held + Bit(start_select')
<1> DEFINE F == Loads
           G == Loads'
<1>0. /\ PP!TypeOK /\ PP!Pulses /\ PP!LoadFsm /\ PP!PipesAssumption
      /\ fifo_select \in 0 .. PIPE_SIZE - 1
  BY Sizes DEF PP!Inv, PP!Edge, PP!Clock, PP!TypeOK
<1>1. node_select' \in 0 .. PIPE_SIZE - 1 /\ start_select' \in BOOLEAN
  BY <1>0, Sizes, PP!LoadStep
<1>2. ASSUME NEW n \in 0 .. PIPE_SIZE - 1
      PROVE  /\ F[n] \in 0 .. PP!MaxLoad /\ G[n] \in Nat
             /\ G[n] + Bit(PP!Pops(fifo_select) /\ n = fifo_select)
                  = F[n] + Bit(start_select' /\ n = node_select')
             /\ start_select' /\ n = node_select' => F[n] <= PP!MaxLoad - 1
  <2>1. n \in PP!Node
    BY Sizes
  <2>2. /\ PP!Load(n)' \in Nat
        /\ PP!Load(n)' + Bit(PP!Pops(n)) = PP!Load(n) + Bit(PP!node_start'[n])
        /\ PP!node_start'[n] => PP!Load(n) <= PP!MaxLoad - 1
    BY <1>0, <2>1, PP!LoadAccount DEF Bit, PP!Bit
  <2>3. PP!Pops(n) <=> PP!Pops(fifo_select) /\ n = fifo_select
    BY <1>0, <2>1, Sizes DEF PP!Pops, PP!fifo_node_rdreq
  <2>4. PP!node_start'[n] <=> start_select' /\ n = node_select'
    BY <1>0, <2>1 DEF PP!node_start
  <2>5. F[n] = PP!Load(n) /\ G[n] = PP!Load(n)' /\ F[n] \in 0 .. PP!MaxLoad
    BY HeldBound DEF Loads
  <2> QED BY <2>2, <2>3, <2>4, <2>5 DEF Bit
<1>3. /\ Held  = Cardinality(Cells(0 .. PIPE_SIZE - 1, PP!MaxLoad, F))
      /\ Held' = Cardinality(Cells(0 .. PIPE_SIZE - 1, PP!MaxLoad, G))
  BY DEF Held, Loads, PP!MaxLoad, PP!N!ALL_PIPEL_SIZE
<1> HIDE DEF F, G
<1>4. PICK pop \in BOOLEAN, st \in BOOLEAN :
        (pop <=> PP!Pops(fifo_select)) /\ (st <=> start_select')
  OBVIOUS
<1>5. PICK p \in Nat, M \in Nat : p = PIPE_SIZE /\ M = PP!MaxLoad
  BY Sizes
<1>6. PICK a \in 0 .. p - 1, b \in 0 .. p - 1 : a = fifo_select /\ b = node_select'
  BY <1>0, <1>1, <1>5
<1>8. PICK f, g : f = F /\ g = G
  OBVIOUS
<1>9. Moves(p, M, f, g, pop, st)
  <2>1. \A n \in 0 .. p - 1 : f[n] \in 0 .. M /\ g[n] \in Nat
    BY <1>2, <1>5, <1>8
  <2>2. \A n \in 0 .. p - 1 : g[n] + Bit(pop /\ n = a) = f[n] + Bit(st /\ n = b)
    BY <1>2, <1>4, <1>5, <1>6, <1>8 DEF Bit
  <2>3. st => f[b] <= M - 1
    BY <1>2, <1>4, <1>5, <1>6, <1>8
  <2> QED BY <2>1, <2>2, <2>3 DEF Moves
<1>10. Cardinality(Cells(0 .. p - 1, M, g)) + Bit(pop)
         = Cardinality(Cells(0 .. p - 1, M, f)) + Bit(st)
  BY <1>9, CellsStep
<1>11. Held' \in Nat
  BY <1>3, Sizes, CellsBound
<1> QED BY <1>3, <1>4, <1>5, <1>8, <1>10, <1>11 DEF Bit

\* The fall of reset_n drops what the nodes hold.
LEMMA HeldFall == ASSUME PP!Inv, PP!Fall PROVE Held' \in Nat /\ Held' <= Held
<1> DEFINE F == Loads
           G == Loads'
<1>1. ASSUME NEW n \in 0 .. PIPE_SIZE - 1
      PROVE  G[n] \in Nat /\ F[n] \in Nat /\ G[n] <= F[n]
  <2>1. PP!Load(n)' \in Nat /\ PP!Load(n)' <= PP!Load(n)
    BY Sizes, PP!FallLoad
  <2> QED BY <2>1, HeldBound DEF Loads
<1>2. /\ Held  = Cardinality(Cells(0 .. PIPE_SIZE - 1, PP!MaxLoad, F))
      /\ Held' = Cardinality(Cells(0 .. PIPE_SIZE - 1, PP!MaxLoad, G))
  BY DEF Held, Loads, PP!MaxLoad, PP!N!ALL_PIPEL_SIZE
<1> HIDE DEF F, G
<1>3. Held' \in Nat
  BY <1>2, Sizes, CellsBound
<1>4. Held' <= Held
  BY <1>1, <1>2, Sizes, CellsFewer
<1> QED BY <1>3, <1>4

\* Standing still leaves it alone.
LEMMA HeldStill == ASSUME PP!Inv, PP!Still PROVE Held' = Held
<1>1. \A n \in 0 .. PIPE_SIZE - 1 : PP!Load(n)' = PP!Load(n)
  BY Sizes, PP!StillLoad
<1>2. Loads' = Loads
  BY <1>1 DEF Loads
<1> QED BY <1>2 DEF Held, Loads, PP!MaxLoad, PP!N!ALL_PIPEL_SIZE
-----------------------------------------------------------------------------
(* The invariant.                                                          *)

\* The accelerator starts empty.
LEMMA InitInv == Init => Inv
<1> SUFFICES ASSUME Init PROVE Inv
  OBVIOUS
<1>0. /\ P!PipesInit /\ reset_n = TRUE
      /\ fifo_in = << >> /\ fifo_in_q = Origin /\ fifo_out = << >>
      /\ data_in_write = FALSE /\ point_in = Origin /\ data_out_read = FALSE
  BY DEF Init, AcceleratorInit
<1>1. PP!PipesInit
  BY <1>0, SameInit
<1>2. PP!Inv
  BY <1>0, <1>1, Sizes, PP!StartInv
<1>3. Origin \in Point
  BY <1>0, <1>2, PipesWires
<1>4. WireTypes
  BY <1>0, <1>3, EmptySeq DEF WireTypes
<1>5. /\ next_state_1_load = "RESET" /\ ~data_in_read /\ ~write_out
  BY <1>1 DEF PP!PipesInit
<1>6. FetchFindsPixel /\ Room
  BY <1>5 DEF FetchFindsPixel, Room
<1>7. Fits
  <2>1. Len(fifo_out) = 0
    BY <1>0, EmptySeq
  <2>2. Held \in Nat /\ Held <= PIPE_SIZE * PP!MaxLoad
    BY <1>2, HeldBound
  <2>3. Bit(write_out) = 0 /\ Bit(PP!Waits) = 0
    BY <1>5 DEF Bit, PP!Waits
  <2> DEFINE k == PIPE_SIZE * PP!MaxLoad
  <2>4. k \in Nat
    BY Sizes
  <2> HIDE DEF k
  <2>5. 0 + 0 + Held + 0 <= FIFO_OUT_ALMOST_FULL + k
    BY <2>2, <2>4, Sizes DEF k
  <2> QED BY <2>1, <2>3, <2>5 DEF Fits, k
<1> QED BY <1>2, <1>4, <1>6, <1>7 DEF Inv

\* A clock edge of the accelerator is one of the pipes.
LEMMA TickEdge ==
  ASSUME Inv, Tick
  PROVE  PP!Edge /\ fifo_in' \in Seq(Point) /\ WireTypes'
<1>1. /\ WireTypes /\ PP!Inv /\ P!Clock /\ FifoIn /\ FifoOut /\ User
      /\ reset_n /\ reset_n' = reset_n
  BY DEF Inv, Tick, Clock
<1>2. /\ P!data_out \in Point /\ write_out \in BOOLEAN /\ data_in_read \in BOOLEAN
      /\ fifo_in_q \in Point /\ Origin \in Point
  BY <1>1, PipesWires, Sizes, PP!Sizes
<1>3. fifo_in' \in Seq(Point) /\ fifo_in_q' \in Point /\ fifo_out' \in Seq(Point)
  BY <1>1, <1>2, FifoInStep, FifoOutStep
<1>4. PP!Edge
  BY <1>1, <1>3, SameClock DEF PP!Edge
<1>5. data_in_write' \in BOOLEAN /\ point_in' \in Point /\ data_out_read' \in BOOLEAN
  BY <1>1, <1>2 DEF User
<1> QED BY <1>3, <1>4, <1>5 DEF WireTypes

\* A clock edge keeps it: only a fetch adds to what can reach the output FIFO,
\* and a fetch has seen the room (pipes.v, IDLE_LOAD_STATE).
LEMMA TickInv == ASSUME Inv, Tick PROVE Inv'
<1>1. /\ PP!Inv /\ PP!TypeOK /\ PP!Pulses /\ PP!UnloadReadsWords /\ PP!NP!IInv
      /\ PP!LoadFsm /\ PP!UnloadFsm /\ PP!NodeFifos /\ PP!Edge /\ WireTypes'
      /\ WireTypes /\ FifoIn /\ FifoOut
  BY TickEdge DEF Inv, Tick, Clock, PP!Inv, PP!Edge, PP!Clock
<1>2. PP!Inv'
  BY <1>1, Sizes, PP!EdgeInv
<1>3. /\ PP!Waits' => PP!Waits \/ PP!Fetches
      /\ start_select' => PP!Waits /\ ~PP!Waits'
      /\ next_state_1_load' = "IDLE" => ~start_select'
      /\ data_in_read' => PP!Fetches /\ ~data_in_read
  BY <1>1, Sizes, PP!LoadTurn
<1>4. write_out' => PP!Pops(fifo_select)
  BY <1>1, Sizes, PP!UnloadStep
<1>5. /\ Len(fifo_out) \in Nat /\ Len(fifo_out') \in Nat
      /\ Len(fifo_out') <= Len(fifo_out) + Bit(write_out)
  BY <1>1, PipesWires, FifoOutStep
<1>6. /\ Held \in Nat /\ Held' \in Nat
      /\ Held <= PIPE_SIZE * PP!MaxLoad
      /\ Held' + Bit(PP!Pops(fifo_select)) = Held + Bit(start_select')
  BY <1>1, <1>2, HeldBound, HeldEdge
<1>7. FetchFindsPixel'
  <2> SUFFICES ASSUME data_in_read' PROVE fifo_in' # << >>
    BY DEF FetchFindsPixel
  <2>1. ~data_in_read /\ fifo_in # << >>
    BY <1>3 DEF PP!Fetches
  <2> QED BY <1>1, <2>1, FifoInKeeps
<1>8. Fits' /\ Room'
  <2> DEFINE k  == PIPE_SIZE * PP!MaxLoad     full == FIFO_OUT_ALMOST_FULL
             l  == Len(fifo_out)              ll == Len(fifo_out')
             w  == Bit(write_out)             ww == Bit(write_out')
             h  == Held                       hh == Held'
             q  == Bit(PP!Waits)              qq == Bit(PP!Waits')
             o  == Bit(PP!Pops(fifo_select))  e  == Bit(start_select')
  <2>1. /\ k \in Nat /\ full \in Nat /\ l \in Nat /\ ll \in Nat /\ h \in Nat /\ hh \in Nat
        /\ w \in {0, 1} /\ ww \in {0, 1} /\ q \in {0, 1} /\ qq \in {0, 1}
        /\ o \in {0, 1} /\ e \in {0, 1}
    BY <1>5, <1>6, Sizes DEF Bit
  <2>2. ll <= l + w /\ h <= k /\ hh + o = h + e /\ ww <= o
    <3>1. ll <= l + w /\ h <= k /\ hh + o = h + e
      BY <1>5, <1>6
    <3>2. ww <= o
      BY <1>4 DEF Bit
    <3> QED BY <3>1, <3>2
  <2>3. l + w + h + q <= full + k
    BY DEF Inv, Fits
  <2>4. next_state_1_load = "IDLE" /\ w = 1 => h <= k - 1
    BY DEF Inv, Room, Bit
  <2>5. PP!Fetches => l <= full - 1 /\ next_state_1_load = "IDLE" /\ q = 0 /\ e = 0
    <3>1. PP!Fetches => ~(l >= full)
      BY DEF PP!Fetches, pipes_space_ahead
    <3>2. PP!Fetches => next_state_1_load = "IDLE" /\ ~PP!Waits
      BY DEF PP!Fetches, PP!Waits
    <3>3. PP!Fetches => q = 0 /\ e = 0
      BY <1>3, <3>2 DEF Bit
    <3>4. ~(l >= full) => l <= full - 1
      <4> HIDE DEF l, full
      <4> QED BY <2>1
    <3> QED BY <3>1, <3>2, <3>3, <3>4
  <2>6. ~PP!Fetches => qq + e <= q
    BY <1>3 DEF Bit
  <2>7. next_state_1_load' = "IDLE" /\ write_out' => e = 0 /\ ww = 1
    BY <1>3 DEF Bit
  <2> HIDE DEF k, full, l, ll, w, ww, h, hh, q, qq, o, e
  <2>8. ll + ww + hh + qq <= full + k
    <3>1. CASE PP!Fetches
      <4>1. w + h <= k
        BY <2>1, <2>2, <2>4, <2>5, <3>1
      <4>2. ww + hh <= h
        BY <2>1, <2>2, <2>5, <3>1
      <4> QED BY <2>1, <2>2, <2>5, <3>1, <4>1, <4>2
    <3>2. CASE ~PP!Fetches
      BY <2>1, <2>2, <2>3, <2>6, <3>2
    <3> QED BY <3>1, <3>2
  <2>9. next_state_1_load' = "IDLE" /\ write_out' => hh <= k - 1
    BY <2>1, <2>2, <2>7
  <2> QED BY <2>8, <2>9
          DEF Fits, Room, k, full, ll, ww, hh, qq, PP!MaxLoad, PP!N!ALL_PIPEL_SIZE
<1> QED BY <1>1, <1>2, <1>7, <1>8 DEF Inv

\* Fits, over a step that leaves the words of the output FIFO at most as many,
\* lets the pipes hold at most as much and writes nothing.
LEMMA FitsKept ==
  ASSUME Inv, PP!Inv', ~PP!Waits' \/ (PP!Waits /\ PP!Waits'),
         Held' \in Nat, Held' <= Held,
         Len(fifo_out) \in Nat, Len(fifo_out') \in Nat,
         Len(fifo_out') <= Len(fifo_out) + Bit(write_out), ~write_out'
  PROVE  Fits' /\ Room'
<1> DEFINE k == PIPE_SIZE * PP!MaxLoad     full == FIFO_OUT_ALMOST_FULL
           l == Len(fifo_out)              ll == Len(fifo_out')
           w == Bit(write_out)             ww == Bit(write_out')
           h == Held                       hh == Held'
           q == Bit(PP!Waits)              qq == Bit(PP!Waits')
<1>1. /\ k \in Nat /\ full \in Nat /\ l \in Nat /\ ll \in Nat /\ h \in Nat /\ hh \in Nat
      /\ w \in {0, 1} /\ ww = 0 /\ q \in {0, 1} /\ qq \in {0, 1}
      /\ ll <= l + w /\ hh <= h /\ qq <= q
  BY Sizes, HeldBound DEF Inv, Bit
<1>2. l + w + h + q <= full + k
  BY DEF Inv, Fits
<1> HIDE DEF k, full, l, ll, w, ww, h, hh, q, qq
<1>3. ll + ww + hh + qq <= full + k
  BY <1>1, <1>2
<1> QED BY <1>3 DEF Fits, Room, k, full, ll, ww, hh, qq, PP!MaxLoad, PP!N!ALL_PIPEL_SIZE

\* The fall of reset_n keeps it: the outer FIFOs keep their words.
LEMMA ResetDownInv == ASSUME Inv, ResetDown PROVE Inv'
<1>1. /\ reset_n /\ reset_n' = FALSE /\ P!PipesReset
      /\ fifo_in' = fifo_in /\ fifo_in_q' = fifo_in_q /\ fifo_out' = fifo_out
      /\ UNCHANGED userWires
  BY DEF ResetDown, fifoVars
<1>2. PP!PipesReset /\ PP!Fall
  BY <1>1, SameReset DEF PP!Fall
<1>3. PP!Inv /\ WireTypes
  BY DEF Inv
<1>4. PP!Inv'
  BY <1>2, <1>3, Sizes, PP!FallInv
<1>5. /\ next_state_1_load' = "RESET" /\ data_in_read' = FALSE /\ write_out' = FALSE
  BY <1>2 DEF PP!PipesReset
<1>6. WireTypes'
  BY <1>1, <1>3 DEF WireTypes, userWires
<1>7. FetchFindsPixel'
  BY <1>5 DEF FetchFindsPixel
<1>8. /\ Len(fifo_out) \in Nat /\ Len(fifo_out') \in Nat
      /\ Len(fifo_out') <= Len(fifo_out) + Bit(write_out)
  BY <1>1, <1>3, LenProperties DEF WireTypes, Bit
<1>9. Held' \in Nat /\ Held' <= Held /\ ~PP!Waits' /\ ~write_out'
  BY <1>2, <1>3, <1>5, HeldFall DEF PP!Waits
<1>10. Fits' /\ Room'
  BY <1>4, <1>8, <1>9, FitsKept
<1> QED BY <1>4, <1>6, <1>7, <1>10 DEF Inv

\* While reset_n is low the pipes stand still and the user goes on.
LEMMA TickInResetInv == ASSUME Inv, TickInReset PROVE Inv'
<1>1. /\ ~reset_n /\ FifoIn /\ FifoOut /\ User /\ UNCHANGED << reset_n, pipesVars >>
      /\ PP!Inv /\ WireTypes
  BY DEF TickInReset, Inv
<1>2. /\ ~data_in_read /\ ~write_out
  BY <1>1 DEF PP!Inv, PP!Cleared
<1>3. /\ P!data_out \in Point /\ write_out \in BOOLEAN /\ data_in_read \in BOOLEAN
      /\ fifo_in_q \in Point /\ Origin \in Point
  BY <1>1, PipesWires, Sizes, PP!Sizes
<1>4. fifo_in' \in Seq(Point) /\ fifo_in_q' = fifo_in_q
  <2>1. fifo_in' \in Seq(Point)
    BY <1>1, <1>3, FifoInStep
  <2>2. fifo_in_q' = fifo_in_q
    BY <1>1, <1>2 DEF FifoIn, NextQ
  <2> QED BY <2>1, <2>2
<1>5. /\ fifo_out' \in Seq(Point) /\ Len(fifo_out) \in Nat /\ Len(fifo_out') \in Nat
      /\ Len(fifo_out') <= Len(fifo_out) + Bit(write_out)
  BY <1>1, <1>3, FifoOutStep
<1>6. WireTypes'
  BY <1>1, <1>3, <1>4, <1>5 DEF WireTypes, User
<1>7. /\ PP!Still /\ ~data_in_read' /\ ~write_out' /\ next_state_1_load' = next_state_1_load
  BY <1>1, <1>2, <1>4
     DEF PP!Still, pipesVars, PP!loadVars, PP!unloadVars, PP!fifoVars, PP!nodeVars
<1>8. PP!Inv'
  BY <1>1, <1>7, Sizes, PP!StillInv
<1>9. FetchFindsPixel'
  BY <1>7 DEF FetchFindsPixel
<1>10. Held' \in Nat /\ Held' <= Held
  BY <1>1, <1>7, HeldStill, HeldBound
<1>11. PP!Waits' <=> PP!Waits
  BY <1>7 DEF PP!Waits
<1>12. Fits' /\ Room'
  BY <1>5, <1>7, <1>8, <1>10, <1>11, FitsKept
<1> QED BY <1>6, <1>8, <1>9, <1>12 DEF Inv

\* The rise of reset_n, and a step that changes nothing, keep it.
LEMMA StandInv == ASSUME Inv, ResetUp \/ UNCHANGED vars PROVE Inv'
<1>1. /\ UNCHANGED << userWires, fifoVars, pipesVars >>
      /\ reset_n' = reset_n \/ (~reset_n /\ reset_n' = TRUE)
      /\ PP!Inv /\ WireTypes
  BY DEF ResetUp, vars, Inv
<1>2. /\ fifo_in' = fifo_in /\ fifo_in_q' = fifo_in_q /\ fifo_out' = fifo_out
      /\ data_in_write' = data_in_write /\ point_in' = point_in
      /\ data_out_read' = data_out_read
      /\ next_state_1_load' = next_state_1_load /\ data_in_read' = data_in_read
      /\ write_out' = write_out
  BY <1>1 DEF userWires, fifoVars, pipesVars
<1>3. PP!Still
  BY <1>1, <1>2
     DEF PP!Still, pipesVars, PP!loadVars, PP!unloadVars, PP!fifoVars, PP!nodeVars
<1>4. PP!Inv'
  BY <1>1, <1>3, Sizes, PP!StillInv
<1>5. WireTypes' /\ FetchFindsPixel'
  BY <1>1, <1>2 DEF WireTypes, Inv, FetchFindsPixel
<1>6. Held' = Held
  BY <1>1, <1>3, HeldStill
<1>7. Fits' /\ Room'
  BY <1>2, <1>6 DEF Inv, Fits, Room, PP!Waits, PP!MaxLoad, PP!N!ALL_PIPEL_SIZE
<1> QED BY <1>4, <1>5, <1>7 DEF Inv

\* The inductive invariant holds of every behaviour of the accelerator.
THEOREM AcceleratorInvariant == Spec => []Inv
<1>1. Init => Inv
  BY InitInv
<1>2. Inv /\ [Next]_vars => Inv'
  BY TickInv, ResetDownInv, TickInResetInv, StandInv DEF Next
<1> QED BY <1>1, <1>2, PTL DEF Spec

\* The pixel that the load machine saw behind the empty flag is still there when
\* its read request reaches the input FIFO (pipes.v and fifo_in.v).
THEOREM FetchIsSafe == Spec => []FetchFindsPixel
<1>1. Inv => FetchFindsPixel
  BY DEF Inv
<1> QED BY <1>1, AcceleratorInvariant, PTL

\* No result is lost at a full output FIFO, although the pipes look at its
\* almost-full flag only when they fetch: what they still hold has a place.
LEMMA OutputFits == Inv => FifoOutNoOverflow
<1> SUFFICES ASSUME Inv, write_out PROVE Len(fifo_out) < FIFO_OUT_WORDS
  BY DEF FifoOutNoOverflow
<1>1. Len(fifo_out) \in Nat /\ Held \in Nat /\ FIFO_OUT_WORDS \in Nat
  BY HeldBound, LenProperties, Sizes DEF Inv, WireTypes
<1>2. Bit(write_out) = 1 /\ Bit(PP!Waits) \in {0, 1}
  BY DEF Bit
<1> DEFINE k == PIPE_SIZE * PP!MaxLoad   q == Bit(PP!Waits)
<1>3. k \in Nat /\ FIFO_OUT_ALMOST_FULL \in Nat /\ FIFO_OUT_ALMOST_FULL + k <= FIFO_OUT_WORDS
  BY Sizes
<1>4. Len(fifo_out) + 1 + Held + q <= FIFO_OUT_ALMOST_FULL + k
  BY <1>2 DEF Inv, Fits
<1>5. q \in Nat
  BY <1>2
<1> HIDE DEF k, q
<1>6. Len(fifo_out) + 1 <= FIFO_OUT_WORDS
  BY <1>1, <1>3, <1>4, <1>5
<1> QED BY <1>1, <1>6

\* So the output FIFO never overflows.
THEOREM NoResultLostAtOutput == Spec => []FifoOutNoOverflow
BY OutputFits, AcceleratorInvariant, PTL
-----------------------------------------------------------------------------
(* Where a pixel is, and the service as a whole.                           *)

\* What is written has a place: the user has seen data_in_full low.
WriteFits == data_in_write => Len(fifo_in) < FIFO_IN_WORDS

\* The user's handshake and the FIFO's edge keep that (fifo_in.v).
LEMMA WriteFitsStep ==
  ASSUME Inv, WriteFits, [Next]_vars PROVE WriteFits'
<1>0. /\ fifo_in \in Seq(Point) /\ Len(fifo_in) \in Nat /\ data_in_write \in BOOLEAN
      /\ point_in \in Point /\ data_in_read \in BOOLEAN
      /\ FIFO_IN_WORDS \in Nat /\ FIFO_IN_ALMOST_FULL \in 1 .. FIFO_IN_WORDS - 1
  BY LenProperties, PipesWires, AcceleratorAssumption DEF Inv, WireTypes
<1>1. CASE FifoIn /\ User
  <2>1. data_in_write' => ~(Len(fifo_in) >= FIFO_IN_ALMOST_FULL)
    BY <1>1 DEF User, data_in_full
  <2>2. Len(fifo_in') \in Nat /\ Len(fifo_in') <= Len(fifo_in) + 1
    <3>1. PICK f \in Seq(Point), wr \in BOOLEAN, d \in Point, rd \in BOOLEAN, k \in Nat :
            /\ f = fifo_in /\ wr = data_in_write /\ d = point_in
            /\ rd = data_in_read /\ k = FIFO_IN_WORDS
      BY <1>0
    <3> DEFINE g == NextWords(f, k, wr, d, rd)
    <3>2. g \in Seq(Point)
      BY Sizes, PP!FifoWords, SameFifo
    <3>3. Len(g) + PP!Bit(rd /\ f # << >>) = Len(f) + PP!Bit(wr /\ Len(f) < k)
      BY Sizes, PP!FifoEdge, SameFifo
    <3>4. Len(f) \in Nat /\ Len(g) \in Nat
      BY <3>2, LenProperties
    <3>5. fifo_in' = g
      BY <1>1, <3>1 DEF FifoIn
    <3> HIDE DEF g
    <3>6. Len(g) <= Len(f) + 1
      BY <3>3, <3>4 DEF PP!Bit
    <3> QED BY <3>1, <3>4, <3>5, <3>6
  <2> QED BY <1>0, <2>1, <2>2 DEF WriteFits
<1>2. CASE UNCHANGED << fifoVars, userWires >>
  BY <1>2 DEF WriteFits, fifoVars, userWires
<1> QED BY <1>1, <1>2 DEF Next, Tick, Clock, ResetDown, TickInReset, ResetUp, vars

\* Counting is the same here and there.
LEMMA SameCardinality ==
  \A S : PP!Cardinality(S) = Cardinality(S) /\ PP!NP!Cardinality(S) = Cardinality(S)
BY DEF Cardinality, PP!Cardinality, PP!NP!Cardinality

\* The count of the accelerator and the count of the theorems.
LEMMA SameHeld ==
  /\ \A n, p : HeldByNode(n, p) = PP!HeldByNode(n, p)
  /\ \A n, p : HeldByNode(n, p)' = PP!HeldByNode(n, p)'
  /\ Fetched <=> PP!Fetched
  /\ Fetched' <=> PP!Fetched'
  /\ P!data_out = PP!data_out /\ P!data_out' = PP!data_out'
<1> DEFINE in(n, p)  == {i \in P!N!InProcess(n) : coord_q[n][i] = p}
           on(n, p)  == {i \in PP!NP!InProcess(n) : coord_q[n][i] = p}
<1>0. /\ \A n, p : in(n, p) = on(n, p)
      /\ \A n, p : in(n, p)' = on(n, p)'
  BY DEF P!N!InProcess, PP!NP!InProcess, P!N!Stage, PP!NP!Stage, P!N!ALL_PIPEL_SIZE,
         PP!NP!ALL_PIPEL_SIZE
<1>1. ASSUME NEW n, NEW p PROVE HeldByNode(n, p) = PP!HeldByNode(n, p)
  <2> DEFINE wait == r0[n] \/ r1[n] \/ data_ready[n]
             a == (wait /\ point_start[n] = p)
             d == (node_write_out[n] /\ node_data_out[n].point = p)
             u == Cardinality(in(n, p))
             v == Cardinality(on(n, p))
             w == Occurrences(fifo_node[n], p)
  <2>1. u = v
    BY <1>0
  <2>2. \A b : One(b) = PP!NP!Bit(b)
    BY DEF One, PP!NP!Bit
  <2>3. /\ One(a) = PP!NP!Bit(a) /\ One(d) = PP!NP!Bit(d)
        /\ Occurrences(fifo_node[n], p) = PP!Count(fifo_node[n], p)
    BY <2>2, SameCardinality DEF Occurrences, PP!Count
  <2>4. HeldByNode(n, p) = One(a) + u + One(d) + w
    BY DEF HeldByNode, Occurrences, One
  <2>5. PP!HeldByNode(n, p) = PP!NP!Bit(a) + v + PP!NP!Bit(d) + PP!Count(fifo_node[n], p)
    BY SameCardinality DEF PP!HeldByNode, PP!NP!Carried, PP!Count, PP!NP!Bit
  <2> HIDE DEF a, d, u, v, w
  <2> QED BY <2>1, <2>3, <2>4, <2>5 DEF w
<1>2. ASSUME NEW n, NEW p PROVE HeldByNode(n, p)' = PP!HeldByNode(n, p)'
  <2> DEFINE wait == r0'[n] \/ r1'[n] \/ data_ready'[n]
             a == (wait /\ point_start'[n] = p)
             d == (node_write_out'[n] /\ node_data_out'[n].point = p)
             u == Cardinality(in(n, p)')
             v == Cardinality(on(n, p)')
             w == Occurrences(fifo_node'[n], p)
  <2>1. u = v
    BY <1>0
  <2>2. \A b : One(b) = PP!NP!Bit(b)
    BY DEF One, PP!NP!Bit
  <2>3. /\ One(a) = PP!NP!Bit(a) /\ One(d) = PP!NP!Bit(d)
        /\ Occurrences(fifo_node'[n], p) = PP!Count(fifo_node'[n], p)
    BY <2>2, SameCardinality DEF Occurrences, PP!Count
  <2>4. HeldByNode(n, p)' = One(a) + u + One(d) + w
    BY DEF HeldByNode, Occurrences, One
  <2>5. PP!HeldByNode(n, p)' = PP!NP!Bit(a) + v + PP!NP!Bit(d) + PP!Count(fifo_node'[n], p)
    BY SameCardinality DEF PP!HeldByNode, PP!NP!Carried, PP!Count, PP!NP!Bit
  <2> HIDE DEF a, d, u, v, w
  <2> QED BY <2>1, <2>3, <2>4, <2>5 DEF w
<1>3. (Fetched <=> PP!Fetched) /\ (Fetched' <=> PP!Fetched')
  BY DEF Fetched, PP!Fetched
<1>4. P!data_out = PP!data_out /\ P!data_out' = PP!data_out'
  BY DEF P!data_out, PP!data_out
<1> QED BY <1>1, <1>2, <1>3, <1>4

\* How often p is in the nodes and their FIFOs.
InNodes(p) == SumNodes([n \in P!Node |-> HeldByNode(n, p)])

\* As a count of places.
LEMMA InNodesPlaces ==
  ASSUME NEW p
  PROVE  /\ InNodes(p) = Cardinality(Places(0 .. PIPE_SIZE - 1,
              [n \in 0 .. PIPE_SIZE - 1 |-> PP!HeldByNode(n, p)]))
         /\ InNodes(p)' = Cardinality(Places(0 .. PIPE_SIZE - 1,
              [n \in 0 .. PIPE_SIZE - 1 |-> PP!HeldByNode(n, p)']))
<1>1. P!Node = 0 .. PIPE_SIZE - 1
  BY DEF P!Node
<1> DEFINE F == [n \in P!Node |-> HeldByNode(n, p)]
           f == [n \in 0 .. PIPE_SIZE - 1 |-> PP!HeldByNode(n, p)]
           G == [n \in P!Node |-> HeldByNode(n, p)']
           g == [n \in 0 .. PIPE_SIZE - 1 |-> PP!HeldByNode(n, p)']
<1>2. F = f /\ G = g
  BY <1>1, SameHeld
<1>3. InNodes(p) = SumNodes(F) /\ InNodes(p)' = SumNodes(G)
  BY DEF InNodes, SumNodes, P!Node
<1> HIDE DEF F, f, G, g
<1> QED BY <1>1, <1>2, <1>3 DEF SumNodes, Places, f, g

\* A clock edge brings them the pixel started and takes the pixel the merge reads.
LEMMA InNodesEdge ==
  ASSUME PP!Inv, PP!Edge, NEW p
  PROVE  /\ InNodes(p) \in Nat /\ InNodes(p)' \in Nat
         /\ InNodes(p)' + Bit(PP!Pops(fifo_select) /\ Head(fifo_node[fifo_select]) = p)
              = InNodes(p) + Bit(start_select /\ fifo_in_q = p)
<1> DEFINE F == [n \in 0 .. PIPE_SIZE - 1 |-> PP!HeldByNode(n, p)]
           G == [n \in 0 .. PIPE_SIZE - 1 |-> PP!HeldByNode(n, p)']
<1>1. PICK k \in Nat : k = PIPE_SIZE
  BY Sizes
<1>2. PICK a \in 0 .. k - 1, b \in 0 .. k - 1 : a = fifo_select /\ b = node_select
  BY <1>1, Sizes DEF PP!Inv, PP!TypeOK
<1>3. PICK out \in BOOLEAN, in \in BOOLEAN :
        /\ out <=> PP!Pops(fifo_select) /\ Head(fifo_node[fifo_select]) = p
        /\ in <=> start_select /\ fifo_in_q = p
  OBVIOUS
<1>4. ASSUME NEW n \in 0 .. k - 1
      PROVE  /\ F[n] \in Nat /\ G[n] \in Nat
             /\ G[n] + Bit(out /\ n = a) = F[n] + Bit(in /\ n = b)
  <2>1. n \in PP!Node
    BY <1>1, Sizes
  <2>2. /\ PP!HeldByNode(n, p) \in Nat /\ PP!HeldByNode(n, p)' \in Nat
        /\ PP!HeldByNode(n, p)' + PP!Bit(PP!Pops(n) /\ Head(fifo_node[n]) = p)
             = PP!HeldByNode(n, p) + PP!Bit(PP!node_start[n] /\ fifo_in_q = p)
    BY <2>1, Sizes, PP!NodePixel
  <2>3. (PP!Pops(n) /\ Head(fifo_node[n]) = p) <=> (out /\ n = a)
    BY <1>2, <1>3, <2>1 DEF PP!Pops, PP!fifo_node_rdreq
  <2>4. (PP!node_start[n] /\ fifo_in_q = p) <=> (in /\ n = b)
    BY <1>2, <1>3, <2>1 DEF PP!node_start
  <2>5. /\ PP!Bit(PP!Pops(n) /\ Head(fifo_node[n]) = p) = Bit(out /\ n = a)
        /\ PP!Bit(PP!node_start[n] /\ fifo_in_q = p) = Bit(in /\ n = b)
    BY <2>3, <2>4 DEF Bit, PP!Bit
  <2>6. F[n] = PP!HeldByNode(n, p) /\ G[n] = PP!HeldByNode(n, p)'
    BY <1>1
  <2> HIDE DEF F, G
  <2> QED BY <2>2, <2>5, <2>6
<1>5. /\ InNodes(p) = Cardinality(Places(0 .. k - 1, F))
      /\ InNodes(p)' = Cardinality(Places(0 .. k - 1, G))
  BY <1>1, InNodesPlaces
<1> HIDE DEF F, G
<1>6. Cardinality(Places(0 .. k - 1, G)) + Bit(out) = Cardinality(Places(0 .. k - 1, F)) + Bit(in)
  <2>1. PICK f, g : f = F /\ g = G
    OBVIOUS
  <2>2. \A n \in 0 .. k - 1 : f[n] \in Nat /\ g[n] \in Nat
    BY <1>4, <2>1
  <2>3. \A n \in 0 .. k - 1 : g[n] + Bit(out /\ n = a) = f[n] + Bit(in /\ n = b)
    BY <1>4, <2>1
  <2>4. Transfer(k, f, g, out, in)
    BY <2>2, <2>3 DEF Transfer
  <2>5. Cardinality(Places(0 .. k - 1, g)) + Bit(out) = Cardinality(Places(0 .. k - 1, f)) + Bit(in)
    BY <2>4, PlacesStep
  <2> QED BY <2>1, <2>5
<1>7. InNodes(p) \in Nat /\ InNodes(p)' \in Nat
  BY <1>4, <1>5, PlacesFinite
<1>8. /\ Bit(PP!Pops(fifo_select) /\ Head(fifo_node[fifo_select]) = p) = Bit(out)
      /\ Bit(start_select /\ fifo_in_q = p) = Bit(in)
  BY <1>3 DEF Bit
<1> QED BY <1>5, <1>6, <1>7, <1>8

\* A number of times, a fall of reset_n only drops, and standing still changes nothing.
LEMMA InNodesNat == ASSUME PP!Inv, NEW p PROVE InNodes(p) \in Nat
<1> DEFINE F == [n \in 0 .. PIPE_SIZE - 1 |-> PP!HeldByNode(n, p)]
<1>1. ASSUME NEW n \in 0 .. PIPE_SIZE - 1 PROVE F[n] \in Nat
  <2>1. PP!HeldByNode(n, p) \in Nat
    BY Sizes, PP!PixelCount
  <2> QED BY <2>1
<1>2. PICK k \in Nat : k = PIPE_SIZE
  BY Sizes
<1>3. InNodes(p) = Cardinality(Places(0 .. k - 1, F))
  BY <1>2, InNodesPlaces
<1> HIDE DEF F
<1> QED BY <1>1, <1>2, <1>3, PlacesFinite

\* When reset_n falls the nodes and their FIFOs only lose occurrences of a pixel.
LEMMA InNodesFall ==
  ASSUME PP!Inv, PP!Fall, NEW p PROVE InNodes(p)' \in Nat /\ InNodes(p)' <= InNodes(p)
<1> DEFINE F == [n \in 0 .. PIPE_SIZE - 1 |-> PP!HeldByNode(n, p)]
           G == [n \in 0 .. PIPE_SIZE - 1 |-> PP!HeldByNode(n, p)']
<1>1. ASSUME NEW n \in 0 .. PIPE_SIZE - 1
      PROVE  F[n] \in Nat /\ G[n] \in Nat /\ G[n] <= F[n]
  <2>1. PP!HeldByNode(n, p) \in Nat
    BY Sizes, PP!PixelCount
  <2>2. PP!HeldByNode(n, p)' \in Nat /\ PP!HeldByNode(n, p)' <= PP!HeldByNode(n, p)
    BY Sizes, PP!FallPixel
  <2> QED BY <2>1, <2>2
<1>2. PICK k \in Nat : k = PIPE_SIZE
  BY Sizes
<1>3. /\ InNodes(p) = Cardinality(Places(0 .. k - 1, F))
      /\ InNodes(p)' = Cardinality(Places(0 .. k - 1, G))
  BY <1>2, InNodesPlaces
<1> HIDE DEF F, G
<1>4. Cardinality(Places(0 .. k - 1, G)) \in Nat
  BY <1>1, <1>2, PlacesFinite
<1>5. Cardinality(Places(0 .. k - 1, G)) <= Cardinality(Places(0 .. k - 1, F))
  BY <1>1, <1>2, PlacesFewer
<1> QED BY <1>3, <1>4, <1>5

\* They keep them while the pipes stand still.
LEMMA InNodesStill == ASSUME UNCHANGED pipesVars, NEW p PROVE InNodes(p)' = InNodes(p)
BY DEF pipesVars, InNodes, HeldByNode, Occurrences, One, SumNodes, P!N!InProcess

\* A FIFO that is not full when it is written, around the pipes.
LEMMA OuterFifo ==
  ASSUME NEW f \in Seq(Point), NEW n \in Nat, NEW wr \in BOOLEAN, NEW d \in Point,
         NEW rd \in BOOLEAN, NEW p, wr => Len(f) < n
  PROVE  /\ Occurrences(f, p) \in Nat /\ Occurrences(NextWords(f, n, wr, d, rd), p) \in Nat
         /\ Occurrences(NextWords(f, n, wr, d, rd), p) + Bit(rd /\ f # << >> /\ Head(f) = p)
              = Occurrences(f, p) + Bit(wr /\ d = p)
<1> DEFINE g == NextWords(f, n, wr, d, rd)
           h == PP!NextWords(f, n, wr, d, rd)
<1>1. /\ PP!Count(f, p) \in Nat /\ PP!Count(h, p) \in Nat
      /\ PP!Count(h, p) + PP!Goes(f, rd, p) = PP!Count(f, p) + PP!Comes(wr, d, p)
  <2>1. PP!PipesAssumption
    BY Sizes
  <2>2. PP!Fitting(f, n, wr, d, rd)
    BY DEF PP!Fitting
  <2> QED BY <2>1, <2>2, PP!FifoPixel
<1>2. g = h
  BY SameFifo
<1>3. \A s : PP!Count(s, p) = Occurrences(s, p)
  BY SameCardinality DEF Occurrences, PP!Count
<1>4. /\ PP!Goes(f, rd, p) = Bit(rd /\ f # << >> /\ Head(f) = p)
      /\ PP!Comes(wr, d, p) = Bit(wr /\ d = p)
  BY DEF Bit, PP!Bit, PP!Goes, PP!Comes
<1> HIDE DEF g, h
<1>5. Occurrences(f, p) \in Nat /\ Occurrences(g, p) \in Nat
  BY <1>1, <1>2, <1>3
<1>6. Occurrences(g, p) + Bit(rd /\ f # << >> /\ Head(f) = p) = Occurrences(f, p) + Bit(wr /\ d = p)
  BY <1>1, <1>2, <1>3, <1>4
<1> QED BY <1>5, <1>6 DEF g

\* A result leaves the accelerator at this edge.
Delivers == data_out_read /\ fifo_out # << >>

\* What the FIFOs around the pipes gain and lose of pixel p.
LEMMA OuterFifos ==
  ASSUME Inv, WriteFits, FifoIn, FifoOut, NEW p
  PROVE  /\ Occurrences(fifo_in, p) \in Nat /\ Occurrences(fifo_in', p) \in Nat
         /\ Occurrences(fifo_out, p) \in Nat /\ Occurrences(fifo_out', p) \in Nat
         /\ Occurrences(fifo_in', p) + Bit(data_in_read /\ Head(fifo_in) = p)
              = Occurrences(fifo_in, p) + Bit(data_in_write /\ point_in = p)
         /\ Occurrences(fifo_out', p) + Bit(Delivers /\ Head(fifo_out) = p)
              = Occurrences(fifo_out, p) + Bit(write_out /\ P!data_out = p)
<1>0. /\ fifo_in \in Seq(Point) /\ fifo_out \in Seq(Point) /\ data_in_write \in BOOLEAN
      /\ point_in \in Point /\ data_in_read \in BOOLEAN /\ data_out_read \in BOOLEAN
      /\ write_out \in BOOLEAN /\ P!data_out \in Point
      /\ FIFO_IN_WORDS \in Nat /\ FIFO_OUT_WORDS \in Nat
  BY PipesWires, Sizes DEF Inv, WireTypes
<1>1. /\ Occurrences(fifo_in, p) \in Nat /\ Occurrences(fifo_in', p) \in Nat
      /\ Occurrences(fifo_in', p) + Bit(data_in_read /\ Head(fifo_in) = p)
           = Occurrences(fifo_in, p) + Bit(data_in_write /\ point_in = p)
  <2>1. PICK f \in Seq(Point), n \in Nat, wr \in BOOLEAN, d \in Point, rd \in BOOLEAN :
          /\ f = fifo_in /\ n = FIFO_IN_WORDS /\ wr = data_in_write /\ d = point_in
          /\ rd = data_in_read
    BY <1>0
  <2>2. wr => Len(f) < n
    BY <2>1 DEF WriteFits
  <2>3. /\ Occurrences(f, p) \in Nat /\ Occurrences(NextWords(f, n, wr, d, rd), p) \in Nat
        /\ Occurrences(NextWords(f, n, wr, d, rd), p) + Bit(rd /\ f # << >> /\ Head(f) = p)
             = Occurrences(f, p) + Bit(wr /\ d = p)
    BY <2>2, OuterFifo
  <2>4. fifo_in' = NextWords(f, n, wr, d, rd)
    BY <2>1 DEF FifoIn
  <2>5. rd => f # << >>
    BY <2>1 DEF Inv, FetchFindsPixel
  <2>6. Bit(rd /\ f # << >> /\ Head(f) = p) = Bit(data_in_read /\ Head(fifo_in) = p)
    BY <2>1, <2>5 DEF Bit
  <2> QED BY <2>1, <2>3, <2>4, <2>6
<1>2. /\ Occurrences(fifo_out, p) \in Nat /\ Occurrences(fifo_out', p) \in Nat
      /\ Occurrences(fifo_out', p) + Bit(Delivers /\ Head(fifo_out) = p)
           = Occurrences(fifo_out, p) + Bit(write_out /\ P!data_out = p)
  <2>1. PICK f \in Seq(Point), n \in Nat, wr \in BOOLEAN, d \in Point, rd \in BOOLEAN :
          /\ f = fifo_out /\ n = FIFO_OUT_WORDS /\ wr = write_out /\ d = P!data_out
          /\ rd = data_out_read
    BY <1>0
  <2>2. wr => Len(f) < n
    BY <2>1, OutputFits DEF FifoOutNoOverflow
  <2>3. /\ Occurrences(f, p) \in Nat /\ Occurrences(NextWords(f, n, wr, d, rd), p) \in Nat
        /\ Occurrences(NextWords(f, n, wr, d, rd), p) + Bit(rd /\ f # << >> /\ Head(f) = p)
             = Occurrences(f, p) + Bit(wr /\ d = p)
    BY <2>2, OuterFifo
  <2>4. fifo_out' = NextWords(f, n, wr, d, rd)
    BY <2>1 DEF FifoOut
  <2>5. Bit(rd /\ f # << >> /\ Head(f) = p) = Bit(Delivers /\ Head(fifo_out) = p)
    BY <2>1 DEF Bit, Delivers
  <2> QED BY <2>1, <2>3, <2>4, <2>5
<1> QED BY <1>1, <1>2

\* The five places a pixel can be, as numbers.
Total(p) == Occurrences(fifo_in, p) + Bit(Fetched /\ fifo_in_q = p) + InNodes(p)
              + Bit(write_out /\ P!data_out = p) + Occurrences(fifo_out, p)

\* They are what held counts.
LEMMA HeldTotal ==
  ASSUME NEW p \in Point PROVE held[p] = Total(p) /\ held'[p] = Total(p)'
<1>1. held[p] = Total(p)
  BY DEF held, Total, InNodes, One, Bit
<1>2. held'[p] = Total(p)'
  BY DEF held, Total, InNodes, One, Bit
<1> QED BY <1>1, <1>2

\* What goes out of one place at a clock edge is what comes into the next: over
\* all of them, the pixel written comes in and the pixel delivered goes out.
LEMMA TickHeld ==
  ASSUME Inv, WriteFits, Tick, NEW p
  PROVE  /\ Total(p) \in Nat /\ Total(p)' \in Nat
         /\ Total(p)' + Bit(Delivers /\ Head(fifo_out) = p)
              = Total(p) + Bit(data_in_write /\ point_in = p)
<1>1. /\ PP!Inv /\ PP!TypeOK /\ PP!Pulses /\ PP!UnloadReadsWords /\ PP!NP!IInv
      /\ PP!LoadFsm /\ PP!UnloadFsm /\ PP!NodeFifos /\ PP!Edge /\ FifoIn /\ FifoOut
  BY TickEdge DEF Inv, Tick, Clock, PP!Inv, PP!Edge, PP!Clock
<1> DEFINE i  == Occurrences(fifo_in, p)    ii == Occurrences(fifo_in', p)
           q  == Occurrences(fifo_out, p)   qq == Occurrences(fifo_out', p)
           f  == Bit(Fetched /\ fifo_in_q = p)
           ff == Bit(Fetched' /\ fifo_in_q' = p)
           n  == InNodes(p)                 nn == InNodes(p)'
           o  == Bit(write_out /\ P!data_out = p)
           oo == Bit(write_out' /\ P!data_out' = p)
           w  == Bit(data_in_write /\ point_in = p)
           rd == Bit(data_in_read /\ Head(fifo_in) = p)
           st == Bit(start_select /\ fifo_in_q = p)
           d  == Bit(Delivers /\ Head(fifo_out) = p)
           pop == Bit(PP!Pops(fifo_select) /\ Head(fifo_node[fifo_select]) = p)
<1>2. /\ i \in Nat /\ ii \in Nat /\ q \in Nat /\ qq \in Nat
      /\ ii + rd = i + w /\ qq + d = q + o
  BY <1>1, OuterFifos
<1>3. n \in Nat /\ nn \in Nat /\ nn + pop = n + st
  BY <1>1, InNodesEdge
<1>4. ff + st = f + rd
  <2>1. /\ PP!Fetched' <=> data_in_read \/ (PP!Fetched /\ ~start_select)
        /\ data_in_read => ~PP!Fetched
        /\ start_select => PP!Fetched
    BY <1>1, Sizes, PP!LoadPixel
  <2>2. /\ Fetched' <=> data_in_read \/ (Fetched /\ ~start_select)
        /\ data_in_read => ~Fetched
        /\ start_select => Fetched
    BY <2>1, SameHeld
  <2>3. fifo_in_q' = IF data_in_read THEN Head(fifo_in) ELSE fifo_in_q
    BY <1>1 DEF FifoIn, NextQ, Inv, FetchFindsPixel
  <2>4. CASE data_in_read
    <3>1. Fetched' /\ ~Fetched /\ ~start_select
      BY <2>2, <2>4
    <3> QED BY <2>3, <2>4, <3>1 DEF Bit
  <2>5. CASE ~data_in_read
    <3>1. fifo_in_q' = fifo_in_q
      BY <2>3, <2>5
    <3> QED BY <2>2, <2>5, <3>1 DEF Bit
  <2> QED BY <2>4, <2>5
<1>5. oo = pop
  <2>1. /\ write_out' <=> PP!Pops(fifo_select)
        /\ write_out' => PP!data_out' = Head(fifo_node[fifo_select])
    BY <1>1, Sizes, PP!MergePixel
  <2> QED BY <2>1, SameHeld DEF Bit
<1>6. Total(p) = i + f + n + o + q /\ Total(p)' = ii + ff + nn + oo + qq
  BY DEF Total, Occurrences, Bit
<1>7. /\ f \in {0, 1} /\ ff \in {0, 1} /\ o \in {0, 1} /\ oo \in {0, 1} /\ w \in {0, 1}
      /\ rd \in {0, 1} /\ st \in {0, 1} /\ d \in {0, 1} /\ pop \in {0, 1}
  BY DEF Bit
<1> HIDE DEF i, ii, q, qq, f, ff, n, nn, o, oo, w, rd, st, d, pop
<1>8. i + f + n + o + q \in Nat /\ ii + ff + nn + oo + qq \in Nat
  BY <1>2, <1>3, <1>7
<1>9. ii + ff + nn + oo + qq + d = i + f + n + o + q + w
  BY <1>2, <1>3, <1>4, <1>5, <1>7
<1> QED BY <1>6, <1>8, <1>9 DEF w, d

\* While reset_n is low only the FIFOs around the pipes move.
LEMMA TickInResetHeld ==
  ASSUME Inv, WriteFits, TickInReset, NEW p
  PROVE  /\ Total(p) \in Nat /\ Total(p)' \in Nat
         /\ Total(p)' + Bit(Delivers /\ Head(fifo_out) = p)
              = Total(p) + Bit(data_in_write /\ point_in = p)
<1>1. ~reset_n /\ FifoIn /\ FifoOut /\ UNCHANGED pipesVars /\ PP!Inv
  BY DEF TickInReset, Inv
<1>2. ~data_in_read /\ ~write_out
  BY <1>1 DEF PP!Inv, PP!Cleared
<1>3. /\ next_state_1_load' = next_state_1_load /\ data_in_read' = data_in_read
      /\ write_out' = write_out /\ fifo_in_q' = fifo_in_q
  BY <1>1, <1>2 DEF pipesVars, FifoIn, NextQ
<1> DEFINE i  == Occurrences(fifo_in, p)    ii == Occurrences(fifo_in', p)
           q  == Occurrences(fifo_out, p)   qq == Occurrences(fifo_out', p)
           f  == Bit(Fetched /\ fifo_in_q = p)
           ff == Bit(Fetched' /\ fifo_in_q' = p)
           n  == InNodes(p)                 nn == InNodes(p)'
           o  == Bit(write_out /\ P!data_out = p)
           oo == Bit(write_out' /\ P!data_out' = p)
           w  == Bit(data_in_write /\ point_in = p)
           rd == Bit(data_in_read /\ Head(fifo_in) = p)
           d  == Bit(Delivers /\ Head(fifo_out) = p)
<1>4. /\ i \in Nat /\ ii \in Nat /\ q \in Nat /\ qq \in Nat
      /\ ii + rd = i + w /\ qq + d = q + o
  BY <1>1, OuterFifos
<1>5. rd = 0 /\ o = 0 /\ oo = 0
  BY <1>2, <1>3 DEF Bit
<1>6. ff = f
  BY <1>3 DEF Fetched
<1>7. n \in Nat
  BY <1>1, InNodesNat
<1>8. nn = n
  BY <1>1, InNodesStill
<1>9. Total(p) = i + f + n + o + q /\ Total(p)' = ii + ff + nn + oo + qq
  BY DEF Total, Occurrences, Bit
<1>10. f \in {0, 1} /\ w \in {0, 1} /\ d \in {0, 1}
  BY DEF Bit
<1> HIDE DEF i, ii, q, qq, f, ff, n, nn, o, oo, w, rd, d
<1>11. i + f + n + o + q \in Nat /\ ii + ff + nn + oo + qq \in Nat
  BY <1>4, <1>5, <1>6, <1>7, <1>8, <1>10
<1>12. ii + ff + nn + oo + qq + d = i + f + n + o + q + w
  BY <1>4, <1>5, <1>6, <1>7, <1>8, <1>10
<1> QED BY <1>9, <1>11, <1>12 DEF w, d

\* The fall of reset_n may drop pixels and brings none.
LEMMA ResetDownHeld ==
  ASSUME Inv, ResetDown, NEW p
  PROVE  Total(p)' \in 0 .. Total(p)
<1>1. /\ fifo_in' = fifo_in /\ fifo_out' = fifo_out /\ fifo_in_q' = fifo_in_q /\ PP!Inv
      /\ P!PipesReset /\ reset_n /\ reset_n' = FALSE
  BY DEF ResetDown, fifoVars, Inv
<1>2. PP!PipesReset /\ PP!Fall
  BY <1>1, SameReset DEF PP!Fall
<1>3. ~Fetched' /\ ~write_out'
  BY <1>2 DEF PP!PipesReset, Fetched
<1> DEFINE i  == Occurrences(fifo_in, p)    q  == Occurrences(fifo_out, p)
           f  == Bit(Fetched /\ fifo_in_q = p)
           ff == Bit(Fetched' /\ fifo_in_q' = p)
           n  == InNodes(p)                 nn == InNodes(p)'
           o  == Bit(write_out /\ P!data_out = p)
           oo == Bit(write_out' /\ P!data_out' = p)
<1>4. i \in Nat /\ q \in Nat
  <2>1. fifo_in \in Seq(Point) /\ fifo_out \in Seq(Point)
    BY DEF Inv, WireTypes
  <2>2. PP!Count(fifo_in, p) \in Nat /\ PP!Count(fifo_out, p) \in Nat
    BY <2>1, Sizes, PP!CountNat
  <2> QED BY <2>2, SameCardinality DEF Occurrences, PP!Count
<1>5. ff = 0 /\ oo = 0 /\ f \in {0, 1} /\ o \in {0, 1}
  BY <1>3 DEF Bit
<1>6. n \in Nat
  BY <1>1, InNodesNat
<1>7. nn \in Nat /\ nn <= n
  BY <1>1, <1>2, InNodesFall
<1>8. Total(p) = i + f + n + o + q /\ Total(p)' = i + ff + nn + oo + q
  BY <1>1 DEF Total, Occurrences, Bit
<1> HIDE DEF i, q, f, ff, n, nn, o, oo
<1>9. i + ff + nn + oo + q \in 0 .. i + f + n + o + q
  BY <1>4, <1>5, <1>6, <1>7
<1> QED BY <1>8, <1>9

\* Every other step leaves them where they are.
LEMMA StandHeld ==
  ASSUME UNCHANGED << userWires, fifoVars, pipesVars >> PROVE held' = held
BY DEF fifoVars, pipesVars, held, Occurrences, HeldByNode, SumNodes, Fetched, One,
       P!data_out, P!N!InProcess

\* What stands first in the output FIFO is inside.
LEMMA HeadHeld == ASSUME Inv, fifo_out # << >> PROVE Total(Head(fifo_out)) >= 1
<1> DEFINE p == Head(fifo_out)
           i == Occurrences(fifo_in, p)   q == Occurrences(fifo_out, p)
           f == Bit(Fetched /\ fifo_in_q = p)
           n == InNodes(p)                o == Bit(write_out /\ P!data_out = p)
<1>1. fifo_in \in Seq(Point) /\ fifo_out \in Seq(Point) /\ PP!Inv
  BY DEF Inv, WireTypes
<1>2. \A s : PP!Count(s, p) = Occurrences(s, p)
  BY SameCardinality DEF Occurrences, PP!Count
<1>3. i \in Nat
  <2>1. PP!Count(fifo_in, p) \in Nat
    BY <1>1, Sizes, PP!CountNat
  <2> QED BY <1>2, <2>1
<1>4. q \in Nat /\ q >= 1
  <2>1. /\ PP!Count(Tail(fifo_out), p) \in Nat
        /\ PP!Count(Tail(fifo_out), p) + PP!Bit(Head(fifo_out) = p) = PP!Count(fifo_out, p)
    BY <1>1, Sizes, PP!CountTail
  <2>2. PP!Bit(Head(fifo_out) = p) = 1
    BY DEF PP!Bit
  <2>3. PP!Count(fifo_out, p) = q
    BY <1>2
  <2> HIDE DEF p, q
  <2> QED BY <2>1, <2>2, <2>3
<1>5. n \in Nat
  BY <1>1, InNodesNat
<1>6. f \in {0, 1} /\ o \in {0, 1}
  BY DEF Bit
<1>7. Total(p) = i + f + n + o + q
  BY DEF Total
<1> HIDE DEF p, i, q, f, n, o
<1>8. i + f + n + o + q >= 1
  BY <1>3, <1>4, <1>5, <1>6
<1> QED BY <1>7, <1>8 DEF p

\* What the service allows of one step in which clocks tick.
LEMMA ServiceStep ==
  ASSUME Inv, WriteFits, FifoOut, User, reset_n' = reset_n,
         \A p \in Point :
           /\ Total(p) \in Nat /\ Total(p)' \in Nat
           /\ Total(p)' + Bit(Delivers /\ Head(fifo_out) = p)
                = Total(p) + Bit(data_in_write /\ point_in = p)
  PROVE  Service!Next
<1>1. Service!User
  <2>1. Origin \in Point
    BY Sizes, PP!Sizes
  <2> QED BY <2>1 DEF User, Service!User
<1>2. ASSUME NEW p \in Point
      PROVE  /\ held[p] \in Nat /\ held'[p] \in Nat
             /\ held'[p] + Bit(Delivers /\ Head(fifo_out) = p)
                  = held[p] + Bit(data_in_write /\ point_in = p)
  BY HeldTotal
<1>3. /\ held = [p \in Point |-> held[p]] /\ held' = [p \in Point |-> held'[p]]
  BY DEF held
<1>4. fifo_out_q' = IF Delivers THEN Head(fifo_out) ELSE fifo_out_q
  BY DEF FifoOut, NextQ, Delivers
<1>5. ASSUME NEW p \in Point
      PROVE  Service!accepted[p] = held[p] + Bit(data_in_write /\ point_in = p)
  <2>1. held[p] \in Nat
    BY <1>2
  <2>2. Service!accepted[p] = IF data_in_write /\ point_in = p THEN held[p] + 1 ELSE held[p]
    BY DEF Service!accepted
  <2> HIDE DEF held
  <2> QED BY <2>1, <2>2 DEF Bit
<1>6. Service!accepted = [p \in Point |-> Service!accepted[p]]
  BY DEF Service!accepted
<1>7. CASE ~Delivers
  <2>1. ASSUME NEW p \in Point PROVE held'[p] = Service!accepted[p]
    <3>1. Bit(Delivers /\ Head(fifo_out) = p) = 0
      BY <1>7 DEF Bit
    <3> HIDE DEF held
    <3> QED BY <1>2, <1>5, <3>1
  <2>2. held' = Service!accepted
    BY <1>3, <1>6, <2>1
  <2>3. fifo_out_q' = fifo_out_q
    BY <1>4, <1>7
  <2>4. Service!Accept
    BY <2>2, <2>3 DEF Service!Accept
  <2> QED BY <1>1, <2>4 DEF Service!Next
<1>8. CASE Delivers
  <2> DEFINE r == Head(fifo_out)
  <2>1. r \in Point
    BY <1>8, HeadTailProperties DEF Delivers, Inv, WireTypes
  <2>2. ASSUME NEW p \in Point
        PROVE  held'[p] = IF p = r THEN Service!accepted[p] - 1 ELSE Service!accepted[p]
    <3>1. Bit(Delivers /\ Head(fifo_out) = p) = IF p = r THEN 1 ELSE 0
      BY <1>8 DEF Bit
    <3>2. Service!accepted[p] \in Int
      BY <1>2, <1>5 DEF Bit
    <3> HIDE DEF held, r
    <3> QED BY <1>2, <1>5, <3>1, <3>2
  <2>3. held[r] > 0
    <3>1. Total(r) >= 1
      BY <1>8, HeadHeld DEF Delivers
    <3>2. held[r] = Total(r) /\ held[r] \in Nat
      BY <1>2, <2>1, HeldTotal
    <3> HIDE DEF held, r
    <3> QED BY <3>1, <3>2
  <2>4. held' = [Service!accepted EXCEPT ![r] = @ - 1]
    <3> HIDE DEF held, r
    <3> QED BY <1>3, <1>6, <2>1, <2>2
  <2>5. fifo_out_q' = r /\ data_out_read
    BY <1>4, <1>8 DEF Delivers
  <2> HIDE DEF held, r
  <2>6. Service!AcceptAndDeliver
    BY <2>1, <2>3, <2>4, <2>5 DEF Service!AcceptAndDeliver
  <2> QED BY <1>1, <2>6 DEF Service!Next
<1> QED BY <1>7, <1>8

\* Every step of the accelerator is one of the service.
LEMMA StepIsService ==
  ASSUME Inv, WriteFits, [Next]_vars PROVE [Service!Next]_Service!vars
<1>1. CASE Tick
  <2>1. FifoOut /\ User /\ reset_n' = reset_n
    BY <1>1 DEF Tick, Clock
  <2>2. Service!Next
    BY <1>1, <2>1, TickHeld, ServiceStep
  <2> QED BY <2>2
<1>2. CASE ResetDown
  <2>1. ASSUME NEW p \in Point PROVE held'[p] \in 0 .. held[p]
    <3>1. Total(p)' \in 0 .. Total(p)
      BY <1>2, ResetDownHeld
    <3>2. held[p] = Total(p) /\ held'[p] = Total(p)'
      BY HeldTotal
    <3> HIDE DEF held
    <3> QED BY <3>1, <3>2
  <2>2. held' = [p \in Point |-> held'[p]]
    BY DEF held
  <2>3. /\ reset_n /\ reset_n' = FALSE
        /\ UNCHANGED << data_in_write, point_in, data_out_read, fifo_out_q >>
    BY <1>2 DEF ResetDown, fifoVars, userWires
  <2> HIDE DEF held
  <2>4. Service!Drop
    BY <2>1, <2>2, <2>3 DEF Service!Drop
  <2> QED BY <2>4 DEF Service!Next
<1>3. CASE TickInReset
  <2>1. FifoOut /\ User /\ reset_n' = reset_n
    BY <1>3 DEF TickInReset
  <2>2. Service!Next
    BY <1>3, <2>1, TickInResetHeld, ServiceStep
  <2> QED BY <2>2
<1>4. CASE ResetUp
  <2>1. /\ ~reset_n /\ reset_n' = TRUE
        /\ UNCHANGED << userWires, fifoVars, pipesVars >>
    BY <1>4 DEF ResetUp
  <2>2. held' = held
    BY <2>1, StandHeld
  <2>3. UNCHANGED << data_in_write, point_in, data_out_read, fifo_out_q >>
    BY <2>1 DEF userWires, fifoVars
  <2> HIDE DEF held
  <2>4. Service!Recover
    BY <2>1, <2>2, <2>3 DEF Service!Recover
  <2> QED BY <2>4 DEF Service!Next
<1>5. CASE UNCHANGED vars
  <2>1. reset_n' = reset_n /\ UNCHANGED << userWires, fifoVars, pipesVars >>
    BY <1>5 DEF vars
  <2>2. held' = held
    BY <2>1, StandHeld
  <2>3. UNCHANGED << data_in_write, point_in, data_out_read, fifo_out_q >>
    BY <2>1 DEF userWires, fifoVars
  <2> HIDE DEF held
  <2>4. UNCHANGED Service!vars
    BY <2>1, <2>2, <2>3 DEF Service!vars
  <2> QED BY <2>4
<1> QED BY <1>1, <1>2, <1>3, <1>4, <1>5 DEF Next

\* At power-up the accelerator holds nothing.
LEMMA InitIsService == Init => Service!Init
<1> SUFFICES ASSUME Init PROVE Service!Init
  OBVIOUS
<1>1. /\ P!PipesInit /\ reset_n = TRUE
      /\ fifo_in = << >> /\ fifo_in_q = Origin /\ fifo_out = << >> /\ fifo_out_q = Origin
      /\ data_in_write = FALSE /\ point_in = Origin /\ data_out_read = FALSE
  BY DEF Init, AcceleratorInit
<1>2. PP!PipesInit /\ Inv
  BY <1>1, SameInit, InitInv
<1>3. ~Fetched /\ ~write_out
  BY <1>2 DEF PP!PipesInit, Fetched
<1>4. ASSUME NEW p \in Point PROVE held[p] = 0
  <2>1. Occurrences(<< >>, p) = 0
    <3>1. {i \in DOMAIN << >> : << >>[i] = p} = {}
      BY EmptySeq
    <3> QED BY <3>1, FS_EmptySet DEF Occurrences
  <2>2. InNodes(p) = 0
    <3> DEFINE F == [n \in 0 .. PIPE_SIZE - 1 |-> PP!HeldByNode(n, p)]
    <3>1. ASSUME NEW n \in 0 .. PIPE_SIZE - 1 PROVE F[n] = 0
      <4>1. PP!HeldByNode(n, p) = 0
        BY <1>2, Sizes, PP!InitPixel
      <4> QED BY <4>1
    <3>2. Places(0 .. PIPE_SIZE - 1, F) = {}
      <4> HIDE DEF F
      <4> QED BY <3>1 DEF Places
    <3>3. InNodes(p) = Cardinality(Places(0 .. PIPE_SIZE - 1, F))
      BY InNodesPlaces
    <3> HIDE DEF F
    <3> QED BY <3>2, <3>3, FS_EmptySet
  <2>3. Bit(Fetched /\ fifo_in_q = p) = 0 /\ Bit(write_out /\ P!data_out = p) = 0
    BY <1>3 DEF Bit
  <2>4. Total(p) = 0
    BY <1>1, <2>1, <2>2, <2>3 DEF Total
  <2> QED BY <2>4, HeldTotal
<1>5. held = [p \in Point |-> held[p]]
  BY DEF held
<1>6. held = [p \in Point |-> 0]
  <2> HIDE DEF held
  <2> QED BY <1>4, <1>5
<1> HIDE DEF held
<1> QED BY <1>1, <1>6 DEF Service!Init

\* The accelerator as a whole implements the unordered, loss-free service: each
\* pixel written in comes out as a result once, and only a reset drops any
\* (fractal_accelerator.v with all it instantiates).
THEOREM AcceleratorIsService == Spec => ExactlyOnce
<1>1. Init => WriteFits /\ Service!Init
  BY InitIsService DEF Init, WriteFits
<1>2. Inv /\ WriteFits /\ [Next]_vars => WriteFits'
  BY WriteFitsStep
<1>3. Inv /\ WriteFits /\ [Next]_vars => [Service!Next]_Service!vars
  BY StepIsService
<1> QED BY <1>1, <1>2, <1>3, AcceleratorInvariant, PTL DEF Spec, ExactlyOnce, Service!Spec
=============================================================================
