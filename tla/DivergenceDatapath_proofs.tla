------------------------ MODULE DivergenceDatapath_proofs ------------------------
(***************************************************************************)
(* Proofs about the data path of the iteration node, for every latency of  *)
(* the adders and multipliers: the register chains meet, and the first     *)
(* constant a pixel meets is its own.                                      *)
(*                                                                         *)
(* InStep says where each of a pixel's numbers is while the pixel is in a  *)
(* stage, and that all of them come from one z.  The constant is captured  *)
(* one clock before the pixel it belongs to is in stage 0 with it, and     *)
(* then travels a delay line of its own: Meets says where it is while its  *)
(* pixel has not reached the adders for the first time.                    *)
(***************************************************************************)
EXTENDS DivergenceDatapath, DivergenceNode_proofs, SequenceTheorems

Number == [of : SUBSET Seq(Point), plus : SUBSET Point]

PathTypes ==
  /\ c_reg \in [Node -> Point]
  /\ c_Mq \in [Node -> [Delay -> Point]]
  /\ re_part \in [Node -> Number] /\ im_part \in [Node -> Number]
  /\ mult \in [Node -> [Multiplier -> [MultStage -> Number]]]
  /\ sum \in [Node -> [Adder -> [AddStage -> Number]]]
  /\ Aq \in [Node -> [Delayed -> [AddDelay -> Number]]]

\* z with a constant added.
Plus(s, p) == [of |-> {s}, plus |-> {p}]

\* Stage k of the first adders, and what passes them by; stage k of the second.
AddsConstant(n, k, s, p) ==
  /\ sum[n]["add_im"][k] = Plus(s, p) /\ sum[n]["sub"][k] = Plus(s, p)
  /\ sum[n]["add_comp"][k] = Z(s) /\ Aq[n]["square_re_re_out_Aq"][k] = Z(s)
AddsSquare(n, k, s, p) ==
  /\ sum[n]["add_re"][k] = Plus(s, p)
  /\ Aq[n]["add_im_out_trunc_Aq"][k] = Plus(s, p)
  /\ Aq[n]["add_im_overfl_q"][k] = Plus(s, p)
  /\ Aq[n]["sub_re_overfl_q"][k] = Plus(s, p)
  /\ Aq[n]["comparator_out_q"][k] = Z(s)

\* All numbers in stage i of node n come from the z s, and the constant p.
Moves(n, i, s, p) ==
  /\ i = 0 => re_part[n] = Z(s) /\ im_part[n] = Z(s)
  /\ i \in 1 .. MULT_PIPEL_SIZE => \A m \in Multiplier : mult[n][m][i-1] = Z(s)
  /\ i \in MULT_PIPEL_SIZE + 1 .. MULT_PIPEL_SIZE + ADD_PIPEL_SIZE =>
       AddsConstant(n, i - MULT_PIPEL_SIZE - 1, s, p)
  /\ i \in MULT_PIPEL_SIZE + ADD_PIPEL_SIZE + 1 .. Last =>
       AddsSquare(n, i - MULT_PIPEL_SIZE - ADD_PIPEL_SIZE - 1, s, p)

\* s has as many constants as the pixel has rounds, the first of them its own.
Orbit(n, i, s, p) ==
  /\ Len(s) = count_iterations_q[n][i]
  /\ s # << >> => Head(s) = coord_q[n][i]
  /\ s = << >> /\ i > MULT_PIPEL_SIZE => p = coord_q[n][i]

InStep == \A n \in Node : \A i \in InProcess(n) :
  \E s \in Seq(Point), p \in Point : Moves(n, i, s, p) /\ Orbit(n, i, s, p)

\* On its first round a pixel and its constant pass the multipliers together.
Meets == \A n \in Node : \A i \in InProcess(n) :
  count_iterations_q[n][i] = 0 =>
    /\ i = 0 => c_reg[n] = coord_q[n][i]
    /\ i \in 1 .. MULT_PIPEL_SIZE => c_Mq[n][i-1] = coord_q[n][i]

\* Under reset the ring is empty, while the components that have none run on.
EmptyInReset == ~reset_n => \A n \in Node : InProcess(n) = {}

\* The inductive invariant.
PathInv == TypeOK /\ PathTypes /\ InStep /\ Meets /\ EmptyInReset
-----------------------------------------------------------------------------
\* The chains are as long as the node's parameters say, and together as the ring.
LEMMA PathSize ==
  /\ MULT_PIPEL_SIZE \in Nat /\ MULT_PIPEL_SIZE >= 1
  /\ ADD_PIPEL_SIZE \in Nat /\ ADD_PIPEL_SIZE >= 1
  /\ Last = MULT_PIPEL_SIZE + ADD_PIPEL_SIZE + ADD_PIPEL_SIZE
  /\ Stage = 0 .. Last
  /\ Mult_pipeline = MULT_PIPEL_SIZE /\ Add_Sub_pipeline = ADD_PIPEL_SIZE
  /\ MultStage = 0 .. MULT_PIPEL_SIZE - 1 /\ Delay = 0 .. MULT_PIPEL_SIZE - 1
  /\ AddStage = 0 .. ADD_PIPEL_SIZE - 1 /\ AddDelay = 0 .. ADD_PIPEL_SIZE - 1
BY PipelineAssumption, LatencyAssumption
   DEF Last, ALL_PIPEL_SIZE, Stage, Delay, AddDelay, MultStage, AddStage

\* What products, sums and truncation make of numbers that come from one z.
LEMMA Arithmetic ==
  ASSUME NEW s, NEW p
  PROVE  /\ Both(Z(s), Z(s)) = Z(s)
         /\ Both(Z(s), C(p)) = Plus(s, p) /\ Both(C(p), Z(s)) = Plus(s, p)
         /\ Both(Plus(s, p), Z(s)) = Plus(s, p)
         /\ Trunc(Plus(s, p)) = Z(Append(s, p))
<1>1. Both(Z(s), Z(s)) = Z(s)
  BY DEF Both, Z
<1>2. Both(Z(s), C(p)) = Plus(s, p) /\ Both(C(p), Z(s)) = Plus(s, p)
  BY DEF Both, Z, C, Plus
<1>3. Both(Plus(s, p), Z(s)) = Plus(s, p)
  BY DEF Both, Z, Plus
<1>4. Trunc(Plus(s, p)) = Z(Append(s, p))
  <2>1. Plus(s, p).of = {s} /\ Plus(s, p).plus = {p}
    BY DEF Plus
  <2>2. Trunc(Plus(s, p)).of = {Append(s, p)} /\ Trunc(Plus(s, p)).plus = {}
    BY <2>1 DEF Trunc
  <2>3. \A a : Trunc(a) = [of |-> Trunc(a).of, plus |-> Trunc(a).plus]
    BY DEF Trunc
  <2> QED BY <2>2, <2>3, Zenon DEF Z
<1> QED BY <1>1, <1>2, <1>3, <1>4

\* They stay numbers.
LEMMA Numbers ==
  /\ \A s \in Seq(Point) : Z(s) \in Number
  /\ \A p \in Point : C(p) \in Number
  /\ \A a, b \in Number : Both(a, b) \in Number
  /\ \A a \in Number : Trunc(a) \in Number
<1>1. \A s \in Seq(Point), p \in Point : Append(s, p) \in Seq(Point)
  BY AppendProperties
<1>2. ASSUME NEW a \in Number PROVE Trunc(a) \in Number
  <2>1. a.of \subseteq Seq(Point) /\ a.plus \subseteq Point
    BY DEF Number
  <2>2. {Append(s, c) : s \in a.of, c \in a.plus} \subseteq Seq(Point)
    BY <1>1, <2>1
  <2> QED BY <2>2 DEF Trunc, Number
<1> QED BY <1>2 DEF Z, C, Both, Number

\* What the components give and are given are numbers.
LEMMA Wires ==
  ASSUME PathTypes, NEW n \in Node
  PROVE  /\ \A m \in Multiplier : MultIn(n)[m] \in Number
         /\ \A a \in Adder : AddOut(n, a) \in Number /\ AddIn(n)[a] \in Number
         /\ \A q \in Delayed : DelayOut(n, q) \in Number /\ DelayIn(n)[q] \in Number
<1>1. /\ \A m \in Multiplier : MultOut(n, m) \in Number
      /\ \A a \in Adder : AddOut(n, a) \in Number
      /\ \A q \in Delayed : DelayOut(n, q) \in Number
  BY PathSize DEF MultOut, AddOut, DelayOut, PathTypes
<1>2. ConstOut(n) \in Number
  <2>1. c_Mq[n][MULT_PIPEL_SIZE - 1] \in Point
    BY PathSize DEF PathTypes
  <2> QED BY <2>1, Numbers DEF ConstOut
<1>3. \A m \in Multiplier : MultIn(n)[m] \in Number
  BY Numbers DEF MultIn, Multiplier, PathTypes
<1>4. \A a \in Adder : AddIn(n)[a] \in Number
  BY <1>1, <1>2, Numbers DEF AddIn, Adder, Multiplier, Delayed
<1>5. \A q \in Delayed : DelayIn(n)[q] \in Number
  BY <1>1 DEF DelayIn, Adder, Multiplier, Delayed
<1> QED BY <1>1, <1>3, <1>4, <1>5

\* A clock edge keeps numbers in the multipliers and adders.
LEMMA ComponentStep ==
  ASSUME PathTypes, Multipliers, Adders
  PROVE  /\ mult' \in [Node -> [Multiplier -> [MultStage -> Number]]]
         /\ sum' \in [Node -> [Adder -> [AddStage -> Number]]]
<1>1. mult' \in [Node -> [Multiplier -> [MultStage -> Number]]]
  BY Wires, PathSize DEF Multipliers, Shift, PathTypes
<1>2. sum' \in [Node -> [Adder -> [AddStage -> Number]]]
  BY Wires, PathSize DEF Adders, Shift, PathTypes
<1> QED BY <1>1, <1>2

\* A clock edge keeps the data path in its types.
LEMMA PathStep ==
  ASSUME TypeOK, PathTypes, InputMuxes, ConstantPipeline, Multipliers, Adders, DelayLines
  PROVE  PathTypes'
<1>1. c_reg' \in [Node -> Point]
  BY DEF InputMuxes, PathTypes, TypeOK
<1>2. c_Mq' \in [Node -> [Delay -> Point]]
  BY PathSize DEF ConstantPipeline, PathTypes
<1>3. im_part' \in [Node -> Number] /\ re_part' \in [Node -> Number]
  BY Wires, Numbers, EmptySeq DEF InputMuxes, Adder, Delayed, Zero
<1>4. Aq' \in [Node -> [Delayed -> [AddDelay -> Number]]]
  BY Wires, PathSize DEF DelayLines, Shift, PathTypes
<1> QED BY <1>1, <1>2, <1>3, <1>4, ComponentStep DEF PathTypes

\* What a clock edge leaves in each register of the chains.
LEMMA ChainStep ==
  ASSUME PathTypes, Multipliers, Adders, DelayLines, NEW n \in Node
  PROVE  /\ \A m \in Multiplier, k \in 0 .. MULT_PIPEL_SIZE - 1 :
              mult'[n][m][k] = IF k = 0 THEN MultIn(n)[m] ELSE mult[n][m][k-1]
         /\ \A a \in Adder, k \in 0 .. ADD_PIPEL_SIZE - 1 :
              sum'[n][a][k] = IF k = 0 THEN AddIn(n)[a] ELSE sum[n][a][k-1]
         /\ \A q \in Delayed, k \in 0 .. ADD_PIPEL_SIZE - 1 :
              Aq'[n][q][k] = IF k = 0 THEN DelayIn(n)[q] ELSE Aq[n][q][k-1]
<1>1. ASSUME NEW m \in Multiplier, NEW k \in 0 .. MULT_PIPEL_SIZE - 1
      PROVE  mult'[n][m][k] = IF k = 0 THEN MultIn(n)[m] ELSE mult[n][m][k-1]
  <2>1. DOMAIN mult[n][m] = 0 .. MULT_PIPEL_SIZE - 1
    BY PathSize DEF PathTypes
  <2> QED BY <2>1 DEF Multipliers, Shift
<1>2. ASSUME NEW a \in Adder, NEW k \in 0 .. ADD_PIPEL_SIZE - 1
      PROVE  sum'[n][a][k] = IF k = 0 THEN AddIn(n)[a] ELSE sum[n][a][k-1]
  <2>1. DOMAIN sum[n][a] = 0 .. ADD_PIPEL_SIZE - 1
    BY PathSize DEF PathTypes
  <2> QED BY <2>1 DEF Adders, Shift
<1>3. ASSUME NEW q \in Delayed, NEW k \in 0 .. ADD_PIPEL_SIZE - 1
      PROVE  Aq'[n][q][k] = IF k = 0 THEN DelayIn(n)[q] ELSE Aq[n][q][k-1]
  <2>1. DOMAIN Aq[n][q] = 0 .. ADD_PIPEL_SIZE - 1
    BY PathSize DEF PathTypes
  <2> QED BY <2>1 DEF DelayLines, Shift
<1> QED BY <1>1, <1>2, <1>3

\* One clock of the chains: the numbers of a pixel move to the next stage
\* together, those it enters the adders with joined by the constant that stands
\* there, and from the last stage they become z again.
LEMMA MovesOn ==
  ASSUME PathTypes, Multipliers, Adders, DelayLines, NEW n \in Node,
         NEW i \in 1 .. Last, NEW s, NEW p, Moves(n, i-1, s, p),
         NEW q, q = IF i = MULT_PIPEL_SIZE + 1 THEN c_Mq[n][MULT_PIPEL_SIZE - 1] ELSE p
  PROVE  Moves(n, i, s, q)'
<1> DEFINE M == MULT_PIPEL_SIZE   A == ADD_PIPEL_SIZE
<1>5. /\ \A a \in Adder, k \in 0 .. A - 1 :
           sum'[n][a][k] = IF k = 0 THEN AddIn(n)[a] ELSE sum[n][a][k-1]
      /\ \A d \in Delayed, k \in 0 .. A - 1 :
           Aq'[n][d][k] = IF k = 0 THEN DelayIn(n)[d] ELSE Aq[n][d][k-1]
  BY ChainStep
<1>1. ASSUME i \in 1 .. M, NEW m \in Multiplier PROVE mult'[n][m][i-1] = Z(s)
  <2>1. i - 1 \in 0 .. M - 1
    BY <1>1, PathSize
  <2>2. CASE i = 1
    <3>1. re_part[n] = Z(s) /\ im_part[n] = Z(s)
      BY <2>2 DEF Moves
    <3>2. MultIn(n)[m] = Z(s)
      BY <3>1, Arithmetic DEF MultIn, Multiplier
    <3> QED BY <2>1, <2>2, <3>2, ChainStep
  <2>3. CASE i # 1
    <3>1. i - 1 \in 1 .. M /\ i - 1 # 0
      BY <1>1, <2>3, PathSize
    <3>2. mult[n][m][(i-1)-1] = Z(s)
      BY <3>1 DEF Moves
    <3> QED BY <2>1, <3>1, <3>2, ChainStep
  <2> QED BY <2>2, <2>3
<1>2. ASSUME i \in M + 1 .. M + A PROVE AddsConstant(n, i - M - 1, s, q)'
  <2>1. i - M - 1 \in 0 .. A - 1
    BY <1>2, PathSize
  <2>2. CASE i = M + 1
    <3>1. \A m \in Multiplier : MultOut(n, m) = Z(s)
      <4>1. i - 1 \in 1 .. M /\ (i - 1) - 1 = Mult_pipeline - 1
        BY <2>2, PathSize
      <4> QED BY <4>1 DEF Moves, MultOut
    <3>2. ConstOut(n) = C(q)
      BY <2>2 DEF ConstOut
    <3>3. /\ AddIn(n)["add_im"] = Plus(s, q) /\ AddIn(n)["sub"] = Plus(s, q)
          /\ AddIn(n)["add_comp"] = Z(s) /\ DelayIn(n)["square_re_re_out_Aq"] = Z(s)
      BY <3>1, <3>2, Arithmetic DEF AddIn, DelayIn, Multiplier
    <3>4. i - M - 1 = 0
      BY <2>2, PathSize
    <3> QED BY <2>1, <3>3, <3>4, ChainStep DEF AddsConstant, Adder, Delayed
  <2>3. CASE i # M + 1
    <3>1. i - 1 \in M + 1 .. M + A /\ i - M - 1 # 0 /\ (i - 1) - M - 1 = (i - M - 1) - 1
      BY <1>2, <2>3, PathSize
    <3>2. AddsConstant(n, (i - M - 1) - 1, s, p) /\ q = p
      BY <2>3, <3>1 DEF Moves
    <3>3. /\ \A a \in Adder : sum'[n][a][i - M - 1] = sum[n][a][(i - M - 1) - 1]
          /\ \A d \in Delayed : Aq'[n][d][i - M - 1] = Aq[n][d][(i - M - 1) - 1]
      BY <1>5, <2>1, <3>1
    <3> QED BY <3>2, <3>3 DEF AddsConstant, Adder, Delayed
  <2> QED BY <2>2, <2>3
<1>3. ASSUME i \in M + A + 1 .. Last PROVE AddsSquare(n, i - M - A - 1, s, q)'
  <2>1. i - M - A - 1 \in 0 .. A - 1 /\ i # M + 1
    BY <1>3, PathSize
  <2>2. CASE i = M + A + 1
    <3>1. AddsConstant(n, A - 1, s, p)
      <4>1. (i - 1) - M - 1 = A - 1
        BY <2>2, PathSize
      <4>2. i - 1 = M + A
        BY <2>2, PathSize
      <4>3. i - 1 \in M + 1 .. M + A
        BY <4>2, PathSize
      <4> QED BY <4>1, <4>3 DEF Moves
    <3>2. /\ AddOut(n, "add_im") = Plus(s, p) /\ AddOut(n, "sub") = Plus(s, p)
          /\ AddOut(n, "add_comp") = Z(s) /\ DelayOut(n, "square_re_re_out_Aq") = Z(s)
      BY <3>1, PathSize DEF AddsConstant, AddOut, DelayOut
    <3>3. /\ AddIn(n)["add_re"] = Plus(s, p)
          /\ DelayIn(n)["add_im_out_trunc_Aq"] = Plus(s, p)
          /\ DelayIn(n)["add_im_overfl_q"] = Plus(s, p)
          /\ DelayIn(n)["sub_re_overfl_q"] = Plus(s, p)
          /\ DelayIn(n)["comparator_out_q"] = Z(s)
      BY <3>2, Arithmetic DEF AddIn, DelayIn
    <3>4. i - M - A - 1 = 0
      BY <2>2, PathSize
    <3> QED BY <2>1, <3>3, <3>4, ChainStep DEF AddsSquare, Adder, Delayed
  <2>3. CASE i # M + A + 1
    <3>1. i - 1 \in M + A + 1 .. Last /\ i - M - A - 1 # 0
      <4>1. i \in Int /\ M + A + 1 \in Int /\ Last \in Int
        BY PathSize
      <4>2. M + A + 1 <= i - 1 /\ i - 1 <= Last
        BY <1>3, <2>3, <4>1
      <4>3. i - M - A - 1 # 0
        BY <2>3, PathSize
      <4> QED BY <4>1, <4>2, <4>3
    <3>4. (i - 1) - M - A - 1 = (i - M - A - 1) - 1
      BY PathSize
    <3>2. AddsSquare(n, (i - M - A - 1) - 1, s, p)
      BY <3>1, <3>4 DEF Moves
    <3>3. /\ \A a \in Adder : sum'[n][a][i - M - A - 1] = sum[n][a][(i - M - A - 1) - 1]
          /\ \A d \in Delayed : Aq'[n][d][i - M - A - 1] = Aq[n][d][(i - M - A - 1) - 1]
      BY <1>5, <2>1, <3>1
    <3> QED BY <2>1, <3>2, <3>3 DEF AddsSquare, Adder, Delayed
  <2> QED BY <2>2, <2>3
<1>4. i # 0
  OBVIOUS
<1> QED BY <1>1, <1>2, <1>3, <1>4 DEF Moves

\* The same from the last stage to the first: both parts of z are of one round.
LEMMA GoesRound ==
  ASSUME PathTypes, InputMuxes, NEW n \in Node, ~load(n), in_process_q'[n][0],
         NEW s, NEW p, Moves(n, Last, s, p)
  PROVE  re_part'[n] = Z(Append(s, p)) /\ im_part'[n] = Z(Append(s, p))
<1>1. AddsSquare(n, ADD_PIPEL_SIZE - 1, s, p)
  <2>1. /\ Last \in MULT_PIPEL_SIZE + ADD_PIPEL_SIZE + 1 .. Last
        /\ Last - MULT_PIPEL_SIZE - ADD_PIPEL_SIZE - 1 = ADD_PIPEL_SIZE - 1
    BY PathSize
  <2> QED BY <2>1 DEF Moves
<1>2. DelayOut(n, "add_im_out_trunc_Aq") = Plus(s, p) /\ AddOut(n, "add_re") = Plus(s, p)
  BY <1>1, PathSize DEF AddsSquare, DelayOut, AddOut
<1> QED BY <1>2, Arithmetic DEF InputMuxes

\* An iteration count below the limit does not wrap.
LEMMA CountUp ==
  /\ \A k \in IterCount : k \in Nat
  /\ \A k, m \in IterCount : ~(k >= m) => NextIter(k) = k + 1
<1>1. ASSUME NEW k \in IterCount, NEW m \in IterCount, ~(k >= m)
      PROVE  NextIter(k) = k + 1
  <2>1. k \in 0 .. 2047 /\ m \in 0 .. 2047
    BY <1>1 DEF IterCount
  <2>2. k + 1 \in 0 .. 2047
    BY <1>1, <2>1
  <2>3. (k + 1) % 2048 = k + 1
    BY <2>2
  <2> QED BY <2>3 DEF NextIter
<1>2. \A k \in IterCount : k \in Nat
  BY DEF IterCount
<1> QED BY <1>1, <1>2

\* What a clock edge puts into a live stage: the pixel the ring loads, the one
\* that goes round once more, or that of the stage before (divergence_node.v).
LEMMA StageStep ==
  ASSUME TypeOK, NEW diverge \in [Node -> BOOLEAN], Pipeline(diverge),
         NEW n \in Node, NEW i \in Stage, in_process_q'[n][i]
  PROVE  \/ /\ i = 0 /\ load(n) /\ count_iterations_q'[n][i] = 0
            /\ coord_q'[n][i] = point_start[n]
         \/ /\ i = 0 /\ ~load(n) /\ in_process_q[n][Last]
            /\ count_iterations_q'[n][i] = count_iterations_q[n][Last] + 1
            /\ count_iterations_q[n][Last] \in Nat
            /\ coord_q'[n][i] = coord_q[n][Last]
         \/ /\ i # 0 /\ i - 1 \in Stage /\ in_process_q[n][i-1]
            /\ count_iterations_q'[n][i] = count_iterations_q[n][i-1]
            /\ count_iterations_q[n][i-1] \in Nat
            /\ coord_q'[n][i] = coord_q[n][i-1]
<1>1. /\ in_process_q'[n][i] = IF i = 0 THEN load(n) \/ recirculates(n, diverge)
                                        ELSE in_process_q[n][i-1]
      /\ count_iterations_q'[n][i] =
           IF i = 0 THEN IF recirculates(n, diverge)
                           THEN NextIter(count_iterations_q[n][Last]) ELSE 0
                    ELSE count_iterations_q[n][i-1]
      /\ coord_q'[n][i] =
           IF i = 0 THEN IF load(n) THEN point_start[n]
                         ELSE IF recirculates(n, diverge) THEN coord_q[n][Last]
                         ELSE Origin
                    ELSE coord_q[n][i-1]
  BY DEF Pipeline
<1>2. CASE i = 0 /\ load(n)
  <2>1. ~recirculates(n, diverge)
    BY <1>2 DEF load, recirculates
  <2> QED BY <1>1, <1>2, <2>1
<1>3. CASE i = 0 /\ ~load(n)
  <2>1. recirculates(n, diverge)
    BY <1>1, <1>3
  <2>2. in_process_q[n][Last] /\ ~(count_iterations_q[n][Last] >= MAX_ITERATIONS)
    BY <2>1 DEF recirculates, done
  <2>3. count_iterations_q[n][Last] \in IterCount
    BY PipelineSize DEF TypeOK
  <2>4. /\ count_iterations_q[n][Last] \in Nat
        /\ NextIter(count_iterations_q[n][Last]) = count_iterations_q[n][Last] + 1
    BY <2>2, <2>3, CountUp, IterationAssumption, Zenon
  <2> QED BY <1>1, <1>3, <2>1, <2>2, <2>4
<1>4. CASE i # 0
  <2>1. i - 1 \in Stage
    BY <1>4, PipelineSize
  <2>2. count_iterations_q[n][i-1] \in Nat
    <3>1. count_iterations_q \in [Node -> [Stage -> IterCount]]
      BY DEF TypeOK
    <3>2. count_iterations_q[n][i-1] \in IterCount
      BY <2>1, <3>1
    <3> QED BY <3>2, CountUp, Zenon
  <2> QED BY <1>1, <1>4, <2>1, <2>2
<1> QED BY <1>2, <1>3, <1>4


\* Every number beside a pixel is its z, or its z with the constant added.
LEMMA BesidePixel ==
  ASSUME NEW n \in Node, NEW i \in Stage, NEW s, NEW p, Moves(n, i, s, p)
  PROVE  /\ \A a \in Beside(n, i) : a = Z(s) \/ (a = Plus(s, p) /\ i > MULT_PIPEL_SIZE)
         /\ Beside(n, i) # {}
<1> DEFINE M == MULT_PIPEL_SIZE   A == ADD_PIPEL_SIZE
<1>1. i = 0 \/ i \in 1 .. M \/ i \in M + 1 .. M + A \/ i \in M + A + 1 .. Last
  BY PathSize
<1>2. /\ \A a \in StandsIn(n, i) : a = Z(s) \/ (a = Plus(s, p) /\ i > M)
      /\ StandsIn(n, i) # {}
  <2>1. CASE i = 0
    BY <2>1 DEF Moves, StandsIn
  <2>2. CASE i \in 1 .. M
    <3>1. StandsIn(n, i) = {mult[n][m][i-1] : m \in Multiplier}
      BY <2>2, PathSize DEF StandsIn
    <3>2. \A m \in Multiplier : mult[n][m][i-1] = Z(s)
      BY <2>2 DEF Moves
    <3> QED BY <3>1, <3>2 DEF Multiplier
  <2>3. CASE i \in M + 1 .. M + A
    <3>1. StandsIn(n, i) = {sum[n][a][i - M - 1] : a \in {"add_im", "sub", "add_comp"}}
                             \union {Aq[n]["square_re_re_out_Aq"][i - M - 1]}
      BY <2>3, PathSize DEF StandsIn
    <3>2. AddsConstant(n, i - M - 1, s, p) /\ i > M
      BY <2>3, PathSize DEF Moves
    <3> QED BY <3>1, <3>2 DEF AddsConstant
  <2>4. CASE i \in M + A + 1 .. Last
    <3>1. StandsIn(n, i) = {sum[n]["add_re"][i - M - A - 1]}
            \union {Aq[n][q][i - M - A - 1] : q \in Delayed \ {"square_re_re_out_Aq"}}
      BY <2>4, PathSize DEF StandsIn
    <3>2. AddsSquare(n, i - M - A - 1, s, p)
      BY <2>4 DEF Moves
    <3>3. i > M
      BY <2>4, PathSize
    <3> QED BY <3>1, <3>2, <3>3 DEF AddsSquare, Delayed
  <2> QED BY <1>1, <2>1, <2>2, <2>3, <2>4
<1>3. i = Last => \A a \in DivergeIn(n) : a = Z(s) \/ (a = Plus(s, p) /\ i > M)
  <2> SUFFICES ASSUME i = Last PROVE \A a \in DivergeIn(n) : a = Z(s) \/ (a = Plus(s, p) /\ i > M)
    OBVIOUS
  <2>1. i \in M + A + 1 .. Last /\ i - M - A - 1 = A - 1 /\ i > M
    BY PathSize
  <2>2. AddsSquare(n, A - 1, s, p)
    BY <2>1 DEF Moves
  <2> QED BY <2>1, <2>2, PathSize DEF AddsSquare, DivergeIn, DelayOut, AddOut
<1> QED BY <1>2, <1>3 DEF Beside

\* A clock edge keeps the numbers of every pixel together.
LEMMA TickInStep == PathInv /\ TickWithPath => InStep'
<1> SUFFICES ASSUME PathInv, TickWithPath, NEW n \in Node, NEW i \in Stage,
                    in_process_q'[n][i]
             PROVE  \E s \in Seq(Point), p \in Point :
                      Moves(n, i, s, p)' /\ Orbit(n, i, s, p)'
  BY DEF InStep, InProcess
<1>1. PICK diverge \in [Node -> BOOLEAN] : Pipeline(diverge)
  BY DEF TickWithPath, Tick, Clock
<1>2. /\ TypeOK /\ PathTypes /\ PathTypes' /\ InStep /\ Meets
      /\ InputMuxes /\ Multipliers /\ Adders /\ DelayLines
  BY PathStep DEF PathInv, TickWithPath
<1>3. CASE /\ i = 0 /\ load(n) /\ count_iterations_q'[n][i] = 0
           /\ coord_q'[n][i] = point_start[n]
  <2>1. re_part'[n] = Z(<< >>) /\ im_part'[n] = Z(<< >>)
    BY <1>2, <1>3 DEF InputMuxes, Zero
  <2>2. Moves(n, i, << >>, Origin)'
    BY <1>3, <2>1, PathSize DEF Moves
  <2>3. Orbit(n, i, << >>, Origin)'
    BY <1>3, PathSize, EmptySeq DEF Orbit
  <2> QED BY <2>2, <2>3, EmptySeq, PointAssumption
<1>4. CASE /\ i = 0 /\ ~load(n) /\ in_process_q[n][Last]
           /\ count_iterations_q'[n][i] = count_iterations_q[n][Last] + 1
           /\ count_iterations_q[n][Last] \in Nat
           /\ coord_q'[n][i] = coord_q[n][Last]
  <2>1. Last \in InProcess(n) /\ Last > MULT_PIPEL_SIZE
    BY <1>4, PathSize DEF InProcess
  <2>2. PICK s \in Seq(Point), p \in Point : Moves(n, Last, s, p) /\ Orbit(n, Last, s, p)
    BY <1>2, <2>1 DEF InStep
  <2>3. /\ Append(s, p) \in Seq(Point) /\ Append(s, p) # << >>
        /\ Len(Append(s, p)) = Len(s) + 1
        /\ Head(Append(s, p)) = IF s = << >> THEN p ELSE Head(s)
    BY AppendProperties
  <2>4. Moves(n, i, Append(s, p), p)'
    <3>1. re_part'[n] = Z(Append(s, p)) /\ im_part'[n] = Z(Append(s, p))
      BY <1>2, <1>4, <2>2, GoesRound
    <3> QED BY <1>4, <3>1, PathSize DEF Moves
  <2>5. Len(Append(s, p)) = count_iterations_q'[n][i]
    BY <1>4, <2>2, <2>3 DEF Orbit
  <2>6. Head(Append(s, p)) = coord_q'[n][i]
    BY <1>4, <2>1, <2>2, <2>3 DEF Orbit
  <2>7. Orbit(n, i, Append(s, p), p)'
    BY <2>3, <2>5, <2>6 DEF Orbit
  <2> QED BY <2>3, <2>4, <2>7
<1>5. CASE /\ i # 0 /\ i - 1 \in Stage /\ in_process_q[n][i-1]
           /\ count_iterations_q'[n][i] = count_iterations_q[n][i-1]
           /\ count_iterations_q[n][i-1] \in Nat
           /\ coord_q'[n][i] = coord_q[n][i-1]
  <2>1. i - 1 \in InProcess(n) /\ i \in 1 .. Last
    BY <1>5, PathSize DEF InProcess
  <2>2. PICK s \in Seq(Point), p \in Point : Moves(n, i-1, s, p) /\ Orbit(n, i-1, s, p)
    BY <1>2, <2>1 DEF InStep
  <2>3. PICK q \in Point :
          q = IF i = MULT_PIPEL_SIZE + 1 THEN c_Mq[n][MULT_PIPEL_SIZE - 1] ELSE p
    BY <1>2, PathSize DEF PathTypes
  <2>4. Moves(n, i, s, q)'
    BY <1>2, <2>1, <2>2, <2>3, MovesOn
  <2>5. ASSUME s = << >>, i > MULT_PIPEL_SIZE PROVE q = coord_q'[n][i]
    <3>1. CASE i = MULT_PIPEL_SIZE + 1
      <4>1. count_iterations_q[n][i-1] = 0
        BY <2>2, <2>5, EmptySeq DEF Orbit
      <4>2. i - 1 \in 1 .. MULT_PIPEL_SIZE /\ (i - 1) - 1 = MULT_PIPEL_SIZE - 1
        BY <3>1, PathSize
      <4>3. c_Mq[n][(i-1)-1] = coord_q[n][i-1]
        BY <1>2, <2>1, <4>1, <4>2 DEF Meets
      <4> QED BY <1>5, <2>3, <3>1, <4>2, <4>3
    <3>2. CASE i # MULT_PIPEL_SIZE + 1
      <4>1. i - 1 > MULT_PIPEL_SIZE
        BY <2>1, <2>5, <3>2, PathSize
      <4> QED BY <1>5, <2>2, <2>3, <2>5, <3>2, <4>1 DEF Orbit
    <3> QED BY <3>1, <3>2
  <2>6. Orbit(n, i, s, q)'
    BY <1>5, <2>2, <2>5 DEF Orbit
  <2> QED BY <2>3, <2>4, <2>6
<1> QED BY <1>1, <1>2, <1>3, <1>4, <1>5, StageStep

\* A clock edge keeps a pixel and its constant together.
LEMMA TickMeets == PathInv /\ TickWithPath => Meets'
<1> SUFFICES ASSUME PathInv, TickWithPath, NEW n \in Node, NEW i \in Stage,
                    in_process_q'[n][i], count_iterations_q'[n][i] = 0
             PROVE  /\ i = 0 => c_reg'[n] = coord_q'[n][i]
                    /\ i \in 1 .. MULT_PIPEL_SIZE => c_Mq'[n][i-1] = coord_q'[n][i]
  BY DEF Meets, InProcess
<1>1. PICK diverge \in [Node -> BOOLEAN] : Pipeline(diverge)
  BY DEF TickWithPath, Tick, Clock
<1>2. /\ TypeOK /\ Meets
      /\ c_reg'[n] = (IF load(n) THEN point_start[n] ELSE c_reg[n])
      /\ \A k \in Delay : c_Mq'[n][k] = IF k = 0 THEN c_reg[n] ELSE c_Mq[n][k-1]
  BY DEF PathInv, TickWithPath, InputMuxes, ConstantPipeline
<1>3. CASE i = 0 /\ load(n) /\ coord_q'[n][i] = point_start[n]
  BY <1>2, <1>3
<1>4. CASE i # 0 /\ i - 1 \in Stage /\ in_process_q[n][i-1]
           /\ count_iterations_q'[n][i] = count_iterations_q[n][i-1]
           /\ coord_q'[n][i] = coord_q[n][i-1]
  <2>1. /\ i - 1 = 0 => c_reg[n] = coord_q[n][i-1]
        /\ i - 1 \in 1 .. MULT_PIPEL_SIZE => c_Mq[n][(i-1)-1] = coord_q[n][i-1]
    BY <1>2, <1>4 DEF Meets, InProcess
  <2> SUFFICES ASSUME i \in 1 .. MULT_PIPEL_SIZE PROVE c_Mq'[n][i-1] = coord_q'[n][i]
    BY <1>4
  <2>2. i - 1 \in Delay
    BY PathSize
  <2>3. CASE i = 1
    BY <1>2, <1>4, <2>1, <2>2, <2>3
  <2>4. CASE i # 1
    <3>1. i - 1 \in 1 .. MULT_PIPEL_SIZE /\ i - 1 # 0
      BY <2>4, PathSize
    <3> QED BY <1>2, <1>4, <2>1, <2>2, <3>1
  <2> QED BY <2>3, <2>4
<1> QED BY <1>1, <1>2, <1>3, <1>4, StageStep

\* A clock edge keeps the invariant.
LEMMA TickPathInv == PathInv /\ TickWithPath => PathInv'
<1> SUFFICES ASSUME PathInv, TickWithPath PROVE PathInv'
  OBVIOUS
<1>1. TypeOK' /\ PathTypes'
  BY TickTypeOK, PathStep DEF PathInv, TickWithPath
<1>2. EmptyInReset'
  BY DEF TickWithPath, Tick, EmptyInReset
<1> QED BY <1>1, <1>2, TickInStep, TickMeets DEF PathInv

\* The fall of reset_n empties the ring.
LEMMA ResetPathInv == PathInv /\ ResetDown /\ PathReset => PathInv'
<1> SUFFICES ASSUME PathInv, ResetDown, PathReset PROVE PathInv'
  OBVIOUS
<1>1. TypeOK'
  BY ResetTypeOK DEF PathInv
<1>2. \A n \in Node : InProcess(n)' = {}
  BY DEF ResetDown, NodeReset, InProcess
<1>3. PathTypes'
  BY PointAssumption, Numbers, EmptySeq DEF PathReset, PathTypes, PathInv, Zero
<1> QED BY <1>1, <1>2, <1>3 DEF PathInv, InStep, Meets, EmptyInReset

\* While it is low the multipliers and adders move on, and nothing waits for them.
LEMMA InResetPathInv == PathInv /\ PathTickInReset => PathInv'
<1> SUFFICES ASSUME PathInv, PathTickInReset PROVE PathInv'
  OBVIOUS
<1>1. TypeOK'
  BY DEF PathInv, PathTickInReset, vars, nodeVars, TypeOK
<1>2. \A n \in Node : InProcess(n)' = {}
  BY DEF PathInv, PathTickInReset, EmptyInReset, vars, nodeVars, InProcess
<1>3. PathTypes'
  BY ComponentStep DEF PathInv, PathTickInReset, PathTypes
<1> QED BY <1>1, <1>2, <1>3 DEF PathInv, InStep, Meets, EmptyInReset

\* The data path starts with nothing in the ring.
LEMMA InitPathInv == PathInit => PathInv
<1> SUFFICES ASSUME PathInit PROVE PathInv
  OBVIOUS
<1>1. TypeOK
  BY InitTypeOK DEF PathInit
<1>2. \A n \in Node : InProcess(n) = {}
  BY DEF PathInit, Init, NodeInit, InProcess
<1>3. PathTypes
  BY PointAssumption, Numbers, EmptySeq DEF PathInit, PathTypes, Zero
<1> QED BY <1>1, <1>2, <1>3 DEF PathInv, InStep, Meets, EmptyInReset

\* The inductive invariant holds of every behaviour of the two paths together.
THEOREM PathInvariant == PathSpec => []PathInv
<1>1. PathInv /\ [PathNext]_allVars => PathInv'
  <2>1. PathInv /\ ResetUp /\ UNCHANGED pathVars => PathInv'
    BY DEF ResetUp, nodeVars, pathVars, PathInv, TypeOK, PathTypes, InStep, Moves,
           AddsConstant, AddsSquare, Orbit, Meets, EmptyInReset, InProcess
  <2>2. PathInv /\ UNCHANGED allVars => PathInv'
    BY DEF allVars, vars, nodeVars, pathVars, PathInv, TypeOK, PathTypes, InStep, Moves,
           AddsConstant, AddsSquare, Orbit, Meets, EmptyInReset, InProcess
  <2> QED BY <2>1, <2>2, TickPathInv, ResetPathInv, InResetPathInv DEF PathNext
<1> QED BY <1>1, InitPathInv, PTL DEF PathSpec

\* The chains meet, whatever the latencies of the two components, as long as
\* MULT_PIPEL_SIZE and ADD_PIPEL_SIZE say them: every number beside a pixel comes
\* from one z, iterated as often as count_iterations_q says, and one constant
\* (the generate loops and always blocks of divergence_node.v).
THEOREM ChainsMeetCorrect == PathSpec => []ChainsMeet
<1>1. PathInv => ChainsMeet
  <2> SUFFICES ASSUME PathInv, NEW n \in Node, NEW i \in InProcess(n)
               PROVE  \E s \in UNION {a.of : a \in Beside(n, i)}, p \in Point :
                        /\ Len(s) = count_iterations_q[n][i]
                        /\ \A a \in Beside(n, i) : a.of = {s} /\ a.plus \in {{}, {p}}
    BY DEF ChainsMeet
  <2>1. PICK s \in Seq(Point), p \in Point : Moves(n, i, s, p) /\ Orbit(n, i, s, p)
    BY DEF PathInv, InStep
  <2>2. i \in Stage
    BY DEF InProcess
  <2>3. \A a \in Beside(n, i) : a.of = {s} /\ a.plus \in {{}, {p}}
    BY <2>1, <2>2, BesidePixel DEF Z, Plus
  <2>4. s \in UNION {a.of : a \in Beside(n, i)}
    BY <2>1, <2>2, <2>3, BesidePixel
  <2> QED BY <2>1, <2>3, <2>4 DEF Orbit
<1> QED BY <1>1, PathInvariant, PTL

\* The first constant added to a pixel's z is its own, whatever the latencies
\* (c_re_reg, c_re_Mq and their imaginary twins).
THEOREM FirstConstantIsOwn == PathSpec => []FirstConstant
<1>1. PathInv => FirstConstant
  <2> SUFFICES ASSUME PathInv, NEW n \in Node, NEW i \in InProcess(n),
                      NEW a \in Beside(n, i), NEW t \in Orbits(a), t # << >>
               PROVE  Head(t) = coord_q[n][i]
    BY DEF FirstConstant
  <2>1. PICK s \in Seq(Point), p \in Point : Moves(n, i, s, p) /\ Orbit(n, i, s, p)
    BY DEF PathInv, InStep
  <2>2. i \in Stage
    BY DEF InProcess
  <2>3. CASE a = Z(s)
    <3>1. Orbits(a) = {s}
      BY <2>3 DEF Orbits, Trunc, Z
    <3> QED BY <2>1, <3>1 DEF Orbit
  <2>4. CASE a = Plus(s, p) /\ i > MULT_PIPEL_SIZE
    <3>1. a.of = {s} /\ Trunc(a).of = {Append(s, p)}
      <4>1. Plus(s, p).of = {s} /\ Z(Append(s, p)).of = {Append(s, p)}
        BY DEF Plus, Z
      <4> QED BY <2>4, <4>1, Arithmetic
    <3>2. t = s \/ t = Append(s, p)
      BY <3>1 DEF Orbits
    <3>3. Head(Append(s, p)) = IF s = << >> THEN p ELSE Head(s)
      BY AppendProperties
    <3> QED BY <2>1, <2>4, <3>2, <3>3 DEF Orbit
  <2> QED BY <2>1, <2>2, <2>3, <2>4, BesidePixel
<1> QED BY <1>1, PathInvariant, PTL
=============================================================================
