--------------------------- MODULE DivergenceDatapath ---------------------------
(***************************************************************************)
(* The data path of the iteration node (divergence_node.v) beside its      *)
(* control path: z and c on their way through the multipliers, the adders  *)
(* and the register chains that delay one operand until the other is there *)
(* too.                                                                    *)
(*                                                                         *)
(* Numbers are abstracted to what went into them.  The value of z is the   *)
(* sequence of the constants added to it since it was cleared, one for     *)
(* each iteration z := z^2 + c; the constant of a pixel is named by the    *)
(* pixel.  Any other number is the set of the z's it was computed from and *)
(* the set of the constants added: a product or a sum has all that its two *)
(* operands have.  Nothing in a number says whose it is: that is what the  *)
(* chains have to get right.                                               *)
(***************************************************************************)
EXTENDS DivergenceNode, Sequences

CONSTANTS
  Mult_pipeline,      \* lpm_pipeline of the vendor's multiplier    (5)
  Add_Sub_pipeline    \* lpm_pipeline of the vendor's adder         (3)

\* The parameters of the node say what the two components are generated with.
ASSUME LatencyAssumption ==
  Mult_pipeline = MULT_PIPEL_SIZE /\ Add_Sub_pipeline = ADD_PIPEL_SIZE

VARIABLES
  c_reg,              \* c_re_reg, c_im_reg
  c_Mq,               \* c_re_Mq, c_im_Mq
  re_part, im_part,   \* z
  mult,               \* the registers inside each multiplier
  sum,                \* and inside each adder
  Aq                  \* the chains of ADD_PIPEL_SIZE registers

pathVars == << c_reg, c_Mq, re_part, im_part, mult, sum, Aq >>
allVars  == << vars, pathVars >>

Multiplier == {"mult_im", "square_re_re", "square_re_im"}
Adder      == {"add_im", "sub", "add_re", "add_comp"}
Delayed    == {"square_re_re_out_Aq", "add_im_out_trunc_Aq", "comparator_out_q",
               "add_im_overfl_q", "sub_re_overfl_q"}

Delay     == 0 .. MULT_PIPEL_SIZE - 1
AddDelay  == 0 .. ADD_PIPEL_SIZE - 1
MultStage == 0 .. Mult_pipeline - 1
AddStage  == 0 .. Add_Sub_pipeline - 1

(* Numbers.                                                                *)

Z(s)       == [of |-> {s}, plus |-> {}]
C(p)       == [of |-> {}, plus |-> {p}]
Both(a, b) == [of |-> a.of \union b.of, plus |-> a.plus \union b.plus]

\* A sum with a constant in it, truncated to the z of the next round.
Trunc(a) == [of |-> {Append(s, c) : s \in a.of, c \in a.plus}, plus |-> {}]
Zero     == Z(<< >>)

\* A clock edge of a chain of registers.
Shift(chain, in) == [i \in DOMAIN chain |-> IF i = 0 THEN in ELSE chain[i-1]]

(* Outputs of the components and chains.                                   *)
MultOut(n, m)  == mult[n][m][Mult_pipeline - 1]
AddOut(n, a)   == sum[n][a][Add_Sub_pipeline - 1]
DelayOut(n, q) == Aq[n][q][ADD_PIPEL_SIZE - 1]
ConstOut(n)    == C(c_Mq[n][MULT_PIPEL_SIZE - 1])
-----------------------------------------------------------------------------
(* What each is fed.                                                       *)

MultIn(n) ==
  [mult_im      |-> Both(im_part[n], re_part[n]),
   square_re_re |-> re_part[n],
   square_re_im |-> im_part[n]]

\* A faulty AddIn: re^2 does not wait for the subtraction.
AddInUndelayed(n) ==
  [add_im   |-> Both(MultOut(n, "mult_im"), ConstOut(n)),
   sub      |-> Both(ConstOut(n), MultOut(n, "square_re_im")),
   add_re   |-> Both(AddOut(n, "sub"), MultOut(n, "square_re_re")),
   add_comp |-> Both(MultOut(n, "square_re_im"), MultOut(n, "square_re_re"))]

AddIn(n) ==
  [add_im   |-> Both(MultOut(n, "mult_im"), ConstOut(n)),
   sub      |-> Both(ConstOut(n), MultOut(n, "square_re_im")),
   add_re   |-> Both(AddOut(n, "sub"), DelayOut(n, "square_re_re_out_Aq")),
   add_comp |-> Both(MultOut(n, "square_re_im"), MultOut(n, "square_re_re"))]

\* The comparison with 4 and the overflow flags are of the sum they are about.
DelayIn(n) ==
  [square_re_re_out_Aq |-> MultOut(n, "square_re_re"),
   add_im_out_trunc_Aq |-> AddOut(n, "add_im"),
   comparator_out_q    |-> AddOut(n, "add_comp"),
   add_im_overfl_q     |-> AddOut(n, "add_im"),
   sub_re_overfl_q     |-> AddOut(n, "sub")]

\* What diverge is computed from; add_re_overfl comes with the sum itself.
DivergeIn(n) ==
  {DelayOut(n, "comparator_out_q"), DelayOut(n, "add_im_overfl_q"),
   DelayOut(n, "sub_re_overfl_q"), AddOut(n, "add_re")}
-----------------------------------------------------------------------------
(* The always blocks and the vendor's components.                          *)

\* z is cleared and c captured when a pixel enters the ring; c is held until the
\* next one does.  What a slot not in process holds is not read: zero here.
InputMuxes ==
  /\ c_reg' = [n \in Node |-> IF load(n) THEN point_start[n] ELSE c_reg[n]]
  /\ im_part' = [n \in Node |->
       IF load(n) \/ ~in_process_q'[n][0] THEN Zero
       ELSE Trunc(DelayOut(n, "add_im_out_trunc_Aq"))]
  /\ re_part' = [n \in Node |->
       IF load(n) \/ ~in_process_q'[n][0] THEN Zero ELSE Trunc(AddOut(n, "add_re"))]

\* A faulty ConstantPipeline: c enters the delay line as its pixel enters the
\* ring, one clock before c_reg has it.
ConstantPipelineAtLoad ==
  c_Mq' = [n \in Node |-> [i \in Delay |->
    IF i > 0 THEN c_Mq[n][i-1] ELSE IF load(n) THEN c_reg[n] ELSE c_Mq[n][0]]]

\* c follows z past the multipliers.
ConstantPipeline ==
  c_Mq' = [n \in Node |-> [i \in Delay |->
    IF i = 0 THEN c_reg[n] ELSE c_Mq[n][i-1]]]

Multipliers ==
  mult' = [n \in Node |-> [m \in Multiplier |-> Shift(mult[n][m], MultIn(n)[m])]]

Adders ==
  sum' = [n \in Node |-> [a \in Adder |-> Shift(sum[n][a], AddIn(n)[a])]]

DelayLines ==
  Aq' = [n \in Node |-> [q \in Delayed |-> Shift(Aq[n][q], DelayIn(n)[q])]]

\* The node's own registers, at power-up and under reset.
PathInit ==
  /\ Init
  /\ c_reg = [n \in Node |-> Origin]
  /\ c_Mq = [n \in Node |-> [i \in Delay |-> Origin]]
  /\ re_part = [n \in Node |-> Zero] /\ im_part = [n \in Node |-> Zero]
  /\ mult = [n \in Node |-> [m \in Multiplier |-> [i \in MultStage |-> Zero]]]
  /\ sum = [n \in Node |-> [a \in Adder |-> [i \in AddStage |-> Zero]]]
  /\ Aq = [n \in Node |-> [q \in Delayed |-> [i \in AddDelay |-> Zero]]]

PathReset ==
  /\ c_reg' = [n \in Node |-> Origin]
  /\ c_Mq' = [n \in Node |-> [i \in Delay |-> Origin]]
  /\ re_part' = [n \in Node |-> Zero] /\ im_part' = [n \in Node |-> Zero]
  /\ Aq' = [n \in Node |-> [q \in Delayed |-> [i \in AddDelay |-> Zero]]]
  /\ UNCHANGED << mult, sum >>

TickWithPath ==
  Tick /\ InputMuxes /\ ConstantPipeline /\ Multipliers /\ Adders /\ DelayLines

\* The vendor's components have no reset: what is in them moves on.
PathTickInReset ==
  /\ ~reset_n /\ Multipliers /\ Adders
  /\ UNCHANGED << vars, c_reg, c_Mq, re_part, im_part, Aq >>

PathNext ==
  \/ TickWithPath
  \/ ResetDown /\ PathReset
  \/ PathTickInReset
  \/ ResetUp /\ UNCHANGED pathVars

PathSpec == PathInit /\ [][PathNext]_allVars

\* The clock never stops.
FairPathSpec == PathSpec /\ WF_allVars(TickWithPath)
-----------------------------------------------------------------------------
\* The numbers that stand in stage i of the node: what reaches its next component
\* with the slot that is there.  First z, then the products, then what two adders
\* in a row are given, the operands that skip one of them beside it.
StandsIn(n, i) ==
  IF i = 0 THEN {re_part[n], im_part[n]}
  ELSE IF i <= MULT_PIPEL_SIZE THEN {mult[n][m][i-1] : m \in Multiplier}
  ELSE IF i <= MULT_PIPEL_SIZE + ADD_PIPEL_SIZE THEN
    LET k == i - MULT_PIPEL_SIZE - 1
    IN  {sum[n][a][k] : a \in {"add_im", "sub", "add_comp"}}
          \union {Aq[n]["square_re_re_out_Aq"][k]}
  ELSE
    LET k == i - MULT_PIPEL_SIZE - ADD_PIPEL_SIZE - 1
    IN  {sum[n]["add_re"][k]}
          \union {Aq[n][q][k] : q \in Delayed \ {"square_re_re_out_Aq"}}

Beside(n, i) == StandsIn(n, i) \union (IF i = Last THEN DivergeIn(n) ELSE {})

\* The chains meet: every number beside a pixel -- both operands of every product,
\* sum and difference, the two parts of z that go round, the comparison and the
\* overflow flags that decide whether the pixel is done -- was computed from one
\* z, as often iterated as the pixel's count_iterations_q says, and with one
\* constant at most.  A chain longer or shorter by one than what it goes round
\* would bring the numbers of two slots together.
ChainsMeet == \A n \in Node : \A i \in InProcess(n) :
  \E s \in UNION {a.of : a \in Beside(n, i)}, p \in Point :
    /\ Len(s) = count_iterations_q[n][i]
    /\ \A a \in Beside(n, i) : a.of = {s} /\ a.plus \in {{}, {p}}

\* What z is, and is about to be.
Orbits(a) == a.of \union Trunc(a).of

\* The constant reaches the adders together with the squares of its pixel:
\* the first iteration of every pixel adds that pixel's own constant.
FirstConstant == \A n \in Node : \A i \in InProcess(n) :
  \A a \in Beside(n, i) : \A s \in Orbits(a) :
    s # << >> => Head(s) = coord_q[n][i]

\* The orbit of a pixel is that of its own constant, z := z^2 + c with one c
\* per pixel.  The code does not do this: c is not recirculated with its pixel.
OwnConstant == \A n \in Node : \A i \in InProcess(n) :
  \A a \in Beside(n, i) : \A s \in Orbits(a) :
    \A k \in DOMAIN s : s[k] = coord_q[n][i]
=============================================================================
