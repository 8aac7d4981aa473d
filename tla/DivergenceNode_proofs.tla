------------------------- MODULE DivergenceNode_proofs -------------------------
(***************************************************************************)
(* Proofs about the iteration node of DivergenceNode, for every set of     *)
(* nodes, every pipeline length and every iteration limit.                 *)
(*                                                                         *)
(* ProcessCount and Capacity need one another: the counter is exact only   *)
(* while it stays within its five bits, and it stays there because the     *)
(* busy signal holds the host back.  Handshake says what the host may      *)
(* conclude from a low busy although busy is registered; together the four *)
(* are inductive.                                                          *)
(***************************************************************************)
EXTENDS DivergenceNode, FiniteSetTheorems, TLAPS

IInv == TypeOK /\ ProcessCount /\ Handshake /\ Capacity

Bit(b) == IF b THEN 1 ELSE 0
-----------------------------------------------------------------------------
\* A register of L stages, where mark f before the clock and g after it agree
\* up to the shift: the count changes by what enters stage 0 and what leaves
\* stage L-1 (the pipelines of divergence_node.v).
LEMMA ShiftCount ==
  ASSUME NEW L \in Nat \ {0},
         NEW f \in [0 .. L-1 -> BOOLEAN], NEW g \in [0 .. L-1 -> BOOLEAN],
         \A i \in 1 .. L-1 : g[i] = f[i-1]
  PROVE  LET before == {i \in 0 .. L-1 : f[i]}
             after  == {i \in 0 .. L-1 : g[i]}
         IN  /\ IsFiniteSet(before)
             /\ IsFiniteSet(after)
             /\ Cardinality(before) \in Nat
             /\ Cardinality(after) \in Nat
             /\ Cardinality(after) + Bit(f[L-1]) = Cardinality(before) + Bit(g[0])
<1> DEFINE before == {i \in 0 .. L-1 : f[i]}
           after  == {i \in 0 .. L-1 : g[i]}
           staying == before \ {L-1}
           shifted == after \ {0}
           step == [i \in staying |-> i + 1]
<1>1. /\ IsFiniteSet(before) /\ Cardinality(before) \in Nat
      /\ IsFiniteSet(after) /\ Cardinality(after) \in Nat
  <2>1. IsFiniteSet(0 .. L-1)  BY FS_Interval
  <2>2. before \in SUBSET (0 .. L-1) /\ after \in SUBSET (0 .. L-1)  OBVIOUS
  <2>3. IsFiniteSet(before) /\ IsFiniteSet(after)  BY <2>1, <2>2, FS_Subset
  <2> QED  BY <2>3, FS_CardinalityType
<1>2. /\ IsFiniteSet(staying)
      /\ Cardinality(staying) = Cardinality(before) - Bit(f[L-1])
  <2>1. L-1 \in before <=> f[L-1]  OBVIOUS
  <2> HIDE DEF before
  <2> QED  BY <1>1, <2>1, FS_RemoveElement DEF Bit
<1>3. /\ IsFiniteSet(shifted)
      /\ Cardinality(shifted) = Cardinality(after) - Bit(g[0])
  <2>1. 0 \in after <=> g[0]  OBVIOUS
  <2> HIDE DEF after
  <2> QED  BY <1>1, <2>1, FS_RemoveElement DEF Bit
<1>4. step \in Bijection(staying, shifted)
  <2>1. \A i \in staying : step[i] \in shifted  OBVIOUS
  <2>2. \A i, j \in staying : step[i] = step[j] => i = j  OBVIOUS
  <2>3. \A k \in shifted : k-1 \in staying /\ step[k-1] = k  OBVIOUS
  <2> QED  BY <2>1, <2>2, <2>3 DEF Bijection, Injection, Surjection, IsInjective
<1>5. Cardinality(shifted) = Cardinality(staying)
  <2> HIDE DEF staying, shifted, step
  <2>1. ExistsBijection(staying, shifted)  BY <1>4 DEF ExistsBijection
  <2> QED  BY <1>2, <2>1, FS_Bijection
<1> HIDE DEF before, after, staying, shifted
<1>6. Bit(f[L-1]) \in Int /\ Bit(g[0]) \in Int  BY DEF Bit
<1>7. Cardinality(after) + Bit(f[L-1]) = Cardinality(before) + Bit(g[0])
  <2> DEFINE b == Bit(f[L-1])
             e == Bit(g[0])
  <2> HIDE DEF b, e
  <2>1. b \in Int /\ e \in Int  BY <1>6 DEF b, e
  <2>2. Cardinality(staying) = Cardinality(before) - b  BY <1>2 DEF b
  <2>3. Cardinality(shifted) = Cardinality(after) - e  BY <1>3 DEF e
  <2>4. Cardinality(after) - e = Cardinality(before) - b
    BY <1>5, <2>2, <2>3
  <2>5. ASSUME NEW m \in Nat, NEW n \in Nat, m - e = n - b
        PROVE  m + b = n + e
    BY <2>1, <2>5
  <2> QED  BY <1>1, <2>4, <2>5 DEF b, e
<1> QED  BY <1>1, <1>7 DEF before, after

\* The pipeline has at least four stages and the counter's five bits suffice.
LEMMA PipelineSize ==
  /\ ALL_PIPEL_SIZE \in 4 .. 33
  /\ Last \in Nat /\ Last \in Stage /\ 0 \in Stage
  /\ \A i \in Stage : i # 0 => i - 1 \in Stage
BY PipelineAssumption DEF ALL_PIPEL_SIZE, Stage, Last

\* What the widths of count_iterations_q and counter_processes make of a sum.
LEMMA Wrap ==
  /\ 0 \in IterCount /\ 0 \in ProcCount
  /\ \A k \in IterCount : NextIter(k) \in IterCount
  /\ \A k \in ProcCount : Up(k) \in ProcCount /\ Down(k) \in ProcCount
  /\ \A k \in 0 .. 30 : Up(k) = k + 1
  /\ \A k \in 1 .. 31 : Down(k) = k - 1
<1>1. ASSUME NEW k \in IterCount PROVE NextIter(k) \in IterCount
  BY DEF IterCount, NextIter
<1>2. ASSUME NEW k \in ProcCount PROVE Up(k) \in ProcCount
  BY DEF ProcCount, Up
<1>3. ASSUME NEW k \in ProcCount PROVE Down(k) \in ProcCount
  BY DEF ProcCount, Down
<1>4. ASSUME NEW k \in 0 .. 30 PROVE Up(k) = k + 1
  BY DEF Up
<1>5. ASSUME NEW k \in 1 .. 31 PROVE Down(k) = k - 1
  <2>1. k - 1 \in 0 .. 30 /\ k + 31 = (k - 1) + 32  OBVIOUS
  <2>2. ASSUME NEW j \in 0 .. 30 PROVE (j + 32) % 32 = j
    OBVIOUS
  <2> QED  BY <2>1, <2>2 DEF Down
<1>6. 0 \in IterCount /\ 0 \in ProcCount  BY DEF IterCount, ProcCount
<1> QED  BY <1>1, <1>2, <1>3, <1>4, <1>5, <1>6

\* The initial state is well typed.
LEMMA InitTypeOK == Init => TypeOK
BY PipelineSize, PointAssumption, Wrap DEF Init, NodeInit, TypeOK, Low, NoResult, Result

\* A clock edge keeps every register in its type (all the always blocks of
\* divergence_node.v).
LEMMA TickTypeOK == TypeOK /\ Tick => TypeOK'
<1> SUFFICES ASSUME TypeOK, Tick PROVE TypeOK'
  OBVIOUS
<1>1. PICK diverge \in [Node -> BOOLEAN] :
        /\ InputAccept /\ StartSynchronizer /\ InputRegister /\ Pipeline(diverge)
        /\ OutputReg(diverge) /\ Busy /\ CounterProcesses
  BY DEF Tick, Clock
<1>2. start' \in [Node -> BOOLEAN] /\ data_in' \in Point /\ reset_n' \in BOOLEAN
  BY DEF Tick, Host, TypeOK
<1>3. r0' \in [Node -> BOOLEAN] /\ r1' \in [Node -> BOOLEAN] /\ r2' \in [Node -> BOOLEAN]
  BY <1>1 DEF StartSynchronizer, TypeOK
<1>4. data_ready' \in [Node -> BOOLEAN]
  BY <1>1 DEF InputAccept
<1>5. point_start' \in [Node -> Point]
  BY <1>1 DEF InputRegister, TypeOK
<1>6. in_process_q' \in [Node -> [Stage -> BOOLEAN]]
  <2>1. \A n \in Node : load(n) \in BOOLEAN /\ recirculates(n, diverge) \in BOOLEAN
    BY DEF load, recirculates
  <2>2. \A n \in Node, i \in Stage : i # 0 => in_process_q[n][i-1] \in BOOLEAN
    BY PipelineSize DEF TypeOK
  <2> QED  BY <1>1, <2>1, <2>2 DEF Pipeline
<1>7. count_iterations_q' \in [Node -> [Stage -> IterCount]]
  <2>1. \A n \in Node, i \in Stage : count_iterations_q[n][i] \in IterCount
    BY DEF TypeOK
  <2>2. \A n \in Node : NextIter(count_iterations_q[n][Last]) \in IterCount
    BY <2>1, PipelineSize, Wrap
  <2>3. \A n \in Node, i \in Stage : i # 0 => count_iterations_q[n][i-1] \in IterCount
    BY <2>1, PipelineSize
  <2> QED  BY <1>1, <2>2, <2>3, Wrap DEF Pipeline
<1>8. coord_q' \in [Node -> [Stage -> Point]]
  <2>1. \A n \in Node : coord_q[n][Last] \in Point /\ point_start[n] \in Point
    BY PipelineSize DEF TypeOK
  <2>2. \A n \in Node, i \in Stage : i # 0 => coord_q[n][i-1] \in Point
    BY PipelineSize DEF TypeOK
  <2> QED  BY <1>1, <2>1, <2>2, PointAssumption DEF Pipeline
<1>9. write_out' \in [Node -> BOOLEAN]
  <2>1. \A n \in Node : finished(n, diverge) \in BOOLEAN
    BY DEF finished
  <2> QED  BY <1>1, <2>1 DEF OutputReg
<1>10. data_out' \in [Node -> Result]
  BY <1>1, PipelineSize, PointAssumption, Wrap DEF OutputReg, TypeOK, Result, NoResult
<1>11. busy' \in [Node -> BOOLEAN]
  BY <1>1 DEF Busy
<1>12. counter_processes' \in [Node -> ProcCount]
  BY <1>1, Wrap DEF CounterProcesses, TypeOK
<1> QED
  BY <1>2, <1>3, <1>4, <1>5, <1>6, <1>7, <1>8, <1>9, <1>10, <1>11, <1>12, Zenon DEF TypeOK

\* reset_n going low puts every register back to its initial, well-typed value.
LEMMA ResetTypeOK == TypeOK /\ ResetDown => TypeOK'
<1> SUFFICES ASSUME TypeOK, ResetDown PROVE TypeOK'
  OBVIOUS
<1>1. reset_n' \in BOOLEAN /\ start' \in [Node -> BOOLEAN] /\ data_in' \in Point
  BY DEF ResetDown, TypeOK, Low
<1>2. NodeReset  BY DEF ResetDown
<1>3. /\ point_start' \in [Node -> Point]
      /\ coord_q' \in [Node -> [Stage -> Point]]
      /\ data_out' \in [Node -> Result]
  BY <1>2, PointAssumption, Wrap DEF NodeReset, NoResult, Result
<1>4. /\ r0' \in [Node -> BOOLEAN] /\ r1' \in [Node -> BOOLEAN]
      /\ r2' \in [Node -> BOOLEAN] /\ data_ready' \in [Node -> BOOLEAN]
      /\ write_out' \in [Node -> BOOLEAN] /\ busy' \in [Node -> BOOLEAN]
      /\ in_process_q' \in [Node -> [Stage -> BOOLEAN]]
  BY <1>2 DEF NodeReset, Low
<1>5. /\ count_iterations_q' \in [Node -> [Stage -> IterCount]]
      /\ counter_processes' \in [Node -> ProcCount]
  BY <1>2, Wrap DEF NodeReset
<1> QED  BY <1>1, <1>3, <1>4, <1>5, Zenon DEF TypeOK

\* Type correctness of the node under clock edges and resets.
THEOREM TypeCorrect == Spec => []TypeOK
<1>1. Init => TypeOK  BY InitTypeOK
<1>2. TypeOK /\ [Next]_vars => TypeOK'
  <2>1. TypeOK /\ UNCHANGED vars => TypeOK'
    BY DEF TypeOK, vars, nodeVars
  <2>2. TypeOK /\ ResetUp => TypeOK'
    BY DEF ResetUp, TypeOK, nodeVars
  <2> QED  BY <2>1, <2>2, TickTypeOK, ResetTypeOK DEF Next
<1> QED  BY <1>1, <1>2, PTL DEF Spec
-----------------------------------------------------------------------------
\* The live slots after a clock edge: a loaded pixel more, a finished one less
\* (in_process_q, divergence_node.v).
LEMMA RingCount ==
  ASSUME TypeOK, NEW diverge \in [Node -> BOOLEAN], Pipeline(diverge), NEW n \in Node
  PROVE  /\ Cardinality(InProcess(n)) \in Nat
         /\ Cardinality(InProcess(n)') \in Nat
         /\ Cardinality(InProcess(n)') + Bit(finished(n, diverge))
              = Cardinality(InProcess(n)) + Bit(load(n))
         /\ finished(n, diverge) => Cardinality(InProcess(n)) >= 1
<1> DEFINE f == in_process_q[n]
           g == in_process_q'[n]
<1>1. f \in [0 .. ALL_PIPEL_SIZE-1 -> BOOLEAN]  BY DEF TypeOK, Stage
<1>2. g = [i \in Stage |-> IF i = 0 THEN load(n) \/ recirculates(n, diverge)
                                   ELSE in_process_q[n][i-1]]
  BY DEF Pipeline
<1>3. g \in [0 .. ALL_PIPEL_SIZE-1 -> BOOLEAN]
  <2>1. (load(n) \/ recirculates(n, diverge)) \in BOOLEAN  OBVIOUS
  <2>2. \A i \in Stage : i # 0 => in_process_q[n][i-1] \in BOOLEAN
    BY PipelineSize DEF TypeOK
  <2> QED  BY <1>2, <2>1, <2>2 DEF Stage
<1>4. \A i \in 1 .. ALL_PIPEL_SIZE-1 : g[i] = f[i-1]
  BY <1>2 DEF Stage
<1>5. g[0] = (load(n) \/ recirculates(n, diverge))
  BY <1>2, PipelineSize
<1>6. f[ALL_PIPEL_SIZE-1] = in_process_q[n][Last]  BY DEF Last
<1>7. InProcess(n) = {i \in 0 .. ALL_PIPEL_SIZE-1 : f[i]}  BY DEF InProcess, Stage
<1>8. InProcess(n)' = {i \in 0 .. ALL_PIPEL_SIZE-1 : g[i]}  BY DEF InProcess, Stage
<1>9. ALL_PIPEL_SIZE \in Nat \ {0}  BY PipelineSize
<1>10. Bit(g[0]) + Bit(finished(n, diverge))
         = Bit(load(n)) + Bit(f[ALL_PIPEL_SIZE-1])
  <2> DEFINE p == in_process_q[n][Last]
             d == done(n, diverge)
             r == data_ready[n]
  <2>1. p \in BOOLEAN /\ r \in BOOLEAN /\ d \in BOOLEAN
    BY PipelineSize DEF TypeOK, done
  <2>2. /\ f[ALL_PIPEL_SIZE-1] = p /\ g[0] = ((~p /\ r) \/ (p /\ ~d))
        /\ finished(n, diverge) = (p /\ d) /\ load(n) = (~p /\ r)
    BY <1>5, <1>6 DEF load, finished, recirculates
  <2> HIDE DEF f, g, p, d, r
  <2> QED  BY <2>1, <2>2 DEF Bit
<1> HIDE DEF f, g
<1>11. /\ Cardinality(InProcess(n)) \in Nat
       /\ Cardinality(InProcess(n)') \in Nat
       /\ Cardinality(InProcess(n)') + Bit(f[ALL_PIPEL_SIZE-1])
            = Cardinality(InProcess(n)) + Bit(g[0])
       /\ IsFiniteSet(InProcess(n))
  <2> DEFINE before == {i \in 0 .. ALL_PIPEL_SIZE-1 : f[i]}
             after == {i \in 0 .. ALL_PIPEL_SIZE-1 : g[i]}
  <2>1. /\ IsFiniteSet(before)
        /\ Cardinality(before) \in Nat
        /\ Cardinality(after) \in Nat
        /\ Cardinality(after) + Bit(f[ALL_PIPEL_SIZE-1]) = Cardinality(before) + Bit(g[0])
    BY <1>1, <1>3, <1>4, <1>9, ShiftCount
  <2> QED  BY <1>7, <1>8, <2>1
<1>12. ASSUME NEW c \in Nat, NEW d \in Nat, NEW p \in Int, NEW q \in Int,
              NEW r \in Int, NEW s \in Int, d + p = c + q, q + r = s + p
       PROVE  d + r = c + s
  BY <1>12
<1>13. Cardinality(InProcess(n)') + Bit(finished(n, diverge))
         = Cardinality(InProcess(n)) + Bit(load(n))
  <2>1. \A b : Bit(b) \in Int  BY DEF Bit
  <2> QED  BY <1>10, <1>11, <1>12, <2>1
<1>14. finished(n, diverge) => Cardinality(InProcess(n)) >= 1
  <2> SUFFICES ASSUME finished(n, diverge) PROVE Cardinality(InProcess(n)) >= 1
    OBVIOUS
  <2>1. Last \in InProcess(n)  BY PipelineSize DEF finished, InProcess
  <2>2. Cardinality(InProcess(n)) # 0  BY <1>11, <2>1, FS_EmptySet
  <2> QED  BY <1>11, <2>2
<1> QED  BY <1>11, <1>13, <1>14

\* A result in the output register is still counted (counter_processes).
LEMMA CounterLive ==
  ASSUME IInv, NEW n \in Node, write_out[n]
  PROVE  counter_processes[n] >= 1
<1>1. counter_processes[n] = Cardinality(InProcess(n)) + 1
  BY DEF IInv, ProcessCount
<1>2. IsFiniteSet(Stage) /\ InProcess(n) \in SUBSET Stage
  BY PipelineSize, FS_Interval DEF Stage, InProcess
<1>3. Cardinality(InProcess(n)) \in Nat
  BY <1>2, FS_Subset, FS_CardinalityType
<1> QED BY <1>1, <1>3

\* The process counter after a clock edge, as plain arithmetic: the invariant
\* keeps it away from the wrap of its five bits (counter_processes).
LEMMA CounterStep ==
  ASSUME IInv, CounterProcesses, NEW n \in Node
  PROVE  /\ counter_processes[n] \in 0 .. ALL_PIPEL_SIZE - 2
         /\ counter_processes'[n] + Bit(write_out[n])
              = counter_processes[n] + Bit(load(n))
         /\ counter_processes'[n] \in Int
<1> DEFINE c == counter_processes[n]
           k == Cardinality(InProcess(n))
<1>1. write_out[n] \in BOOLEAN /\ data_ready[n] \in BOOLEAN /\ c \in ProcCount
  BY DEF IInv, TypeOK
<1>2. c = k + Bit(write_out[n])  BY DEF IInv, ProcessCount, Bit
<1>3. c + (IF Pending(n) THEN 1 ELSE 0) <= ALL_PIPEL_SIZE - 2
  BY DEF IInv, Capacity
<1>4. k \in Nat
  <2>1. IsFiniteSet(Stage)  BY PipelineSize, FS_Interval DEF Stage
  <2>2. InProcess(n) \in SUBSET Stage  BY DEF InProcess
  <2> QED  BY <2>1, <2>2, FS_Subset, FS_CardinalityType
<1>5. load(n) => Pending(n)  BY DEF load, Pending
<1>6. c \in 0 .. ALL_PIPEL_SIZE - 2
  BY <1>1, <1>3, PipelineSize DEF ProcCount
<1>7. load(n) => c \in 0 .. 30
  BY <1>1, <1>3, <1>5, PipelineSize DEF ProcCount
<1>8. write_out[n] => c \in 1 .. 31
  BY <1>1, <1>2, <1>4 DEF Bit, ProcCount
<1>9. counter_processes'[n] =
        IF load(n) /\ ~write_out[n] THEN Up(c)
        ELSE IF ~load(n) /\ write_out[n] THEN Down(c) ELSE c
  BY DEF CounterProcesses
<1> HIDE DEF c, k
<1>10. counter_processes'[n] =
         IF load(n) /\ ~write_out[n] THEN c + 1
         ELSE IF ~load(n) /\ write_out[n] THEN c - 1 ELSE c
  BY <1>7, <1>8, <1>9, Wrap
<1>11. counter_processes'[n] + Bit(write_out[n]) = c + Bit(load(n))
  BY <1>1, <1>6, <1>10, PipelineSize DEF Bit
<1>12. counter_processes'[n] \in Int
  BY <1>6, <1>10, PipelineSize
<1> QED  BY <1>6, <1>11, <1>12 DEF c

\* The reset state satisfies the invariant.
LEMMA ResetIInv ==
  ASSUME NodeInit, start = Low, TypeOK
  PROVE  IInv
<1>1. \A n \in Node : InProcess(n) = {}  BY DEF NodeInit, InProcess
<1>2. Cardinality({}) = 0  BY FS_EmptySet
<1>3. ProcessCount
  <2> SUFFICES ASSUME NEW n \in Node
               PROVE  counter_processes[n] =
                        Cardinality(InProcess(n)) + IF write_out[n] THEN 1 ELSE 0
    BY DEF ProcessCount
  <2>1. Cardinality(InProcess(n)) = 0  BY <1>1, <1>2
  <2>2. ~write_out[n] /\ counter_processes[n] = 0  BY DEF NodeInit, Low
  <2> QED  BY <2>1, <2>2
<1>4. Handshake  BY PipelineSize DEF Handshake, Ready, NodeInit, Low
<1>5. Capacity  BY PipelineSize DEF Capacity, Pending, NodeInit, Low
<1> QED  BY <1>3, <1>4, <1>5 DEF IInv

\* A clock edge preserves the invariant, whatever the orbits do and whenever
\* the host starts a node it saw not busy.
LEMMA TickIInv == IInv /\ Tick => IInv'
<1> SUFFICES ASSUME IInv, Tick PROVE IInv'
  OBVIOUS
<1>1. PICK diverge \in [Node -> BOOLEAN] :
        /\ InputAccept /\ StartSynchronizer /\ InputRegister /\ Pipeline(diverge)
        /\ OutputReg(diverge) /\ Busy /\ CounterProcesses
  BY DEF Tick, Clock
<1>2. TypeOK /\ TypeOK'  BY TickTypeOK DEF IInv
<1>3. ASSUME NEW n \in Node
      PROVE  /\ counter_processes[n] \in 0 .. ALL_PIPEL_SIZE - 2
             /\ counter_processes'[n] + Bit(write_out[n])
                  = counter_processes[n] + Bit(load(n))
             /\ counter_processes'[n] \in Int
  BY <1>1, CounterStep
<1>4. ProcessCount'
  <2> SUFFICES ASSUME NEW n \in Node
               PROVE  counter_processes'[n] =
                        Cardinality(InProcess(n)') + IF write_out'[n] THEN 1 ELSE 0
    BY DEF ProcessCount
  <2>1. /\ Cardinality(InProcess(n)) \in Nat
        /\ Cardinality(InProcess(n)') \in Nat
        /\ Cardinality(InProcess(n)') + Bit(finished(n, diverge))
             = Cardinality(InProcess(n)) + Bit(load(n))
    BY <1>1, <1>2, RingCount
  <2>2. write_out'[n] = finished(n, diverge)  BY <1>1 DEF OutputReg
  <2>3. counter_processes[n] = Cardinality(InProcess(n)) + Bit(write_out[n])
    BY DEF IInv, ProcessCount, Bit
  <2>4. ASSUME NEW c \in Int, NEW cc \in Int, NEW k \in Int, NEW kk \in Int,
               NEW w \in Int, NEW ww \in Int, NEW l \in Int,
               cc + w = c + l, kk + ww = k + l, c = k + w
        PROVE  cc = kk + ww
    BY <2>4
  <2>5. \A b : Bit(b) \in Int  BY DEF Bit
  <2>6. counter_processes'[n] = Cardinality(InProcess(n)') + Bit(finished(n, diverge))
    BY <1>3, <2>1, <2>3, <2>4, <2>5
  <2> QED  BY <2>2, <2>6 DEF Bit
<1>5. Handshake'
  <2> SUFFICES ASSUME NEW n \in Node
               PROVE  /\ ~busy'[n] => Ready(n)'
                      /\ start'[n] => Ready(n)'
                      /\ r0'[n] => ~r1'[n] /\ ~r2'[n] /\ ~data_ready'[n]
                      /\ r1'[n] => ~r2'[n] /\ ~data_ready'[n]
    BY DEF Handshake
  <2>1. /\ ~busy[n] => Ready(n)
        /\ start[n] => Ready(n)
        /\ r0[n] => ~r1[n] /\ ~r2[n] /\ ~data_ready[n]
        /\ r1[n] => ~r2[n] /\ ~data_ready[n]
    BY DEF IInv, Handshake
  <2>2. /\ r0'[n] = start[n] /\ r1'[n] = r0[n] /\ r2'[n] = r1[n]
        /\ data_ready'[n] = (~load(n) /\ (start_sys(n) \/ data_ready[n]))
    BY <1>1 DEF StartSynchronizer, InputAccept
  <2>3. start'[n] => ~busy[n] /\ ~start[n]  BY DEF Tick, Host
  <2>4. ~data_ready[n] => counter_processes'[n] <= counter_processes[n]
    BY <1>3, PipelineSize DEF load, Bit
  <2>5. start'[n] => Ready(n)'
    <3> SUFFICES ASSUME start'[n] PROVE Ready(n)'
      OBVIOUS
    <3>1. ~start[n] /\ Ready(n)  BY <2>1, <2>3
    <3>2. ~data_ready[n] /\ counter_processes[n] <= ALL_PIPEL_SIZE - 3  BY <3>1 DEF Ready
    <3>3. counter_processes'[n] <= ALL_PIPEL_SIZE - 3
      BY <1>3, <2>4, <3>2, PipelineSize
    <3> QED  BY <2>2, <3>1, <3>3 DEF Ready, start_sys
  <2>6. ~busy'[n] => /\ ~start[n] /\ ~data_ready[n] /\ ~start_sys(n)
                     /\ ~r0[n] /\ ~r1[n] /\ ~r2[n]
                     /\ ~(counter_processes[n] >= ALL_PIPEL_SIZE - 2)
    BY <1>1 DEF Busy
  <2>7. ~busy'[n] => Ready(n)'
    <3> SUFFICES ASSUME ~busy'[n] PROVE Ready(n)'
      OBVIOUS
    <3>1. counter_processes'[n] <= ALL_PIPEL_SIZE - 3
      BY <1>3, <2>4, <2>6, PipelineSize
    <3> QED  BY <2>2, <2>6, <3>1 DEF Ready
  <2> QED  BY <2>1, <2>2, <2>5, <2>7 DEF Ready, start_sys
<1>6. Capacity'
  <2> SUFFICES ASSUME NEW n \in Node
               PROVE  counter_processes'[n] + (IF Pending(n)' THEN 1 ELSE 0)
                        <= ALL_PIPEL_SIZE - 2
    BY DEF Capacity
  <2>1. counter_processes[n] + (IF Pending(n) THEN 1 ELSE 0) <= ALL_PIPEL_SIZE - 2
    BY DEF IInv, Capacity
  <2>2. /\ r0'[n] = start[n] /\ r1'[n] = r0[n]
        /\ data_ready'[n] = (~load(n) /\ (start_sys(n) \/ data_ready[n]))
    BY <1>1 DEF StartSynchronizer, InputAccept
  <2>3. start'[n] => Ready(n)'  BY <1>5 DEF Handshake
  <2>4. CASE start'[n]
    BY <1>3, <2>3, <2>4, PipelineSize DEF Ready
  <2>5. CASE load(n) /\ ~start'[n]
    <3>1. data_ready[n] /\ ~data_ready'[n]  BY <2>2, <2>5 DEF load
    <3>2. ~start[n] /\ ~r0[n] /\ ~r1[n]
      BY <3>1 DEF IInv, Handshake, Ready
    <3>3. ~Pending(n)' /\ Pending(n)  BY <2>2, <2>5, <3>1, <3>2 DEF Pending
    <3> QED  BY <1>3, <2>1, <2>5, <3>3, PipelineSize DEF Bit
  <2>6. CASE ~load(n) /\ ~start'[n]
    <3>1. Pending(n)' => Pending(n)  BY <2>2, <2>6 DEF Pending, start_sys
    <3> QED  BY <1>3, <2>1, <2>6, <3>1, PipelineSize DEF Bit
  <2> QED  BY <2>4, <2>5, <2>6
<1> QED  BY <1>2, <1>4, <1>5, <1>6 DEF IInv

\* A clock edge moves pixels on and neither makes nor loses one: what the node
\* holds grows by the pixel the host starts and shrinks by the one written out.
LEMMA NodeAccount ==
  ASSUME IInv, Tick, NEW n \in Node
  PROVE  /\ counter_processes[n] \in Nat /\ counter_processes'[n] \in Nat
         /\ counter_processes'[n] + Bit(Pending(n)') + Bit(write_out[n])
              = counter_processes[n] + Bit(Pending(n)) + Bit(start'[n])
         /\ write_out[n] => counter_processes[n] >= 1
         /\ start'[n] => ~Pending(n) /\ counter_processes[n] <= ALL_PIPEL_SIZE - 3
<1>1. PICK diverge \in [Node -> BOOLEAN] :
        /\ InputAccept /\ StartSynchronizer /\ InputRegister /\ Pipeline(diverge)
        /\ OutputReg(diverge) /\ Busy /\ CounterProcesses
  BY DEF Tick, Clock
<1>2. /\ counter_processes[n] \in 0 .. ALL_PIPEL_SIZE - 2
      /\ counter_processes'[n] + Bit(write_out[n]) = counter_processes[n] + Bit(load(n))
      /\ counter_processes'[n] \in Int
  BY <1>1, CounterStep
<1>3. counter_processes[n] \in Nat /\ counter_processes'[n] \in Nat
  <2>1. TypeOK /\ TypeOK'
    BY TickTypeOK DEF IInv
  <2>2. counter_processes[n] \in ProcCount /\ counter_processes'[n] \in ProcCount
    BY <2>1 DEF TypeOK
  <2> QED BY <2>2 DEF ProcCount
<1>4. /\ ~busy[n] => Ready(n)
      /\ start[n] => Ready(n)
      /\ r0[n] => ~r1[n] /\ ~r2[n] /\ ~data_ready[n]
      /\ r1[n] => ~r2[n] /\ ~data_ready[n]
  BY DEF IInv, Handshake
<1>5. /\ r0'[n] = start[n] /\ r1'[n] = r0[n]
      /\ data_ready'[n] = (~load(n) /\ (start_sys(n) \/ data_ready[n]))
  BY <1>1 DEF StartSynchronizer, InputAccept
<1>6. start'[n] => ~busy[n] /\ ~start[n]
  BY DEF Tick, Host
<1>7. start'[n] => ~Pending(n) /\ counter_processes[n] <= ALL_PIPEL_SIZE - 3
  BY <1>4, <1>6 DEF Ready, Pending
<1>8. Bit(load(n)) + Bit(Pending(n)') = Bit(Pending(n)) + Bit(start'[n])
  <2>1. CASE load(n)
    BY <1>4, <1>5, <1>7, <2>1 DEF load, Pending, Ready, Bit
  <2>2. CASE ~load(n)
    <3>1. Pending(n)' <=> Pending(n) \/ start'[n]
      BY <1>4, <1>5, <2>2 DEF Pending, start_sys
    <3> QED BY <1>7, <2>2, <3>1 DEF Bit
  <2> QED BY <2>1, <2>2
<1>9. write_out[n] => counter_processes[n] >= 1
  BY <1>2, <1>3, CounterLive
<1>10. counter_processes'[n] + Bit(Pending(n)') + Bit(write_out[n])
         = counter_processes[n] + Bit(Pending(n)) + Bit(start'[n])
  <2>1. /\ Bit(load(n)) \in Int /\ Bit(write_out[n]) \in Int /\ Bit(Pending(n)) \in Int
        /\ Bit(Pending(n)') \in Int /\ Bit(start'[n]) \in Int
    BY DEF Bit
  <2> QED BY <1>2, <1>3, <1>8, <2>1
<1> QED BY <1>3, <1>7, <1>9, <1>10

\* How often pixel p is in node n: in its input registers, its ring and its
\* output register.
Carried(n, p) ==
    Bit((r0[n] \/ r1[n] \/ data_ready[n]) /\ point_start[n] = p)
  + Cardinality({i \in InProcess(n) : coord_q[n][i] = p})
  + Bit(write_out[n] /\ data_out[n].point = p)

\* The slots that hold p after a clock edge: one more when p is loaded, one less
\* when a slot that holds it is finished (in_process_q and the coordinates).
LEMMA RingPixel ==
  ASSUME TypeOK, NEW diverge \in [Node -> BOOLEAN], Pipeline(diverge), NEW n \in Node, NEW p
  PROVE  LET before == {i \in InProcess(n) : coord_q[n][i] = p}
             after  == {i \in InProcess(n)' : coord_q'[n][i] = p}
         IN  /\ Cardinality(before) \in Nat /\ Cardinality(after) \in Nat
             /\ Cardinality(after) + Bit(finished(n, diverge) /\ coord_q[n][Last] = p)
                  = Cardinality(before) + Bit(load(n) /\ point_start[n] = p)
<1> DEFINE f == [i \in 0 .. ALL_PIPEL_SIZE-1 |-> in_process_q[n][i] /\ coord_q[n][i] = p]
           g == [i \in 0 .. ALL_PIPEL_SIZE-1 |-> in_process_q'[n][i] /\ coord_q'[n][i] = p]
<1>0. /\ in_process_q'[n] = [i \in Stage |-> IF i = 0 THEN load(n) \/ recirculates(n, diverge)
                                             ELSE in_process_q[n][i-1]]
      /\ coord_q'[n] = [i \in Stage |->
           IF i = 0 THEN IF load(n) THEN point_start[n]
                         ELSE IF recirculates(n, diverge) THEN coord_q[n][Last] ELSE Origin
           ELSE coord_q[n][i-1]]
  BY DEF Pipeline
<1>1. ALL_PIPEL_SIZE \in Nat \ {0} /\ 0 \in Stage /\ Last \in Stage
  BY PipelineSize
<1>2. /\ f \in [0 .. ALL_PIPEL_SIZE-1 -> BOOLEAN]
      /\ g \in [0 .. ALL_PIPEL_SIZE-1 -> BOOLEAN]
  OBVIOUS
<1>3. ASSUME NEW i \in 1 .. ALL_PIPEL_SIZE-1 PROVE g[i] = f[i-1]
  <2>1. i \in Stage /\ i \in 0 .. ALL_PIPEL_SIZE-1 /\ i-1 \in 0 .. ALL_PIPEL_SIZE-1 /\ i # 0
    BY <1>1 DEF Stage
  <2>2. in_process_q'[n][i] = in_process_q[n][i-1] /\ coord_q'[n][i] = coord_q[n][i-1]
    BY <1>0, <2>1
  <2> QED BY <2>1, <2>2
<1>4. g[0] = ((load(n) \/ recirculates(n, diverge))
                /\ (IF load(n) THEN point_start[n]
                    ELSE IF recirculates(n, diverge) THEN coord_q[n][Last] ELSE Origin) = p)
  BY <1>0, <1>1 DEF Stage
<1>5. f[ALL_PIPEL_SIZE-1] = (in_process_q[n][Last] /\ coord_q[n][Last] = p)
  BY <1>1 DEF Last, Stage
<1>6. Bit(g[0]) + Bit(finished(n, diverge) /\ coord_q[n][Last] = p)
        = Bit(load(n) /\ point_start[n] = p) + Bit(f[ALL_PIPEL_SIZE-1])
  <2>1. CASE load(n)
    <3>1. ~in_process_q[n][Last]
      BY <2>1 DEF load
    <3>2. ~finished(n, diverge) /\ ~f[ALL_PIPEL_SIZE-1]
      BY <1>5, <3>1 DEF finished
    <3>3. g[0] <=> point_start[n] = p
      BY <1>4, <2>1
    <3> HIDE DEF f, g
    <3> QED BY <2>1, <3>2, <3>3 DEF Bit
  <2>2. CASE ~load(n)
    <3>1. in_process_q[n][Last] <=> finished(n, diverge) \/ recirculates(n, diverge)
      BY DEF finished, recirculates
    <3>2. ~(finished(n, diverge) /\ recirculates(n, diverge))
      BY DEF finished, recirculates
    <3>3. g[0] <=> recirculates(n, diverge) /\ coord_q[n][Last] = p
      BY <1>4, <2>2
    <3> DEFINE out == finished(n, diverge) /\ coord_q[n][Last] = p
               on  == recirculates(n, diverge) /\ coord_q[n][Last] = p
               new == load(n) /\ point_start[n] = p
               old == f[ALL_PIPEL_SIZE-1]
               nxt == g[0]
    <3>4. (old <=> out \/ on) /\ ~(out /\ on) /\ (nxt <=> on) /\ ~new
      <4> HIDE DEF f, g
      <4> QED BY <1>5, <2>2, <3>1, <3>2, <3>3
    <3> HIDE DEF out, on, new, old, nxt
    <3>5. Bit(nxt) + Bit(out) = Bit(new) + Bit(old)
      BY <3>4 DEF Bit
    <3> QED BY <3>5 DEF out, new, old, nxt
  <2> QED BY <2>1, <2>2
<1>7. /\ {i \in InProcess(n) : coord_q[n][i] = p} = {i \in 0 .. ALL_PIPEL_SIZE-1 : f[i]}
      /\ {i \in InProcess(n)' : coord_q'[n][i] = p} = {i \in 0 .. ALL_PIPEL_SIZE-1 : g[i]}
  BY DEF InProcess, Stage
<1> DEFINE before == {i \in InProcess(n) : coord_q[n][i] = p}
           after  == {i \in InProcess(n)' : coord_q'[n][i] = p}
<1>8. /\ Cardinality(before) \in Nat
      /\ Cardinality(after) \in Nat
      /\ Cardinality(after) + Bit(f[ALL_PIPEL_SIZE-1]) = Cardinality(before) + Bit(g[0])
  <2> DEFINE b == {i \in 0 .. ALL_PIPEL_SIZE-1 : f[i]}
             a == {i \in 0 .. ALL_PIPEL_SIZE-1 : g[i]}
  <2>1. before = b /\ after = a
    BY <1>7
  <2> HIDE DEF f, g, before, after
  <2>2. /\ Cardinality(b) \in Nat
        /\ Cardinality(a) \in Nat
        /\ Cardinality(a) + Bit(f[ALL_PIPEL_SIZE-1]) = Cardinality(b) + Bit(g[0])
    BY <1>1, <1>2, <1>3, ShiftCount
  <2> QED BY <2>1, <2>2
<1> HIDE DEF f, g
<1>9. ASSUME NEW c \in Nat, NEW d \in Nat, NEW q \in Int, NEW r \in Int,
             NEW s \in Int, NEW t \in Int, d + q = c + r, r + s = t + q
      PROVE  d + s = c + t
  BY <1>9
<1>10. \A b : Bit(b) \in Int
  BY DEF Bit
<1>11. Cardinality(after) + Bit(finished(n, diverge) /\ coord_q[n][Last] = p)
        = Cardinality(before) + Bit(load(n) /\ point_start[n] = p)
  <2> HIDE DEF before, after
  <2> QED BY <1>6, <1>8, <1>9, <1>10
<1> QED BY <1>8, <1>11

\* A clock edge gives node n the pixel it is started with and takes the pixel in
\* its output register; no other pixel comes, goes or changes
\* (divergence_node.v, from the input registers to data_out).
LEMMA PixelAccount ==
  ASSUME IInv, Tick, NEW n \in Node, NEW p
  PROVE  /\ Carried(n, p) \in Nat /\ Carried(n, p)' \in Nat
         /\ Carried(n, p)' + Bit(write_out[n] /\ data_out[n].point = p)
              = Carried(n, p) + Bit(start[n] /\ data_in = p)
<1>1. PICK diverge \in [Node -> BOOLEAN] :
        /\ InputAccept /\ StartSynchronizer /\ InputRegister /\ Pipeline(diverge)
        /\ OutputReg(diverge)
  BY DEF Tick, Clock
<1>2. /\ start[n] => Ready(n)
      /\ r0[n] => ~r1[n] /\ ~r2[n] /\ ~data_ready[n]
      /\ r1[n] => ~r2[n] /\ ~data_ready[n]
      /\ TypeOK
  BY DEF IInv, Handshake
<1>3. /\ r0'[n] = start[n] /\ r1'[n] = r0[n]
      /\ data_ready'[n] = (~load(n) /\ (start_sys(n) \/ data_ready[n]))
      /\ point_start'[n] = IF start[n] THEN data_in ELSE point_start[n]
  BY <1>1 DEF StartSynchronizer, InputAccept, InputRegister
<1> DEFINE waiting == (r0[n] \/ r1[n] \/ data_ready[n])
           w  == Bit(waiting /\ point_start[n] = p)
           ww == Bit((r0'[n] \/ r1'[n] \/ data_ready'[n]) /\ point_start'[n] = p)
           c  == Cardinality({i \in InProcess(n) : coord_q[n][i] = p})
           cc == Cardinality({i \in InProcess(n)' : coord_q'[n][i] = p})
           o  == Bit(write_out[n] /\ data_out[n].point = p)
           oo == Bit(write_out'[n] /\ data_out'[n].point = p)
           l  == Bit(load(n) /\ point_start[n] = p)
           s  == Bit(start[n] /\ data_in = p)
           e  == Bit(finished(n, diverge) /\ coord_q[n][Last] = p)
<1>4. c \in Nat /\ cc \in Nat /\ cc + e = c + l
  BY <1>1, <1>2, RingPixel
<1>5. ww + l = w + s
  <2>1. CASE start[n]
    <3>1. ~r0[n] /\ ~r1[n] /\ ~data_ready[n] /\ ~load(n)
      BY <1>2, <2>1 DEF Ready, load
    <3> QED BY <1>3, <2>1, <3>1 DEF Bit
  <2>2. CASE ~start[n] /\ load(n)
    <3>1. data_ready[n] /\ ~r0[n] /\ ~r1[n]
      BY <1>2, <2>2 DEF load
    <3>2. ~(r0'[n] \/ r1'[n] \/ data_ready'[n]) /\ waiting
      BY <1>3, <2>2, <3>1
    <3> QED BY <2>2, <3>2 DEF Bit
  <2>3. CASE ~start[n] /\ ~load(n)
    <3>1. r1[n] => start_sys(n)
      BY <1>2 DEF start_sys
    <3>2. start_sys(n) => r1[n]
      BY DEF start_sys
    <3>3. (r0'[n] \/ r1'[n] \/ data_ready'[n]) <=> waiting
      BY <1>3, <2>3, <3>1, <3>2
    <3>4. point_start'[n] = point_start[n]
      BY <1>3, <2>3
    <3> QED BY <2>3, <3>3, <3>4 DEF Bit
  <2> QED BY <2>1, <2>2, <2>3
<1>6. oo = e
  <2>1. /\ write_out'[n] = finished(n, diverge)
        /\ data_out'[n] = IF finished(n, diverge)
             THEN [point   |-> coord_q[n][Last],
                   iter    |-> count_iterations_q[n][Last],
                   diverge |-> diverge[n]]
             ELSE NoResult
    BY <1>1 DEF OutputReg
  <2> QED BY <2>1 DEF Bit
<1>7. Carried(n, p) = w + c + o /\ Carried(n, p)' = ww + cc + oo
  BY DEF Carried
<1>8. /\ w \in {0, 1} /\ ww \in {0, 1} /\ o \in {0, 1} /\ oo \in {0, 1}
      /\ l \in {0, 1} /\ s \in {0, 1} /\ e \in {0, 1}
  BY DEF Bit
<1> HIDE DEF w, ww, c, cc, o, oo, l, s, e
<1>9. w + c + o \in Nat /\ ww + cc + oo \in Nat
  BY <1>4, <1>8
<1>10. ww + cc + oo + o = w + c + o + s
  BY <1>4, <1>5, <1>6, <1>8
<1> QED BY <1>7, <1>9, <1>10 DEF o, s

\* A node holds a pixel some number of times.
LEMMA PixelNat == ASSUME TypeOK, NEW n \in Node, NEW p PROVE Carried(n, p) \in Nat
<1> DEFINE here == {i \in InProcess(n) : coord_q[n][i] = p}
<1>1. IsFiniteSet(Stage) /\ here \in SUBSET Stage
  <2>1. IsFiniteSet(Stage)
    BY PipelineSize, FS_Interval DEF Stage
  <2> QED BY <2>1 DEF InProcess
<1>2. Cardinality(here) \in Nat
  BY <1>1, FS_Subset, FS_CardinalityType
<1>3. \A b : Bit(b) \in Nat
  BY DEF Bit
<1> HIDE DEF here
<1> QED BY <1>2, <1>3 DEF Carried, here

\* A node that has just been powered up or reset holds none.
LEMMA InitPixel == ASSUME NodeInit, NEW n \in Node, NEW p PROVE Carried(n, p) = 0
<1>0. /\ ~r0[n] /\ ~r1[n] /\ ~data_ready[n] /\ ~write_out[n]
      /\ \A i \in Stage : ~in_process_q[n][i]
  BY DEF NodeInit, Low
<1>1. {i \in InProcess(n) : coord_q[n][i] = p} = {}
  BY <1>0 DEF InProcess
<1>2. /\ Bit((r0[n] \/ r1[n] \/ data_ready[n]) /\ point_start[n] = p) = 0
      /\ Bit(write_out[n] /\ data_out[n].point = p) = 0
  BY <1>0 DEF Bit
<1> QED BY <1>1, <1>2, FS_EmptySet DEF Carried

\* A node carries no pixel after a reset.
LEMMA ResetPixel == ASSUME NodeReset, NEW n \in Node, NEW p PROVE Carried(n, p)' = 0
<1>0. /\ ~r0'[n] /\ ~r1'[n] /\ ~data_ready'[n] /\ ~write_out'[n]
      /\ \A i \in Stage : ~in_process_q'[n][i]
  BY DEF NodeReset, Low
<1>1. {i \in InProcess(n)' : coord_q'[n][i] = p} = {}
  BY <1>0 DEF InProcess
<1>2. /\ Bit((r0'[n] \/ r1'[n] \/ data_ready'[n]) /\ point_start'[n] = p) = 0
      /\ Bit(write_out'[n] /\ data_out'[n].point = p) = 0
  BY <1>0 DEF Bit
<1> QED BY <1>1, <1>2, FS_EmptySet DEF Carried

\* The node starts in its invariant.
LEMMA InitIInv == Init => IInv
BY InitTypeOK, ResetIInv DEF Init

\* Clock edges and resets keep it.
LEMMA NextIInv == IInv /\ [Next]_vars => IInv'
<1> SUFFICES ASSUME IInv, [Next]_vars PROVE IInv'
  OBVIOUS
<1>1. CASE Tick  BY <1>1, TickIInv
<1>2. CASE ResetDown
  <2>1. TypeOK'  BY <1>2, ResetTypeOK DEF IInv
  <2>2. NodeInit' /\ (start = Low)'  BY <1>2 DEF ResetDown, NodeReset, NodeInit, Low
  <2>3. ProcessCount'
    <3> SUFFICES ASSUME NEW n \in Node
                 PROVE  counter_processes'[n] =
                          Cardinality(InProcess(n)') + IF write_out'[n] THEN 1 ELSE 0
      BY DEF ProcessCount
    <3>1. InProcess(n)' = {}  BY <2>2 DEF NodeInit, InProcess
    <3>2. Cardinality({}) = 0  BY FS_EmptySet
    <3>3. ~write_out'[n] /\ counter_processes'[n] = 0  BY <2>2 DEF NodeInit, Low
    <3> QED  BY <3>1, <3>2, <3>3
  <2>6. Handshake'  BY <2>2, PipelineSize DEF Handshake, Ready, NodeInit, Low
  <2>7. Capacity'  BY <2>2, PipelineSize DEF Capacity, Pending, NodeInit, Low
  <2> QED  BY <2>1, <2>3, <2>6, <2>7 DEF IInv
<1>3. CASE UNCHANGED vars
  BY <1>3 DEF vars, nodeVars, IInv, TypeOK, ProcessCount, Handshake, Capacity,
              Ready, Pending, InProcess
<1>4. CASE ResetUp
  BY <1>4 DEF ResetUp, nodeVars, IInv, TypeOK, ProcessCount, Handshake, Capacity,
              Ready, Pending, InProcess
<1> QED  BY <1>1, <1>2, <1>3, <1>4 DEF Next

\* The inductive invariant holds of every behaviour of the node.
THEOREM InductiveInvariant == Spec => []IInv
BY InitIInv, NextIInv, PTL DEF Spec

\* The counter that throttles the host is exact (counter_processes).
THEOREM ProcessCountCorrect == Spec => []ProcessCount
<1>1. IInv => ProcessCount  BY DEF IInv
<1> QED  BY <1>1, InductiveInvariant, PTL

\* No node is ever handed more pixels than its ring takes (busy).
THEOREM CapacityCorrect == Spec => []Capacity
<1>1. IInv => Capacity  BY DEF IInv
<1> QED  BY <1>1, InductiveInvariant, PTL

\* A start never meets an occupied input register (start, busy, r0 .. r2).
THEOREM HandshakeCorrect == Spec => []Handshake
<1>1. IInv => Handshake  BY DEF IInv
<1> QED  BY <1>1, InductiveInvariant, PTL
-----------------------------------------------------------------------------
\* The strengthening of IterationBound is TypeOK alone: a slot goes round again
\* only below the limit, so the increment never meets the wrap of 11 bits.
IterInv == TypeOK /\ IterationBound

\* One clock edge keeps the bound (done, count_iterations_q, iter_out).
LEMMA TickIterInv == IterInv /\ Tick => IterInv'
<1> SUFFICES ASSUME IterInv, Tick PROVE IterInv'
  OBVIOUS
<1>1. PICK diverge \in [Node -> BOOLEAN] : Pipeline(diverge) /\ OutputReg(diverge)
  BY DEF Tick, Clock
<1>2. TypeOK /\ TypeOK'  BY TickTypeOK DEF IterInv
<1>3. MAX_ITERATIONS \in IterCount  BY IterationAssumption
<1>4. ASSUME NEW n \in Node
      PROVE  in_process_q[n][Last] => count_iterations_q[n][Last] <= MAX_ITERATIONS
  BY PipelineSize DEF IterInv, IterationBound, InProcess
<1>5. ASSUME NEW n \in Node, NEW i \in Stage, in_process_q'[n][i]
      PROVE  count_iterations_q'[n][i] <= MAX_ITERATIONS
  <2>1. CASE i = 0
    <3>1. count_iterations_q'[n][0] = IF recirculates(n, diverge)
                                        THEN NextIter(count_iterations_q[n][Last]) ELSE 0
      BY <1>1, PipelineSize DEF Pipeline
    <3>2. recirculates(n, diverge) => ~(count_iterations_q[n][Last] >= MAX_ITERATIONS)
      BY DEF recirculates, done
    <3>3. count_iterations_q[n][Last] \in IterCount
      BY <1>2, PipelineSize DEF TypeOK
    <3>4. ASSUME NEW k \in IterCount, NEW m \in IterCount, ~(k >= m)
          PROVE  NextIter(k) <= m
      <4>1. k \in 0 .. 2047 /\ m \in 0 .. 2047  BY <3>4 DEF IterCount
      <4>2. k + 1 \in 0 .. 2047 /\ k + 1 <= m  BY <3>4, <4>1
      <4>3. (k + 1) % 2048 = k + 1  BY <4>2
      <4> QED  BY <4>2, <4>3 DEF NextIter
    <3>5. 0 <= MAX_ITERATIONS  BY <1>3 DEF IterCount
    <3> QED  BY <1>3, <2>1, <3>1, <3>2, <3>3, <3>4, <3>5
  <2>2. CASE i # 0
    <3>1. i - 1 \in Stage  BY <2>2, PipelineSize
    <3>2. /\ in_process_q'[n][i] = in_process_q[n][i-1]
          /\ count_iterations_q'[n][i] = count_iterations_q[n][i-1]
      BY <1>1, <2>2 DEF Pipeline
    <3>3. i - 1 \in InProcess(n)  BY <1>5, <3>1, <3>2 DEF InProcess
    <3> QED  BY <3>2, <3>3 DEF IterInv, IterationBound
  <2> QED  BY <2>1, <2>2
<1>6. ASSUME NEW n \in Node, write_out'[n], ~data_out'[n].diverge
      PROVE  data_out'[n].iter = MAX_ITERATIONS
  <2>1. finished(n, diverge)  BY <1>1, <1>6 DEF OutputReg
  <2>2. data_out'[n] = [point   |-> coord_q[n][Last],
                        iter    |-> count_iterations_q[n][Last],
                        diverge |-> diverge[n]]
    BY <1>1, <2>1 DEF OutputReg
  <2>3. ~diverge[n] /\ data_out'[n].iter = count_iterations_q[n][Last]
    BY <1>6, <2>2
  <2>4. in_process_q[n][Last] /\ count_iterations_q[n][Last] >= MAX_ITERATIONS
    BY <2>1, <2>3 DEF finished, done
  <2>5. count_iterations_q[n][Last] <= MAX_ITERATIONS  BY <1>4, <2>4
  <2>6. count_iterations_q[n][Last] \in IterCount
    BY <1>2, PipelineSize DEF TypeOK
  <2>7. ASSUME NEW k \in IterCount, NEW m \in IterCount, k >= m, k <= m
        PROVE  k = m
    BY <2>7 DEF IterCount
  <2> QED  BY <1>3, <2>3, <2>4, <2>5, <2>6, <2>7
<1>7. IterationBound'
  BY <1>5, <1>6 DEF IterationBound, InProcess
<1> QED  BY <1>2, <1>7 DEF IterInv

\* The iteration count never passes its limit, whatever the orbits do.
THEOREM IterationBoundCorrect == Spec => []IterationBound
<1>1. Init => IterInv
  BY InitTypeOK DEF Init, NodeInit, IterInv, IterationBound, InProcess, Low
<1>2. IterInv /\ [Next]_vars => IterInv'
  <2>1. IterInv /\ UNCHANGED vars => IterInv'
    BY DEF IterInv, TypeOK, IterationBound, InProcess, vars, nodeVars
  <2>2. IterInv /\ ResetDown => IterInv'
    BY ResetTypeOK DEF IterInv, ResetDown, NodeReset, IterationBound, InProcess, Low
  <2>3. IterInv /\ ResetUp => IterInv'
    BY DEF IterInv, TypeOK, IterationBound, InProcess, ResetUp, nodeVars
  <2> QED  BY <2>1, <2>2, <2>3, TickIterInv DEF Next
<1>3. IterInv => IterationBound  BY DEF IterInv
<1> QED  BY <1>1, <1>2, <1>3, PTL DEF Spec
=============================================================================
