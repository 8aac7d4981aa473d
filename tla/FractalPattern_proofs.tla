---------------------------- MODULE FractalPattern_proofs ----------------------------
(***************************************************************************)
(* Proofs about FractalPattern, for every memory, picture and FIFO: a      *)
(* result is only ever drawn at its own place, and results are lost only   *)
(* when the loop is stopped between asking for a word and storing it.      *)
(*                                                                         *)
(* The first rests on what an open write carries (PinsMatch): we_n, addr_reg *)
(* and data_reg are set by different branches, and the SRAM samples them   *)
(* one clock later.  The second rests on where the loop is while it reads  *)
(* (ReadsInWrite1): until it is cut short, data_out_read is high exactly   *)
(* in WRITE_1, the state that stores the word before the FIFO replaces it. *)
(***************************************************************************)
EXTENDS FractalPattern, SequenceTheorems, TLAPS

Cell == Word \union {White, Unknown}

TypeOK ==
  /\ clean_screen \in BOOLEAN /\ start \in BOOLEAN /\ sync \in BOOLEAN
  /\ fifo_out \in Seq(Point) /\ Len(fifo_out) <= FIFO_OUT_WORDS /\ fifo_out_q \in Word
  /\ state \in {"INIT", "START", "READ", "WRITE_1"}
  /\ start_fract \in BOOLEAN /\ data_out_read \in BOOLEAN /\ we_n \in BOOLEAN
  /\ addr_reg \in Address /\ data_reg \in Cell
  /\ washer \in 0 .. 2 * ADDRESSES - 1
  /\ screen \in [Address -> Cell]
  /\ stored \in BOOLEAN /\ cut \in BOOLEAN /\ lost \subseteq Word

\* What may be seen at an address.
Proper(a) == {Unknown, White} \union {w \in Word : AddressOf(w) = a}

\* As long as the write enable is low, the word on the pins belongs to the
\* address on the pins.
PinsMatch == ~we_n => data_reg \in Proper(addr_reg)

\* A loop that was never cut short reads in WRITE_1 and nowhere else.
ReadsInWrite1 == ~cut => (data_out_read <=> state = "WRITE_1")

\* The inductive invariant.
Inv == TypeOK /\ PinsMatch /\ ScreenTrue /\ ReadsInWrite1 /\ LossOnlyByCut

----------------------------------------------------------------------------
\* The numbers.
LEMMA Consts ==
  /\ FIFO_OUT_WORDS \in Nat /\ ADDRESSES \in Nat /\ ADDRESSES > 0
  /\ 0 \in Address /\ Address \subseteq Nat
  /\ Point \subseteq Address /\ Origin \in Point /\ Point \subseteq Word
  /\ \A n \in Nat : /\ n % ADDRESSES \in Address
                   /\ n % (2 * ADDRESSES) \in 0 .. 2 * ADDRESSES - 1
BY PatternAssumption DEF Address, Word

\* A word has a place on the screen.
LEMMA PlaceOfWord == ASSUME NEW w \in Word PROVE AddressOf(w) \in Address
BY Consts DEF Word, AddressOf

\* A clock edge of the FIFO keeps its words and its depth.
LEMMA FifoEdge ==
  ASSUME NEW S, NEW f \in Seq(S), NEW n \in Nat, Len(f) <= n,
         NEW wr \in BOOLEAN, NEW d \in S, NEW rd \in BOOLEAN, NEW q
  PROVE  /\ NextWords(f, n, wr, d, rd) \in Seq(S) /\ Len(NextWords(f, n, wr, d, rd)) <= n
         /\ NextQ(f, q, rd) \in S \union {q}
<1> DEFINE rest == IF rd /\ f # << >> THEN Tail(f) ELSE f
<1>1. rest \in Seq(S) /\ Len(rest) <= Len(f)
  BY HeadTailProperties
<1>2. Append(rest, d) \in Seq(S) /\ Len(Append(rest, d)) = Len(rest) + 1
  BY <1>1, AppendProperties
<1>3. f # << >> => Head(f) \in S
  BY HeadTailProperties
<1>4. NextWords(f, n, wr, d, rd) = IF wr /\ Len(f) < n THEN Append(rest, d) ELSE rest
  BY DEF NextWords
<1>5. Len(f) \in Nat /\ Len(rest) \in Nat
  BY <1>1, LenProperties
<1> QED BY <1>1, <1>2, <1>3, <1>4, <1>5 DEF NextQ

----------------------------------------------------------------------------
(* The invariant.                                                          *)

\* A behaviour begins with an open write of an unknown word, to an unknown
\* screen.
LEMMA InitInv == Init => Inv
<1> SUFFICES ASSUME Init PROVE Inv
  OBVIOUS
<1>1. fifo_out \in Seq(Point) /\ Len(fifo_out) <= FIFO_OUT_WORDS
  BY Consts DEF Init
<1>2. addr_reg \in Address /\ washer \in 0 .. 2 * ADDRESSES - 1
  BY Consts DEF Init
<1>3. screen \in [Address -> Cell] /\ data_reg \in Cell /\ fifo_out_q \in Word
  BY DEF Init, Cell, Word
<1>4. TypeOK
  BY <1>1, <1>2, <1>3 DEF Init, TypeOK
<1>5. ScreenTrue
  BY DEF Init, ScreenTrue
<1> QED BY <1>4, <1>5 DEF Init, Inv, PinsMatch, Proper, ReadsInWrite1, LossOnlyByCut

\* What each branch of the loop does to its registers (fractal_Pattern.v, lines
\* 116, 133, 209): every address and word is in range, an open write is one
\* word with its place, and a read that is asked for is stored in WRITE_1.
LEMMA LoopStep ==
  ASSUME Inv, Loop
  PROVE  /\ state' \in {"INIT", "START", "READ", "WRITE_1"}
         /\ start_fract' \in BOOLEAN /\ data_out_read' \in BOOLEAN /\ we_n' \in BOOLEAN
         /\ addr_reg' \in Address /\ data_reg' \in Cell
         /\ washer' \in 0 .. 2 * ADDRESSES - 1
         /\ ~we_n' => data_reg' \in Proper(addr_reg')
         /\ ~(state = "WRITE_1" /\ ~storing) /\ (data_out_read <=> state = "WRITE_1")
              => (data_out_read' <=> state' = "WRITE_1")
<1> DEFINE Goal ==
       /\ state' \in {"INIT", "START", "READ", "WRITE_1"}
       /\ start_fract' \in BOOLEAN /\ data_out_read' \in BOOLEAN /\ we_n' \in BOOLEAN
       /\ addr_reg' \in Address /\ data_reg' \in Cell
       /\ washer' \in 0 .. 2 * ADDRESSES - 1
       /\ ~we_n' => data_reg' \in Proper(addr_reg')
       /\ ~(state = "WRITE_1" /\ ~storing) /\ (data_out_read <=> state = "WRITE_1")
            => (data_out_read' <=> state' = "WRITE_1")
<1>0. /\ state \in {"INIT", "START", "READ", "WRITE_1"}
      /\ start_fract \in BOOLEAN /\ data_out_read \in BOOLEAN /\ we_n \in BOOLEAN
      /\ addr_reg \in Address /\ data_reg \in Cell
      /\ washer \in 0 .. 2 * ADDRESSES - 1 /\ fifo_out_q \in Word
      /\ ~we_n => data_reg \in Proper(addr_reg)
  BY DEF Inv, TypeOK, PinsMatch
<1>1. CASE Clean
  <2>1. washer \in Nat /\ washer + 1 \in Nat
    BY <1>0, Consts
  <2>2. addr_reg' \in Address /\ washer' \in 0 .. 2 * ADDRESSES - 1
    BY <1>1, <2>1, Consts DEF Clean
  <2>3. White \in Cell /\ \A a : White \in Proper(a)
    BY DEF Cell, Proper
  <2> QED BY <1>0, <1>1, <2>2, <2>3 DEF Clean, storing
<1>2. CASE Draw
  <2>1. washer' = washer /\ clean_screen /\ sync
    BY <1>2 DEF Draw
  <2>2. CASE StInit
    BY <1>0, <2>1, <2>2 DEF StInit, storing
  <2>3. CASE StStart
    BY <1>0, <2>1, <2>3 DEF StStart, storing
  <2>4. CASE StRead
    <3>1. data_out_available \in BOOLEAN
      BY DEF data_out_available
    <3> QED BY <1>0, <2>1, <2>4, <3>1, Consts DEF StRead, storing
  <2>5. CASE StWrite1
    <3>1. AddressOf(fifo_out_q) \in Address
      BY <1>0, PlaceOfWord
    <3>2. fifo_out_q \in Cell /\ fifo_out_q \in Proper(AddressOf(fifo_out_q))
      BY <1>0 DEF Cell, Proper
    <3> QED BY <1>0, <2>1, <2>5, <3>1, <3>2 DEF StWrite1, storing
  <2> QED BY <1>2, <2>2, <2>3, <2>4, <2>5 DEF Draw
<1>3. CASE Show
  BY <1>0, <1>3 DEF Show, storing
<1> QED BY <1>1, <1>2, <1>3 DEF Loop

\* What the SRAM takes belongs to the address it is taken at.
LEMMA SramStep ==
  ASSUME Inv, Sram
  PROVE  screen' \in [Address -> Cell] /\ ScreenTrue'
<1>0. /\ screen \in [Address -> Cell] /\ addr_reg \in Address /\ data_reg \in Cell
      /\ ~we_n => data_reg \in Proper(addr_reg)
      /\ \A a \in Address : screen[a] \in Proper(a)
  BY DEF Inv, TypeOK, PinsMatch, ScreenTrue, Proper
<1>1. screen' \in [Address -> Cell]
  BY <1>0 DEF Sram
<1>2. ASSUME NEW a \in Address PROVE screen'[a] \in Proper(a)
  BY <1>0 DEF Sram
<1> QED BY <1>1, <1>2 DEF ScreenTrue, Proper

\* A word is popped unstored only when the loop was stopped in WRITE_1, now or
\* before.
LEMMA HistoryStep ==
  ASSUME Inv, History
  PROVE  /\ stored' \in BOOLEAN /\ cut' \in BOOLEAN /\ lost' \subseteq Word /\ LossOnlyByCut'
         /\ ~cut' => /\ ~cut /\ ~(state = "WRITE_1" /\ ~storing)
                     /\ (data_out_read <=> state = "WRITE_1")
<1>0. /\ stored \in BOOLEAN /\ cut \in BOOLEAN /\ lost \subseteq Word /\ fifo_out_q \in Word
      /\ ~cut => (data_out_read <=> state = "WRITE_1")
      /\ lost # {} => cut
  BY DEF Inv, TypeOK, ReadsInWrite1, LossOnlyByCut
<1>1. cut' <=> (cut \/ (state = "WRITE_1" /\ ~storing))
  BY DEF History
<1>2. cut' \in BOOLEAN /\ stored' \in BOOLEAN /\ lost' \subseteq Word
  BY <1>0 DEF History
<1>3. lost' # {} => cut'
  <2>1. CASE pop /\ ~stored /\ ~storing
    BY <1>0, <1>1, <2>1 DEF pop
  <2>2. CASE ~(pop /\ ~stored /\ ~storing)
    BY <1>0, <1>1, <2>2 DEF History
  <2> QED BY <2>1, <2>2
<1> QED BY <1>0, <1>1, <1>2, <1>3 DEF LossOnlyByCut

\* The FIFO keeps its words, and its output register holds one.
LEMMA FifoOutStep ==
  ASSUME Inv, FifoOut
  PROVE  /\ fifo_out' \in Seq(Point) /\ Len(fifo_out') <= FIFO_OUT_WORDS
         /\ fifo_out_q' \in Word
<1>1. PICK wr \in BOOLEAN, w \in Point :
        /\ fifo_out' = NextWords(fifo_out, FIFO_OUT_WORDS, wr, w, data_out_read)
        /\ fifo_out_q' = NextQ(fifo_out, fifo_out_q, data_out_read)
  BY DEF FifoOut
<1>2. /\ fifo_out \in Seq(Point) /\ Len(fifo_out) <= FIFO_OUT_WORDS /\ fifo_out_q \in Word
      /\ data_out_read \in BOOLEAN
  BY DEF Inv, TypeOK
<1>3. FIFO_OUT_WORDS \in Nat /\ Point \subseteq Word
  BY Consts
<1>4. fifo_out' \in Seq(Point) /\ Len(fifo_out') <= FIFO_OUT_WORDS
  BY <1>1, <1>2, <1>3, FifoEdge
<1>5. fifo_out_q' \in Point \union {fifo_out_q}
  BY <1>1, <1>2, <1>3, FifoEdge
<1> QED BY <1>2, <1>3, <1>4, <1>5

\* The inductive invariant holds for every memory, picture and FIFO.
THEOREM PatternInvariant == Spec => []Inv
<1>1. Inv /\ [Tick]_vars => Inv'
  <2>1. ASSUME Inv, Tick PROVE Inv'
    <3>1. Loop /\ Sram /\ FifoOut /\ History /\ Wires
      BY <2>1 DEF Tick
    <3>2. TypeOK'
      BY <2>1, <3>1, LoopStep, SramStep, FifoOutStep, HistoryStep DEF TypeOK, Wires
    <3>3. PinsMatch'
      BY <2>1, <3>1, LoopStep DEF PinsMatch, Proper
    <3>4. ReadsInWrite1'
      BY <2>1, <3>1, LoopStep, HistoryStep DEF ReadsInWrite1
    <3> QED BY <2>1, <3>1, <3>2, <3>3, <3>4, SramStep, HistoryStep DEF Inv
  <2>2. ASSUME Inv, UNCHANGED vars PROVE Inv'
    BY <2>2 DEF Inv, TypeOK, PinsMatch, Proper, ScreenTrue, ReadsInWrite1, LossOnlyByCut,
                vars, wires, fifoVars, loopVars, history
  <2> QED BY <2>1, <2>2
<1> QED BY InitInv, <1>1, PTL DEF Spec

\* The registers keep their widths, and nothing but words reaches the SRAM.
THEOREM PatternTypes == Spec => []TypeOK
<1>1. Inv => TypeOK
  BY DEF Inv
<1> QED BY <1>1, PatternInvariant, PTL

\* Every address of the SRAM shows white, what it powered up with, or a result
\* that belongs there.
THEOREM DrawnInPlace == Spec => []ScreenTrue
<1>1. Inv => ScreenTrue
  BY DEF Inv
<1> QED BY <1>1, PatternInvariant, PTL

\* No result is lost unless the loop was stopped in WRITE_1, where it holds
\* data_out_read high.
THEOREM LostOnlyIfCut == Spec => []LossOnlyByCut
<1>1. Inv => LossOnlyByCut
  BY DEF Inv
<1> QED BY <1>1, PatternInvariant, PTL
=============================================================================
