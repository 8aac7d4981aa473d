--------------------------- MODULE FractalControl_proofs ---------------------------
(***************************************************************************)
(* Proofs about FractalControl, for every screen, word size and grid: a    *)
(* frame is its picture, every pixel once with its own number, and one     *)
(* word follows each grant, whatever resets and back-pressure did.         *)
(*                                                                         *)
(* The property speaks of the end of a frame.  The invariant speaks of     *)
(* every moment of it: the sums kept in re_part_in and im_part_in are the  *)
(* grid's values at the current coordinates (OnGrid), and what has been    *)
(* written is the part of the picture before them (SoFar), but for what a  *)
(* data_in_write left high by a reset adds at the corner.  It can only be  *)
(* left high with the coordinates cleared (Granted).                       *)
(***************************************************************************)
EXTENDS FractalControl, TLAPS

States == {"RESET", "IDLE", "DIV", "SEND_DATA", "UPDATE_COORD", "END_COMPUTE"}
Drawing == next_state \in {"SEND_DATA", "UPDATE_COORD", "END_COMPUTE"}

TypeOK ==
  /\ reset_n \in BOOLEAN /\ start \in BOOLEAN /\ data_in_full \in BOOLEAN
  /\ next_state \in States
  /\ x_coord_in \in 0 .. X_RESO - 1 /\ y_coord_in \in 0 .. Y_RESO - 1
  /\ {re_part_in, im_part_in, re_part_in_start, re_delta, im_delta} \subseteq Number
  /\ data_in_write \in BOOLEAN
  /\ written \subseteq [x : 0 .. X_RESO - 1, y : 0 .. Y_RESO - 1,
                 re : Number, im : Number]

GridRe(i) == (RE_START + i * RE_DELTA) % WORD
GridIm(j) == (IM_START + j * IM_DELTA) % WORD
Dot(i, j) == [x |-> i, y |-> j, re |-> GridRe(i), im |-> GridIm(j)]

\* The part of the picture before column i of row j.
Before(i, j) == {p \in Raster : p.y < j \/ (p.y = j /\ p.x < i)}

\* A reset and the start of a frame clear the coordinates and the sums.
Cleared == /\ ~reset_n => next_state = "RESET"
           /\ next_state \in {"RESET", "DIV"} => Pixel = Stray

\* The sums are the grid's values at the coordinates.
OnGrid == Drawing => /\ re_part_in = GridRe(x_coord_in) /\ im_part_in = GridIm(y_coord_in)
                     /\ re_part_in_start = RE_START
                     /\ re_delta = RE_DELTA /\ im_delta = IM_DELTA

\* A word is offered after a grant, and else only by a reset.
Granted == /\ next_state = "UPDATE_COORD" => data_in_write
           /\ next_state = "END_COMPUTE" => ~data_in_write
           /\ data_in_write /\ (x_coord_in # 0 \/ y_coord_in # 0) => next_state = "UPDATE_COORD"

\* What has been written: the picture up to here.
SoFar ==
  /\ next_state = "DIV" => written = {}
  /\ next_state \in {"SEND_DATA", "UPDATE_COORD"} =>
       /\ Before(x_coord_in, y_coord_in) \subseteq written
       /\ written \subseteq Before(x_coord_in, y_coord_in) \union {Stray}
            \union (IF x_coord_in = 0 /\ y_coord_in = 0 THEN {Dot(0, 0)} ELSE {})
  /\ FrameComplete

\* The inductive invariant.
Inv == TypeOK /\ Cleared /\ OnGrid /\ Granted /\ SoFar

----------------------------------------------------------------------------
(* Arithmetic modulo a word.                                               *)

\* Quotient and remainder.
LEMMA DivMod ==
  ASSUME NEW w \in Nat \ {0}, NEW a \in Nat
  PROVE  \E p \in Int, r \in 0 .. w - 1 : a % w = r /\ a = w * p + r
<1>1. a % w \in 0 .. w - 1 /\ a \div w \in Int
  OBVIOUS
<1>2. a = w * (a \div w) + (a % w)
  OBVIOUS
<1>3. WITNESS a \div w \in Int, a % w \in 0 .. w - 1
<1> QED BY <1>2

\* The remainder is the only one.
LEMMA ModUnique ==
  ASSUME NEW w \in Nat \ {0}, NEW p \in Int, NEW q \in Int, NEW k \in Int,
         NEW r \in 0 .. w - 1, NEW s \in 0 .. w - 1, w * p + (w * q + r) = w * k + s
  PROVE  r = s
<1> DEFINE e == p + q - k
<1>1. e \in Int
  OBVIOUS
<1>2. w * e = s - r
  <2>1. w * (p + q - k) = w * p + w * q - w * k
    OBVIOUS
  <2> QED BY <2>1
<1>3. s - r < w /\ s - r > -w
  OBVIOUS
<1> HIDE DEF e
<1>4. ASSUME e >= 1 PROVE FALSE
  <2>1. w * e >= w
    BY <1>1, <1>4
  <2> QED BY <1>2, <1>3, <2>1
<1>5. ASSUME e <= -1 PROVE FALSE
  <2>1. w * e <= -w
    BY <1>1, <1>5
  <2> QED BY <1>2, <1>3, <2>1
<1>6. e = 0
  BY <1>1, <1>4, <1>5
<1> QED BY <1>2, <1>6

\* A sum may be reduced as it is made.
LEMMA ModAdd ==
  ASSUME NEW a \in Nat, NEW b \in Nat, NEW w \in Nat \ {0}
  PROVE  ((a % w) + b) % w = (a + b) % w
<1>1. PICK p \in Int, o \in 0 .. w - 1 : a % w = o /\ a = w * p + o
  BY DivMod
<1>2. o + b \in Nat /\ a + b \in Nat
  OBVIOUS
<1>3. PICK q \in Int, r \in 0 .. w - 1 : (o + b) % w = r /\ o + b = w * q + r
  BY <1>2, DivMod
<1>4. PICK k \in Int, s \in 0 .. w - 1 : (a + b) % w = s /\ a + b = w * k + s
  BY <1>2, DivMod
<1>5. w * p + (w * q + r) = w * k + s
  BY <1>1, <1>3, <1>4
<1>6. r = s
  BY <1>5, ModUnique
<1> QED BY <1>1, <1>3, <1>4, <1>6

----------------------------------------------------------------------------
(* The grid and the picture.                                               *)

\* The constants are words and the screen has pixels.
LEMMA Consts ==
  /\ X_RESO \in Nat /\ X_RESO > 0 /\ Y_RESO \in Nat /\ Y_RESO > 0 /\ Y_RESO <= 1023
  /\ WORD \in Nat \ {0} /\ 0 \in Number
  /\ RE_START \in Number /\ RE_DELTA \in Number /\ IM_START \in Number /\ IM_DELTA \in Number
  /\ Number \subseteq Nat
BY ControlAssumption DEF Number

\* A sum of words is a word.
LEMMA PlusWord == ASSUME NEW a \in Number, NEW b \in Number PROVE Plus(a, b) \in Number
BY Consts DEF Plus, Number

\* One step along the grid adds its delta (fractal_control.v, lines 149 and 156).
LEMMA GridStep ==
  ASSUME NEW i \in Nat
  PROVE  /\ GridRe(i) \in Number /\ GridRe(i + 1) = Plus(GridRe(i), RE_DELTA)
         /\ GridIm(i) \in Number /\ GridIm(i + 1) = Plus(GridIm(i), IM_DELTA)
<1>0. /\ RE_START \in Nat /\ RE_DELTA \in Nat /\ IM_START \in Nat /\ IM_DELTA \in Nat
      /\ WORD \in Nat \ {0}
  BY Consts
<1>1. ASSUME NEW a \in Nat, NEW d \in Nat
      PROVE  /\ (a + i * d) % WORD \in Number
             /\ (a + (i + 1) * d) % WORD = (((a + i * d) % WORD) + d) % WORD
  <2>1. i * d \in Nat /\ (i + 1) * d = i * d + d
    OBVIOUS
  <2>2. a + i * d \in Nat /\ a + (i + 1) * d = (a + i * d) + d
    BY <2>1
  <2>3. (a + i * d) % WORD \in Number
    BY <1>0, <2>2 DEF Number
  <2> QED BY <1>0, <2>2, <2>3, ModAdd
<1> QED BY <1>0, <1>1 DEF GridRe, GridIm, Plus

\* The first column and row.
LEMMA GridStart == GridRe(0) = RE_START /\ GridIm(0) = IM_START
BY Consts DEF GridRe, GridIm, Number

\* The picture is its dots.
LEMMA RasterDots ==
  /\ \A p \in Raster : /\ p.x \in 0 .. X_RESO - 1 /\ p.y \in 0 .. Y_RESO - 1
                       /\ p = Dot(p.x, p.y)
  /\ \A i \in 0 .. X_RESO - 1, j \in 0 .. Y_RESO - 1 :
       Dot(i, j) \in Raster /\ Dot(i, j).x = i /\ Dot(i, j).y = j
BY DEF Raster, Dot, GridRe, GridIm

\* Drawing a dot moves the border of what is drawn.
LEMMA BeforeStep ==
  ASSUME NEW i \in 0 .. X_RESO - 1, NEW j \in 0 .. Y_RESO - 1
  PROVE  LET now == Before(i, j) \union {Dot(i, j)}
         IN  /\ i < X_RESO - 1 => now = Before(i + 1, j)
             /\ i = X_RESO - 1 => now = Before(0, j + 1)
             /\ i = X_RESO - 1 /\ j = Y_RESO - 1 => now = Raster
             /\ Dot(i, j) \notin Before(i, j)
<1> USE Consts, RasterDots
<1>1. ASSUME NEW p \in Raster, p.x = i, p.y = j PROVE p = Dot(i, j)
  BY <1>1
<1>2. Dot(i, j) \in Raster /\ Dot(i, j).x = i /\ Dot(i, j).y = j
  OBVIOUS
<1>3. Dot(i, j) \notin Before(i, j)
  BY <1>2 DEF Before
<1>4. i < X_RESO - 1 => Before(i, j) \union {Dot(i, j)} = Before(i + 1, j)
  BY <1>1, <1>2 DEF Before
<1>5. i = X_RESO - 1 => Before(i, j) \union {Dot(i, j)} = Before(0, j + 1)
  BY <1>1, <1>2 DEF Before
<1>6. i = X_RESO - 1 /\ j = Y_RESO - 1 => Before(i, j) \union {Dot(i, j)} = Raster
  BY <1>1, <1>2 DEF Before
<1> QED BY <1>3, <1>4, <1>5, <1>6

\* At the corner nothing is drawn yet.
LEMMA BeforeCorner == Before(0, 0) = {}
BY Consts, RasterDots DEF Before

----------------------------------------------------------------------------
(* The invariant.                                                          *)

\* The corner is on the screen.
LEMMA CornerType == 0 \in 0 .. X_RESO - 1 /\ 0 \in 0 .. Y_RESO - 1
BY Consts

\* A behaviour begins with nothing drawn.
LEMMA InitInv == Init => Inv
<1> SUFFICES ASSUME Init PROVE Inv
  OBVIOUS
<1>1. TypeOK
  BY Consts, CornerType DEF Init, TypeOK, States
<1> QED BY <1>1 DEF Init, Inv, Cleared, OnGrid, Drawing, Granted, SoFar, FrameComplete,
                    Pixel, Stray

\* What the accelerator samples is a pixel.
LEMMA PixelType ==
  ASSUME TypeOK
  PROVE  /\ Pixel \in [x : 0 .. X_RESO - 1, y : 0 .. Y_RESO - 1, re : Number, im : Number]
         /\ Pixel.x = x_coord_in /\ Pixel.y = y_coord_in
BY DEF TypeOK, Pixel

\* The account keeps its type.
LEMMA HistoryType ==
  ASSUME TypeOK, History
  PROVE  written' \subseteq [x : 0 .. X_RESO - 1, y : 0 .. Y_RESO - 1,
                            re : Number, im : Number]
BY PixelType DEF TypeOK, History

\* Leaving reset (fractal_control.v, line 111) draws nothing.
LEMMA ReleasedInv == ASSUME Inv, Tick, Released PROVE Inv'
<1> USE DEF Inv
<1>1. TypeOK'
  BY HistoryType DEF Tick, Released, Wires, TypeOK, States, coordVars, partVars, gridVars
<1>2. Cleared' /\ OnGrid' /\ Granted' /\ SoFar'
  BY DEF Tick, Released, Cleared, OnGrid, Drawing, Granted, SoFar, FrameComplete, coordVars
<1> QED BY <1>1, <1>2

\* Starting a frame clears the coordinates and opens a new account (line 115).
LEMMA IdleInv == ASSUME Inv, Tick, Idle PROVE Inv'
<1> USE DEF Inv
<1>1. TypeOK'
  BY HistoryType, CornerType, Consts
     DEF Tick, Idle, ClearFrame, Wires, TypeOK, States, coordVars, partVars, gridVars
<1>2. written' = {} /\ reset_n'
  BY DEF Tick, Idle, History
<1>3. Cleared' /\ OnGrid' /\ Granted' /\ SoFar'
  BY <1>2 DEF Idle, ClearFrame, Cleared, OnGrid, Drawing, Granted, SoFar, FrameComplete,
              coordVars, Pixel, Stray
<1> QED BY <1>1, <1>3

\* Setting the corner of the grid (line 127): at most the stray word is taken.
LEMMA DivInv == ASSUME Inv, Tick, Div PROVE Inv'
<1> USE DEF Inv
<1>1. TypeOK'
  BY HistoryType, Consts DEF Tick, Div, Wires, TypeOK, States, coordVars
<1>2. /\ next_state = "DIV" /\ next_state' = "SEND_DATA" /\ reset_n'
      /\ written = {} /\ Pixel = Stray
      /\ x_coord_in' = 0 /\ y_coord_in' = 0 /\ data_in_write' = data_in_write
      /\ x_coord_in = 0 /\ y_coord_in = 0
  BY DEF Tick, Div, Cleared, SoFar, Pixel, Stray, coordVars
<1>3. Cleared' /\ Granted'
  BY <1>2 DEF Cleared, Granted
<1>4. OnGrid'
  BY <1>2, GridStart DEF Div, OnGrid, Drawing
<1>5. written' \subseteq {Stray}
  BY <1>2 DEF Tick, History
<1>6. Before(x_coord_in', y_coord_in') = {}
  BY <1>2, BeforeCorner
<1>7. SoFar'
  BY <1>2, <1>5, <1>6 DEF SoFar, FrameComplete, Before
<1> QED BY <1>1, <1>3, <1>4, <1>7

\* Offering the current dot, or waiting for room (line 136): a word taken here is
\* the one a reset left offered, and it is the corner's.
LEMMA SendDataInv == ASSUME Inv, Tick, SendData PROVE Inv'
<1> USE DEF Inv
<1>1. TypeOK'
  BY HistoryType DEF Tick, SendData, Wires, TypeOK, States, coordVars, partVars, gridVars
<1>2. /\ next_state = "SEND_DATA" /\ next_state' \in {"SEND_DATA", "UPDATE_COORD"} /\ reset_n'
      /\ x_coord_in' = x_coord_in /\ y_coord_in' = y_coord_in
  BY DEF Tick, SendData, coordVars
<1>3. Cleared' /\ OnGrid'
  BY <1>2 DEF SendData, Cleared, OnGrid, Drawing, partVars, gridVars
<1>4. Granted'
  BY <1>2 DEF SendData, Granted
<1>5. data_in_write => x_coord_in = 0 /\ y_coord_in = 0 /\ Pixel = Dot(0, 0)
  <2>1. data_in_write => x_coord_in = 0 /\ y_coord_in = 0
    BY <1>2 DEF Granted
  <2> QED BY <1>2, <2>1 DEF OnGrid, Drawing, Pixel, Dot
<1>6. written \subseteq written' /\ written' \subseteq written \union
        (IF x_coord_in = 0 /\ y_coord_in = 0 THEN {Dot(0, 0)} ELSE {})
  BY <1>2, <1>5 DEF Tick, History
<1>7. /\ Before(x_coord_in, y_coord_in) \subseteq written
      /\ written \subseteq Before(x_coord_in, y_coord_in) \union {Stray}
            \union (IF x_coord_in = 0 /\ y_coord_in = 0 THEN {Dot(0, 0)} ELSE {})
  BY <1>2 DEF SoFar
<1>8. Before(x_coord_in', y_coord_in') = Before(x_coord_in, y_coord_in)
  BY <1>2
<1>9. SoFar'
  <2>1. FrameComplete'
    BY <1>2 DEF FrameComplete
  <2> HIDE DEF Inv
  <2>2. /\ Before(x_coord_in', y_coord_in') \subseteq written'
        /\ written' \subseteq Before(x_coord_in', y_coord_in') \union {Stray}
              \union (IF x_coord_in' = 0 /\ y_coord_in' = 0 THEN {Dot(0, 0)} ELSE {})
    BY <1>2, <1>6, <1>7, <1>8
  <2> QED BY <1>2, <2>1, <2>2 DEF SoFar, Stray, Dot, GridRe, GridIm, Before, Raster
<1> QED BY <1>1, <1>3, <1>4, <1>9

\* In UPDATE_COORD the accelerator takes the current dot, and the account then
\* ends with it.
LEMMA DotTaken ==
  ASSUME Inv, History, next_state = "UPDATE_COORD"
  PROVE  LET now == Before(x_coord_in, y_coord_in) \union {Dot(x_coord_in, y_coord_in)}
         IN  now \subseteq written' /\ written' \subseteq now \union {Stray}
<1>1. Pixel = Dot(x_coord_in, y_coord_in)
  BY DEF Inv, OnGrid, Drawing, Pixel, Dot
<1>2. written' = written \union {Dot(x_coord_in, y_coord_in)}
  BY <1>1 DEF Inv, Granted, History
<1>3. /\ Before(x_coord_in, y_coord_in) \subseteq written
      /\ written \subseteq Before(x_coord_in, y_coord_in) \union {Stray}
                             \union {Dot(x_coord_in, y_coord_in)}
  BY DEF Inv, SoFar
<1> QED BY <1>2, <1>3

\* After it the frame goes on, or ends, with the account of the next dot.
LEMMA UpdateCoordInv == ASSUME Inv, Tick, UpdateCoord PROVE Inv'
<1> DEFINE now == Before(x_coord_in, y_coord_in) \union {Dot(x_coord_in, y_coord_in)}
<1>0. /\ next_state = "UPDATE_COORD" /\ reset_n' /\ ~data_in_write' /\ History
      /\ x_coord_in \in 0 .. X_RESO - 1 /\ y_coord_in \in 0 .. Y_RESO - 1
      /\ re_part_in_start' = re_part_in_start /\ re_delta' = re_delta /\ im_delta' = im_delta
      /\ re_part_in \in Number /\ im_part_in \in Number /\ re_part_in_start \in Number
      /\ re_delta \in Number /\ im_delta \in Number
  BY DEF Inv, TypeOK, Tick, UpdateCoord, gridVars
<1>1. /\ re_part_in = GridRe(x_coord_in) /\ im_part_in = GridIm(y_coord_in)
      /\ re_part_in_start = RE_START /\ re_delta = RE_DELTA /\ im_delta = IM_DELTA
  BY <1>0 DEF Inv, OnGrid, Drawing
<1>2. now \subseteq written' /\ written' \subseteq now \union {Stray}
  BY <1>0, DotTaken
<1>3. /\ reset_n' \in BOOLEAN /\ start' \in BOOLEAN /\ data_in_full' \in BOOLEAN
      /\ data_in_write' \in BOOLEAN
      /\ written' \subseteq [x : 0 .. X_RESO - 1, y : 0 .. Y_RESO - 1,
                      re : Number, im : Number]
  BY HistoryType DEF Inv, TypeOK, Tick, UpdateCoord, Wires
<1>4. ASSUME next_state' \in {"SEND_DATA", "END_COMPUTE"},
             x_coord_in' \in 0 .. X_RESO - 1, y_coord_in' \in 0 .. Y_RESO - 1,
             re_part_in' = GridRe(x_coord_in'), im_part_in' = GridIm(y_coord_in'),
             next_state' = "SEND_DATA" => now = Before(x_coord_in', y_coord_in'),
             next_state' = "END_COMPUTE" => now = Raster
      PROVE  Inv'
  <2>1. re_part_in' \in Number /\ im_part_in' \in Number
    BY <1>4, GridStep
  <2>2. TypeOK'
    BY <1>0, <1>3, <1>4, <2>1 DEF TypeOK, States
  <2>3. Cleared' /\ Granted'
    BY <1>0, <1>4 DEF Cleared, Granted
  <2>4. OnGrid'
    BY <1>0, <1>1, <1>4 DEF OnGrid, GridRe, GridIm
  <2>5. FrameComplete'
    BY <1>2, <1>4 DEF FrameComplete, Raster, Stray
  <2>6. SoFar'
    BY <1>2, <1>4, <2>5 DEF SoFar, Stray, Before, Raster
  <2> QED BY <2>2, <2>3, <2>4, <2>6 DEF Inv
<1> HIDE DEF now
<1>5. CASE NextColumn
  <2>1. /\ x_coord_in < X_RESO - 1 /\ next_state' = "SEND_DATA"
        /\ x_coord_in' = x_coord_in + 1 /\ y_coord_in' = y_coord_in
        /\ re_part_in' = Plus(re_part_in, re_delta) /\ im_part_in' = im_part_in
    BY <1>5 DEF NextColumn
  <2>2. now = Before(x_coord_in', y_coord_in')
    BY <1>0, <2>1, BeforeStep DEF now
  <2>3. re_part_in' = GridRe(x_coord_in') /\ im_part_in' = GridIm(y_coord_in')
    BY <1>0, <1>1, <2>1, GridStep
  <2>4. x_coord_in' \in 0 .. X_RESO - 1 /\ y_coord_in' \in 0 .. Y_RESO - 1
    BY <1>0, <2>1, Consts
  <2> QED BY <1>4, <2>1, <2>2, <2>3, <2>4
<1>6. CASE NextRow
  <2>1. /\ x_coord_in = X_RESO - 1 /\ y_coord_in < Y_RESO - 1 /\ next_state' = "SEND_DATA"
        /\ x_coord_in' = 0 /\ y_coord_in' = y_coord_in + 1
        /\ re_part_in' = re_part_in_start /\ im_part_in' = Plus(im_part_in, im_delta)
    BY <1>0, <1>6, Consts DEF NextRow
  <2>2. now = Before(x_coord_in', y_coord_in')
    BY <1>0, <2>1, BeforeStep DEF now
  <2>3. re_part_in' = GridRe(x_coord_in') /\ im_part_in' = GridIm(y_coord_in')
    BY <1>0, <1>1, <2>1, GridStep, GridStart
  <2>4. x_coord_in' \in 0 .. X_RESO - 1 /\ y_coord_in' \in 0 .. Y_RESO - 1
    BY <1>0, <2>1, Consts
  <2> QED BY <1>4, <2>1, <2>2, <2>3, <2>4
<1>7. CASE LastPixel
  <2>1. /\ x_coord_in = X_RESO - 1 /\ y_coord_in = Y_RESO - 1 /\ next_state' = "END_COMPUTE"
        /\ x_coord_in' = x_coord_in /\ y_coord_in' = y_coord_in
        /\ re_part_in' = re_part_in /\ im_part_in' = im_part_in
    BY <1>0, <1>7, Consts DEF LastPixel, coordVars, partVars
  <2>2. now = Raster
    BY <1>0, <2>1, BeforeStep DEF now
  <2> QED BY <1>0, <1>1, <1>4, <2>1, <2>2
<1> QED BY <1>5, <1>6, <1>7 DEF UpdateCoord

\* The end of a frame (line 168) offers nothing.
LEMMA EndComputeInv == ASSUME Inv, Tick, EndCompute PROVE Inv'
<1> USE DEF Inv
<1>1. TypeOK'
  BY HistoryType DEF Tick, EndCompute, Wires, TypeOK, States, coordVars, partVars, gridVars
<1>2. Cleared' /\ OnGrid' /\ Granted' /\ SoFar'
  BY DEF Tick, EndCompute, Cleared, OnGrid, Drawing, Granted, SoFar, FrameComplete, coordVars
<1> QED BY <1>1, <1>2

\* reset_n falls (line 98): data_in_write stays, with the coordinates cleared.
LEMMA ResetDownInv == ASSUME Inv, ResetDown PROVE Inv'
<1> USE DEF Inv
<1>1. TypeOK'
  BY CornerType, Consts DEF ResetDown, ClearFrame, wires, TypeOK, States
<1>2. Cleared' /\ OnGrid' /\ Granted' /\ SoFar'
  BY DEF ResetDown, ClearFrame, Cleared, OnGrid, Drawing, Granted, SoFar, FrameComplete,
         Pixel, Stray
<1> QED BY <1>1, <1>2

\* While reset_n is low the accelerator can only take the stray word.
LEMMA TickInResetInv == ASSUME Inv, TickInReset PROVE Inv'
<1> USE DEF Inv
<1>1. TypeOK'
  BY HistoryType DEF TickInReset, Wires, TypeOK, States, coordVars, partVars, gridVars
<1>2. next_state = "RESET" /\ next_state' = "RESET" /\ UNCHANGED << reset_n, data_in_write >>
  BY DEF TickInReset, Cleared
<1>3. Pixel' = Pixel
  BY DEF TickInReset, coordVars, partVars, Pixel
<1>4. Cleared'
  BY <1>2, <1>3 DEF Cleared, Pixel, Stray
<1>5. OnGrid' /\ Granted' /\ SoFar'
  BY <1>2 DEF TickInReset, OnGrid, Drawing, Granted, SoFar, FrameComplete, coordVars
<1> QED BY <1>1, <1>4, <1>5

\* reset_n rises: nothing else moves.
LEMMA ResetUpInv == ASSUME Inv, ResetUp PROVE Inv'
<1> USE DEF Inv
<1>0. /\ UNCHANGED << start, data_in_full, next_state, x_coord_in, y_coord_in, re_part_in,
                      im_part_in, re_part_in_start, re_delta, im_delta, data_in_write, written >>
      /\ reset_n'
  BY DEF ResetUp, wires, coordVars, partVars, gridVars
<1>1. next_state = "RESET"
  BY DEF ResetUp, Cleared
<1>2. TypeOK'
  BY <1>0 DEF TypeOK
<1>3. Cleared' /\ OnGrid' /\ Granted' /\ SoFar'
  BY <1>0, <1>1 DEF Cleared, OnGrid, Drawing, Granted, SoFar, FrameComplete, Pixel, Stray
<1> QED BY <1>2, <1>3

\* A step that changes nothing keeps the invariant.
LEMMA StutterInv == ASSUME Inv, UNCHANGED vars PROVE Inv'
BY DEF Inv, TypeOK, Cleared, OnGrid, Drawing, Granted, SoFar, FrameComplete, Before, Raster,
       Dot, GridRe, GridIm, Pixel, Stray, vars, wires, coordVars, partVars, gridVars

\* The inductive invariant holds for every screen, word size and grid.
THEOREM ControlInvariant == Spec => []Inv
<1>1. Inv /\ [Next]_vars => Inv'
  <2> SUFFICES ASSUME Inv, [Next]_vars PROVE Inv'
    OBVIOUS
  <2>1. CASE Tick
    <3>1. Released \/ Idle \/ Div \/ SendData \/ UpdateCoord \/ EndCompute
      BY <2>1 DEF Tick, Clock
    <3> QED BY <2>1, <3>1, ReleasedInv, IdleInv, DivInv, SendDataInv, UpdateCoordInv,
               EndComputeInv
  <2> QED BY <2>1, ResetDownInv, TickInResetInv, ResetUpInv, StutterInv DEF Next
<1> QED BY InitInv, <1>1, PTL DEF Spec

\* The registers keep their widths; the coordinates never leave the screen.
THEOREM ControlTypes == Spec => []TypeOK
<1>1. Inv => TypeOK
  BY DEF Inv
<1> QED BY <1>1, ControlInvariant, PTL

\* A frame is its picture, every pixel once with its own number, whatever
\* back-pressure and resets did.
THEOREM FrameIsPicture == Spec => []EveryPixelOnce
<1>1. Inv => EveryPixelOnce
  <2> SUFFICES ASSUME Inv PROVE EveryPixelOnce
    OBVIOUS
  <2>1. FrameComplete
    BY DEF Inv, SoFar
  <2>2. ASSUME data_in_write, Pixel \in written, ~(x_coord_in = 0 /\ y_coord_in = 0)
        PROVE  FALSE
    <3>1. next_state = "UPDATE_COORD"
      BY <2>2 DEF Inv, Granted
    <3>2. /\ x_coord_in \in 0 .. X_RESO - 1 /\ y_coord_in \in 0 .. Y_RESO - 1
          /\ Pixel.x = x_coord_in /\ Pixel.y = y_coord_in
      BY PixelType DEF Inv, TypeOK
    <3>3. written \subseteq Before(x_coord_in, y_coord_in) \union {Stray}
      BY <2>2, <3>1 DEF Inv, SoFar
    <3>4. Pixel # Stray
      BY <2>2, <3>2 DEF Stray
    <3>5. Pixel = Dot(x_coord_in, y_coord_in)
      BY <3>1 DEF Inv, OnGrid, Drawing, Pixel, Dot
    <3> QED BY <2>2, <3>2, <3>3, <3>4, <3>5, BeforeStep
  <2> QED BY <2>1, <2>2 DEF EveryPixelOnce, NoPixelTwice
<1> QED BY <1>1, ControlInvariant, PTL

\* After a grant exactly one word is written, so the accelerator sees at most
\* one more word once it raises data_in_full.
THEOREM OneWord == Spec => OneWordPerGrant
<1>1. Inv /\ [Next]_vars =>
        [Tick /\ data_in_write /\ (x_coord_in # 0 \/ y_coord_in # 0)
           => next_state = "UPDATE_COORD" /\ ~data_in_write']_vars
  <2> SUFFICES ASSUME Inv, Tick, data_in_write, x_coord_in # 0 \/ y_coord_in # 0
               PROVE  next_state = "UPDATE_COORD" /\ ~data_in_write'
    OBVIOUS
  <2>1. next_state = "UPDATE_COORD"
    BY DEF Inv, Granted
  <2>2. UpdateCoord
    BY <2>1 DEF Tick, Clock, Released, Idle, Div, SendData, EndCompute
  <2> QED BY <2>1, <2>2 DEF UpdateCoord
<1> QED BY <1>1, ControlInvariant, PTL DEF Spec, OneWordPerGrant
=============================================================================
