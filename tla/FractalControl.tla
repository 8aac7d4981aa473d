----------------------------- MODULE FractalControl -----------------------------
(***************************************************************************)
(* The raster generator of lab 4 (fractal_control.v): after start it walks *)
(* the screen row by row, keeps the complex number of the current pixel by *)
(* adding the grid steps, and writes every pixel into the accelerator,     *)
(* holding back while data_in_full is high.                                *)
(*                                                                         *)
(* start and data_in_full are input wires that move freely.  The code puts *)
(* data_in_write and re_part_in_start in no reset branch, so a reset       *)
(* leaves them as they were and a behaviour begins with any value of them. *)
(*                                                                         *)
(* written is a history variable: the pixels the accelerator has accepted  *)
(* since the frame was started.                                            *)
(***************************************************************************)
EXTENDS Integers

CONSTANTS
  X_RESO, Y_RESO,      \* screen resolution
  WORD,                \* numbers are words modulo WORD (2^32)
  RE_START, RE_DELTA,  \* first value and step of the real part
  IM_START, IM_DELTA   \* first value and step of the imaginary part

Number == 0 .. WORD - 1

\* Coordinates have 10 bits.
ASSUME ControlAssumption ==
  /\ X_RESO \in 1 .. 1023 /\ Y_RESO \in 1 .. 1023
  /\ WORD \in Nat \ {0}
  /\ {RE_START, RE_DELTA, IM_START, IM_DELTA} \subseteq Number

VARIABLES
  reset_n, start, data_in_full,              \* input wires
  next_state, x_coord_in, y_coord_in,
  re_part_in, re_part_in_start, im_part_in, re_delta, im_delta,
  data_in_write,
  written

wires == << start, data_in_full >>
coordVars == << x_coord_in, y_coord_in >>
partVars  == << re_part_in, im_part_in >>
gridVars  == << re_delta, im_delta >>
vars == << reset_n, wires, next_state, coordVars, partVars, re_part_in_start, gridVars,
           data_in_write, written >>

Plus(a, b) == (a + b) % WORD

\* The word on the accelerator's input.
Pixel == [x |-> x_coord_in, y |-> y_coord_in, re |-> re_part_in, im |-> im_part_in]

ClearFrame ==
  /\ re_part_in' = 0 /\ im_part_in' = 0
  /\ re_delta' = 0 /\ im_delta' = 0
  /\ x_coord_in' = 0 /\ y_coord_in' = 0
-----------------------------------------------------------------------------
Released ==
  /\ next_state = "RESET"
  /\ next_state' = "IDLE"
  /\ UNCHANGED << coordVars, partVars, re_part_in_start, gridVars, data_in_write >>

Idle ==
  /\ next_state = "IDLE"
  /\ IF start THEN next_state' = "DIV" /\ ClearFrame
              ELSE UNCHANGED << next_state, coordVars, partVars, gridVars >>
  /\ UNCHANGED << re_part_in_start, data_in_write >>

\* Set the corner of the picture and the grid.
Div ==
  /\ next_state = "DIV"
  /\ next_state' = "SEND_DATA"
  /\ re_part_in' = RE_START /\ re_part_in_start' = RE_START
  /\ im_part_in' = IM_START
  /\ re_delta' = RE_DELTA /\ im_delta' = IM_DELTA
  /\ UNCHANGED << coordVars, data_in_write >>

SendData ==
  /\ next_state = "SEND_DATA"
  /\ data_in_write' = ~data_in_full
  /\ next_state' = IF data_in_full THEN "SEND_DATA" ELSE "UPDATE_COORD"
  /\ UNCHANGED << coordVars, partVars, re_part_in_start, gridVars >>

NextColumn ==
  /\ x_coord_in < X_RESO - 1
  /\ next_state' = "SEND_DATA"
  /\ x_coord_in' = x_coord_in + 1
  /\ re_part_in' = Plus(re_part_in, re_delta)
  /\ UNCHANGED << y_coord_in, im_part_in >>

\* A faulty NextRow: the real part is not taken back to the first column.
NextRowNoReturn ==
  /\ x_coord_in >= X_RESO - 1
  /\ y_coord_in # Y_RESO - 1
  /\ next_state' = "SEND_DATA"
  /\ x_coord_in' = 0
  /\ y_coord_in' = (y_coord_in + 1) % 1024
  /\ re_part_in' = Plus(re_part_in, re_delta)
  /\ im_part_in' = Plus(im_part_in, im_delta)

NextRow ==
  /\ x_coord_in >= X_RESO - 1
  /\ y_coord_in # Y_RESO - 1
  /\ next_state' = "SEND_DATA"
  /\ x_coord_in' = 0
  /\ y_coord_in' = (y_coord_in + 1) % 1024
  /\ re_part_in' = re_part_in_start
  /\ im_part_in' = Plus(im_part_in, im_delta)

\* A faulty LastPixel: the last row is not recognised.
LastPixelMissed ==
  /\ x_coord_in >= X_RESO - 1
  /\ y_coord_in = Y_RESO
  /\ next_state' = "END_COMPUTE"
  /\ UNCHANGED << coordVars, partVars >>

LastPixel ==
  /\ x_coord_in >= X_RESO - 1
  /\ y_coord_in = Y_RESO - 1
  /\ next_state' = "END_COMPUTE"
  /\ UNCHANGED << coordVars, partVars >>

\* A faulty UpdateCoord: data_in_write stays high.
UpdateCoordKeepWriting ==
  /\ next_state = "UPDATE_COORD"
  /\ NextColumn \/ NextRow \/ LastPixel
  /\ UNCHANGED << re_part_in_start, gridVars, data_in_write >>

UpdateCoord ==
  /\ next_state = "UPDATE_COORD"
  /\ NextColumn \/ NextRow \/ LastPixel
  /\ data_in_write' = FALSE
  /\ UNCHANGED << re_part_in_start, gridVars >>

EndCompute ==
  /\ next_state = "END_COMPUTE"
  /\ next_state' = "IDLE"
  /\ UNCHANGED << coordVars, partVars, re_part_in_start, gridVars, data_in_write >>

Clock == Released \/ Idle \/ Div \/ SendData \/ UpdateCoord \/ EndCompute

\* The accelerator samples data_in_write at the clock edge; starting a frame
\* begins a new account.
History ==
  written' = IF next_state = "IDLE" THEN {}
             ELSE IF data_in_write THEN written \cup {Pixel} ELSE written

Wires == start' \in BOOLEAN /\ data_in_full' \in BOOLEAN

Tick == reset_n /\ Clock /\ History /\ Wires /\ UNCHANGED reset_n

ResetDown ==
  /\ reset_n /\ reset_n' = FALSE
  /\ next_state' = "RESET"
  /\ ClearFrame
  /\ UNCHANGED << wires, re_part_in_start, data_in_write, written >>

\* The accelerator's input FIFO goes on sampling data_in_write.
TickInReset ==
  /\ ~reset_n
  /\ History /\ Wires
  /\ UNCHANGED << reset_n, next_state, coordVars, partVars, re_part_in_start,
                  gridVars, data_in_write >>

ResetUp ==
  /\ ~reset_n /\ reset_n' = TRUE
  /\ UNCHANGED << wires, next_state, coordVars, partVars, re_part_in_start,
                  gridVars, data_in_write, written >>

Init ==
  /\ reset_n = TRUE
  /\ next_state = "RESET"
  /\ x_coord_in = 0 /\ y_coord_in = 0
  /\ re_part_in = 0 /\ im_part_in = 0 /\ re_part_in_start \in Number
  /\ re_delta = 0 /\ im_delta = 0
  /\ data_in_write \in BOOLEAN
  /\ written = {}
  /\ start = FALSE /\ data_in_full = FALSE

Next == Tick \/ ResetDown \/ TickInReset \/ ResetUp

Spec == Init /\ [][Next]_vars

\* The clock never stops, and the accelerator makes room again.
FairSpec == Spec /\ WF_vars(Tick) /\ []<>~data_in_full
-----------------------------------------------------------------------------
\* The picture: every screen position with the complex number that the grid
\* assigns to it.
Raster == {[x |-> x, y |-> y,
            re |-> (RE_START + x * RE_DELTA) % WORD,
            im |-> (IM_START + y * IM_DELTA) % WORD] :
              x \in 0 .. X_RESO - 1, y \in 0 .. Y_RESO - 1}

\* What a data_in_write left high by a reset can slip in before the frame.
Stray == [x |-> 0, y |-> 0, re |-> 0, im |-> 0]

\* At the end of a frame every pixel of the picture has been written, with its
\* own complex number -- the sums along rows and columns do not drift, whatever
\* back-pressure and resets did -- and besides them only the stray word.
FrameComplete == next_state = "END_COMPUTE" =>
  Raster \subseteq written /\ written \subseteq Raster \cup {Stray}

\* No pixel is written twice in a frame, but the first, which a data_in_write
\* left high by a reset writes again.
NoPixelTwice == data_in_write /\ Pixel \in written => x_coord_in = 0 /\ y_coord_in = 0

\* A frame is its picture: every pixel once, with its own number.
EveryPixelOnce == FrameComplete /\ NoPixelTwice

\* A write follows data_in_full low by one clock and is followed by a clock
\* without one, so the accelerator sees at most one word after it raises
\* data_in_full; but for a data_in_write left high by a reset.
OneWordPerGrant == [][Tick /\ data_in_write /\ (x_coord_in # 0 \/ y_coord_in # 0)
                        => next_state = "UPDATE_COORD" /\ ~data_in_write']_vars

\* A frame that is started ends, unless reset_n ends it.
FrameEnds == next_state = "IDLE" /\ start ~> next_state = "END_COMPUTE" \/ ~reset_n
=============================================================================
