----------------------------- MODULE FractalPattern -----------------------------
(***************************************************************************)
(* The display loop of lab 4 (fractal_Pattern.v).  While a sync pulse      *)
(* blanks the screen it takes results from the accelerator and writes them *)
(* to the frame buffer in SRAM; otherwise the SRAM shows the picture; and  *)
(* as long as clean_screen is low it paints the whole memory white.        *)
(*                                                                         *)
(* The loop is stopped wherever it is when a sync pulse ends: the branch   *)
(* that shows the picture leaves state and data_out_read alone.  Its       *)
(* registers have no reset; the device powers them up low.                 *)
(*                                                                         *)
(* Data.  A pixel is named by the SRAM address it is drawn at; a result    *)
(* word is its pixel, or Zero, the word of all zeros that q powers up with *)
(* and that is drawn at the place of the first pixel.  The accelerator is  *)
(* its output FIFO, filled with any results.                               *)
(*                                                                         *)
(* stored, cut and lost are history variables: whether the word in q has   *)
(* been taken to the SRAM registers, whether the loop has been stopped     *)
(* while data_out_read was high, and the words that left q unstored since  *)
(* the screen was cleaned last.                                            *)
(***************************************************************************)
EXTENDS ScFifo

CONSTANTS
  ADDRESSES,        \* size of the SRAM (2^20)
  Point, Origin,    \* addresses of the picture, and of its first pixel
  FIFO_OUT_WORDS,
  Zero, White, Unknown

Address == 0 .. ADDRESSES - 1
Word    == Point \cup {Zero}

ASSUME PatternAssumption ==
  /\ ADDRESSES \in Nat \ {0} /\ FIFO_OUT_WORDS \in Nat \ {0}
  /\ Point \subseteq Address /\ Origin \in Point
  /\ {Zero, White, Unknown} \cap Address = {}

VARIABLES
  clean_screen, start, sync,         \* keys (low when pressed); a sync pulse
  fifo_out, fifo_out_q,
  state, start_fract, data_out_read, we_n, addr_reg, data_reg, washer,
  screen,                            \* the SRAM
  stored, cut, lost

wires     == << clean_screen, start, sync >>
fifoVars  == << fifo_out, fifo_out_q >>
history   == << stored, cut, lost >>
loopVars  == << state, start_fract, data_out_read, we_n, addr_reg, data_reg, washer >>
vars == << wires, fifoVars, loopVars, screen, history >>

data_out_available == fifo_out # << >>

\* Where a word is drawn.
AddressOf(w) == IF w = Zero THEN Origin ELSE w
-----------------------------------------------------------------------------
\* A faulty Clean: the washer stops at the end of the memory.
CleanOnce ==
  /\ ~clean_screen
  /\ addr_reg' = washer % ADDRESSES
  /\ we_n' = FALSE
  /\ data_reg' = White
  /\ state' = "INIT"
  /\ washer' = IF washer < 2 * ADDRESSES - 1 THEN washer + 1 ELSE washer
  /\ UNCHANGED << start_fract, data_out_read >>

\* clean_screen: the washer walks through the memory, twice per turn.
Clean ==
  /\ ~clean_screen
  /\ addr_reg' = washer % ADDRESSES
  /\ we_n' = FALSE
  /\ data_reg' = White
  /\ state' = "INIT"
  /\ washer' = (washer + 1) % (2 * ADDRESSES)
  /\ UNCHANGED << start_fract, data_out_read >>

StInit ==
  /\ state = "INIT"
  /\ state' = IF start THEN "INIT" ELSE "START"
  /\ start_fract' = FALSE
  /\ UNCHANGED << data_out_read, we_n, addr_reg, data_reg >>

StStart ==
  /\ state = "START"
  /\ state' = "READ"
  /\ we_n' = TRUE
  /\ data_out_read' = FALSE
  /\ start_fract' = TRUE
  /\ UNCHANGED << addr_reg, data_reg >>

StRead ==
  /\ state = "READ"
  /\ state' = IF data_out_available THEN "WRITE_1" ELSE "READ"
  /\ data_out_read' = data_out_available
  /\ we_n' = TRUE
  /\ addr_reg' = 0
  /\ start_fract' = FALSE
  /\ UNCHANGED data_reg

\* A faulty StWrite1: the read request is not withdrawn.
StWrite1KeepReading ==
  /\ state = "WRITE_1"
  /\ state' = "READ"
  /\ addr_reg' = AddressOf(fifo_out_q)
  /\ data_reg' = fifo_out_q
  /\ we_n' = FALSE
  /\ UNCHANGED << start_fract, data_out_read >>

\* q still holds the word read before; the FIFO answers at this very edge.
StWrite1 ==
  /\ state = "WRITE_1"
  /\ state' = "READ"
  /\ addr_reg' = AddressOf(fifo_out_q)
  /\ data_reg' = fifo_out_q
  /\ data_out_read' = FALSE
  /\ we_n' = FALSE
  /\ UNCHANGED start_fract

Draw ==
  /\ clean_screen /\ sync
  /\ StInit \/ StStart \/ StRead \/ StWrite1
  /\ UNCHANGED washer

\* A faulty Show: the write of the last pixel is not ended.
ShowStillWriting ==
  /\ clean_screen /\ ~sync
  /\ addr_reg' \in Address
  /\ UNCHANGED << state, start_fract, data_out_read, we_n, data_reg, washer >>

\* The VGA module's cursor, anywhere on the screen, addresses the SRAM.
Show ==
  /\ clean_screen /\ ~sync
  /\ we_n' = TRUE
  /\ addr_reg' \in Address
  /\ UNCHANGED << state, start_fract, data_out_read, data_reg, washer >>

Loop == Clean \/ Draw \/ Show

\* The SRAM takes the word on its pins as long as we_n is low.
Sram ==
  screen' = IF we_n THEN screen ELSE [screen EXCEPT ![addr_reg] = data_reg]

\* The accelerator delivers any results.
FifoOut == \E wrreq \in BOOLEAN, w \in Point :
  /\ fifo_out' = NextWords(fifo_out, FIFO_OUT_WORDS, wrreq, w, data_out_read)
  /\ fifo_out_q' = NextQ(fifo_out, fifo_out_q, data_out_read)

pop     == data_out_read /\ data_out_available
storing == clean_screen /\ sync /\ state = "WRITE_1"

\* Cleaning the screen closes the account.
History ==
  /\ stored' = (~clean_screen \/ (~pop /\ (stored \/ storing)))
  /\ cut' = (cut \/ (state = "WRITE_1" /\ ~storing))
  /\ lost' = IF ~clean_screen THEN {}
             ELSE IF pop /\ ~stored /\ ~storing THEN lost \cup {fifo_out_q} ELSE lost

Wires == clean_screen' \in BOOLEAN /\ start' \in BOOLEAN /\ sync' \in BOOLEAN

Tick == Loop /\ Sram /\ FifoOut /\ History /\ Wires

Init ==
  /\ clean_screen = TRUE /\ start = TRUE /\ sync = FALSE
  /\ fifo_out = << >> /\ fifo_out_q = Zero
  /\ state = "INIT" /\ start_fract = FALSE /\ data_out_read = FALSE
  /\ we_n = FALSE /\ addr_reg = 0 /\ data_reg = Unknown /\ washer = 0
  /\ screen = [a \in Address |-> Unknown]
  /\ stored = TRUE /\ cut = FALSE /\ lost = {}

Spec == Init /\ [][Tick]_vars

\* The clock never stops.
FairSpec == Spec /\ WF_vars(Tick)
-----------------------------------------------------------------------------
\* Address and data reach the SRAM pins together, and the cursor never meets an
\* open write: a result is only ever drawn at its own place.
ScreenTrue == \A a \in Address :
  screen[a] \in {Unknown, White} \cup {w \in Word : AddressOf(w) = a}

\* The loop draws the word it read one result ago, but as long as it is never
\* stopped between asking for a word and storing it, every word is stored
\* before q changes.
LossOnlyByCut == lost # {} => cut

\* No result the accelerator delivers is lost on its way to the screen.  The
\* code does not do this: stopped in WRITE_1, it goes on reading.
NothingLost == lost = {}

\* Held low, clean_screen paints the whole memory, wherever the washer was left.
ScreenCleared == <>[]~clean_screen => <>(\A a \in Address : screen[a] = White)
=============================================================================
