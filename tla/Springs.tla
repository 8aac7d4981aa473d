--------------------------------- MODULE Springs ---------------------------------
(***************************************************************************)
(* Lab 2: the NIOS program that starts the DDA solver and draws its two    *)
(* masses and three springs (count_binary.c), with the hardware that hears *)
(* it (top_dda.v) and the solver's control (dda.v).                        *)
(*                                                                         *)
(* The program tells the hardware its parameters one word at a time through *)
(* a parallel port; the port holds a word for at least one clock and the   *)
(* hardware looks at it at every clock.  The program can be loaded and run *)
(* again, with other parameters, while the hardware runs on.  What it      *)
(* draws stays in the frame memory until something is drawn over it.       *)
(***************************************************************************)
EXTENDS VgaDrawing, Sequences

CONSTANTS
  Params,        \* k1, k2, km, x1, v1, x2, v2, in the order they are sent
  Versions,      \* versions of the program: their values of the parameters
  Positions,     \* columns the masses are read at                (0 .. 642)
  Rows,          \* of the frame memory
  Leftovers,     \* bound: colours a memory may be full of before the scene
  Scene,         \* boxes drawn first: their corners and colour
  BlockHalf, BlockTop, BlockBottom,   \* a mass                 (10, 200, 280)
  LeftEnd, RightEnd, MeanRow, Height, \* the springs      (150, 489, 240, 100)
  Boot,          \* clocks from loading the program to its first word, at least
  MaxRuns        \* bound: times the program is run

ASSUME SpringsAssumption ==
  /\ RowWords \in Nat \ {0} /\ Positions \subseteq Nat /\ BlockHalf \in Nat
  /\ Boot \in Nat /\ MaxRuns \in Nat
  /\ Params \in Seq(STRING \ {"start", "none"})

VARIABLES
  version, runs, boot,      \* the program that runs; clocks until it does
  pc, sent,                 \* where it is; words sent
  x1, x2, x1_old, x2_old,   \* its variables
  vram,                     \* the frame memory, by offset
  pio, held,                \* word on the port; a clock has seen it
  start_nios, init,         \* registers the words are taken into
  state, restart_dda, loaded,  \* top_dda's start-up machine
  dda, run                  \* the solver's state; the parameters it runs with

program == << version, runs, boot, pc, sent, x1, x2, x1_old, x2_old >>
port    == << pio, held >>
starter == << start_nios, init, state, restart_dda, loaded >>
solver  == << dda, run >>
springsVars == << program, vram, port, starter, solver >>

Param == {Params[k] : k \in DOMAIN Params}
None  == [p \in Param |-> 0]

----------------------------------------------------------------------------
(* init_dda: what is sent, in this order.                                  *)

Word(to, value) == [to |-> to, value |-> value]
StartWord(on) == Word("start", on)

\* Faulty form: the start is never taken back.
InitWordsOn(v) ==
  << StartWord(FALSE) >> \o [k \in DOMAIN Params |-> Word(Params[k], v)]
    \o << StartWord(TRUE), StartWord(TRUE) >>

\* Faulty form: the start is sent before the last parameter.
InitWordsEarly(v) ==
  LET last == Len(Params) IN
  << StartWord(FALSE) >> \o [k \in 1 .. last - 1 |-> Word(Params[k], v)]
    \o << StartWord(TRUE), StartWord(TRUE), Word(Params[last], v), StartWord(FALSE) >>

InitWords(v) ==
  << StartWord(FALSE) >> \o [k \in DOMAIN Params |-> Word(Params[k], v)]
    \o << StartWord(TRUE), StartWord(TRUE), StartWord(FALSE) >>

\* The processor writes no faster than a word a clock.
Send ==
  /\ pc = "init_dda" /\ boot = 0 /\ held
  /\ IF sent < Len(InitWords(version))
       THEN /\ pio' = InitWords(version)[sent + 1] /\ held' = FALSE
            /\ sent' = sent + 1 /\ pc' = pc
       ELSE pc' = "scene" /\ sent' = 0 /\ UNCHANGED port
  /\ UNCHANGED << version, runs, boot, x1, x2, x1_old, x2_old, vram, starter, solver >>

----------------------------------------------------------------------------
(* main: the scene, then for ever a look at the masses and their drawing.  *)

\* Boxes and lines drawn one after the other, each over what is there.
Paint(steps) ==
  \E words \in {{<< k, Offsets(steps[k].points) >> : k \in DOMAIN steps}} :
    vram' = [o \in DOMAIN vram |->
      LET over == {w[1] : w \in {v \in words : o \in v[2]}}
      IN  IF over = {} THEN vram[o] ELSE steps[Max(over)].color]

In(color, points) == [points |-> points, color |-> color]

Box(x, y) == VGA_box(x - BlockHalf, BlockTop, y + BlockHalf, BlockBottom)
Spring(x, y) == draw_springs(x, y, MeanRow, Height)

DrawScene ==
  /\ pc = "scene" /\ pc' = "first"
  /\ Paint([k \in DOMAIN Scene |->
       In(Scene[k].color, VGA_box(Scene[k].x1, Scene[k].y1, Scene[k].x2, Scene[k].y2))])
  /\ UNCHANGED << version, runs, boot, sent, x1, x2, x1_old, x2_old, port, starter, solver >>

\* The first look is taken before the loop.
FirstPositions(a, b) ==
  /\ pc = "first" /\ pc' = "loop"
  /\ x1' = a /\ x2' = b
  /\ UNCHANGED << version, runs, boot, sent, x1_old, x2_old, vram, port, starter, solver >>

ReadPositions(a, b) ==
  /\ pc = "loop" /\ pc' = "draw"
  /\ x1_old' = x1 /\ x2_old' = x2 /\ x1' = a /\ x2' = b
  /\ UNCHANGED << version, runs, boot, sent, vram, port, starter, solver >>

\* What a mass leaves when it moves is wiped; where it stays is not touched.
\* Faulty form: a mass that moves left leaves its right edge.
LeftBehindShort(old, new) ==
  IF new > old
    THEN VGA_box(old - BlockHalf, BlockTop, new - BlockHalf, BlockBottom)
    ELSE IF new < old
           THEN VGA_box(new + BlockHalf, BlockTop, old, BlockBottom)
           ELSE {}

LeftBehind(old, new) ==
  IF new > old
    THEN VGA_box(old - BlockHalf, BlockTop, new - BlockHalf, BlockBottom)
    ELSE IF new < old
           THEN VGA_box(new + BlockHalf, BlockTop, old + BlockHalf, BlockBottom)
           ELSE {}

Picture == <<
  In("blue",   LeftBehind(x1_old, x1)),
  In("yellow", Box(x1, x1)),
  In("blue",   LeftBehind(x2_old, x2)),
  In("red",    Box(x2, x2)),
  In("blue",   Spring(LeftEnd, x1_old - BlockHalf)),
  In("white",  Spring(LeftEnd, x1 - BlockHalf)),
  In("blue",   Spring(x1_old + BlockHalf, x2_old - BlockHalf)),
  In("white",  Spring(x1 + BlockHalf, x2 - BlockHalf)),
  In("blue",   Spring(x2_old + BlockHalf, RightEnd)),
  In("white",  Spring(x2 + BlockHalf, RightEnd)) >>

\* usleep follows.
Draw ==
  /\ pc = "draw" /\ pc' = "loop"
  /\ Paint(Picture)
  /\ UNCHANGED << version, runs, boot, sent, x1, x2, x1_old, x2_old, port, starter, solver >>

\* What the memory holds when a program starts: whatever was there at power-up or
\* an earlier program left.
Found == {[o \in 0 .. Rows * RowWords - 1 |-> c] : c \in Leftovers}

\* Another version of the program is loaded and run.
Rerun(v) ==
  /\ runs < MaxRuns
  /\ version' = v /\ runs' = runs + 1 /\ boot' = Boot
  /\ pc' = "init_dda" /\ sent' = 0
  /\ x1' = 0 /\ x2' = 0 /\ x1_old' = 0 /\ x2_old' = 0
  /\ vram' \in Found
  /\ UNCHANGED << port, starter, solver >>

----------------------------------------------------------------------------
(* The hardware: one clock.                                                *)

TakeWord ==
  /\ start_nios' = IF pio.to = "start" THEN pio.value ELSE start_nios
  /\ init' = [p \in Param |-> IF pio.to = p THEN pio.value ELSE init[p]]

\* top_dda waits for a start, loads the parameters and restarts the solver until
\* the start ends.  A start that comes later sends it back to wait for it.
StartUp ==
  \/ /\ state = "ST_RESET" /\ state' = "ST_WAIT_RESTART_DDA"
     /\ loaded' = None /\ UNCHANGED restart_dda
  \/ /\ state = "ST_WAIT_RESTART_DDA"
     /\ IF start_nios
          THEN state' = "ST_WAIT_RESTART_LOW" /\ restart_dda' = TRUE /\ loaded' = init
          ELSE UNCHANGED << state, restart_dda, loaded >>
  \/ /\ state = "ST_WAIT_RESTART_LOW"
     /\ IF start_nios THEN UNCHANGED << state, restart_dda >>
                      ELSE state' = "ST_LOOP" /\ restart_dda' = FALSE
     /\ UNCHANGED loaded
  \/ /\ state = "ST_LOOP"
     /\ state' = IF start_nios THEN "ST_WAIT_RESTART_DDA" ELSE state
     /\ restart_dda' = start_nios
     /\ UNCHANGED loaded

\* The solver: it takes the parameters when restarted and computes once the
\* restart is over.
Solve ==
  \/ dda = "ST_reset" /\ dda' = "ST_restart" /\ run' = None
  \/ /\ dda = "ST_restart"
     /\ IF restart_dda THEN dda' = "ST_wait_start_low" /\ run' = loaded
                       ELSE UNCHANGED solver
  \/ /\ dda = "ST_wait_start_low"
     /\ dda' = IF restart_dda THEN dda ELSE "ST_compute"
     /\ UNCHANGED run
  \/ /\ dda = "ST_compute"
     /\ dda' = IF restart_dda THEN "ST_restart" ELSE dda
     /\ UNCHANGED run

HardwareClock ==
  /\ TakeWord /\ StartUp /\ Solve
  /\ held' = TRUE /\ boot' = IF boot > 0 THEN boot - 1 ELSE 0
  /\ UNCHANGED << version, runs, pc, sent, x1, x2, x1_old, x2_old, vram, pio >>

----------------------------------------------------------------------------
SpringsInit ==
  /\ version \in Versions /\ runs = 1 /\ boot = Boot
  /\ pc = "init_dda" /\ sent = 0
  /\ x1 = 0 /\ x2 = 0 /\ x1_old = 0 /\ x2_old = 0
  /\ vram \in Found
  /\ pio = Word("none", 0) /\ held = TRUE
  /\ start_nios = FALSE /\ init = None
  /\ state = "ST_RESET" /\ restart_dda = FALSE /\ loaded = None
  /\ dda = "ST_reset" /\ run = None

DrawProgram ==
  DrawScene \/ Draw \/ \E a, b \in Positions : FirstPositions(a, b) \/ ReadPositions(a, b)

SpringsNext == Send \/ DrawProgram \/ HardwareClock \/ \E v \in Versions : Rerun(v)

SpringsSpec == SpringsInit /\ [][SpringsNext]_springsVars

----------------------------------------------------------------------------
\* The screen is what the first box of the scene covers: the rows of the memory
\* are longer.
Screen == Offsets(VGA_box(Scene[1].x1, Scene[1].y1, Scene[1].x2, Scene[1].y2))

\* Between two pictures nothing of an earlier one is left on the screen: each
\* colour of the masses and springs is only where the masses and springs now
\* are, although a picture wipes no more than what it knows has changed, masses
\* overlap, cross walls and leave the screen, and the program is stopped in the
\* middle of a picture and run again (main, lines 57-99).
NoGhosts ==
  pc = "loop" =>
    LET springs == Spring(LeftEnd, x1 - BlockHalf) \union Spring(x1 + BlockHalf, x2 - BlockHalf)
                     \union Spring(x2 + BlockHalf, RightEnd)
        now == [yellow |-> Offsets(Box(x1, x1)), red |-> Offsets(Box(x2, x2)),
                white  |-> Offsets(springs)]
    IN  \A o \in Screen : vram[o] \in DOMAIN now => o \in now[vram[o]]

\* The solver never computes with the parameters of two versions mixed, whenever
\* the program is loaded and run again (init_dda, lines 158-171).
RunsOneVersion ==
  dda = "ST_compute" => \E v \in Versions : run = [p \in Param |-> v]
=============================================================================
