------------------------------- MODULE Lab2Programs -------------------------------
(***************************************************************************)
(* The lab 2 board under each kind of program: the one in the repository,  *)
(* which draws into the frame memory itself and drives the DDA solver      *)
(* (Springs), or an application that uses what the board support package   *)
(* brings along and starts: its video drivers (VideoDrivers), its memory   *)
(* (Heap), its time of day (TimeOfDay), its delay (BusySleep), or its       *)
(* loader and caches (Caches).                                             *)
(* These share no state.                                                   *)
(***************************************************************************)
EXTENDS Springs, VideoDrivers, Heap, TimeOfDay, BusySleep, Caches

VARIABLE running   \* which of the six it is

programs ==
  << running, springsVars, videoVars, heapVars, clockVars, sleepVars,
     cacheVars >>

\* Only what runs is varied.  Versions of the program differ in nothing but their
\* numbers, so any may be the first.
Init ==
  /\ SpringsInit /\ VideoInit /\ HeapInit /\ TimeInit /\ SleepInit /\ CachesInit
  /\ running \in {"springs", "drawing", "memory", "clock", "sleeping", "loading"}
  /\ version = Min(Versions)
  /\ running # "drawing" =>
       color_mode = Min(ColorModes) /\ xy_mode /\ shown = Min(Buffers) /\ back = Max(Buffers)
  /\ running # "memory"  => ~stack_check /\ sp = Max(StackPointers)
  /\ running # "loading" => flushda

Springs(A) ==
  /\ running = "springs" /\ A
  /\ UNCHANGED << running, videoVars, heapVars, clockVars, sleepVars, cacheVars >>

Drawing(A) ==
  /\ running = "drawing" /\ A
  /\ UNCHANGED << running, springsVars, heapVars, clockVars, sleepVars, cacheVars >>

Memory(A) ==
  /\ running = "memory" /\ A
  /\ UNCHANGED << running, springsVars, videoVars, clockVars, sleepVars, cacheVars >>

TheTime(A) ==
  /\ running = "clock" /\ A
  /\ UNCHANGED << running, springsVars, videoVars, heapVars, sleepVars, cacheVars >>

Sleeping(A) ==
  /\ running = "sleeping" /\ A
  /\ UNCHANGED << running, springsVars, videoVars, heapVars, clockVars, cacheVars >>

Loading(A) ==
  /\ running = "loading" /\ A
  /\ UNCHANGED << running, springsVars, videoVars, heapVars, clockVars, sleepVars >>

Next ==
  \/ Springs(SpringsNext)
  \/ Drawing(VideoNext) \/ Memory(HeapNext) \/ TheTime(TimeNext) \/ Sleeping(SleepNext)
  \/ Loading(CachesNext)

\* The hardware's clock ticks, and a program that is left alone gets through its
\* start-up code.
Fairness == WF_programs(Springs(HardwareClock)) /\ WF_programs(Springs(Send))

Spec == Init /\ [][Next]_programs /\ Fairness

----------------------------------------------------------------------------
\* Once no other program is loaded, the last one gets the solver to run for ever
\* with its parameters, all of them and those of its version, also when the solver
\* was running with others or the program before was stopped in the middle of
\* sending (init_dda, lines 158-171).
RunsAsTold ==
  running = "springs" => <>[](dda = "ST_compute" /\ run = [p \in Param |-> version])
=============================================================================
