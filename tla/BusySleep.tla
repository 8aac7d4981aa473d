--------------------------------- MODULE BusySleep ---------------------------------
(***************************************************************************)
(* The calibrated delay of the lab 2 program (alt_usleep.c,                *)
(* alt_busy_sleep.c): rounds of a loop that counts a register down, the    *)
(* longest there is while the time asked for is longer than one, then one  *)
(* for the rest.                                                           *)
(***************************************************************************)
EXTENDS Integers

CONSTANTS
  INT_MAX,         \* the longest count; an unsigned int holds 0 .. 2 * INT_MAX + 1
  CpuMHz,          \* cycles of the processor in a microsecond            (50)
  cycles_per_loop  \* cycles of one pass of a loop                    (3 or 9)

\* Passes in a microsecond, rounded down.
Loops == CpuMHz \div cycles_per_loop

ASSUME BusySleepAssumption ==
  /\ INT_MAX \in Nat /\ CpuMHz \in Nat /\ cycles_per_loop \in Nat \ {0}
  /\ Loops \in 1 .. INT_MAX

VARIABLES
  sleeping,      \* how far the call is
  asked, us,     \* microseconds: of the call, and left
  big_loops, i,
  passes         \* passes of all its loops

sleepVars == << sleeping, asked, us, big_loops, i, passes >>

\* Microseconds of the longest count.
Longest == INT_MAX \div Loops

\* Counted down to zero; a count of zero wraps.
DownToZero(count) == IF count = 0 THEN 2 * INT_MAX + 2 ELSE count

\* Counted down while above zero, at least once.
WhileAbove(count) == IF count <= 0 THEN 1 ELSE count

Usleep(t) ==
  /\ sleeping = "no"
  /\ asked' = t /\ us' = t /\ i' = 0 /\ passes' = 0
  /\ big_loops' = t \div Longest
  /\ sleeping' = IF big_loops' # 0 THEN "big_loops" ELSE "rest"

\* Faulty form: what has passed is not subtracted.
BigLoopAgain ==
  /\ sleeping = "big_loops" /\ i < big_loops
  /\ passes' = passes + INT_MAX
  /\ i' = i + 1
  /\ UNCHANGED << sleeping, asked, us, big_loops >>

BigLoop ==
  /\ sleeping = "big_loops" /\ i < big_loops
  /\ passes' = passes + INT_MAX
  /\ us' = us - Longest /\ i' = i + 1
  /\ UNCHANGED << sleeping, asked, big_loops >>

LastLoop ==
  /\ \/ sleeping = "big_loops" /\ i = big_loops
        /\ passes' = passes + DownToZero(us * Loops)
     \/ sleeping = "rest" /\ passes' = passes + WhileAbove(us * Loops)
  /\ sleeping' = "done"
  /\ UNCHANGED << asked, us, big_loops, i >>

Return0 ==
  /\ sleeping = "done" /\ sleeping' = "no"
  /\ UNCHANGED << asked, us, big_loops, i, passes >>

SleepInit ==
  sleeping = "no" /\ asked = 0 /\ us = 0 /\ big_loops = 0 /\ i = 0 /\ passes = 0

SleepNext ==
  BigLoop \/ LastLoop \/ Return0 \/ \E t \in 0 .. 2 * INT_MAX + 1 : Usleep(t)

----------------------------------------------------------------------------
\* A sleep takes the cycles of the time asked for, less those a microsecond has
\* beyond a whole number of passes (2 of 50 in the code, 4 percent), and at most a
\* microsecond more for every full count, whatever was asked.  Known exception:
\* where the rounds leave nothing, the last count wraps, and the sleep is longer by
\* the 2^32 passes (alt_busy_sleep.c, line 107).
SleepsAsAsked ==
  sleeping = "done" =>
    LET cycles == passes * cycles_per_loop
    IN  /\ cycles >= asked * (CpuMHz - (CpuMHz % cycles_per_loop))
        /\ \/ cycles <= (asked + big_loops) * CpuMHz + cycles_per_loop
           \/ big_loops > 0 /\ asked % Longest = 0
=============================================================================
