--------------------------------- MODULE TimeOfDay ---------------------------------
(***************************************************************************)
(* The time of day under the lab 2 program (alt_gettod.c, alt_settod.c,    *)
(* alt_times.c): a count of ticks since the start, and the time the start  *)
(* must have been at for the time that was set to be right.                *)
(***************************************************************************)
EXTENDS Integers

CONSTANTS
  US,           \* microseconds in a second                     (ALT_US)
  Rates,        \* ticks per second of the system clock
  Width32,      \* bound: an alt_u32 holds 0 .. Width32 - 1       (2^32)
  MaxTicks,     \* bound: the tick counter does not wrap
  TimesSet      \* what the time is set to

ASSUME TimeOfDayAssumption ==
  /\ US \in Nat \ {0} /\ Width32 \in Nat \ {0} /\ MaxTicks \in 0 .. Width32 - 1
  /\ \A rate \in Rates : rate \in 1 .. US /\ US % rate = 0
  /\ \A t \in TimesSet : t.tv_sec \in Nat /\ t.tv_usec \in 0 .. US - 1

VARIABLES
  tick_rate, nticks,
  alt_resettime,
  set           \* the time last set, and at which tick

clockVars == << tick_rate, nticks, alt_resettime, set >>

Time(sec, usec) == [tv_sec |-> sec, tv_usec |-> usec]

\* Microseconds into the second, of the start; the product is one of 64 bits when
\* the time is read, but one of 32 bits when it is set.
Fraction(ticks)   == (ticks * (US \div tick_rate)) % US
Fraction32(ticks) == ((ticks * (US \div tick_rate)) % Width32) % US

\* The microseconds are brought back into one second.
Normal(t) ==
  CASE t.tv_usec < 0 /\ t.tv_sec <= 0 -> Time(0, 0)
    [] t.tv_usec < 0 /\ t.tv_sec > 0  -> Time(t.tv_sec - 1, t.tv_usec + US)
    [] t.tv_usec >= US                -> Time(t.tv_sec + 1, t.tv_usec - US)
    [] OTHER                          -> t

\* What gettimeofday returns, with a system clock.
GetTimeOfDay ==
  Normal(Time(alt_resettime.tv_sec + nticks \div tick_rate,
              alt_resettime.tv_usec + Fraction(nticks)))

\* What times returns.
Times == IF tick_rate = 0 THEN 0 ELSE nticks

\* Faulty form: the time is set to the second.
SetTimeOfDayRough(t) ==
  /\ tick_rate # 0
  /\ alt_resettime' = Time(t.tv_sec - nticks \div tick_rate, t.tv_usec)
  /\ set' = [time |-> t, at |-> Times]
  /\ UNCHANGED << tick_rate, nticks >>

\* settimeofday; without a clock it fails and changes nothing.
SetTimeOfDay(t) ==
  /\ tick_rate # 0
  /\ alt_resettime' = Time(t.tv_sec - nticks \div tick_rate,
                           t.tv_usec - Fraction32(nticks))
  /\ set' = [time |-> t, at |-> Times]
  /\ UNCHANGED << tick_rate, nticks >>

\* alt_sysclk_init, and alt_tick.
ClockStarts(rate) ==
  /\ tick_rate = 0 /\ tick_rate' = rate
  /\ UNCHANGED << nticks, alt_resettime, set >>

ClockTicks ==
  /\ tick_rate # 0 /\ nticks < MaxTicks /\ nticks' = nticks + 1
  /\ UNCHANGED << tick_rate, alt_resettime, set >>

TimeInit ==
  /\ tick_rate = 0 /\ nticks = 0
  /\ alt_resettime = Time(0, 0) /\ set = [time |-> Time(0, 0), at |-> 0]

TimeNext ==
  ClockTicks \/ \E t \in TimesSet : SetTimeOfDay(t) \/ \E rate \in Rates : ClockStarts(rate)

----------------------------------------------------------------------------
Micros(t) == t.tv_sec * US + t.tv_usec

\* The time reads as it was set, and then goes on with the ticks, however often
\* and wherever in a second it is set, back or forth.  Known exception: where the
\* 32-bit product of the ticks has wrapped when the time is set, 71 minutes
\* after the start, it reads wrong (alt_settod.c, lines 81-84).
ReadsAsSet ==
  tick_rate # 0 /\ set.at * (US \div tick_rate) < Width32 =>
    LET now == Micros(set.time) + (Times - set.at) * (US \div tick_rate)
    IN  GetTimeOfDay = Time(now \div US, now % US)
=============================================================================
