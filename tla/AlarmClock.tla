------------------------------- MODULE AlarmClock -------------------------------
(***************************************************************************)
(* What the alarms of the HAL promise: an alarm that is started, or that   *)
(* its callback keeps, is called at exactly the tick it was set for, never *)
(* earlier and never later; one that is stopped is not called.  Time is    *)
(* the number of ticks left to each alarm: there is no counter to wrap.    *)
(***************************************************************************)
EXTENDS Integers

CONSTANTS Alarm, Longest, None, Off

VARIABLES
  left,      \* ticks to go, or Off
  ringing,   \* due at this tick and not called yet
  serving    \* whose callback is running, or None

clock == << left, ringing, serving >>

Init == left = [a \in Alarm |-> Off] /\ ringing = {} /\ serving = None

Start(a, n) ==
  /\ left[a] = Off /\ left' = [left EXCEPT ![a] = n]
  /\ UNCHANGED << ringing, serving >>

Stop(a) ==
  /\ left' = [left EXCEPT ![a] = Off] /\ ringing' = ringing \ {a}
  /\ UNCHANGED serving

Tick ==
  /\ ringing = {} /\ serving = None
  /\ left' = [a \in Alarm |-> IF left[a] = Off THEN Off ELSE left[a] - 1]
  /\ ringing' = {a \in Alarm : left[a] = 1}
  /\ UNCHANGED serving

Call(a) ==
  /\ serving = None /\ a \in ringing
  /\ serving' = a /\ ringing' = ringing \ {a}
  /\ UNCHANGED left

\* The callback returns: the alarm is off, or set again if it was not stopped.
Return(a) ==
  /\ serving = a /\ serving' = None
  /\ \/ left' = [left EXCEPT ![a] = Off]
     \/ left[a] # Off /\ \E n \in 1 .. Longest : left' = [left EXCEPT ![a] = n]
  /\ UNCHANGED ringing

Next ==
  \/ Tick
  \/ \E a \in Alarm :
       Call(a) \/ Return(a) \/ Stop(a) \/ \E n \in 1 .. Longest : Start(a, n)

Spec == Init /\ [][Next]_clock
=============================================================================
