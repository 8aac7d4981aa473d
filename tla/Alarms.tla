--------------------------------- MODULE Alarms ---------------------------------
(***************************************************************************)
(* The alarms of the HAL under the lab 2 NIOS program (alt_alarm_start.c,  *)
(* alt_tick.c, sys/alt_llist.h), on the interrupts they are protected      *)
(* with: a doubly linked list that the clock's interrupt routine walks     *)
(* while the program, other routines and the alarms' own callbacks start   *)
(* and stop alarms, and times that wrap with the tick counter.             *)
(*                                                                         *)
(* alt_tick runs in the interrupt routine of the system clock, whose       *)
(* driver keeps interrupts off while it does.  A callback starts alarms    *)
(* that are not armed, and stops none but its own and those the walk has   *)
(* been at: alt_tick would never leave an alarm it holds as the next one.  *)
(***************************************************************************)
EXTENDS Interrupts, FiniteSets

CONSTANTS
  Alarm, List,     \* alarm structures; alt_alarm_list, the head
  Timer,           \* interrupt of the system clock
  Wrap,            \* the tick counter holds 0 .. Wrap - 1       (2^32)
  Delays,          \* what alarms are started with
  Periods          \* what callbacks return to be called again

ASSUME AlarmsAssumption ==
  /\ List \notin Alarm /\ NoAlarm \notin Alarm \union {List}
  /\ Timer \in Irqs /\ Wrap \in Nat \ {0, 1, 2}
  /\ Delays \subseteq 0 .. Wrap - 2   \* Wrap - 1 would be called at the next tick
  /\ Periods \subseteq 1 .. Wrap - 1

VARIABLES
  alt_tick_rate,   \* there is a system clock
  alt_nticks,
  llist_next, llist_previous, time, rollover   \* fields of the alarms and of the head

ticker   == << alt_tick_rate, alt_nticks >>
links    == << llist_next, llist_previous >>
times    == << time, rollover >>
alarms   == << ticker, links, times >>
alarmVars     == << irqVars, alarms >>

----------------------------------------------------------------------------
(* The list.                                                               *)

\* The elements from n on, in the order of the list, up to its head.
From(n) ==
  LET step[k \in 0 .. Cardinality(Alarm)] ==
        IF k = 0 THEN n
        ELSE IF step[k - 1] \in Alarm THEN llist_next[step[k - 1]] ELSE List
  IN  {step[k] : k \in DOMAIN step} \intersect Alarm

Armed == From(llist_next[List])

\* alt_alarm_start sets the new element's pointers, then those around it.
JoinSelf ==
  /\ At("join")
  /\ llist_previous' = [llist_previous EXCEPT ![Running.id] = List]
  /\ llist_next'     = [llist_next EXCEPT ![Running.id] = llist_next[List]]
  /\ Go("joinList")
  /\ UNCHANGED << pie, lines, masks, alt_irq, ticker, times >>

JoinList ==
  /\ At("joinList")
  /\ llist_previous' = [llist_previous EXCEPT ![llist_next[List]] = Running.id]
  /\ llist_next'     = [llist_next EXCEPT ![List] = Running.id]
  /\ Go("leave")
  /\ UNCHANGED << pie, lines, masks, alt_irq, ticker, times >>

\* alt_alarm_stop closes the list around the element, which then points to itself
\* so that it can be removed again.
Unlink ==
  /\ At("unlink")
  /\ llist_previous' = [llist_previous EXCEPT
       ![llist_next[Running.id]] = llist_previous[Running.id]]
  /\ llist_next' = [llist_next EXCEPT
       ![llist_previous[Running.id]] = llist_next[Running.id]]
  /\ Go("unlinkSelf")
  /\ UNCHANGED << pie, lines, masks, alt_irq, ticker, times >>

UnlinkSelf ==
  /\ At("unlinkSelf")
  /\ llist_previous' = [llist_previous EXCEPT ![Running.id] = Running.id]
  /\ llist_next'     = [llist_next EXCEPT ![Running.id] = Running.id]
  /\ Go("leave")
  /\ UNCHANGED << pie, lines, masks, alt_irq, ticker, times >>

----------------------------------------------------------------------------
(* Starting and stopping an alarm.                                         *)

CanCall ==
  /\ ~Taken /\ Running.at \in {"ready", "isr", "open", "call"}
  /\ Running.at = "isr" => Running.irq # Timer

\* Without a system clock alt_alarm_start returns ENOTSUP and does nothing.
\* The callback of an alarm leaves starting it to its return value.
Start(a) ==
  /\ CanCall /\ alt_tick_rate
  /\ a \notin Armed /\ a # Running.alarm
  /\ CallAt("time", a)
  /\ UNCHANGED << lines, masks, alt_irq, alarms >>

\* The time is set against the counter, which stands still in the section.
SetTime(n) ==
  /\ At("time")
  /\ time' = [time EXCEPT ![Running.id] = (n + alt_nticks + 1) % Wrap]
  /\ rollover' = [rollover EXCEPT ![Running.id] = time'[Running.id] < alt_nticks]
  /\ Go("join")
  /\ UNCHANGED << pie, lines, masks, alt_irq, ticker, links >>

\* An alarm that was never started has no pointers to be removed by.
Stop(a) ==
  /\ CanCall /\ llist_next[a] # NoAlarm
  /\ Running.at = "call" => a # Running.next
  /\ CallAt("unlink", a)
  /\ UNCHANGED << lines, masks, alt_irq, alarms >>

\* alt_sysclk_init, by the clock's driver.
SysclkInit ==
  /\ At("ready") /\ ~alt_tick_rate
  /\ alt_tick_rate' = TRUE
  /\ UNCHANGED << irqVars, alt_nticks, links, times >>

----------------------------------------------------------------------------
(* alt_tick.                                                               *)

Tick ==
  /\ At("isr") /\ Running.irq = Timer
  /\ alt_nticks' = (alt_nticks + 1) % Wrap
  /\ stack' = [stack EXCEPT ![1].at = "walk", ![1].alarm = llist_next[List]]
  /\ UNCHANGED << pie, lines, masks, alt_irq, alt_tick_rate, links, times >>

\* Faulty form: the flag is cleared by the tick before.
StillRolledEarly(a) == rollover[a] /\ alt_nticks # Wrap - 1

\* The flag of an alarm set for after the wrap is cleared when the counter wraps.
StillRolled(a) == rollover[a] /\ alt_nticks # 0

\* One alarm of the list: it is due or passed over.
Visit ==
  /\ At("walk") /\ Running.alarm # List
  /\ LET a == Running.alarm IN
       /\ rollover' = [rollover EXCEPT ![a] = StillRolled(a)]
       /\ stack' = [stack EXCEPT
            ![1].next = llist_next[a],
            ![1].at = IF time[a] <= alt_nticks /\ ~StillRolled(a) THEN "call" ELSE "step"]
  /\ UNCHANGED << pie, lines, masks, alt_irq, ticker, links, time >>

\* The callback returns 0: the alarm is stopped.
Expire ==
  /\ At("call") \/ At("called")
  /\ pie' = FALSE
  /\ stack' = [stack EXCEPT ![1].ret = "remove", ![1].at = "unlink",
                            ![1].id = Running.alarm, ![1].ctx = << pie >>]
  /\ UNCHANGED << lines, masks, alt_irq, alarms >>

\* It returns the ticks to its next call.
Again(n) ==
  /\ At("call") \/ At("called")
  /\ LET a == Running.alarm IN
       /\ time' = [time EXCEPT ![a] = (@ + n) % Wrap]
       /\ rollover' = [rollover EXCEPT ![a] = @ \/ time'[a] < alt_nticks]
  /\ Go("step")
  /\ UNCHANGED << pie, lines, masks, alt_irq, ticker, links >>

\* On to the alarm that was next before the callback.
Step ==
  /\ At("step")
  /\ stack' = [stack EXCEPT ![1].at = "walk", ![1].alarm = Running.next, ![1].next = NoAlarm]
  /\ UNCHANGED << pie, lines, masks, alt_irq, alarms >>

EndTick ==
  /\ At("walk") /\ Running.alarm = List
  /\ stack' = [stack EXCEPT ![1].at = "served", ![1].alarm = NoAlarm]
  /\ UNCHANGED << pie, lines, masks, alt_irq, alarms >>

----------------------------------------------------------------------------
AlarmsInit ==
  /\ InterruptsInit
  /\ alt_tick_rate = FALSE /\ alt_nticks = 0
  /\ llist_next     = [e \in Alarm \union {List} |-> IF e = List THEN List ELSE NoAlarm]
  /\ llist_previous = llist_next
  /\ time = [a \in Alarm |-> 0] /\ rollover = [a \in Alarm |-> FALSE]

\* What runs chooses to do next, where it has a choice.
Choose ==
  \/ \E i \in Irqs, on \in BOOLEAN :
       (SwitchIrq(i, on) \/ Register(i, on)) /\ UNCHANGED alarms
  \/ Running.irq # Timer /\ (Interruptible \/ QuietRoutine) /\ UNCHANGED alarms
  \/ \E a \in Alarm : Start(a) \/ Stop(a)
  \/ SysclkInit

\* It goes on with what it has to do.
Proceed ==
  \/ /\ \/ Leave \/ SetActive \/ WriteEnable \/ RegisterSwitch
        \/ Interrupt \/ Serve \/ Served \/ EndInterrupt \/ NonInterruptible
     /\ UNCHANGED alarms
  \/ JoinSelf \/ JoinList \/ Unlink \/ UnlinkSelf
  \/ \E n \in Delays : SetTime(n)
  \/ \E n \in Periods : Again(n)
  \/ Tick \/ Visit \/ Expire \/ Step \/ EndTick

Device == \E i \in Irqs : Ask(i) /\ UNCHANGED alarms

AlarmsNext == Choose \/ Proceed \/ Device

\* The processor executes instructions; the device routine ends.  Nothing says
\* that a device asks or that the program calls anything.
Fairness == WF_alarmVars(Proceed) /\ WF_alarmVars(QuietRoutine /\ UNCHANGED alarms)

AlarmsSpec == AlarmsInit /\ [][AlarmsNext]_alarmVars /\ Fairness

----------------------------------------------------------------------------
(* As an AlarmClock: the frames that walk the list, and what they hold.    *)

Walks == {stack[k] : k \in {j \in 1 .. Len(stack) :
            stack[j].irq = Timer /\ stack[j].at \notin {"isr", "served"}}}

\* The frame still has to look at these.
Ahead(f) == From(IF f.at = "walk" THEN f.alarm ELSE f.next)

\* The callback of the frame's alarm has not returned, or not been obeyed yet.
InCallback(f) ==
  \/ f.at \notin {"walk", "step"} /\ f.ret = "call"
  \/ f.at = "call"
  \/ f.at = "unlink" /\ f.ret = "remove" /\ f.alarm \in Armed

left == [a \in Alarm |-> IF a \in Armed THEN (time[a] - alt_nticks) % Wrap ELSE Wrap]
ringing == {a \in UNION {Ahead(f) : f \in Walks} : time[a] = alt_nticks}
serving == LET s == {f.alarm : f \in {g \in Walks : InCallback(g)}}
           IN  IF s = {} THEN NoAlarm ELSE CHOOSE a \in s : TRUE

Clock == INSTANCE AlarmClock WITH Longest <- Wrap - 1, None <- NoAlarm, Off <- Wrap

\* Alarms are called at the tick they were set for and at no other, through
\* wraps of the tick counter, and starting or stopping an alarm, in the middle
\* of a walk or of another routine, costs no other alarm its place in the list
\* (alt_tick.c, alt_alarm_start.c).  Known exceptions: a callback that stops the
\* alarm its own walk holds as the next one (Stop), and a first delay one short
\* of the wrap (AlarmsAssumption).
CalledOnTime == Clock!Spec

\* A clock tick that the processor lets through is served: no section is left
\* with interrupts off, and a walk ends although alarms are started, stopped and
\* put back around it.  Known exception: when a callback stops the alarm its own
\* walk holds as the next one, that alarm points to itself and alt_tick goes
\* round it for ever (alt_tick.c, lines 102 and 140); Stop leaves that call out.
TickServed ==
  (Timer \in lines \intersect ienable) ~> (Timer \notin lines \intersect ienable)
=============================================================================
