------------------------------- MODULE Interrupts -------------------------------
(***************************************************************************)
(* Interrupts of the NIOS processor as the HAL under the lab 2 program     *)
(* handles them: switching all of them off and on (sys/alt_irq.h), one of  *)
(* them (priv/alt_legacy_irq.h), registering a handler                     *)
(* (alt_iic_isr_register.c), and the handler that serves what is pending   *)
(* (alt_irq_handler.c), with routines that let others interrupt them.      *)
(*                                                                         *)
(* What runs is a stack of frames, the running one first, the program's    *)
(* own last.  A frame is at a label; an operation it calls goes through    *)
(* labels of its own and comes back to the label in ret.  Registers are    *)
(* written one at a time.  A device may ask for an interrupt at any moment *)
(* and the processor takes one before its next instruction.                *)
(***************************************************************************)
EXTENDS Integers, Sequences, FiniteSetsExt

CONSTANTS
  Irqs,        \* interrupt numbers, the lowest the most urgent   (32)
  NoAlarm      \* what a frame that walks no list holds

ASSUME InterruptsAssumption == Irqs \subseteq Nat

Main == -1       \* the irq of a frame that serves none

VARIABLES
  pie,                 \* status.PIE: interrupts are on
  ienable,             \* which the processor lets through
  lines,               \* which the devices ask for
  alt_irq_active, alt_priority_mask,
  alt_irq,             \* those a handler is registered for
  stack                \* frames, the running one first

masks   == << ienable, alt_irq_active, alt_priority_mask >>
irqVars == << pie, lines, masks, alt_irq, stack >>

\* ctx: status words saved by the sections the frame is in; mask: what
\* alt_irq_interruptible returned; alarm, next: see Alarms.
Frame(irq, at) ==
  [irq |-> irq, at |-> at, ret |-> at, ctx |-> << >>, id |-> Main, mask |-> {},
   alarm |-> NoAlarm, next |-> NoAlarm]

Running == stack[1]
Pending == lines \intersect ienable
\* The processor is about to take an interrupt.
Taken == pie /\ Pending # {}
At(label) == ~Taken /\ Running.at = label

Go(label) == stack' = [stack EXCEPT ![1].at = label]

----------------------------------------------------------------------------
(* alt_irq_disable_all and alt_irq_enable_all.  They nest: the section     *)
(* ends by putting back the status it found.                               *)

\* A call of an operation starts its section: disable, then go to its first label.
CallAt(label, id) ==
  /\ pie' = FALSE
  /\ stack' = [stack EXCEPT ![1].ret = Running.at, ![1].at = label, ![1].id = id,
                            ![1].ctx = << pie >>]

\* Where a caller goes on when the operation it called is done.
After == [ready |-> "ready", isr |-> "served", open |-> "opened",
          call |-> "called", remove |-> "step"]

\* Faulty form: interrupts are not switched on again.
LeaveOff ==
  /\ At("leave")
  /\ pie' = pie
  /\ stack' = [stack EXCEPT
       ![1].at  = IF Len(Running.ctx) = 1 THEN After[Running.ret] ELSE "leave",
       ![1].ctx = Tail(@), ![1].id = Main]
  /\ UNCHANGED << lines, masks, alt_irq >>

Leave ==
  /\ At("leave")
  /\ pie' = Head(Running.ctx)
  /\ stack' = [stack EXCEPT
       ![1].at  = IF Len(Running.ctx) = 1 THEN After[Running.ret] ELSE "leave",
       ![1].ctx = Tail(@), ![1].id = Main]
  /\ UNCHANGED << lines, masks, alt_irq >>

----------------------------------------------------------------------------
(* One interrupt: alt_irq_enable, alt_irq_disable.                         *)

\* Who calls them here: the program switches interrupts it has a handler for, or
\* off; a routine switches its own, and only while no routine is interruptible.
\* The code asks nothing of the caller, but both calls write the register
\* without alt_priority_mask.
MaySwitch(id, on) ==
  \/ Running.at = "ready" /\ (on => id \in alt_irq)
  \/ Running.at = "isr" /\ Running.irq = id /\ alt_priority_mask = Irqs

SwitchIrq(id, on) ==
  /\ ~Taken /\ MaySwitch(id, on)
  /\ CallAt(IF on THEN "activate" ELSE "deactivate", id)
  /\ UNCHANGED << lines, masks, alt_irq >>

SetActive ==
  /\ At("activate") \/ At("deactivate")
  /\ alt_irq_active' = IF At("activate") THEN alt_irq_active \union {Running.id}
                       ELSE alt_irq_active \ {Running.id}
  /\ Go("write")
  /\ UNCHANGED << pie, lines, ienable, alt_priority_mask, alt_irq >>

WriteEnable ==
  /\ At("write")
  /\ ienable' = alt_irq_active
  /\ Go("leave")
  /\ UNCHANGED << pie, lines, alt_irq_active, alt_priority_mask, alt_irq >>

(* alt_iic_isr_register and alt_irq_register: the handler is put in the    *)
(* table, or taken out, and its interrupt is switched inside the same      *)
(* section.                                                                *)

\* Faulty form: only the switch is inside a section.
RegisterOpen(id, on) ==
  /\ At("ready")
  /\ IF on THEN alt_irq' = alt_irq \union {id} ELSE alt_irq' = alt_irq \ {id}
  /\ stack' = [stack EXCEPT ![1].ret = "ready", ![1].id = id,
                            ![1].at = IF on THEN "enter" ELSE "exit"]
  /\ UNCHANGED << pie, lines, masks >>

Register(id, on) ==
  /\ At("ready")
  /\ IF on THEN alt_irq' = alt_irq \union {id} ELSE alt_irq' = alt_irq \ {id}
  /\ pie' = FALSE
  /\ stack' = [stack EXCEPT ![1].ret = "ready", ![1].id = id, ![1].ctx = << pie >>,
                            ![1].at = IF on THEN "enter" ELSE "exit"]
  /\ UNCHANGED << lines, masks >>

\* The nested call of alt_irq_enable or alt_irq_disable.
RegisterSwitch ==
  /\ At("enter") \/ At("exit")
  /\ pie' = FALSE
  /\ stack' = [stack EXCEPT ![1].at = IF @ = "enter" THEN "activate" ELSE "deactivate",
                            ![1].ctx = << pie >> \o @]
  /\ UNCHANGED << lines, masks, alt_irq >>

----------------------------------------------------------------------------
(* The interrupt itself.                                                   *)

\* A device asks, and asks until its routine has dealt with it.
Ask(i) ==
  /\ i \notin lines /\ lines' = lines \union {i}
  /\ UNCHANGED << pie, masks, alt_irq, stack >>

\* The processor enters alt_irq_handler, interrupts off.
Interrupt ==
  /\ Taken
  /\ pie' = FALSE
  /\ stack' = << Frame(Main, "poll") >> \o stack
  /\ UNCHANGED << lines, masks, alt_irq >>

\* The most urgent of those pending now is served; its routine starts by
\* satisfying the device.  Without a handler the call goes nowhere.
Serve ==
  /\ At("poll") /\ Pending # {}
  /\ LET i == Min(Pending) IN
       IF i \in alt_irq
         THEN lines' = lines \ {i} /\ stack' = [stack EXCEPT ![1] = Frame(i, "isr")]
         ELSE lines' = lines /\ Go("nowhere")
  /\ UNCHANGED << pie, masks, alt_irq >>

\* A routine has returned; the handler asks again what is pending.
Served ==
  /\ At("served")
  /\ stack' = [stack EXCEPT ![1] = Frame(Main, "poll")]
  /\ UNCHANGED << pie, lines, masks, alt_irq >>

\* Nothing is: back to what was interrupted, which had interrupts on.
EndInterrupt ==
  /\ At("poll") /\ Pending = {}
  /\ pie' = TRUE
  /\ stack' = Tail(stack)
  /\ UNCHANGED << lines, masks, alt_irq >>

(* alt_irq_interruptible: a routine lets the more urgent ones interrupt    *)
(* it.  The last of its writes is the one that switches interrupts on.     *)

\* Faulty form: the mask lets the routine's own interrupt through.
InterruptibleToo ==
  /\ At("isr")
  /\ alt_priority_mask' = {k \in Irqs : k <= Running.irq}
  /\ ienable' = alt_irq_active \intersect alt_priority_mask'
  /\ pie' = TRUE
  /\ stack' = [stack EXCEPT ![1].at = "open", ![1].mask = alt_priority_mask]
  /\ UNCHANGED << lines, alt_irq_active, alt_irq >>

Interruptible ==
  /\ At("isr")
  /\ alt_priority_mask' = {k \in Irqs : k < Running.irq}
  /\ ienable' = alt_irq_active \intersect alt_priority_mask'
  /\ pie' = TRUE
  /\ stack' = [stack EXCEPT ![1].at = "open", ![1].mask = alt_priority_mask]
  /\ UNCHANGED << lines, alt_irq_active, alt_irq >>

\* Its first write switches interrupts off.
NonInterruptible ==
  /\ At("open") \/ At("opened")
  /\ pie' = FALSE
  /\ alt_priority_mask' = Running.mask
  /\ ienable' = Running.mask \intersect alt_irq_active
  /\ stack' = [stack EXCEPT ![1].at = "served", ![1].mask = {}]
  /\ UNCHANGED << lines, alt_irq_active, alt_irq >>

\* A routine that does nothing the HAL sees.
QuietRoutine ==
  /\ At("isr")
  /\ Go("served")
  /\ UNCHANGED << pie, lines, masks, alt_irq >>

InterruptsInit ==
  /\ pie = TRUE                      \* alt_irq_cpu_enable_interrupts
  /\ ienable = {} /\ lines = {}
  /\ alt_irq_active = {} /\ alt_priority_mask = Irqs /\ alt_irq = {}
  /\ stack = << Frame(Main, "ready") >>

----------------------------------------------------------------------------
\* A routine is interrupted only by more urgent ones; and outside the
\* sections the processor lets through exactly the active interrupts that
\* the running routine leaves open.  Known exception: alt_irq_enable and
\* alt_irq_disable write the register without alt_priority_mask
\* (alt_legacy_irq.h, lines 76 and 94), so inside or over an interruptible
\* routine they undo its mask; MaySwitch leaves those calls out.
OnlyMoreUrgent ==
  /\ \A j, k \in 1 .. Len(stack) :
       j < k /\ stack[k].irq # Main =>
         stack[j].irq = Main \/ stack[j].irq < stack[k].irq
  /\ pie => ienable = alt_irq_active \intersect alt_priority_mask

\* No interrupt is served without its handler, although handlers come and go
\* while devices ask.
HandlerThere == Running.at # "nowhere"
=============================================================================
