-------------------------------- MODULE JtagUart --------------------------------
(***************************************************************************)
(* The driver of the JTAG UART, the console of the lab 2 NIOS program      *)
(* (altera_avalon_jtag_uart_{init,read,write,ioctl}.c without an operating *)
(* system).  The source holds two drivers and the build picks one: the     *)
(* interrupt-driven one, with two ring buffers between the thread and the  *)
(* interrupt routine, and the "small" one, which polls the device and is   *)
(* the one lab 2's settings pick.  Two hardware FIFOs lie between either   *)
(* driver and the host.                                                    *)
(*                                                                         *)
(* One processor: the thread stands still while an interrupt routine runs, *)
(* and an interrupt may come between any two of its steps.  A thread step  *)
(* reads or writes one variable the interrupt routine also uses.  The host *)
(* moves at any time.  The n-th character of either direction is the       *)
(* number n.                                                               *)
(***************************************************************************)
EXTENDS Integers, Sequences, SequencesExt

CONSTANTS
  BUF_LEN,           \* ALTERA_AVALON_JTAG_UART_BUF_LEN         (2048)
  WRITE_DEPTH,       \* words of the transmit FIFO                (64)
  WRITE_THRESHOLD,   \* fill at which it asks for more             (8)
  READ_DEPTH,        \* words of the receive FIFO                 (64)
  INT_MAX,           \* "no alarm"; INT_MAX - 1 is "wait for ever"
  DEFAULT_TIMEOUT,   \* ALTERA_AVALON_JTAG_UART_DEFAULT_TIMEOUT   (10)
  Builds,            \* values of "the small driver is built"
  TickRates,         \* rates of the system clock; 0 is "no system clock"
  Sizes,             \* lengths the application asks for
  MaxChars,          \* bound: characters written and sent by the host, together
  MaxPlug            \* bound: times the host comes or goes

ASSUME JtagUartAssumption ==
  /\ BUF_LEN \in Nat \ {0, 1}
  /\ WRITE_DEPTH \in Nat \ {0} /\ WRITE_THRESHOLD \in 0 .. WRITE_DEPTH - 1
  /\ READ_DEPTH \in Nat \ {0}
  /\ INT_MAX \in Nat /\ DEFAULT_TIMEOUT \in 1 .. INT_MAX - 2
  /\ Builds \subseteq BOOLEAN /\ TickRates \subseteq Nat /\ Sizes \subseteq Nat \ {0}

VARIABLES
  timeout, irq_enable, host_inactive,
  rx_in, rx_out, tx_in, tx_out, rx_buf, tx_buf,  \* jtag_uart_state
  small, tick_rate,                              \* build, system clock
  control, tx_fifo, rx_fifo,                     \* device
  attached, plugs, hostSent, hostGot,            \* host
  isr, ctl, ravail,                              \* interrupt routine
  pc, nonblock, left, done, in, out, n,          \* thread, inside a call
  written, got                                   \* application

config   == << small, tick_rate >>
state    == << timeout, irq_enable, host_inactive, config >>
rxRing   == << rx_in, rx_out, rx_buf >>
txRing   == << tx_in, tx_out, tx_buf >>
device   == << control, tx_fifo, rx_fifo >>
host     == << attached, plugs, hostSent, hostGot >>
routine  == << isr, ctl, ravail >>
call     == << nonblock, left, done, in, out, n >>
app      == << written, got >>
vars == << state, rxRing, txRing, device, host, routine, pc, call, app >>

Index == 0 .. BUF_LEN - 1
Next1(i) == (i + 1) % BUF_LEN

WriteLabels == {"w_sample", "w_copy", "w_publish", "w_enable", "w_spin", "w_check"}
ReadLabels  == {"r_sample", "r_copy", "r_publish", "r_spin", "r_check", "r_enable",
                "r_fail"}

----------------------------------------------------------------------------
(* The device: its two interrupt conditions.  RI: read interrupts are on   *)
(* and a character waits.  WI: write interrupts are on and the transmit    *)
(* FIFO has drained to its threshold.                                      *)

RI == "RE" \in control /\ rx_fifo # << >>
WI == "WE" \in control /\ Len(tx_fifo) <= WRITE_THRESHOLD

\* The driver keeps a copy of the enables and writes the whole register.
SetEnables(s) == irq_enable' = s /\ control' = s

NoControl == [ri |-> FALSE, wi |-> FALSE, space |-> 0]

----------------------------------------------------------------------------
(* altera_avalon_jtag_uart_init, and the variables before it               *)

Init ==
  /\ timeout = DEFAULT_TIMEOUT /\ irq_enable = {} /\ host_inactive = 0
  /\ small \in Builds /\ tick_rate \in TickRates
  /\ rx_in = 0 /\ rx_out = 0 /\ rx_buf = [i \in Index |-> 0]
  /\ tx_in = 0 /\ tx_out = 0 /\ tx_buf = [i \in Index |-> 0]
  /\ control = {} /\ tx_fifo = << >> /\ rx_fifo = << >>
  /\ attached \in BOOLEAN /\ plugs = 0 /\ hostSent = 0 /\ hostGot = << >>
  /\ isr = "none" /\ ctl = NoControl /\ ravail = FALSE
  /\ pc = "boot" /\ nonblock = FALSE /\ left = 0 /\ done = 0
  /\ in = 0 /\ out = 0 /\ n = 0
  /\ written = 0 /\ got = << >>

\* Nothing to do for the small driver: read interrupts stay off.
UartInitSmall ==
  /\ small /\ pc = "boot" /\ pc' = "app"
  /\ UNCHANGED << state, rxRing, txRing, device, host, routine, call, app >>

\* Read interrupts on.  Without a system clock the alarm cannot be set, and the
\* host is taken to be present for ever.
UartInit ==
  /\ ~small /\ isr = "none" /\ pc = "boot"
  /\ SetEnables({"RE"})
  /\ host_inactive' = 0
  /\ timeout' = IF tick_rate = 0 THEN INT_MAX ELSE timeout
  /\ pc' = "app"
  /\ UNCHANGED << config, rxRing, txRing, tx_fifo, rx_fifo, host,
                  routine, call, app >>

----------------------------------------------------------------------------
(* altera_avalon_jtag_uart_irq: while it runs, the thread and the alarm do *)
(* not.                                                                    *)

\* One pass of the outer loop: read the control register once; if there is
\* nothing more to do, return.  The first pass is the entry.
IsrPoll ==
  /\ isr = "poll" \/ (isr = "none" /\ (RI \/ WI))
  /\ IF RI \/ WI
       THEN /\ ctl' = [ri |-> RI, wi |-> WI, space |-> WRITE_DEPTH - Len(tx_fifo)]
            /\ isr' = IF RI THEN "rx" ELSE "tx"
            /\ ravail' = RI
       ELSE ctl' = NoControl /\ isr' = "none" /\ ravail' = FALSE
  /\ UNCHANGED << state, rxRing, txRing, device, host, pc, call, app >>

\* Room in the ring: take a character from the FIFO; the word read also says
\* whether it was valid and whether more remain.
IsrReceive ==
  /\ isr = "rx" /\ Next1(rx_in) # rx_out
  /\ IF rx_fifo # << >>
       THEN /\ rx_buf' = [rx_buf EXCEPT ![rx_in] = Head(rx_fifo)]
            /\ rx_in' = Next1(rx_in)
            /\ rx_fifo' = Tail(rx_fifo)
            /\ ravail' = (Tail(rx_fifo) # << >>)
            /\ isr' = isr
       ELSE /\ ravail' = FALSE
            /\ isr' = "rxend"
            /\ UNCHANGED << rx_buf, rx_in, rx_fifo >>
  /\ UNCHANGED << state, rx_out, txRing, control, tx_fifo, host, ctl, pc,
                  call, app >>

\* No room: stop before a character is taken that could not be kept.
IsrReceiveFull ==
  /\ isr = "rx" /\ Next1(rx_in) = rx_out
  /\ isr' = "rxend"
  /\ UNCHANGED << state, rxRing, txRing, device, host, ctl, ravail, pc, call, app >>

\* Characters still wait, so the ring is full: no read interrupts until the
\* thread has made room.
IsrReceiveEnd ==
  /\ isr = "rxend"
  /\ IF ravail THEN SetEnables(irq_enable \ {"RE"})
               ELSE UNCHANGED << irq_enable, control >>
  /\ isr' = IF ctl.wi THEN "tx" ELSE "poll"
  /\ UNCHANGED << timeout, host_inactive, config, rxRing, txRing, tx_fifo,
                  rx_fifo, host, ctl, ravail, pc, call, app >>

IsrTransmit ==
  /\ isr = "tx" /\ ctl.space > 0 /\ tx_out # tx_in
  /\ tx_fifo' = IF Len(tx_fifo) < WRITE_DEPTH THEN Append(tx_fifo, tx_buf[tx_out])
                                              ELSE tx_fifo
  /\ tx_out' = Next1(tx_out)
  /\ ctl' = [ctl EXCEPT !.space = @ - 1]
  /\ UNCHANGED << state, rxRing, tx_in, tx_buf, control, rx_fifo, host, isr,
                  ravail, pc, call, app >>

\* Faulty form: write interrupts go off after every burst, also when the FIFO is full.
IsrTransmitEndAlways ==
  /\ isr = "tx" /\ (ctl.space = 0 \/ tx_out = tx_in)
  /\ SetEnables(irq_enable \ {"WE"})
  /\ isr' = "poll"
  /\ UNCHANGED << timeout, host_inactive, config, rxRing, txRing, tx_fifo,
                  rx_fifo, host, ctl, ravail, pc, call, app >>

\* Space is left, so the ring is empty: no write interrupts until the thread
\* has more.
IsrTransmitEnd ==
  /\ isr = "tx" /\ (ctl.space = 0 \/ tx_out = tx_in)
  /\ IF ctl.space > 0 THEN SetEnables(irq_enable \ {"WE"})
                      ELSE UNCHANGED << irq_enable, control >>
  /\ isr' = "poll"
  /\ UNCHANGED << timeout, host_inactive, config, rxRing, txRing, tx_fifo,
                  rx_fifo, host, ctl, ravail, pc, call, app >>

Isr == \/ IsrPoll \/ IsrReceive \/ IsrReceiveFull \/ IsrReceiveEnd
       \/ IsrTransmit \/ IsrTransmitEnd

----------------------------------------------------------------------------
(* altera_avalon_jtag_uart_timeout, once a second from the timer interrupt *)
(* The bit AC it reads and clears says that the host has been heard since  *)
(* the last second; an attached host is heard every second.                *)

AlarmTimeout ==
  /\ ~small /\ isr = "none" /\ pc # "boot" /\ tick_rate > 0
  /\ IF attached
       THEN host_inactive' = 0 /\ control' = irq_enable
       ELSE /\ host_inactive < INT_MAX - 2
            /\ host_inactive' = host_inactive + 1
            /\ UNCHANGED control
  /\ UNCHANGED << timeout, irq_enable, config, rxRing, txRing, tx_fifo, rx_fifo,
                  host, routine, pc, call, app >>

----------------------------------------------------------------------------
(* The host's end of the cable.                                            *)

\* What a write in progress may still add to the characters counted.
Pending == IF pc \in WriteLabels \union {"poll_write"} THEN left ELSE 0

HostTake ==
  /\ attached /\ tx_fifo # << >>
  /\ hostGot' = Append(hostGot, Head(tx_fifo))
  /\ tx_fifo' = Tail(tx_fifo)
  /\ UNCHANGED << state, rxRing, txRing, control, rx_fifo, attached, plugs,
                  hostSent, routine, pc, call, app >>

HostSend ==
  /\ attached /\ Len(rx_fifo) < READ_DEPTH /\ hostSent + written + Pending < MaxChars
  /\ hostSent' = hostSent + 1
  /\ rx_fifo' = Append(rx_fifo, hostSent + 1)
  /\ UNCHANGED << state, rxRing, txRing, control, tx_fifo, attached, plugs,
                  hostGot, routine, pc, call, app >>

HostPlug ==
  /\ plugs < MaxPlug /\ plugs' = plugs + 1
  /\ attached' = ~attached
  /\ UNCHANGED << state, rxRing, txRing, device, hostSent, hostGot, routine, pc,
                  call, app >>

----------------------------------------------------------------------------
(* The calls of the application, made through the file descriptor whose    *)
(* flags say whether it may block.                                         *)

Run(from) == isr = "none" /\ pc = from

Begin(label, size) ==
  /\ Run("app")
  /\ pc' = label /\ left' = size /\ done' = 0
  /\ nonblock' \in BOOLEAN
  /\ UNCHANGED << state, rxRing, txRing, device, host, routine, in, out, n, app >>

CallWrite == \E size \in Sizes : /\ written + hostSent + size <= MaxChars
                                 /\ Begin(IF small THEN "poll_write" ELSE "w_sample", size)
CallRead  == \E size \in Sizes :
               Begin(IF small THEN "poll_read" ELSE "r_sample", size)
CallClose == ~small /\ Begin("close", 0)

\* TIOCSTIMEOUT; without an alarm it is refused.  TIOCGCONNECTED reads only.
Ioctl(time) ==
  /\ ~small /\ Run("app") /\ timeout # INT_MAX
  /\ timeout' = IF time >= 2 /\ time < INT_MAX THEN time ELSE INT_MAX - 1
  /\ UNCHANGED << irq_enable, host_inactive, config, rxRing, txRing, device,
                  host, routine, pc, call, app >>

\* A call returns; its locals die.
Return ==
  /\ pc' = "app"
  /\ left' = 0 /\ done' = 0 /\ in' = 0 /\ out' = 0 /\ n' = 0 /\ nonblock' = FALSE

\* Faulty form: one second more than the alarm ever counts to.
HostQuietLate == host_inactive > timeout

HostQuiet == host_inactive >= timeout

----------------------------------------------------------------------------
(* altera_avalon_jtag_uart_write                                           *)

\* Faulty form: the free slot that tells a full ring from an empty one is used too.
RoomTxAll(i, o) == IF i < o THEN o - i ELSE BUF_LEN - i

\* Room from tx_in up to the slot before tx_out, or to the end of the ring.
RoomTx(i, o) == IF i < o THEN o - 1 - i
                ELSE IF o > 0 THEN BUF_LEN - i ELSE BUF_LEN - 1 - i

WriteSample ==
  /\ Run("w_sample")
  /\ IF left = 0 THEN pc' = "w_enable" /\ UNCHANGED << in, out, n >>
     ELSE /\ in' = tx_in /\ out' = tx_out
          /\ n' = Min({RoomTx(tx_in, tx_out), left})
          /\ pc' = IF RoomTx(tx_in, tx_out) = 0 THEN "w_enable" ELSE "w_copy"
  /\ UNCHANGED << state, rxRing, txRing, device, host, routine, nonblock, left,
                  done, app >>

WriteCopy ==
  /\ Run("w_copy")
  /\ tx_buf' = [i \in Index |-> IF i \in in .. in + n - 1
                                  THEN written + (i - in) + 1 ELSE tx_buf[i]]
  /\ pc' = "w_publish"
  /\ UNCHANGED << state, rxRing, tx_in, tx_out, device, host, routine, call, app >>

WritePublish ==
  /\ Run("w_publish")
  /\ tx_in' = (in + n) % BUF_LEN
  /\ left' = left - n /\ done' = done + n /\ written' = written + n
  /\ pc' = "w_sample" /\ in' = 0 /\ n' = 0
  /\ UNCHANGED << state, rxRing, tx_out, tx_buf, device, host, routine, nonblock,
                  out, got >>

\* Write interrupts on, with interrupts disabled around the read-modify-write.
WriteEnable ==
  /\ Run("w_enable")
  /\ SetEnables(irq_enable \union {"WE"})
  /\ IF left = 0 \/ nonblock THEN Return
     ELSE pc' = "w_spin" /\ UNCHANGED call
  /\ UNCHANGED << timeout, host_inactive, config, rxRing, txRing, tx_fifo,
                  rx_fifo, host, routine, app >>

\* The spin loop ends once the routine has sent something or the host is silent.
WriteSpin ==
  /\ Run("w_spin") /\ (tx_out # out \/ HostQuiet)
  /\ pc' = "w_check"
  /\ UNCHANGED << state, rxRing, txRing, device, host, routine, call, app >>

WriteCheck ==
  /\ Run("w_check")
  /\ IF tx_out = out THEN Return ELSE pc' = "w_sample" /\ UNCHANGED call
  /\ UNCHANGED << state, rxRing, txRing, device, host, routine, app >>

----------------------------------------------------------------------------
(* altera_avalon_jtag_uart_read                                            *)

\* Characters from rx_out up to rx_in, or to the end of the ring.
FilledRx(i, o) == IF i >= o THEN i - o ELSE BUF_LEN - o

\* Where the inner loop leaves to: with data, without and not blocking, spinning.
AfterRead == IF done > 0 THEN "r_enable" ELSE IF nonblock THEN "r_fail" ELSE "r_spin"

ReadSample ==
  /\ Run("r_sample")
  /\ in' = rx_in /\ out' = rx_out
  /\ n' = Min({FilledRx(rx_in, rx_out), left})
  /\ pc' = IF FilledRx(rx_in, rx_out) = 0 THEN AfterRead ELSE "r_copy"
  /\ UNCHANGED << state, rxRing, txRing, device, host, routine, nonblock, left,
                  done, app >>

ReadCopy ==
  /\ Run("r_copy")
  /\ got' = got \o [i \in 1 .. n |-> rx_buf[out + i - 1]]
  /\ pc' = "r_publish"
  /\ UNCHANGED << state, rxRing, txRing, device, host, routine, call, written >>

ReadPublish ==
  /\ Run("r_publish")
  /\ rx_out' = (out + n) % BUF_LEN
  /\ left' = left - n /\ done' = done + n
  /\ pc' = IF left > n THEN "r_sample" ELSE "r_enable"
  /\ in' = 0 /\ out' = 0 /\ n' = 0
  /\ UNCHANGED << state, rx_in, rx_buf, txRing, device, host, routine, nonblock, app >>

ReadSpin ==
  /\ Run("r_spin") /\ (rx_in # in \/ HostQuiet)
  /\ pc' = "r_check"
  /\ UNCHANGED << state, rxRing, txRing, device, host, routine, call, app >>

ReadCheck ==
  /\ Run("r_check")
  /\ pc' = IF rx_in = in THEN "r_fail" ELSE "r_sample"
  /\ UNCHANGED << state, rxRing, txRing, device, host, routine, call, app >>

\* Faulty form: the reader writes its own bit only, not the driver's copy with it.
ReadEnableOnly ==
  /\ Run("r_enable")
  /\ SetEnables({"RE"})
  /\ Return
  /\ UNCHANGED << timeout, host_inactive, config, rxRing, txRing, tx_fifo,
                  rx_fifo, host, routine, app >>

\* Data was taken, so there is room: read interrupts on again.
ReadEnable ==
  /\ Run("r_enable")
  /\ SetEnables(irq_enable \union {"RE"})
  /\ Return
  /\ UNCHANGED << timeout, host_inactive, config, rxRing, txRing, tx_fifo,
                  rx_fifo, host, routine, app >>

\* -EWOULDBLOCK or -EIO.
ReadFail ==
  /\ Run("r_fail")
  /\ Return
  /\ UNCHANGED << state, rxRing, txRing, device, host, routine, app >>

----------------------------------------------------------------------------
(* altera_avalon_jtag_uart_close: wait for the ring to drain.              *)

Close ==
  /\ Run("close") /\ (tx_out = tx_in \/ HostQuiet \/ nonblock)
  /\ Return
  /\ UNCHANGED << state, rxRing, txRing, device, host, routine, app >>

----------------------------------------------------------------------------
(* The small driver: altera_avalon_jtag_uart_write and _read               *)

\* Wait for space for each character, also if the descriptor may not block.
PollWrite ==
  /\ Run("poll_write")
  /\ IF left = 0 THEN Return /\ UNCHANGED << tx_fifo, written >>
     ELSE /\ Len(tx_fifo) < WRITE_DEPTH
          /\ tx_fifo' = Append(tx_fifo, written + 1)
          /\ written' = written + 1 /\ left' = left - 1
          /\ UNCHANGED << pc, nonblock, done, in, out, n >>
  /\ UNCHANGED << state, rxRing, txRing, control, rx_fifo, host, routine, got >>

\* Take what is there; wait for the first character unless told not to block.
PollRead ==
  /\ Run("poll_read")
  /\ IF rx_fifo # << >> /\ left > 0
       THEN /\ got' = Append(got, Head(rx_fifo)) /\ rx_fifo' = Tail(rx_fifo)
            /\ left' = left - 1 /\ done' = done + 1
            /\ UNCHANGED << pc, nonblock, in, out, n >>
       ELSE /\ left = 0 \/ done > 0 \/ nonblock
            /\ Return /\ UNCHANGED << got, rx_fifo >>
  /\ UNCHANGED << state, rxRing, txRing, control, tx_fifo, host, routine, written >>

----------------------------------------------------------------------------

InCall ==
  \/ WriteSample \/ WriteCopy \/ WritePublish \/ WriteEnable \/ WriteSpin \/ WriteCheck
  \/ ReadSample \/ ReadCopy \/ ReadPublish \/ ReadSpin \/ ReadCheck \/ ReadEnable
  \/ ReadFail \/ Close \/ PollWrite \/ PollRead

Next ==
  \/ UartInitSmall \/ UartInit \/ CallWrite \/ CallRead \/ CallClose
  \/ \E time \in 0 .. INT_MAX : Ioctl(time)
  \/ InCall \/ Isr \/ AlarmTimeout
  \/ HostTake \/ HostSend \/ HostPlug

\* The processor runs the thread whenever no routine does, the interrupt
\* routine when the device asks for it, and the alarm when its second is over.
\* A host that stays attached keeps draining the transmit FIFO.
Fairness ==
  /\ WF_vars(UartInitSmall \/ UartInit) /\ WF_vars(InCall) /\ WF_vars(Isr) /\ WF_vars(AlarmTimeout)
  /\ WF_vars(HostTake)

Spec == Init /\ [][Next]_vars /\ Fairness

----------------------------------------------------------------------------
(* Properties                                                              *)

Tx == INSTANCE CharStream WITH sent <- [i \in 1 .. written |-> i], received <- hostGot
Rx == INSTANCE CharStream WITH sent <- [i \in 1 .. hostSent |-> i], received <- got

\* Across two ring buffers, two FIFOs and any interleaving of thread, interrupt
\* routine, alarm and host, each direction is a stream: no character that write
\* accepted or the host sent is lost, repeated, changed or overtaken.
StreamsInOrder == Tx!Spec /\ Rx!Spec

\* Nobody waits for an interrupt that is switched off: outside the interrupt
\* routine, characters in the transmit ring mean write interrupts are on or the
\* writer is still on its way to switching them on, and read interrupts are off
\* only while the receive ring is full or the reader that made room is about to
\* switch them on; and the device's enables are the driver's copy.
NeverStranded ==
  isr = "none" =>
    /\ control = irq_enable
    /\ tx_out # tx_in => \/ "WE" \in control
                         \/ pc \in {"w_sample", "w_copy", "w_publish", "w_enable"}
    /\ (pc # "boot" /\ ~small) =>
         \/ "RE" \in control
         \/ Next1(rx_in) = rx_out
         \/ (done > 0 /\ pc \in {"r_sample", "r_copy", "r_publish", "r_enable"})

\* With an alarm and a finite timeout no call hangs on the host: write and close
\* return whatever the host does, read returns if the host is unplugged.
CallsReturn ==
  LET finite == timeout < INT_MAX - 1
  IN  /\ (finite /\ pc \in WriteLabels \union {"close"}) ~> (pc = "app")
      /\ (finite /\ pc \in ReadLabels /\ ~attached) ~> (pc = "app" \/ attached)

\* A host that ends up attached gets everything write accepted, whether or not
\* the application ever calls the driver again.
EverythingSent == <>[]attached => []<>(Len(hostGot) = written)
=============================================================================
