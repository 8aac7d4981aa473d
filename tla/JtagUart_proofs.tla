----------------------------- MODULE JtagUart_proofs -----------------------------
(***************************************************************************)
(* Proofs about JtagUart, for every size of ring and FIFO, every call and  *)
(* either build of the driver: nobody waits for an interrupt that is off,  *)
(* and each direction is a stream of characters.                           *)
(*                                                                         *)
(* The invariant says where each character is.  The slots of the transmit  *)
(* ring from tx_out to tx_in hold the numbers that follow what the host    *)
(* has and what its FIFO holds, up to written; those of the receive ring   *)
(* hold the numbers from what the application has up to what waits in the  *)
(* device.  Between sampling and publishing the thread owns the slots it   *)
(* copies: the interrupt routine moves only its own end of the ring, and   *)
(* it moves it away from them (TxClaim, RxClaim).  The space the routine   *)
(* read from the control register at the start of a pass stays true to the *)
(* end of it (TxSpace), so no character falls off a full FIFO.             *)
(***************************************************************************)
EXTENDS JtagUart, SequenceTheorems, TLAPS

\* The first m characters of a stream.
Count(m) == [i \in 1 .. m |-> i]

\* The slots from a up to b, going round the ring.
Dist(a, b) == IF b >= a THEN b - a ELSE b - a + BUF_LEN

txVars == << txRing, tx_fifo, hostGot, written >>
rxVars == << rxRing, rx_fifo, hostSent, got >>

Enables == {"RE", "WE"}
Control == [ri : BOOLEAN, wi : BOOLEAN, space : Nat]

TypeDriver ==
  /\ timeout \in Nat /\ host_inactive \in Nat /\ small \in BOOLEAN
  /\ irq_enable \subseteq Enables /\ control \subseteq Enables
TypeTx ==
  /\ tx_in \in Index /\ tx_out \in Index /\ tx_buf \in [Index -> Nat]
  /\ tx_fifo \in Seq(Nat) /\ hostGot \in Seq(Nat) /\ written \in Nat
TypeRx ==
  /\ rx_in \in Index /\ rx_out \in Index /\ rx_buf \in [Index -> Nat]
  /\ rx_fifo \in Seq(Nat) /\ got \in Seq(Nat) /\ hostSent \in Nat
TypeIsr ==
  /\ isr \in {"none", "poll", "rx", "rxend", "tx"}
  /\ ctl \in Control
  /\ ravail \in BOOLEAN
TypeCall ==
  /\ pc \in {"boot", "app", "close", "poll_write", "poll_read"}
             \union WriteLabels \union ReadLabels
  /\ nonblock \in BOOLEAN /\ left \in Nat /\ done \in Nat
  /\ in \in Index /\ out \in Index /\ n \in Nat

TypeOK == TypeDriver /\ TypeTx /\ TypeRx /\ TypeIsr /\ TypeCall

\* The small driver uses neither ring nor interrupt.
SmallQuiet ==
  IF small THEN /\ pc \in {"boot", "app", "poll_write", "poll_read"}
                /\ isr = "none" /\ control = {}
                /\ tx_in = tx_out /\ rx_in = rx_out
  ELSE pc \notin {"poll_write", "poll_read"}

\* The driver's copy of the enables is what the device has.
ControlCopy == control = irq_enable

\* A filled transmit ring has somebody coming for it.
TxWaits == tx_out # tx_in => \/ "WE" \in control
                             \/ pc \in {"w_sample", "w_copy", "w_publish", "w_enable"}
\* Read interrupts are off only while there is no room, or somebody made some.
RxWaits == (pc # "boot" /\ ~small) =>
             \/ "RE" \in control
             \/ Next1(rx_in) = rx_out
             \/ (done > 0 /\ pc \in {"r_sample", "r_copy", "r_publish", "r_enable"})
\* The routine leaves characters in the device only because the ring is full.
RxEndFull == isr = "rxend" /\ ravail => Next1(rx_in) = rx_out
\* read asks for something, and what it takes is something.
ReadAsks  == /\ pc \in {"r_sample", "r_spin", "r_check"} => left > 0
             /\ pc \in {"r_copy", "r_publish"} => n \in 1 .. left
\* No interrupt before the driver is set up.
BootQuiet == pc = "boot" => isr = "none" /\ control = {}

\* What the routine may still send fits in the transmit FIFO.
TxSpace == /\ Len(tx_fifo) <= WRITE_DEPTH
           /\ isr \in {"rx", "rxend", "tx"} => ctl.space + Len(tx_fifo) <= WRITE_DEPTH

\* Where the characters on their way to the host are.
TxStream ==
  /\ hostGot = Count(Len(hostGot))
  /\ \A i \in 1 .. Len(tx_fifo) : tx_fifo[i] = Len(hostGot) + i
  /\ Len(hostGot) + Len(tx_fifo) + Dist(tx_out, tx_in) = written
  /\ \A i \in Index : Dist(tx_out, i) < Dist(tx_out, tx_in) =>
       tx_buf[i] = Len(hostGot) + Len(tx_fifo) + Dist(tx_out, i) + 1

\* The slots write copies to are free, and stay free until it publishes them.
TxClaim ==
  pc \in {"w_copy", "w_publish"} =>
    /\ in = tx_in /\ n \in 1 .. left /\ in + n <= BUF_LEN
    /\ Dist(tx_out, tx_in) + n < BUF_LEN
    /\ pc = "w_publish" => \A i \in in .. in + n - 1 : tx_buf[i] = written + (i - in) + 1

\* Characters that left the receive ring as the ring counts them.
Taken == IF pc = "r_publish" THEN Len(got) - n ELSE Len(got)

\* Where the characters on their way to the application are.
RxStream ==
  /\ got = Count(Len(got))
  /\ Len(rx_fifo) <= hostSent
  /\ \A i \in 1 .. Len(rx_fifo) : rx_fifo[i] = hostSent - Len(rx_fifo) + i
  /\ Taken + Dist(rx_out, rx_in) + Len(rx_fifo) = hostSent
  /\ \A i \in Index : Dist(rx_out, i) < Dist(rx_out, rx_in) =>
       rx_buf[i] = Taken + Dist(rx_out, i) + 1

\* The slots read copies from are filled, and stay filled until it publishes them.
RxClaim ==
  pc \in {"r_copy", "r_publish"} =>
    /\ out = rx_out /\ n <= Dist(rx_out, rx_in) /\ out + n <= BUF_LEN

Waiting ==
  /\ SmallQuiet /\ BootQuiet /\ ControlCopy
  /\ TxWaits /\ RxWaits /\ RxEndFull /\ ReadAsks

Streams == TxSpace /\ TxStream /\ TxClaim /\ RxStream /\ RxClaim

\* The inductive invariant.
Inv == TypeOK /\ Waiting /\ Streams

----------------------------------------------------------------------------
(* Facts about the constants and the operators.                            *)

\* The assumptions on the constants, as the proofs use them.
LEMMA Consts ==
  /\ BUF_LEN \in Nat /\ BUF_LEN > 1 /\ 0 \in Index /\ Index \subseteq Nat
  /\ WRITE_DEPTH \in Nat /\ WRITE_DEPTH > 0 /\ WRITE_THRESHOLD \in Nat
  /\ Sizes \subseteq Nat \ {0} /\ Builds \subseteq BOOLEAN /\ TickRates \subseteq Nat
  /\ DEFAULT_TIMEOUT \in Nat /\ INT_MAX \in Nat /\ INT_MAX - 1 \in Nat
BY JtagUartAssumption DEF Index

\* An index that ran up to the end of the ring goes on at its start.
LEMMA Wrap == ASSUME NEW m \in 0 .. BUF_LEN
              PROVE  m % BUF_LEN = (IF m = BUF_LEN THEN 0 ELSE m) /\ m % BUF_LEN \in Index
<1>1. CASE m = BUF_LEN
  BY <1>1, Consts DEF Index
<1>2. CASE m # BUF_LEN
  BY <1>2, Consts DEF Index
<1> QED BY <1>1, <1>2

\* The smaller of what fits and what is asked for.
LEMMA MinOf == ASSUME NEW a \in Nat, NEW b \in Nat
               PROVE  Min({a, b}) = IF a <= b THEN a ELSE b
<1>1. \E x \in {a, b} : \A y \in {a, b} : x <= y
  OBVIOUS
<1> QED BY <1>1 DEF Min

\* The driver's (i + 1) % BUF_LEN.
LEMMA NextSlot ==
  ASSUME NEW i \in Index
  PROVE  Next1(i) \in Index /\ Next1(i) = IF i + 1 = BUF_LEN THEN 0 ELSE i + 1
BY Wrap, Consts DEF Next1, Index

\* A burst goes up to the end of the ring at most; write leaves a slot free, read takes
\* no more than there is (altera_avalon_jtag_uart_write.c and _read.c, the space and the
\* available count of the inner loops).
LEMMA Rooms ==
  ASSUME NEW i \in Index, NEW o \in Index
  PROVE  /\ RoomTx(i, o) \in Nat /\ i + RoomTx(i, o) <= BUF_LEN
         /\ Dist(o, i) + RoomTx(i, o) < BUF_LEN
         /\ FilledRx(i, o) \in Nat /\ FilledRx(i, o) <= Dist(o, i)
         /\ o + FilledRx(i, o) <= BUF_LEN
         /\ Dist(o, i) \in 0 .. BUF_LEN - 1
BY Consts DEF RoomTx, FilledRx, Dist, Index

\* A reading of the control register.
LEMMA ControlType == ASSUME NEW i \in BOOLEAN, NEW w \in BOOLEAN, NEW m \in Nat
                     PROVE  [ri |-> i, wi |-> w, space |-> m] \in Control
BY DEF Control

\* A function on 1 .. m is a sequence.
LEMMA FunctionIsSeq == ASSUME NEW m \in Nat, NEW f, f \in [1 .. m -> Nat]
                       PROVE  f \in Seq(Nat)
OBVIOUS

\* The program starts with empty rings and FIFOs and no interrupts.
LEMMA InitInv == Init => Inv
<1> SUFFICES ASSUME Init PROVE Inv
  OBVIOUS
<1>1. TypeOK
  BY Consts, ControlType
     DEF Init, TypeOK, TypeDriver, TypeTx, TypeRx, TypeIsr, Control, TypeCall, NoControl, Enables
<1>2. Waiting
  BY DEF Init, Waiting, SmallQuiet, BootQuiet, ControlCopy, TxWaits, RxWaits, RxEndFull,
         ReadAsks
<1>3. Streams
  BY Consts
     DEF Init, Streams, TxSpace, TxStream, TxClaim, RxStream, RxClaim, Count, Dist, Taken
<1> QED BY <1>1, <1>2, <1>3 DEF Inv



----------------------------------------------------------------------------
(* Which actions move which part of the state.                             *)

\* Who writes the transmit side, the receive side, the driver's settings, the
\* routine's locals and the thread's.
LEMMA Moves ==
  ASSUME [Next]_vars
  PROVE  /\ \/ UNCHANGED txVars \/ WriteCopy \/ WritePublish \/ PollWrite
            \/ IsrTransmit \/ HostTake
         /\ \/ UNCHANGED rxVars \/ ReadCopy \/ ReadPublish \/ PollRead
            \/ IsrReceive \/ HostSend
         /\ \/ UNCHANGED << timeout, irq_enable, host_inactive, config, control >>
            \/ UartInit \/ (\E time \in 0 .. INT_MAX : Ioctl(time)) \/ AlarmTimeout
            \/ WriteEnable \/ ReadEnable \/ IsrReceiveEnd \/ IsrTransmitEnd
         /\ UNCHANGED routine \/ Isr
         /\ \/ UNCHANGED << pc, call >>
            \/ UartInitSmall \/ UartInit \/ CallWrite \/ CallRead \/ CallClose \/ InCall
<1> USE DEF Next, vars, txVars, rxVars, state, config, rxRing, txRing, device,
            host, routine, call, app, UartInitSmall, UartInit, CallWrite,
            CallRead, CallClose, Begin, Ioctl, WriteSample, WriteCopy,
            WritePublish, WriteEnable, WriteSpin, WriteCheck, ReadSample,
            ReadCopy, ReadPublish, ReadSpin, ReadCheck, ReadEnable, ReadFail,
            Close, PollWrite, PollRead, IsrPoll, IsrReceive, IsrReceiveFull,
            IsrReceiveEnd, IsrTransmit, IsrTransmitEnd, AlarmTimeout, HostTake,
            HostSend, HostPlug
<1>1. \/ UNCHANGED txVars \/ WriteCopy \/ WritePublish \/ PollWrite
      \/ IsrTransmit \/ HostTake
  BY DEF InCall, Isr
<1>2. \/ UNCHANGED rxVars \/ ReadCopy \/ ReadPublish \/ PollRead
      \/ IsrReceive \/ HostSend
  BY DEF InCall, Isr
<1>3. \/ UNCHANGED << timeout, irq_enable, host_inactive, config, control >>
      \/ UartInit \/ (\E time \in 0 .. INT_MAX : Ioctl(time)) \/ AlarmTimeout
      \/ WriteEnable \/ ReadEnable \/ IsrReceiveEnd \/ IsrTransmitEnd
  BY DEF InCall, Isr
<1>4. UNCHANGED routine \/ Isr
  BY DEF InCall
<1>5. \/ UNCHANGED << pc, call >>
      \/ UartInitSmall \/ UartInit \/ CallWrite \/ CallRead \/ CallClose \/ InCall
  BY DEF Isr
<1> QED BY <1>1, <1>2, <1>3, <1>4, <1>5

----------------------------------------------------------------------------
(* Types.                                                                  *)

\* Types, part by part.
LEMMA TypeDriverStep == Inv /\ [Next]_vars => TypeDriver'
<1> SUFFICES ASSUME Inv, [Next]_vars PROVE TypeDriver'
  OBVIOUS
<1>0. TypeDriver
  BY DEF Inv, TypeOK
<1> USE <1>0 DEF TypeDriver, config
<1>1. CASE UNCHANGED << timeout, irq_enable, host_inactive, config, control >>
  BY <1>1
<1>2. CASE UartInit
  BY <1>2, Consts DEF UartInit, SetEnables, Enables
<1>3. CASE \E time \in 0 .. INT_MAX : Ioctl(time)
  <2>1. PICK time \in 0 .. INT_MAX : Ioctl(time)
    BY <1>3
  <2>2. timeout' \in Nat /\ control' = control
    BY <2>1, Consts DEF Ioctl, device
  <2> QED BY <2>1, <2>2 DEF Ioctl
<1>4. CASE AlarmTimeout
  <2>1. (control' = irq_enable \/ control' = control) /\ host_inactive' \in {0, host_inactive + 1}
    <3>1. CASE attached
      BY <1>4, <3>1 DEF AlarmTimeout
    <3>2. CASE ~attached
      BY <1>4, <3>2 DEF AlarmTimeout
    <3> QED BY <3>1, <3>2
  <2>2. UNCHANGED << timeout, irq_enable, small >>
    BY <1>4 DEF AlarmTimeout
  <2> QED BY <2>1, <2>2
<1>5. CASE WriteEnable \/ ReadEnable
  BY <1>5 DEF WriteEnable, ReadEnable, SetEnables, Enables
<1>6. CASE IsrReceiveEnd \/ IsrTransmitEnd
  BY <1>6 DEF IsrReceiveEnd, IsrTransmitEnd, SetEnables
<1> QED BY <1>1, <1>2, <1>3, <1>4, <1>5, <1>6, Moves

\* The types hold after every step of a thread, the routine, the device or the host
\* (altera_avalon_jtag_uart_*.c): first those of the transmit side.
LEMMA TypeTxStep == Inv /\ [Next]_vars => TypeTx'
<1> SUFFICES ASSUME Inv, [Next]_vars PROVE TypeTx'
  OBVIOUS
<1>0. TypeTx /\ TypeCall /\ TypeIsr /\ Streams
  BY DEF Inv, TypeOK
<1> USE <1>0 DEF TypeTx, txRing, app, host, device
<1>1. CASE UNCHANGED txVars
  BY <1>1 DEF txVars
<1>2. CASE WriteCopy
  <2>1. tx_buf' \in [Index -> Nat]
    BY <1>2, Consts DEF WriteCopy, Index, TypeCall
  <2> QED BY <1>2, <2>1 DEF WriteCopy
<1>3. CASE WritePublish
  <2>1. in + n \in 0 .. BUF_LEN /\ n \in Nat
    BY <1>3, Consts DEF TypeCall, WritePublish, Run, Streams, TxClaim, Index
  <2>2. (in + n) % BUF_LEN \in Index
    BY <2>1, Wrap
  <2> QED BY <1>3, <2>1, <2>2 DEF WritePublish
<1>4. CASE PollWrite
  <2>1. Append(tx_fifo, written + 1) \in Seq(Nat)
    BY AppendProperties
  <2>2. \/ tx_fifo' = tx_fifo /\ written' = written
        \/ tx_fifo' = Append(tx_fifo, written + 1) /\ written' = written + 1
    BY <1>4 DEF PollWrite
  <2>3. UNCHANGED << txRing, hostGot >>
    BY <1>4 DEF PollWrite
  <2>4. tx_fifo' \in Seq(Nat)
    BY <2>1, <2>2
  <2>5. written' \in Nat
    BY <2>2
  <2> QED BY <2>3, <2>4, <2>5
<1>5. CASE IsrTransmit
  BY <1>5, NextSlot DEF IsrTransmit
<1>6. CASE HostTake
  BY <1>6 DEF HostTake
<1> QED BY <1>1, <1>2, <1>3, <1>4, <1>5, <1>6, Moves

\* The receive side.
LEMMA TypeRxStep == Inv /\ [Next]_vars => TypeRx'
<1> SUFFICES ASSUME Inv, [Next]_vars PROVE TypeRx'
  OBVIOUS
<1>0. TypeRx /\ TypeCall /\ TypeIsr /\ Streams
  BY DEF Inv, TypeOK
<1> USE <1>0 DEF TypeRx, rxRing, app, host, device
<1>1. CASE UNCHANGED rxVars
  BY <1>1 DEF rxVars
<1>2. CASE ReadCopy
  <2>1. \A i \in 1 .. n : out + i - 1 \in Index
    BY <1>2, Consts DEF ReadCopy, Run, Streams, RxClaim, Index, TypeCall
  <2>2. [i \in 1 .. n |-> rx_buf[out + i - 1]] \in [1 .. n -> Nat]
    BY <2>1 DEF TypeCall
  <2>3. [i \in 1 .. n |-> rx_buf[out + i - 1]] \in Seq(Nat)
    BY <2>2, FunctionIsSeq DEF TypeCall
  <2> QED BY <1>2, <2>3, ConcatProperties DEF ReadCopy
<1>3. CASE ReadPublish
  <2>1. out + n \in 0 .. BUF_LEN
    BY <1>3, Consts DEF ReadPublish, Run, Streams, RxClaim, Index, TypeCall
  <2> QED BY <1>3, <2>1, Wrap DEF ReadPublish
<1>4. CASE PollRead
  <2>1. rx_fifo # << >> => Tail(rx_fifo) \in Seq(Nat) /\ Append(got, Head(rx_fifo)) \in Seq(Nat)
    OBVIOUS
  <2> QED BY <1>4, <2>1 DEF PollRead
<1>5. CASE IsrReceive
  <2>1. rx_fifo # << >> =>
          /\ Tail(rx_fifo) \in Seq(Nat)
          /\ [rx_buf EXCEPT ![rx_in] = Head(rx_fifo)] \in [Index -> Nat]
    OBVIOUS
  <2> QED BY <1>5, <2>1, NextSlot DEF IsrReceive
<1>6. CASE HostSend
  BY <1>6 DEF HostSend
<1> QED BY <1>1, <1>2, <1>3, <1>4, <1>5, <1>6, Moves

\* The locals of the interrupt routine (altera_avalon_jtag_uart_irq).
LEMMA TypeIsrStep == Inv /\ [Next]_vars => TypeIsr'
<1> SUFFICES ASSUME Inv, [Next]_vars PROVE TypeIsr'
  OBVIOUS
<1>0. TypeIsr /\ TypeTx /\ TxSpace
  BY DEF Inv, TypeOK, Streams
<1> USE <1>0 DEF TypeIsr, Control, TypeTx, routine
<1>1. CASE IsrPoll
  <2>1. WRITE_DEPTH - Len(tx_fifo) \in Nat
    BY Consts DEF TxSpace
  <2>2. RI \in BOOLEAN /\ WI \in BOOLEAN
    BY DEF RI, WI
  <2>3. ctl' \in Control
    <3>1. ctl' = NoControl \/ ctl' = [ri |-> RI, wi |-> WI, space |-> WRITE_DEPTH - Len(tx_fifo)]
      BY <1>1 DEF IsrPoll
    <3>2. NoControl \in Control
      BY ControlType DEF NoControl
    <3>3. [ri |-> RI, wi |-> WI, space |-> WRITE_DEPTH - Len(tx_fifo)]
            \in Control
      BY <2>1, <2>2, ControlType
    <3> QED BY <3>1, <3>2, <3>3
  <2> QED BY <1>1, <2>2, <2>3 DEF IsrPoll
<1>2. CASE IsrReceive \/ IsrReceiveFull \/ IsrReceiveEnd
  BY <1>2 DEF IsrReceive, IsrReceiveFull, IsrReceiveEnd
<1>3. CASE IsrTransmit
  <2>0. ctl.space > 0
    BY <1>3 DEF IsrTransmit
  <2>1. ctl.space - 1 \in Nat
    BY <2>0
  <2> QED BY <1>3, <2>1 DEF IsrTransmit
<1>4. CASE IsrTransmitEnd
  BY <1>4 DEF IsrTransmitEnd
<1> QED BY <1>1, <1>2, <1>3, <1>4, Moves DEF Isr

\* The locals of a call of read or write.
LEMMA TypeCallStep == Inv /\ [Next]_vars => TypeCall'
<1> SUFFICES ASSUME Inv, [Next]_vars PROVE TypeCall'
  OBVIOUS
<1>0. TypeCall /\ TypeTx /\ TypeRx /\ Waiting /\ Streams
  BY DEF Inv, TypeOK
<1> USE <1>0, Consts DEF TypeCall, WriteLabels, ReadLabels
<1>1. CASE UNCHANGED << pc, call >>
  BY <1>1 DEF call
<1>2. CASE UartInitSmall \/ UartInit
  BY <1>2 DEF UartInitSmall, UartInit, call
<1>3. CASE CallWrite \/ CallRead \/ CallClose
  BY <1>3 DEF CallWrite, CallRead, CallClose, Begin
<1>4. CASE WriteSample
  <2>1. Min({RoomTx(tx_in, tx_out), left}) \in Nat
    <3>1. RoomTx(tx_in, tx_out) \in Nat
      BY Rooms DEF TypeTx
    <3> QED BY <3>1, MinOf
  <2> QED BY <1>4, <2>1 DEF WriteSample, TypeTx
<1>5. CASE WritePublish
  BY <1>5 DEF WritePublish, Run, Streams, TxClaim
<1>6. CASE ReadSample
  <2>1. Min({FilledRx(rx_in, rx_out), left}) \in Nat
    <3>1. FilledRx(rx_in, rx_out) \in Nat
      BY Rooms DEF TypeRx
    <3> QED BY <3>1, MinOf
  <2> QED BY <1>6, <2>1 DEF ReadSample, TypeRx, AfterRead
<1>7. CASE ReadPublish
  BY <1>7 DEF ReadPublish, Run, Waiting, ReadAsks
<1>8. CASE PollWrite \/ PollRead
  <2>1. left # 0 => left - 1 \in Nat
    OBVIOUS
  <2>2. CASE PollWrite
    BY <2>1, <2>2 DEF PollWrite, Return
  <2>3. CASE PollRead
    <3>1. CASE rx_fifo # << >> /\ left > 0
      BY <2>1, <2>3, <3>1 DEF PollRead
    <3>2. CASE ~(rx_fifo # << >> /\ left > 0)
      BY <2>3, <3>2 DEF PollRead, Return
    <3> QED BY <3>1, <3>2
  <2> QED BY <1>8, <2>2, <2>3
<1>9. CASE \/ WriteCopy \/ WriteEnable \/ WriteSpin \/ WriteCheck
           \/ ReadCopy \/ ReadSpin \/ ReadCheck \/ ReadEnable \/ ReadFail \/ Close
  BY <1>9
     DEF WriteCopy, WriteEnable, WriteSpin, WriteCheck, ReadCopy, ReadSpin, ReadCheck,
         ReadEnable, ReadFail, Close, Return, call
<1> QED BY <1>1, <1>2, <1>3, <1>4, <1>5, <1>6, <1>7, <1>8, <1>9, Moves DEF InCall

\* Every step keeps the types.
LEMMA TypeStep == Inv /\ [Next]_vars => TypeOK'
BY TypeDriverStep, TypeTxStep, TypeRxStep, TypeIsrStep, TypeCallStep DEF TypeOK

----------------------------------------------------------------------------
(* The interrupts and the rings agree.                                     *)

\* The small driver never turns an interrupt on, and the copy of the enables is kept.
LEMMA SmallStep == Inv /\ [Next]_vars => SmallQuiet' /\ BootQuiet' /\ ControlCopy'
<1> SUFFICES ASSUME Inv, [Next]_vars PROVE SmallQuiet' /\ BootQuiet' /\ ControlCopy'
  OBVIOUS
<1>0. SmallQuiet /\ BootQuiet /\ ControlCopy /\ small \in BOOLEAN
  BY DEF Inv, Waiting, TypeOK, TypeDriver
<1>1. small' = small
  BY Moves
     DEF config, UartInit, Ioctl, AlarmTimeout, WriteEnable, ReadEnable, IsrReceiveEnd,
         IsrTransmitEnd
<1>2. ControlCopy'
  BY <1>0, Moves
     DEF ControlCopy, UartInit, Ioctl, AlarmTimeout, WriteEnable, ReadEnable, IsrReceiveEnd,
         IsrTransmitEnd, SetEnables, device
<1> USE <1>0, <1>1, <1>2
<1>3. CASE small
  <2>1. /\ pc \in {"boot", "app", "poll_write", "poll_read"} /\ isr = "none"
        /\ control = {} /\ ~RI /\ ~WI
    BY <1>3 DEF SmallQuiet, RI, WI
  <2>2. UNCHANGED << txRing, rxRing, routine, control >>
    BY <1>3, <2>1, Moves
       DEF txVars, rxVars, WriteCopy, WritePublish, PollWrite, HostTake, ReadCopy,
           ReadPublish, PollRead, HostSend, Isr, IsrPoll, IsrReceive, IsrReceiveFull,
           IsrReceiveEnd, IsrTransmit, IsrTransmitEnd, Run, UartInit, Ioctl, AlarmTimeout,
           WriteEnable, ReadEnable, device
  <2>3. pc' \in {"boot", "app", "poll_write", "poll_read"} /\ (pc' = "boot" => pc = "boot")
    BY <1>3, <2>1, Moves
       DEF UartInitSmall, UartInit, CallWrite, CallRead, CallClose, Begin, InCall, Run,
           WriteSample, WriteCopy, WritePublish, WriteEnable, WriteSpin, WriteCheck,
           ReadSample, ReadCopy, ReadPublish, ReadSpin, ReadCheck, ReadEnable, ReadFail,
           Close, PollWrite, PollRead, Return
  <2> QED BY <1>3, <2>1, <2>2, <2>3 DEF SmallQuiet, BootQuiet, txRing, rxRing, routine
<1>4. CASE ~small
  <2>1. pc \notin {"poll_write", "poll_read"}
    BY <1>4 DEF SmallQuiet
  <2>2. pc' \notin {"poll_write", "poll_read"} /\ (pc' = "boot" => pc = "boot")
    BY <1>4, <2>1, Moves
       DEF UartInitSmall, UartInit, CallWrite, CallRead, CallClose, Begin, InCall, Run,
           AfterRead, WriteSample, WriteCopy, WritePublish, WriteEnable, WriteSpin,
           WriteCheck, ReadSample, ReadCopy, ReadPublish, ReadSpin, ReadCheck, ReadEnable,
           ReadFail, Close, PollWrite, PollRead, Return
  <2>3. BootQuiet'
    BY <2>2, Moves
       DEF BootQuiet, RI, WI, routine, Isr, IsrPoll, IsrReceive, IsrReceiveFull,
           IsrReceiveEnd, IsrTransmit, IsrTransmitEnd, Run, UartInit, Ioctl, AlarmTimeout,
           WriteEnable, ReadEnable, device
  <2> QED BY <1>4, <2>2, <2>3 DEF SmallQuiet
<1> QED BY <1>3, <1>4

\* Write interrupts go off only when the transmit ring is empty.
LEMMA TxWaitsStep == Inv /\ [Next]_vars => TxWaits'
<1> SUFFICES ASSUME Inv, [Next]_vars PROVE TxWaits'
  OBVIOUS
<1>0. TxWaits /\ ControlCopy /\ SmallQuiet /\ BootQuiet /\ TypeCall
  BY DEF Inv, Waiting, TypeOK
<1>1. CASE UNCHANGED << tx_in, tx_out, control, pc >>
  BY <1>0, <1>1 DEF TxWaits
<1>2. CASE WriteEnable
  BY <1>2 DEF WriteEnable, SetEnables, TxWaits
<1>3. CASE IsrTransmitEnd
  BY <1>0, <1>3 DEF IsrTransmitEnd, SetEnables, TxWaits, ControlCopy, txRing, device
<1>4. CASE WritePublish \/ WriteSample \/ WriteCopy
  BY <1>4 DEF WritePublish, WriteSample, WriteCopy, TxWaits
<1>5. CASE IsrTransmit
  BY <1>0, <1>5 DEF IsrTransmit, TxWaits
<1>6. CASE CallWrite \/ CallRead \/ CallClose \/ UartInitSmall
  BY <1>0, <1>6
     DEF CallWrite, CallRead, CallClose, UartInitSmall, Begin, Run, TxWaits, txRing, device
<1>7. CASE UartInit
  BY <1>0, <1>7 DEF UartInit, BootQuiet, TxWaits, txRing
<1>8. CASE \/ WriteSpin \/ WriteCheck \/ ReadSample \/ ReadCopy \/ ReadPublish
           \/ ReadSpin \/ ReadCheck
           \/ ReadFail \/ Close \/ PollWrite \/ PollRead
  BY <1>0, <1>8
     DEF WriteSpin, WriteCheck, ReadSample, ReadCopy, ReadPublish, ReadSpin, ReadCheck,
         AfterRead, ReadFail, Close, PollWrite, PollRead, Return, Run, TxWaits, txRing,
         device
<1>9. CASE ReadEnable
  BY <1>0, <1>9 DEF ReadEnable, SetEnables, ControlCopy, Return, Run, TxWaits, txRing
<1>10. CASE \/ IsrPoll \/ IsrReceive \/ IsrReceiveFull \/ AlarmTimeout \/ HostTake
            \/ HostSend \/ HostPlug \/ UNCHANGED vars
            \/ \E time \in 0 .. INT_MAX : Ioctl(time)
  BY <1>0, <1>1, <1>10
     DEF IsrPoll, IsrReceive, IsrReceiveFull, AlarmTimeout, HostTake, HostSend, HostPlug,
         Ioctl, ControlCopy, vars, txRing, device
<1>11. CASE IsrReceiveEnd
  BY <1>0, <1>11 DEF IsrReceiveEnd, SetEnables, TxWaits, ControlCopy, txRing, device
<1> QED BY <1>1, <1>2, <1>3, <1>4, <1>5, <1>6, <1>7, <1>8, <1>9, <1>10, <1>11
           DEF Next, InCall, Isr

\* Read interrupts go off only when the receive ring is full, and whoever makes room
\* turns them on.
LEMMA RxWaitsStep == Inv /\ [Next]_vars => RxWaits' /\ RxEndFull' /\ ReadAsks'
<1> SUFFICES ASSUME Inv, [Next]_vars PROVE RxWaits' /\ RxEndFull' /\ ReadAsks'
  OBVIOUS
<1>0. /\ RxWaits /\ RxEndFull /\ ReadAsks /\ ControlCopy /\ SmallQuiet /\ BootQuiet
      /\ TypeCall /\ TypeRx
  BY DEF Inv, Waiting, TypeOK
<1>s. small' = small /\ ControlCopy' /\ TypeCall'
  BY SmallStep, TypeCallStep, Moves
     DEF config, UartInit, Ioctl, AlarmTimeout, WriteEnable, ReadEnable, IsrReceiveEnd,
         IsrTransmitEnd
<1> USE <1>0, <1>s
<1>1. CASE UNCHANGED << rx_in, rx_out, control, isr, ravail, pc, call >>
  BY <1>1 DEF RxWaits, RxEndFull, ReadAsks, call, Next1
<1>2. CASE ReadSample
  <2>1. UNCHANGED << rx_in, rx_out, control, isr, ravail, left, done >>
    BY <1>2 DEF ReadSample, routine, rxRing, device
  <2>2. FilledRx(rx_in, rx_out) \in Nat /\ left \in Nat /\ left > 0 /\ done \in Nat
    BY <1>2, Rooms DEF ReadSample, Run, TypeRx, TypeCall, ReadAsks
  <2>3. FilledRx(rx_in, rx_out) # 0 => pc' = "r_copy" /\ n' \in 1 .. left
    BY <1>2, <2>2, MinOf DEF ReadSample
  <2>4. FilledRx(rx_in, rx_out) = 0 =>
          pc' = IF done > 0 THEN "r_enable" ELSE IF nonblock THEN "r_fail" ELSE "r_spin"
    BY <1>2 DEF ReadSample, AfterRead
  <2>5. pc = "r_sample" /\ isr = "none"
    BY <1>2 DEF ReadSample, Run
  <2> QED BY <2>1, <2>2, <2>3, <2>4, <2>5 DEF RxWaits, RxEndFull, ReadAsks, Next1
<1>3. CASE ReadCopy
  BY <1>3
     DEF ReadCopy, Run, RxWaits, RxEndFull, ReadAsks, Next1, call, routine, rxRing, device
<1>4. CASE ReadPublish
  BY <1>4 DEF ReadPublish, Run, RxWaits, RxEndFull, ReadAsks, TypeCall, routine, device
<1>5. CASE ReadSpin \/ ReadCheck
  BY <1>5
     DEF ReadSpin, ReadCheck, Run, RxWaits, RxEndFull, ReadAsks, Next1, call, routine,
         rxRing, device
<1>6. CASE ReadEnable
  BY <1>6
     DEF ReadEnable, SetEnables, Return, Run, RxWaits, RxEndFull, ReadAsks, Next1, routine,
         rxRing
<1>7. CASE \/ CallWrite \/ CallRead \/ CallClose \/ UartInitSmall
  BY <1>7, Consts
     DEF CallWrite, CallRead, CallClose, UartInitSmall, Begin, Run, RxWaits, RxEndFull,
         ReadAsks, Next1, routine, rxRing, device, SmallQuiet
<1>8. CASE UartInit
  BY <1>8 DEF UartInit, SetEnables, RxWaits, RxEndFull, ReadAsks, routine
<1>9. CASE WriteEnable
  BY <1>9
     DEF WriteEnable, SetEnables, Return, Run, RxWaits, RxEndFull, ReadAsks, ControlCopy,
         Next1, routine, rxRing, call
<1>10. CASE \/ WriteSample \/ WriteCopy \/ WritePublish \/ WriteSpin \/ WriteCheck
            \/ ReadFail \/ Close
            \/ PollWrite \/ PollRead
  BY <1>10
     DEF WriteSample, WriteCopy, WritePublish, WriteSpin, WriteCheck, ReadFail, Close,
         PollWrite, PollRead, Return, Run, RxWaits, RxEndFull, ReadAsks, ControlCopy, Next1,
         routine, rxRing, call, device
<1>11. CASE IsrReceive
  BY <1>11 DEF IsrReceive, RxWaits, RxEndFull, ReadAsks, call, Next1
<1>12. CASE IsrReceiveFull
  BY <1>12 DEF IsrReceiveFull, RxWaits, RxEndFull, ReadAsks, call, Next1, rxRing, device
<1>13. CASE IsrReceiveEnd
  BY <1>13
     DEF IsrReceiveEnd, SetEnables, RxWaits, RxEndFull, ReadAsks, call, Next1, rxRing,
         ControlCopy
<1>14. CASE IsrTransmitEnd
  BY <1>14
     DEF IsrTransmitEnd, SetEnables, RxWaits, RxEndFull, ReadAsks, call, Next1, rxRing,
         ControlCopy
<1>15. CASE IsrPoll \/ IsrTransmit
  BY <1>15
     DEF IsrPoll, IsrTransmit, RxWaits, RxEndFull, ReadAsks, call, Next1, rxRing, device
<1>16. CASE AlarmTimeout \/ HostTake \/ HostSend \/ HostPlug \/ UNCHANGED vars
            \/ \E time \in 0 .. INT_MAX : Ioctl(time)
  BY <1>1, <1>16
     DEF AlarmTimeout, HostTake, HostSend, HostPlug, Ioctl, ControlCopy, vars, rxRing,
         device, routine
<1> QED BY <1>1, <1>2, <1>3, <1>4, <1>5, <1>6, <1>7, <1>8, <1>9, <1>10, <1>11, <1>12, <1>13,
           <1>14, <1>15, <1>16 DEF Next, InCall, Isr

\* Nobody is left waiting by any step.
LEMMA WaitingStep == Inv /\ [Next]_vars => Waiting'
BY SmallStep, TxWaitsStep, RxWaitsStep DEF Waiting

----------------------------------------------------------------------------
(* Where the characters are.                                               *)

\* A ring of BUF_LEN slots holds at most BUF_LEN - 1.
LEMMA DistRange == ASSUME NEW a \in Index, NEW b \in Index
                   PROVE  /\ Dist(a, b) \in 0 .. BUF_LEN - 1 /\ Dist(a, a) = 0
                          /\ Dist(a, b) = 0 => a = b
BY Consts DEF Dist, Index

\* The producer's end moves m slots: the ring holds m more, and these are they.
LEMMA DistHead ==
  ASSUME NEW o \in Index, NEW i \in Index, NEW m \in Nat,
         i + m <= BUF_LEN, Dist(o, i) + m < BUF_LEN
  PROVE  /\ (i + m) % BUF_LEN \in Index
         /\ Dist(o, (i + m) % BUF_LEN) = Dist(o, i) + m
         /\ \A j \in Index : Dist(o, j) >= Dist(o, i) /\ Dist(o, j) < Dist(o, i) + m
                <=> j \in i .. i + m - 1
         /\ \A j \in i .. i + m - 1 : j \in Index /\ Dist(o, j) = Dist(o, i) + (j - i)
<1>1. i + m \in 0 .. BUF_LEN
  BY Consts DEF Index
<1>2. (i + m) % BUF_LEN = (IF i + m = BUF_LEN THEN 0 ELSE i + m)
  BY <1>1, Wrap
<1> QED BY <1>2, Consts DEF Dist, Index

\* The consumer's end moves m slots: every slot is m nearer.
LEMMA DistTail ==
  ASSUME NEW o \in Index, NEW m \in Nat, o + m <= BUF_LEN, m < BUF_LEN
  PROVE  /\ (o + m) % BUF_LEN \in Index
         /\ \A j \in Index : Dist((o + m) % BUF_LEN, j) =
              IF Dist(o, j) >= m THEN Dist(o, j) - m ELSE Dist(o, j) - m + BUF_LEN
<1>1. o + m \in 0 .. BUF_LEN
  BY Consts DEF Index
<1>2. (o + m) % BUF_LEN = (IF o + m = BUF_LEN THEN 0 ELSE o + m)
  BY <1>1, Wrap
<1> QED BY <1>2, Consts DEF Dist, Index

\* Streams of consecutive numbers.
LEMMA CountAppend == ASSUME NEW a \in Nat PROVE Append(Count(a), a + 1) = Count(a + 1)
BY DEF Count

\* The stream of the first numbers has as many.
LEMMA CountLen == ASSUME NEW a \in Nat PROVE Len(Count(a)) = a /\ Count(a) \in Seq(Nat)
BY DEF Count

\* It goes on with the numbers that follow.
LEMMA CountConcat ==
  ASSUME NEW a \in Nat, NEW m \in Nat, NEW f \in [1 .. m -> Nat],
         \A i \in 1 .. m : f[i] = a + i
  PROVE  Count(a) \o f = Count(a + m)
<1>1. f \in Seq(Nat) /\ Len(f) = m
  OBVIOUS
<1>2. Count(a) \in Seq(Nat) /\ Len(Count(a)) = a
  BY CountLen
<1> QED BY <1>1, <1>2 DEF Count

\* A slot that is closer than the producer after the consumer moved k slots was
\* closer before.
LEMMA DistBack ==
  ASSUME NEW d \in 0 .. BUF_LEN - 1, NEW e \in 0 .. BUF_LEN - 1, NEW k \in Nat, NEW x,
         x = IF d >= k THEN d - k ELSE d - k + BUF_LEN, x < e - k
  PROVE  x = d - k /\ d < e
BY Consts

\* A FIFO that holds the numbers after b, read and written.
Follows(q, b) == \A i \in 1 .. Len(q) : q[i] = b + i

\* What the other side takes is the next number, and the rest goes on from there.
LEMMA FifoHead ==
  ASSUME NEW q \in Seq(Nat), NEW b \in Nat, \A i \in 1 .. Len(q) : q[i] = b + i, q # << >>
  PROVE  /\ Head(q) = b + 1 /\ Tail(q) \in Seq(Nat) /\ Len(Tail(q)) = Len(q) - 1
         /\ Len(q) >= 1
         /\ \A i \in 1 .. Len(Tail(q)) : Tail(q)[i] = b + 1 + i
OBVIOUS

\* What is put in after the last number of a FIFO is the next one.
LEMMA FifoAppend ==
  ASSUME NEW q \in Seq(Nat), NEW b \in Nat, Follows(q, b),
         NEW r, r = Append(q, b + Len(q) + 1)
  PROVE  Len(r) = Len(q) + 1 /\ Follows(r, b)
<1>1. b + Len(q) + 1 \in Nat /\ Len(q) \in Nat
  BY LenProperties
<1>2. /\ Len(r) = Len(q) + 1 /\ r[Len(q) + 1] = b + Len(q) + 1
      /\ \A i \in 1 .. Len(q) : r[i] = q[i]
  BY <1>1, AppendProperties
<1>3. ASSUME NEW i \in 1 .. Len(q) + 1 PROVE r[i] = b + i
  <2>1. CASE i \in 1 .. Len(q)
    BY <1>2, <2>1 DEF Follows
  <2>2. CASE i = Len(q) + 1
    BY <1>1, <1>2, <2>2
  <2> QED BY <1>1, <2>1, <2>2
<1> QED BY <1>2, <1>3 DEF Follows

\* The routine never sends into a full FIFO.
LEMMA TxSpaceStep == Inv /\ [Next]_vars => TxSpace'
<1> SUFFICES ASSUME Inv, [Next]_vars PROVE TxSpace'
  OBVIOUS
<1>0. TxSpace /\ TypeTx /\ TypeIsr /\ SmallQuiet
  BY DEF Inv, TypeOK, Streams, Waiting
<1>1. CASE UNCHANGED << txVars, routine >>
  BY <1>0, <1>1 DEF TxSpace, txVars, routine
<1>2. CASE PollWrite
  <2>1. /\ isr' = "none"
        /\ \/ tx_fifo' = tx_fifo
           \/ Len(tx_fifo) < WRITE_DEPTH /\ tx_fifo' = Append(tx_fifo, written + 1)
    BY <1>2 DEF PollWrite, Run, routine
  <2> QED BY <1>0, <2>1, Consts DEF TxSpace, TypeTx
<1>3. CASE IsrTransmit
  <2>1. /\ isr = "tx" /\ isr' = "tx" /\ ctl.space > 0 /\ ctl'.space = ctl.space - 1
        /\ tx_fifo' = IF Len(tx_fifo) < WRITE_DEPTH THEN Append(tx_fifo, tx_buf[tx_out])
                                                    ELSE tx_fifo
    BY <1>0, <1>3 DEF IsrTransmit, TypeIsr, Control
  <2>2. /\ ctl.space \in Nat /\ Len(tx_fifo) \in Nat
        /\ Len(tx_fifo') \in {Len(tx_fifo), Len(tx_fifo) + 1}
    BY <1>0, <2>1 DEF TypeIsr, Control, TypeTx
  <2> QED BY <1>0, <2>1, <2>2, Consts DEF TxSpace
<1>4. CASE HostTake
  <2>1. Len(tx_fifo') = Len(tx_fifo) - 1 /\ UNCHANGED << isr, ctl >>
    BY <1>0, <1>4 DEF HostTake, TypeTx, routine
  <2>2. Len(tx_fifo) \in Nat /\ ctl.space \in Nat
    BY <1>0 DEF TypeTx, TypeIsr, Control
  <2> QED BY <1>0, <2>1, <2>2, Consts DEF TxSpace
<1>5. CASE IsrPoll
  <2>1. tx_fifo' = tx_fifo /\ (isr' = "none" \/ ctl'.space = WRITE_DEPTH - Len(tx_fifo))
    BY <1>5 DEF IsrPoll, device
  <2>2. Len(tx_fifo) \in Nat
    BY <1>0 DEF TypeTx
  <2> QED BY <1>0, <2>1, <2>2, Consts DEF TxSpace
<1>6. CASE IsrReceive \/ IsrReceiveFull \/ IsrReceiveEnd \/ IsrTransmitEnd
  BY <1>0, <1>6
     DEF IsrReceive, IsrReceiveFull, IsrReceiveEnd, IsrTransmitEnd, TxSpace, device
<1>7. CASE WriteCopy \/ WritePublish
  BY <1>0, <1>7 DEF WriteCopy, WritePublish, TxSpace, routine, device
<1> QED BY <1>1, <1>2, <1>3, <1>4, <1>5, <1>6, <1>7, Moves DEF Isr

\* No step loses, repeats or reorders a character on its way to the host.
LEMMA TxStreamStep == Inv /\ [Next]_vars => TxStream'
<1> SUFFICES ASSUME Inv, [Next]_vars PROVE TxStream'
  OBVIOUS
<1>0. /\ TxStream /\ TxClaim /\ TxSpace /\ TypeTx /\ TypeCall /\ TypeIsr /\ SmallQuiet
      /\ small \in BOOLEAN
  BY DEF Inv, TypeOK, Streams, Waiting, TypeDriver
<1> DEFINE base == Len(hostGot) + Len(tx_fifo)
<1>t. /\ base \in Nat /\ Dist(tx_out, tx_in) \in 0 .. BUF_LEN - 1
      /\ base + Dist(tx_out, tx_in) = written
  BY <1>0, DistRange DEF TxStream, TypeTx
<1>f. tx_fifo \in Seq(Nat) /\ \A i \in 1 .. Len(tx_fifo) : tx_fifo[i] = Len(hostGot) + i
  BY <1>0 DEF TxStream, TypeTx
<1>1. CASE UNCHANGED txVars
  BY <1>0, <1>1 DEF TxStream, txVars, txRing, Dist
<1>2. CASE WriteCopy
  <2>1. /\ pc = "w_copy" /\ UNCHANGED << tx_in, tx_out, tx_fifo, hostGot, written >>
        /\ tx_buf' = [i \in Index |-> IF i \in in .. in + n - 1
                                  THEN written + (i - in) + 1 ELSE tx_buf[i]]
    BY <1>2 DEF WriteCopy, Run, device, host, app
  <2>2. /\ n \in Nat /\ in = tx_in /\ in + n <= BUF_LEN
        /\ Dist(tx_out, tx_in) + n < BUF_LEN
    BY <1>0, <2>1 DEF TxClaim, TypeCall
  <2>3. \A i \in Index : Dist(tx_out, i) < Dist(tx_out, tx_in) => i \notin in .. in + n - 1
    <3>1. \A i \in in .. in + n - 1 : Dist(tx_out, i) = Dist(tx_out, tx_in) + (i - in)
      BY <1>0, <2>2, DistHead DEF TypeTx
    <3>2. in \in Nat
      BY <1>0, <2>2, Consts DEF TypeTx
    <3> QED BY <1>t, <2>2, <3>1, <3>2
  <2>4. \A i \in Index : Dist(tx_out, i) < Dist(tx_out, tx_in) => tx_buf'[i] = tx_buf[i]
    BY <2>1, <2>3
  <2> QED BY <1>0, <2>1, <2>4 DEF TxStream, Dist
<1>3. CASE WritePublish
  <2>1. /\ pc = "w_publish" /\ UNCHANGED << tx_out, tx_buf, tx_fifo, hostGot >>
        /\ tx_in' = (in + n) % BUF_LEN /\ written' = written + n
    BY <1>3 DEF WritePublish, Run, device, host
  <2>2. /\ n \in Nat /\ in = tx_in /\ in + n <= BUF_LEN
        /\ Dist(tx_out, tx_in) + n < BUF_LEN
        /\ \A i \in in .. in + n - 1 : tx_buf[i] = written + (i - in) + 1
    BY <1>0, <2>1 DEF TxClaim, TypeCall
  <2>3. /\ Dist(tx_out, tx_in') = Dist(tx_out, tx_in) + n
        /\ \A i \in Index :
             Dist(tx_out, i) >= Dist(tx_out, tx_in) /\ Dist(tx_out, i) < Dist(tx_out, tx_in) + n
              => i \in in .. in + n - 1 /\ Dist(tx_out, i) = Dist(tx_out, tx_in) + (i - in)
    BY <1>0, <2>1, <2>2, DistHead DEF TypeTx
  <2>4. ASSUME NEW i \in Index, Dist(tx_out, i) < Dist(tx_out, tx_in')
        PROVE  tx_buf[i] = base + Dist(tx_out, i) + 1
    <3>1. CASE Dist(tx_out, i) < Dist(tx_out, tx_in)
      BY <1>0, <3>1 DEF TxStream
    <3>2. CASE ~(Dist(tx_out, i) < Dist(tx_out, tx_in))
      <4>1. Dist(tx_out, i) \in Nat /\ tx_in \in Nat /\ i \in Nat
        BY <1>0, DistRange, Consts DEF TypeTx
      <4>2. i \in in .. in + n - 1 /\ Dist(tx_out, i) = Dist(tx_out, tx_in) + (i - in)
        BY <1>t, <2>3, <2>4, <3>2, <4>1
      <4> QED BY <1>t, <2>2, <4>1, <4>2
    <3> QED BY <3>1, <3>2
  <2>5. base + Dist(tx_out, tx_in') = written'
    BY <1>t, <2>1, <2>2, <2>3
  <2> QED BY <1>0, <2>1, <2>4, <2>5 DEF TxStream, Dist
<1>4. CASE PollWrite
  <2>1. CASE left = 0
    BY <1>0, <1>4, <2>1 DEF PollWrite, TxStream, txRing, host, Dist
  <2>2. CASE left # 0
    <3>1. /\ UNCHANGED << tx_in, tx_out, tx_buf, hostGot >> /\ written' = written + 1
          /\ tx_fifo' = Append(tx_fifo, written + 1) /\ pc = "poll_write"
      BY <1>4, <2>2 DEF PollWrite, Run, txRing, host
    <3>2. tx_in = tx_out /\ Dist(tx_out, tx_in) = 0
      BY <1>0, <3>1, DistRange DEF SmallQuiet, TypeTx
    <3>3. /\ Len(hostGot) \in Nat /\ Len(tx_fifo) \in Nat
          /\ written = Len(hostGot) + Len(tx_fifo)
      BY <1>0, <1>t, <3>2 DEF TypeTx
    <3>4. /\ Len(tx_fifo') = Len(tx_fifo) + 1
          /\ \A i \in 1 .. Len(tx_fifo') : tx_fifo'[i] = Len(hostGot) + i
      <4>1. tx_fifo' = Append(tx_fifo, Len(hostGot) + Len(tx_fifo) + 1)
        BY <3>1, <3>3
      <4>2. tx_fifo \in Seq(Nat) /\ Follows(tx_fifo, Len(hostGot))
        BY <1>f DEF Follows
      <4>3. Len(tx_fifo') = Len(tx_fifo) + 1 /\ Follows(tx_fifo', Len(hostGot))
        BY <3>3, <4>1, <4>2, FifoAppend
      <4> QED BY <4>3 DEF Follows
    <3>5. \A i \in Index : ~(Dist(tx_out, i) < 0)
      BY <1>0, DistRange DEF TypeTx
    <3> QED BY <1>0, <3>1, <3>2, <3>3, <3>4, <3>5 DEF TxStream, Dist
  <2> QED BY <2>1, <2>2
<1>5. CASE IsrTransmit
  <2>1. /\ UNCHANGED << tx_in, tx_buf, hostGot, written >> /\ tx_out # tx_in
        /\ tx_out' = Next1(tx_out)
        /\ isr = "tx" /\ ctl.space > 0
        /\ tx_fifo' = IF Len(tx_fifo) < WRITE_DEPTH THEN Append(tx_fifo, tx_buf[tx_out])
                                                    ELSE tx_fifo
    BY <1>5 DEF IsrTransmit, host, app
  <2>2. Len(tx_fifo) < WRITE_DEPTH
    BY <1>0, <2>1, Consts DEF TxSpace, TypeIsr, Control, TypeTx
  <2>3. Dist(tx_out, tx_in) > 0 /\ tx_buf[tx_out] = Len(hostGot) + Len(tx_fifo) + 1
    <3>1. Dist(tx_out, tx_in) > 0 /\ Dist(tx_out, tx_out) = 0 /\ tx_out \in Index
      BY <1>0, <1>t, <2>1, DistRange DEF TypeTx
    <3>2. tx_buf[tx_out] = base + 0 + 1
      BY <1>0, <3>1 DEF TxStream
    <3> QED BY <1>t, <3>1, <3>2
  <2>4. /\ Len(tx_fifo') = Len(tx_fifo) + 1
        /\ \A i \in 1 .. Len(tx_fifo') : tx_fifo'[i] = Len(hostGot) + i
    <3>1. /\ Len(hostGot) \in Nat
          /\ tx_fifo' = Append(tx_fifo, Len(hostGot) + Len(tx_fifo) + 1)
      BY <1>0, <2>1, <2>2, <2>3 DEF TypeTx
    <3>2. tx_fifo \in Seq(Nat) /\ Follows(tx_fifo, Len(hostGot))
      BY <1>f DEF Follows
    <3>3. Len(tx_fifo') = Len(tx_fifo) + 1 /\ Follows(tx_fifo', Len(hostGot))
      BY <3>1, <3>2, FifoAppend
    <3> QED BY <3>3 DEF Follows
  <2>5. \A i \in Index : Dist(tx_out', i) = IF Dist(tx_out, i) >= 1
                                           THEN Dist(tx_out, i) - 1
                                           ELSE Dist(tx_out, i) - 1 + BUF_LEN
    BY <1>0, <2>1, DistTail, Consts DEF TypeTx, Next1, Index
  <2>6. tx_in \in Index /\ Dist(tx_out', tx_in) = Dist(tx_out, tx_in) - 1
    BY <1>0, <1>t, <2>3, <2>5 DEF TypeTx
  <2>7. ASSUME NEW i \in Index, Dist(tx_out', i) < Dist(tx_out', tx_in)
        PROVE  tx_buf[i] = Len(hostGot) + Len(tx_fifo') + Dist(tx_out', i) + 1
    <3>1. Dist(tx_out, i) \in 0 .. BUF_LEN - 1
      BY <1>0, DistRange DEF TypeTx
    <3>2. Dist(tx_out', i) = Dist(tx_out, i) - 1 /\ Dist(tx_out, i) < Dist(tx_out, tx_in)
      <4>1. Dist(tx_out', i) = IF Dist(tx_out, i) >= 1
                               THEN Dist(tx_out, i) - 1
                               ELSE Dist(tx_out, i) - 1 + BUF_LEN
        BY <2>5
      <4>2. Dist(tx_out', i) < Dist(tx_out, tx_in) - 1
        BY <2>6, <2>7
      <4> QED BY <1>t, <3>1, <4>1, <4>2, DistBack
    <3>3. tx_buf[i] = base + Dist(tx_out, i) + 1
      BY <1>0, <3>2 DEF TxStream
    <3> QED BY <1>0, <2>4, <3>1, <3>2, <3>3 DEF TypeTx
  <2>8. Len(hostGot) + Len(tx_fifo') + Dist(tx_out', tx_in) = written
    BY <1>0, <1>t, <2>4, <2>6 DEF TypeTx
  <2> QED BY <1>0, <2>1, <2>4, <2>7, <2>8 DEF TxStream, Dist
<1>6. CASE HostTake
  <2>1. /\ UNCHANGED << tx_in, tx_out, tx_buf, written >> /\ tx_fifo # << >>
        /\ tx_fifo' = Tail(tx_fifo) /\ hostGot' = Append(hostGot, Head(tx_fifo))
    BY <1>6 DEF HostTake, txRing, app
  <2>2. Len(hostGot) \in Nat /\ Len(tx_fifo) \in Nat
    BY <1>0 DEF TypeTx
  <2>3. /\ Head(tx_fifo) = Len(hostGot) + 1 /\ Len(tx_fifo') = Len(tx_fifo) - 1
        /\ \A i \in 1 .. Len(tx_fifo') : tx_fifo'[i] = Len(hostGot) + 1 + i
    BY <1>0, <2>1, <2>2, FifoHead DEF TxStream, TypeTx
  <2>4. hostGot' = Count(Len(hostGot) + 1)
    BY <1>0, <2>1, <2>2, <2>3, CountAppend DEF TxStream
  <2>5. Len(hostGot') = Len(hostGot) + 1
    BY <2>2, <2>4, CountLen
  <2>6. Len(hostGot') + Len(tx_fifo') = base
    BY <2>2, <2>3, <2>5
  <2> QED BY <1>0, <2>1, <2>2, <2>3, <2>4, <2>5, <2>6 DEF TxStream, Dist
<1> QED BY <1>1, <1>2, <1>3, <1>4, <1>5, <1>6, Moves

\* The slots write has claimed are its own until it publishes them.
LEMMA TxClaimStep == Inv /\ [Next]_vars => TxClaim'
<1> SUFFICES ASSUME Inv, [Next]_vars PROVE TxClaim'
  OBVIOUS
<1>0. TxClaim /\ TypeTx /\ TypeCall /\ TxStream
  BY DEF Inv, TypeOK, Streams
<1>1. CASE WriteSample
  <2>1. CASE pc' = "w_copy"
    <3>1. /\ left # 0 /\ in' = tx_in /\ n' = Min({RoomTx(tx_in, tx_out), left})
          /\ RoomTx(tx_in, tx_out) # 0 /\ UNCHANGED << tx_in, tx_out, left >>
      BY <1>1, <2>1 DEF WriteSample, txRing
    <3>2. /\ RoomTx(tx_in, tx_out) \in Nat /\ tx_in + RoomTx(tx_in, tx_out) <= BUF_LEN
          /\ Dist(tx_out, tx_in) + RoomTx(tx_in, tx_out) < BUF_LEN
          /\ tx_in \in Nat /\ left \in Nat /\ Dist(tx_out, tx_in) \in Nat
      BY <1>0, Rooms, Consts DEF TypeTx, TypeCall
    <3>3. n' \in 1 .. left /\ n' <= RoomTx(tx_in, tx_out)
      BY <3>1, <3>2, MinOf
    <3> QED BY <2>1, <3>1, <3>2, <3>3, Consts DEF TxClaim, Dist
  <2>2. CASE pc' # "w_copy"
    BY <1>1, <2>2 DEF WriteSample, TxClaim
  <2> QED BY <2>1, <2>2
<1>2. CASE WriteCopy
  <2>1. /\ pc = "w_copy" /\ UNCHANGED << tx_in, tx_out, in, n, left, written >>
        /\ tx_buf' = [i \in Index |-> IF i \in in .. in + n - 1
                                  THEN written + (i - in) + 1 ELSE tx_buf[i]]
    BY <1>2 DEF WriteCopy, Run, app, call
  <2>2. \A i \in in .. in + n - 1 : i \in Index
    BY <1>0, <2>1, Consts DEF TxClaim, TypeTx, TypeCall, Index
  <2> QED BY <1>0, <2>1, <2>2 DEF TxClaim, Dist
<1>3. CASE IsrTransmit
  <2>1. /\ UNCHANGED << pc, tx_in, tx_buf, in, n, left, written >>
        /\ tx_out' = Next1(tx_out) /\ tx_out # tx_in
    BY <1>3 DEF IsrTransmit, call, app
  <2>2. Dist(tx_out, tx_in) \in 1 .. BUF_LEN - 1
    BY <1>0, <2>1, DistRange DEF TypeTx
  <2>3. Dist(tx_out', tx_in) = Dist(tx_out, tx_in) - 1
    BY <1>0, <2>1, <2>2, DistTail, Consts DEF TypeTx, Next1, Index
  <2>4. n \in Nat
    BY <1>0 DEF TypeCall
  <2> QED BY <1>0, <2>1, <2>2, <2>3, <2>4, Consts DEF TxClaim, Dist
<1>4. CASE UNCHANGED << txRing, written, in, n, left >> /\ (pc' \in {"w_copy", "w_publish"} => pc' = pc)
  BY <1>0, <1>4 DEF TxClaim, txRing, Dist
<1>5. CASE UNCHANGED << pc, call >> /\ ~IsrTransmit
  <2>1. CASE pc \notin {"w_copy", "w_publish"}
    BY <1>5, <2>1 DEF TxClaim
  <2>2. CASE pc \in {"w_copy", "w_publish"}
    <3>1. UNCHANGED << in, n, left, pc >>
      BY <1>5 DEF call
    <3>2. ~WriteCopy /\ ~WritePublish /\ ~PollWrite
      BY <2>2, <3>1 DEF WriteCopy, WritePublish, PollWrite, Run
    <3>3. UNCHANGED << txRing, written >>
      BY <1>5, <3>2, Moves DEF txVars, HostTake, app
    <3> QED BY <1>4, <3>1, <3>3
  <2> QED BY <2>1, <2>2
<1>6. CASE pc' \notin {"w_copy", "w_publish"}
  BY <1>6 DEF TxClaim
<1>7. CASE InCall /\ ~WriteSample /\ ~WriteCopy
  BY <1>6, <1>7
     DEF InCall, Run, WritePublish, WriteEnable, WriteSpin, WriteCheck, ReadSample,
         ReadCopy, ReadPublish, AfterRead, ReadSpin, ReadCheck, ReadEnable, ReadFail, Close,
         PollWrite, PollRead, Return
<1>8. CASE UartInitSmall \/ UartInit \/ CallWrite \/ CallRead \/ CallClose
  BY <1>6, <1>8 DEF UartInitSmall, UartInit, CallWrite, CallRead, CallClose, Begin
<1> QED BY <1>1, <1>2, <1>3, <1>5, <1>7, <1>8, Moves

\* No step loses, repeats or reorders a character on its way to the application.
LEMMA RxStreamStep == Inv /\ [Next]_vars => RxStream'
<1> SUFFICES ASSUME Inv, [Next]_vars PROVE RxStream'
  OBVIOUS
<1>0. /\ RxStream /\ RxClaim /\ ReadAsks /\ TypeRx /\ TypeCall /\ SmallQuiet
      /\ small \in BOOLEAN
  BY DEF Inv, TypeOK, Streams, Waiting, TypeDriver
<1>t. /\ Taken \in Int /\ Dist(rx_out, rx_in) \in 0 .. BUF_LEN - 1 /\ Len(rx_fifo) \in Nat
      /\ Len(got) \in Nat
      /\ Taken + Dist(rx_out, rx_in) + Len(rx_fifo) = hostSent /\ hostSent \in Nat
  <2>1. Len(got) \in Nat /\ Len(rx_fifo) \in Nat /\ hostSent \in Nat /\ n \in Nat
    BY <1>0 DEF TypeRx, TypeCall
  <2>2. Taken \in Int
    BY <2>1 DEF Taken
  <2>3. Dist(rx_out, rx_in) \in 0 .. BUF_LEN - 1
    BY <1>0, DistRange DEF TypeRx
  <2> QED BY <1>0, <2>1, <2>2, <2>3 DEF RxStream
<1>r. \A i \in Index : Dist(rx_out, i) < Dist(rx_out, rx_in) =>
        rx_buf[i] = Taken + Dist(rx_out, i) + 1
  BY <1>0 DEF RxStream
<1>f. rx_fifo \in Seq(Nat) /\ \A i \in 1 .. Len(rx_fifo) : rx_fifo[i] = hostSent - Len(rx_fifo) + i
  BY <1>0 DEF RxStream, TypeRx
<1>1. CASE /\ UNCHANGED rxVars /\ (pc' = "r_publish" <=> pc = "r_publish")
           /\ pc = "r_publish" => n' = n
  BY <1>0, <1>1 DEF RxStream, rxVars, rxRing, Dist, Taken
<1>2. CASE ReadCopy
  <2>1. /\ pc = "r_copy" /\ pc' = "r_publish"
        /\ UNCHANGED << rx_in, rx_out, rx_buf, rx_fifo, hostSent, n >>
        /\ got' = got \o [i \in 1 .. n |-> rx_buf[out + i - 1]]
    BY <1>2 DEF ReadCopy, Run, rxRing, device, host, call
  <2>2. /\ n \in Nat /\ out = rx_out /\ out + n <= BUF_LEN /\ n <= Dist(rx_out, rx_in)
        /\ Taken = Len(got)
    BY <1>0, <2>1 DEF RxClaim, TypeCall, Taken
  <2>3. \A i \in 1 .. n : /\ out + i - 1 \in Index /\ Dist(rx_out, out + i - 1) = i - 1
                          /\ rx_buf[out + i - 1] = Len(got) + i
    <3>1. ASSUME NEW i \in 1 .. n PROVE out + i - 1 \in Index /\ Dist(rx_out, out + i - 1) = i - 1
      BY <1>0, <2>2, Consts DEF Dist, Index, TypeRx
    <3>2. ASSUME NEW i \in 1 .. n PROVE rx_buf[out + i - 1] = Taken + (i - 1) + 1
      <4>1. /\ out + i - 1 \in Index /\ Dist(rx_out, out + i - 1) = i - 1
            /\ i - 1 < Dist(rx_out, rx_in)
        BY <1>t, <2>2, <3>1
      <4> QED BY <1>r, <4>1
    <3> QED BY <1>t, <2>2, <3>1, <3>2
  <2> DEFINE f == [i \in 1 .. n |-> rx_buf[out + i - 1]]
  <2>4. f \in [1 .. n -> Nat] /\ \A i \in 1 .. n : f[i] = Len(got) + i
    BY <1>t, <2>3
  <2>5. got' = Count(Len(got) + n)
    <3>1. got' = Count(Len(got)) \o f
      BY <1>0, <2>1 DEF RxStream
    <3>2. Len(got) \in Nat /\ n \in Nat
      BY <1>t, <2>2
    <3> QED BY <2>4, <3>1, <3>2, CountConcat
  <2>6. Len(got') = Len(got) + n /\ Taken' = Taken /\ got' = Count(Len(got'))
    <3>1. Len(got) + n \in Nat
      BY <1>t, <2>2
    <3>2. Len(got') = Len(got) + n
      BY <2>5, <3>1, CountLen
    <3>3. Taken' = Len(got') - n
      BY <2>1 DEF Taken
    <3>4. Taken' = Taken
      BY <1>t, <2>2, <3>2, <3>3
    <3>5. got' = Count(Len(got'))
      BY <2>5, <3>2
    <3> QED BY <3>2, <3>4, <3>5
  <2> QED BY <1>0, <2>1, <2>6 DEF RxStream, Dist
<1>3. CASE ReadPublish
  <2>1. /\ pc = "r_publish" /\ pc' # "r_publish" /\ rx_out' = (out + n) % BUF_LEN
        /\ UNCHANGED << rx_in, rx_buf, rx_fifo, hostSent, got >>
    BY <1>3 DEF ReadPublish, Run, device, host, app
  <2>2. /\ n \in Nat /\ out = rx_out /\ out + n <= BUF_LEN /\ n <= Dist(rx_out, rx_in)
        /\ n < BUF_LEN
        /\ Taken = Len(got) - n
    <3>1. n \in Nat /\ out = rx_out /\ out + n <= BUF_LEN /\ n <= Dist(rx_out, rx_in)
      BY <1>0, <2>1 DEF RxClaim, TypeCall
    <3>2. Taken = Len(got) - n
      BY <2>1 DEF Taken
    <3> QED BY <1>t, <3>1, <3>2, Consts
  <2>3. \A i \in Index : Dist(rx_out', i) = IF Dist(rx_out, i) >= n
                                           THEN Dist(rx_out, i) - n
                                           ELSE Dist(rx_out, i) - n + BUF_LEN
    BY <1>0, <2>1, <2>2, DistTail DEF TypeRx
  <2>4. rx_in \in Index /\ Dist(rx_out', rx_in) = Dist(rx_out, rx_in) - n
    BY <1>0, <1>t, <2>2, <2>3 DEF TypeRx
  <2>5. Taken' = Taken + n
    BY <1>t, <2>1, <2>2 DEF Taken
  <2>6. ASSUME NEW i \in Index, Dist(rx_out', i) < Dist(rx_out', rx_in)
        PROVE  rx_buf[i] = Taken' + Dist(rx_out', i) + 1
    <3>1. Dist(rx_out, i) \in 0 .. BUF_LEN - 1
      BY <1>0, DistRange DEF TypeRx
    <3>2. Dist(rx_out', i) = Dist(rx_out, i) - n /\ Dist(rx_out, i) < Dist(rx_out, rx_in)
      <4>1. Dist(rx_out', i) = IF Dist(rx_out, i) >= n
                               THEN Dist(rx_out, i) - n
                               ELSE Dist(rx_out, i) - n + BUF_LEN
        BY <2>3
      <4>2. Dist(rx_out', i) < Dist(rx_out, rx_in) - n
        BY <2>4, <2>6
      <4> QED BY <1>t, <2>2, <3>1, <4>1, <4>2, DistBack
    <3>3. rx_buf[i] = Taken + Dist(rx_out, i) + 1
      BY <1>0, <3>2 DEF RxStream
    <3>4. ASSUME NEW t \in Int, NEW d \in Int, NEW k \in Nat PROVE t + d + 1 = t + k + (d - k) + 1
      OBVIOUS
    <3>5. Taken \in Int /\ n \in Nat /\ Dist(rx_out, i) \in Int
      BY <1>t, <2>2, <3>1
    <3> QED BY <2>5, <3>2, <3>3, <3>4, <3>5
  <2>7. Taken' + Dist(rx_out', rx_in) + Len(rx_fifo) = hostSent
    BY <1>t, <2>2, <2>4, <2>5
  <2> QED BY <1>0, <2>1, <2>6, <2>7 DEF RxStream, Dist
<1>4. CASE PollRead
  <2>1. /\ pc = "poll_read" /\ pc' # "r_publish"
        /\ UNCHANGED << rx_in, rx_out, rx_buf, hostSent >>
    BY <1>4 DEF PollRead, Run, rxRing, host, Return
  <2>2. rx_in = rx_out /\ Dist(rx_out, rx_in) = 0 /\ Taken = Len(got)
    BY <1>0, <2>1, DistRange DEF SmallQuiet, TypeRx, Taken
  <2>3. CASE rx_fifo # << >> /\ left > 0
    <3>1. got' = Append(got, Head(rx_fifo)) /\ rx_fifo' = Tail(rx_fifo)
      BY <1>4, <2>3 DEF PollRead
    <3>2. hostSent - Len(rx_fifo) = Len(got)
      BY <1>t, <2>2
    <3>3. /\ Head(rx_fifo) = Len(got) + 1 /\ Len(rx_fifo') = Len(rx_fifo) - 1
          /\ Len(rx_fifo) >= 1
          /\ \A i \in 1 .. Len(rx_fifo') : rx_fifo'[i] = Len(got) + 1 + i
      BY <1>f, <1>t, <2>3, <3>1, <3>2, FifoHead
    <3>4. got' = Count(Len(got) + 1)
      BY <1>0, <1>t, <3>1, <3>3, CountAppend DEF RxStream
    <3>5. Len(got') = Len(got) + 1 /\ Taken' = Len(got) + 1
      BY <1>t, <2>1, <3>4, CountLen DEF Taken
    <3>6. \A i \in Index : ~(Dist(rx_out, i) < 0)
      BY <1>0, DistRange DEF TypeRx
    <3>7. /\ Len(rx_fifo') <= hostSent
          /\ \A i \in 1 .. Len(rx_fifo') : rx_fifo'[i] = hostSent - Len(rx_fifo') + i
          /\ Taken' + Dist(rx_out, rx_in) + Len(rx_fifo') = hostSent
      BY <1>t, <2>2, <3>2, <3>3, <3>5
    <3> QED BY <2>1, <2>2, <3>4, <3>5, <3>6, <3>7 DEF RxStream, Dist
  <2>4. CASE ~(rx_fifo # << >> /\ left > 0)
    BY <1>0, <1>4, <2>1, <2>4 DEF PollRead, RxStream, Dist, Taken
  <2> QED BY <2>3, <2>4
<1>5. CASE IsrReceive
  <2>1. /\ UNCHANGED << pc, n, got, rx_out, hostSent >> /\ Next1(rx_in) # rx_out
        /\ Taken' = Taken
    BY <1>5 DEF IsrReceive, call, app, host, Taken
  <2>2. CASE rx_fifo = << >>
    BY <1>0, <1>5, <2>1, <2>2 DEF IsrReceive, RxStream, Dist
  <2>3. CASE rx_fifo # << >>
    <3>1. /\ rx_buf' = [rx_buf EXCEPT ![rx_in] = Head(rx_fifo)] /\ rx_in' = Next1(rx_in)
          /\ rx_fifo' = Tail(rx_fifo)
      BY <1>5, <2>3 DEF IsrReceive
    <3>2. Dist(rx_out, rx_in) + 1 < BUF_LEN
      <4>1. rx_in \in Index /\ rx_out \in Index
        BY <1>0 DEF TypeRx
      <4>2. (IF rx_in + 1 = BUF_LEN THEN 0 ELSE rx_in + 1) # rx_out
        BY <2>1, <4>1, NextSlot
      <4> QED BY <4>1, <4>2, Consts DEF Dist, Index
    <3>3. rx_in + 1 <= BUF_LEN /\ rx_in \in Nat
      BY <1>0, Consts DEF TypeRx, Index
    <3>4. /\ Dist(rx_out, rx_in') = Dist(rx_out, rx_in) + 1
          /\ \A j \in Index :
               Dist(rx_out, j) >= Dist(rx_out, rx_in) /\ Dist(rx_out, j) < Dist(rx_out, rx_in) + 1
                 <=> j \in rx_in .. rx_in + 1 - 1
      BY <1>0, <3>1, <3>2, <3>3, DistHead DEF TypeRx, Next1
    <3>5. /\ hostSent - Len(rx_fifo) = Taken + Dist(rx_out, rx_in)
          /\ Taken + Dist(rx_out, rx_in) \in Nat
      BY <1>0, <1>t DEF RxStream
    <3>6. /\ Head(rx_fifo) = Taken + Dist(rx_out, rx_in) + 1
          /\ Len(rx_fifo') = Len(rx_fifo) - 1
          /\ \A i \in 1 .. Len(rx_fifo') : rx_fifo'[i] = Taken + Dist(rx_out, rx_in) + 1 + i
      BY <1>f, <2>3, <3>1, <3>5, FifoHead
    <3>7. ASSUME NEW j \in Index, Dist(rx_out, j) < Dist(rx_out, rx_in')
          PROVE  rx_buf'[j] = Taken + Dist(rx_out, j) + 1
      <4>1. Dist(rx_out, j) \in 0 .. BUF_LEN - 1 /\ j \in Nat
        BY <1>0, DistRange, Consts DEF TypeRx
      <4>2. CASE j = rx_in
        BY <1>0, <3>1, <3>6, <4>2 DEF TypeRx
      <4>3. CASE j # rx_in
        <5>1. Dist(rx_out, j) < Dist(rx_out, rx_in)
          BY <1>t, <3>3, <3>4, <3>7, <4>1, <4>3
        <5>2. rx_buf'[j] = rx_buf[j]
          BY <1>0, <3>1, <4>3 DEF TypeRx
        <5> QED BY <1>0, <5>1, <5>2 DEF RxStream
      <4> QED BY <4>2, <4>3
    <3>8. /\ Len(rx_fifo') <= hostSent
          /\ \A i \in 1 .. Len(rx_fifo') : rx_fifo'[i] = hostSent - Len(rx_fifo') + i
          /\ Taken + Dist(rx_out, rx_in') + Len(rx_fifo') = hostSent
      <4>1. /\ Len(rx_fifo') \in Int
            /\ hostSent - Len(rx_fifo') = Taken + Dist(rx_out, rx_in) + 1
        BY <1>t, <3>5, <3>6
      <4>2. \A i \in 1 .. Len(rx_fifo') : rx_fifo'[i] = hostSent - Len(rx_fifo') + i
        BY <3>6, <4>1
      <4>3. /\ Len(rx_fifo') <= hostSent
            /\ Taken + Dist(rx_out, rx_in') + Len(rx_fifo') = hostSent
        <5>1. ASSUME NEW h \in Int, NEW l \in Int, NEW t, NEW d, NEW e,
                     t + d \in Nat, h - l = t + d + 1, e = d + 1, t \in Int, d \in Int
              PROVE  l <= h /\ t + e + l = h
          BY <5>1
        <5>2. hostSent \in Int /\ Taken \in Int /\ Dist(rx_out, rx_in) \in Int
          BY <1>t
        <5>3. Dist(rx_out, rx_in') = Dist(rx_out, rx_in) + 1
          BY <3>4
        <5> HIDE DEF Taken, Dist
        <5> QED BY <3>5, <4>1, <5>1, <5>2, <5>3
      <4> QED BY <4>2, <4>3
    <3> QED BY <1>0, <2>1, <3>7, <3>8 DEF RxStream, Dist
  <2> QED BY <2>2, <2>3
<1>6. CASE HostSend
  <2>1. /\ UNCHANGED << pc, n, got, rx_in, rx_out, rx_buf >> /\ Taken' = Taken
        /\ hostSent' = hostSent + 1
        /\ rx_fifo' = Append(rx_fifo, hostSent + 1)
    BY <1>6 DEF HostSend, rxRing, call, app, Taken
  <2>2. /\ Len(rx_fifo') = Len(rx_fifo) + 1
        /\ \A i \in 1 .. Len(rx_fifo') : rx_fifo'[i] = hostSent - Len(rx_fifo) + i
    <3>1. /\ hostSent - Len(rx_fifo) \in Nat
          /\ hostSent + 1 = hostSent - Len(rx_fifo) + Len(rx_fifo) + 1
      BY <1>0, <1>t DEF RxStream
    <3>2. rx_fifo' = Append(rx_fifo, hostSent - Len(rx_fifo) + Len(rx_fifo) + 1)
      BY <2>1, <3>1
    <3>3. rx_fifo \in Seq(Nat) /\ Follows(rx_fifo, hostSent - Len(rx_fifo))
      BY <1>f DEF Follows
    <3>4. Len(rx_fifo') = Len(rx_fifo) + 1 /\ Follows(rx_fifo', hostSent - Len(rx_fifo))
      BY <3>1, <3>2, <3>3, FifoAppend
    <3> QED BY <3>4 DEF Follows
  <2>3. /\ Len(rx_fifo') <= hostSent'
        /\ \A i \in 1 .. Len(rx_fifo') : rx_fifo'[i] = hostSent' - Len(rx_fifo') + i
        /\ Taken + Dist(rx_out, rx_in) + Len(rx_fifo') = hostSent'
    BY <1>0, <1>t, <2>1, <2>2 DEF RxStream
  <2> QED BY <1>0, <2>1, <2>3 DEF RxStream, Dist
<1>7. ASSUME ~ReadCopy, ~ReadPublish
      PROVE  (pc' = "r_publish" <=> pc = "r_publish") /\ (pc = "r_publish" => n' = n)
  BY <1>7, Moves
     DEF call, UartInitSmall, UartInit, CallWrite, CallRead, CallClose, Begin, InCall, Run,
         AfterRead, WriteSample, WriteCopy, WritePublish, WriteEnable, WriteSpin,
         WriteCheck, ReadSample, ReadSpin, ReadCheck, ReadEnable, ReadFail, Close,
         PollWrite, PollRead, Return
<1> QED BY <1>1, <1>2, <1>3, <1>4, <1>5, <1>6, <1>7, Moves

\* The slots read has claimed are not overwritten until it publishes them.
LEMMA RxClaimStep == Inv /\ [Next]_vars => RxClaim'
<1> SUFFICES ASSUME Inv, [Next]_vars PROVE RxClaim'
  OBVIOUS
<1>0. RxClaim /\ TypeRx /\ TypeCall
  BY DEF Inv, TypeOK, Streams
<1>1. CASE ReadSample
  <2>1. CASE pc' = "r_copy"
    <3>1. /\ out' = rx_out /\ n' = Min({FilledRx(rx_in, rx_out), left})
          /\ UNCHANGED << rx_in, rx_out >>
      BY <1>1 DEF ReadSample, rxRing
    <3>2. /\ FilledRx(rx_in, rx_out) \in Nat
          /\ FilledRx(rx_in, rx_out) <= Dist(rx_out, rx_in)
          /\ rx_out + FilledRx(rx_in, rx_out) <= BUF_LEN
          /\ rx_out \in Nat /\ left \in Nat /\ Dist(rx_out, rx_in) \in Nat
      BY <1>0, Rooms, Consts DEF TypeRx, TypeCall
    <3>3. n' \in Nat /\ n' <= FilledRx(rx_in, rx_out)
      BY <3>1, <3>2, MinOf
    <3> QED BY <3>1, <3>2, <3>3, Consts DEF RxClaim, Dist
  <2>2. CASE pc' # "r_copy"
    BY <1>1, <2>2 DEF ReadSample, AfterRead, RxClaim
  <2> QED BY <2>1, <2>2
<1>2. CASE ReadCopy
  BY <1>0, <1>2 DEF ReadCopy, Run, RxClaim, rxRing, call, Dist
<1>3. CASE IsrReceive
  <2>1. /\ UNCHANGED << pc, out, n, rx_out >> /\ Next1(rx_in) # rx_out
        /\ rx_in' \in {rx_in, Next1(rx_in)}
    BY <1>3 DEF IsrReceive, call
  <2>2. rx_in \in Index /\ rx_out \in Index /\ n \in Nat
    BY <1>0 DEF TypeRx, TypeCall
  <2>3. Next1(rx_in) = IF rx_in + 1 = BUF_LEN THEN 0 ELSE rx_in + 1
    BY <2>2, NextSlot
  <2>4. /\ Dist(rx_out, rx_in') \in Nat /\ Dist(rx_out, rx_in') >= Dist(rx_out, rx_in)
        /\ Dist(rx_out, rx_in) \in Nat
    <3>1. Dist(rx_out, rx_in) \in Nat
      BY <2>2, DistRange
    <3>2. CASE rx_in' = Next1(rx_in)
      BY <2>1, <2>2, <2>3, <3>2, Consts DEF Dist, Index
    <3> QED BY <2>1, <3>1, <3>2
  <2> QED BY <1>0, <2>1, <2>2, <2>4 DEF RxClaim, Dist
<1>4. CASE UNCHANGED << rxRing, out, n >> /\ (pc' \in {"r_copy", "r_publish"} => pc' = pc)
  BY <1>0, <1>4 DEF RxClaim, rxRing, Dist
<1>5. CASE pc' \notin {"r_copy", "r_publish"}
  BY <1>5 DEF RxClaim
<1>6. CASE UNCHANGED << pc, call >> /\ ~IsrReceive
  <2>1. CASE pc \in {"r_copy", "r_publish"}
    <3>1. UNCHANGED << out, n, pc >> /\ ~ReadCopy /\ ~ReadPublish /\ ~PollRead
      BY <1>6, <2>1 DEF call, ReadCopy, ReadPublish, PollRead, Run
    <3>2. UNCHANGED rxRing
      BY <1>6, <3>1, Moves DEF rxVars, HostSend
    <3> QED BY <1>4, <3>1, <3>2
  <2> QED BY <1>5, <1>6, <2>1
<1>7. CASE InCall /\ ~ReadSample /\ ~ReadCopy
  BY <1>5, <1>7
     DEF InCall, Run, WriteSample, WriteCopy, WritePublish, WriteEnable, WriteSpin,
         WriteCheck, ReadPublish, ReadSpin, ReadCheck, ReadEnable, ReadFail, Close,
         PollWrite, PollRead, Return
<1>8. CASE UartInitSmall \/ UartInit \/ CallWrite \/ CallRead \/ CallClose
  BY <1>5, <1>8 DEF UartInitSmall, UartInit, CallWrite, CallRead, CallClose, Begin
<1> QED BY <1>1, <1>2, <1>3, <1>6, <1>7, <1>8, Moves

----------------------------------------------------------------------------
(* Theorems.                                                               *)

\* The invariant holds of every execution of either driver (altera_avalon_jtag_uart_init.c,
\* _write.c and _read.c).
THEOREM DriverInvariant == Spec => []Inv
<1>1. Init => Inv
  BY InitInv
<1>2. Inv /\ [Next]_vars => Inv'
  BY TypeStep, WaitingStep, TxSpaceStep, TxStreamStep, TxClaimStep, RxStreamStep,
     RxClaimStep DEF Inv, Streams
<1> QED BY <1>1, <1>2, PTL DEF Spec

\* The driver's variables, the FIFOs and the locals of its calls keep their types.
THEOREM UartTypes == Spec => []TypeOK
<1>1. Inv => TypeOK
  BY DEF Inv
<1> QED BY <1>1, DriverInvariant, PTL

\* No call and no character waits for an interrupt that is switched off: the enables and
\* the rings agree whenever the interrupt routine is not running (altera_avalon_jtag_uart_irq
\* against _write and _read).
THEOREM NobodyStranded == Spec => []NeverStranded
<1>1. Inv => NeverStranded
  BY DEF Inv, Waiting, NeverStranded, ControlCopy, TxWaits, RxWaits
<1> QED BY <1>1, DriverInvariant, PTL

\* A shorter stream of consecutive numbers is a prefix of a longer one.
LEMMA CountPrefix ==
  ASSUME NEW a \in Nat, NEW b \in Nat, a <= b
  PROVE  /\ Tx!IsPrefix(Count(a), Count(b)) /\ Rx!IsPrefix(Count(a), Count(b))
         /\ a < b => /\ Tx!IsStrictPrefix(Count(a), Count(b))
                     /\ Rx!IsStrictPrefix(Count(a), Count(b))
<1>1. /\ Len(Count(a)) = a /\ Len(Count(b)) = b
      /\ Count(a) \in Seq(Nat) /\ Count(b) \in Seq(Nat)
  BY CountLen
<1>2. SubSeq(Count(a), 1, a) = SubSeq(Count(b), 1, a)
  BY <1>1 DEF Count
<1>3. a < b => Count(a) # Count(b)
  BY <1>1
<1> QED BY <1>1, <1>2, <1>3
           DEF Tx!IsPrefix, Tx!IsStrictPrefix, Rx!IsPrefix, Rx!IsStrictPrefix

\* The driver implements a stream of characters in either direction: every step puts
\* characters in, gets the next ones out, or changes nothing a user sees.
THEOREM InOrder == Spec => StreamsInOrder
<1>1. Init => Tx!Init /\ Rx!Init
  BY DEF Init, Tx!Init, Rx!Init
<1>2. Inv /\ Inv' /\ [Next]_vars => [Tx!Next]_<< [i \in 1 .. written |-> i], hostGot >>
  <2> SUFFICES ASSUME Inv, Inv', [Next]_vars
               PROVE  \/ Tx!Next
                      \/ UNCHANGED << Count(written), hostGot >>
    BY DEF Count
  <2>0. /\ TypeTx /\ TypeTx' /\ TypeCall /\ TxClaim
        /\ hostGot = Count(Len(hostGot)) /\ hostGot' = Count(Len(hostGot'))
        /\ Len(hostGot') <= written'
    <3>1. /\ TypeTx /\ TypeTx' /\ TypeCall /\ TxClaim /\ TxStream /\ TxStream'
      BY DEF Inv, TypeOK, Streams
    <3>2. Len(hostGot') + Len(tx_fifo') + Dist(tx_out', tx_in') = written'
      BY <3>1 DEF TxStream, Dist
    <3>3. Dist(tx_out', tx_in') \in Nat /\ Len(hostGot') \in Nat /\ Len(tx_fifo') \in Nat
      <4>1. tx_out' \in Index /\ tx_in' \in Index
        BY <3>1 DEF TypeTx
      <4>2. Dist(tx_out', tx_in') \in Nat
        BY <4>1, DistRange
      <4>3. Len(hostGot') \in Nat /\ Len(tx_fifo') \in Nat
        BY <3>1 DEF TypeTx
      <4> QED BY <4>2, <4>3
    <3> QED BY <3>1, <3>2, <3>3 DEF TxStream
  <2>1. ASSUME UNCHANGED hostGot, written' > written PROVE Tx!Next
    <3>1. Tx!IsStrictPrefix(Count(written), Count(written'))
      BY <2>0, <2>1, CountPrefix DEF TypeTx
    <3> QED BY <2>1, <3>1 DEF Tx!Next, Tx!Put, Count
  <2>2. CASE WritePublish
    <3>1. n \in Nat \ {0} /\ written' = written + n /\ UNCHANGED hostGot
      BY <2>0, <2>2 DEF WritePublish, Run, TxClaim, TypeCall, host
    <3> QED BY <2>0, <2>1, <3>1 DEF TypeTx
  <2>3. CASE PollWrite
    <3>1. UNCHANGED hostGot /\ (written' = written \/ written' = written + 1)
      BY <2>3 DEF PollWrite, host
    <3> QED BY <2>0, <2>1, <3>1 DEF TypeTx, Count
  <2>4. CASE HostTake
    <3>1. written' = written /\ Len(hostGot') = Len(hostGot) + 1
      <4>1. written' = written /\ hostGot' = Append(hostGot, Head(tx_fifo))
        BY <2>4 DEF HostTake, app
      <4>2. hostGot \in Seq(Nat) /\ Head(tx_fifo) \in Nat
        BY <2>0, <2>4, HeadTailProperties DEF HostTake, TypeTx
      <4> QED BY <4>1, <4>2, AppendProperties
    <3>2. /\ Len(hostGot) \in Nat /\ written \in Nat /\ Len(hostGot) < Len(hostGot')
          /\ Len(hostGot') \in Nat /\ Len(hostGot') <= written
      <4>1. TypeTx /\ Len(hostGot') <= written'
        BY <2>0
      <4>2. hostGot \in Seq(Nat) /\ written \in Nat
        BY <4>1 DEF TypeTx
      <4> QED BY <3>1, <4>1, <4>2, LenProperties
    <3>3. Tx!IsStrictPrefix(hostGot, hostGot') /\ Tx!IsPrefix(hostGot', Count(written))
      <4>1. ASSUME NEW a \in Nat, NEW b \in Nat, NEW c \in Nat, a < b, b <= c
            PROVE  Tx!IsStrictPrefix(Count(a), Count(b)) /\ Tx!IsPrefix(Count(b), Count(c))
        BY <4>1, CountPrefix
      <4> DEFINE a == Len(hostGot)
                 b == Len(hostGot')
      <4>2. hostGot = Count(a) /\ hostGot' = Count(b)
        BY <2>0
      <4>3. a \in Nat /\ b \in Nat /\ written \in Nat /\ a < b /\ b <= written
        BY <3>2
      <4> HIDE DEF a, b
      <4> QED BY <4>1, <4>2, <4>3
    <3> QED BY <3>1, <3>3 DEF Tx!Next, Tx!Get, Count
  <2>5. CASE UNCHANGED txVars \/ WriteCopy \/ IsrTransmit
    BY <2>5 DEF txVars, WriteCopy, IsrTransmit, host, app, Count
  <2> QED BY <2>2, <2>3, <2>4, <2>5, Moves
<1>3. Inv /\ Inv' /\ [Next]_vars => [Rx!Next]_<< [i \in 1 .. hostSent |-> i], got >>
  <2> SUFFICES ASSUME Inv, Inv', [Next]_vars
               PROVE  \/ Rx!Next
                      \/ UNCHANGED << Count(hostSent), got >>
    BY DEF Count
  <2>0. /\ TypeRx /\ TypeRx' /\ TypeCall /\ ReadAsks
        /\ got = Count(Len(got)) /\ got' = Count(Len(got'))
    BY DEF Inv, TypeOK, Streams, Waiting, RxStream
  <2>t. Taken' + Dist(rx_out', rx_in') + Len(rx_fifo') = hostSent' /\ n' \in Nat
        /\ Dist(rx_out', rx_in') \in Nat /\ Len(got') \in Nat /\ Len(rx_fifo') \in Nat
        /\ (pc' = "r_publish" => n' <= Dist(rx_out', rx_in'))
    <3>1. RxStream' /\ RxClaim' /\ TypeCall'
      BY DEF Inv, Streams, TypeOK
    <3>2. rx_out' \in Index /\ rx_in' \in Index
      BY <2>0 DEF TypeRx
    <3>3. Dist(rx_out', rx_in') \in Nat
      BY <3>2, DistRange
    <3>4. /\ Taken' + Dist(rx_out', rx_in') + Len(rx_fifo') = hostSent' /\ n' \in Nat
          /\ (pc' = "r_publish" => n' <= Dist(rx_out', rx_in'))
      BY <3>1 DEF RxStream, RxClaim, TypeCall, Dist
    <3>5. Len(got') \in Nat /\ Len(rx_fifo') \in Nat
      BY <2>0 DEF TypeRx
    <3> QED BY <3>3, <3>4, <3>5
  <2>u. Len(got') <= hostSent'
    BY <2>t DEF Taken
  <2>1. ASSUME UNCHANGED hostSent, Len(got') > Len(got) PROVE Rx!Next
    <3>1. Rx!IsStrictPrefix(got, got') /\ Rx!IsPrefix(got', Count(hostSent))
      <4>1. ASSUME NEW a \in Nat, NEW b \in Nat, NEW c \in Nat, a < b, b <= c
            PROVE  Rx!IsStrictPrefix(Count(a), Count(b)) /\ Rx!IsPrefix(Count(b), Count(c))
        BY <4>1, CountPrefix
      <4> DEFINE a == Len(got)
                 b == Len(got')
      <4>2. got = Count(a) /\ got' = Count(b)
        BY <2>0
      <4>3. a \in Nat /\ b \in Nat /\ hostSent \in Nat /\ a < b /\ b <= hostSent
        <5>1. TypeRx /\ TypeRx'
          BY <2>0
        <5>2. got \in Seq(Nat) /\ got' \in Seq(Nat) /\ hostSent \in Nat
          BY <5>1 DEF TypeRx
        <5> QED BY <2>u, <2>1, <5>2, LenProperties
      <4> HIDE DEF a, b
      <4> QED BY <4>1, <4>2, <4>3
    <3> QED BY <2>1, <3>1 DEF Rx!Next, Rx!Get, Count
  <2>2. CASE ReadCopy
    <3>1. /\ n \in Nat \ {0} /\ got' = got \o [i \in 1 .. n |-> rx_buf[out + i - 1]]
          /\ UNCHANGED hostSent
      BY <2>0, <2>2 DEF ReadCopy, Run, ReadAsks, TypeCall, host
    <3>2. Len(got') = Len(got) + n
      BY <2>0, <3>1 DEF TypeRx
    <3> QED BY <2>0, <2>1, <3>1, <3>2 DEF TypeRx
  <2>3. CASE PollRead
    <3>1. UNCHANGED hostSent /\ (got' = got \/ got' = Append(got, Head(rx_fifo)))
      BY <2>3 DEF PollRead, host
    <3>2. got' = got \/ Len(got') = Len(got) + 1
      BY <2>0, <3>1 DEF TypeRx
    <3>3. CASE got' = got
      BY <3>1, <3>3 DEF Count
    <3>4. CASE Len(got') = Len(got) + 1
      BY <2>0, <2>1, <3>1, <3>4 DEF TypeRx
    <3> QED BY <3>2, <3>3, <3>4
  <2>4. CASE HostSend
    <3>1. hostSent' = hostSent + 1 /\ UNCHANGED got
      BY <2>4 DEF HostSend, app
    <3>2. Rx!IsStrictPrefix(Count(hostSent), Count(hostSent'))
      BY <2>0, <3>1, CountPrefix DEF TypeRx
    <3> QED BY <3>1, <3>2 DEF Rx!Next, Rx!Put, Count
  <2>5. CASE UNCHANGED rxVars \/ ReadPublish \/ IsrReceive
    BY <2>5 DEF rxVars, ReadPublish, IsrReceive, host, app, Count
  <2> QED BY <2>2, <2>3, <2>4, <2>5, Moves
<1> QED BY <1>1, <1>2, <1>3, DriverInvariant, PTL DEF Spec, StreamsInOrder, Tx!Spec, Rx!Spec
=============================================================================
