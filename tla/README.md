# Verification of Verilog_Labs

TLA+ specifications, TLC runs and TLAPS proofs for the designs of this
repository. The repository holds four FPGA laboratories. Two are modelled: the
Mandelbrot accelerator of lab 4 (`src/lab4/quartus17/src`), the largest and most
concurrent piece of hardware, and the software of lab 2
(`src/lab2/DDA_nios/software`), a NIOS program with the board support package it
is linked with, together with the hardware it talks to. There is no
specification document beside the code: comments, parameter values, test benches
and the Matlab references `src/lab4/mandelbrot*.m` are the only statements of
intent.

## 1. Inventory

### Lab 4: Mandelbrot accelerator

```
 VGA_Ctrl --sync--> fractal_Pattern --start--> Fractal_control
                      |    ^                      | pixel, data_in_write
             SRAM <---+    | result               v   ^ data_in_full
                           |                  +-- fractal_accelerator -----------+
                           |                  | fifo_in -> pipes -> fifo_out     |
                           +------------------|   load FSM -> divergence_node[i] |
                             data_out_read    |   -> fifo_node[i] -> unload FSM  |
                                              +----------------------------------+
```

| component | state | operations | hard behaviour | correct when |
|---|---|---|---|---|
| `divergence_node.v`, control | synchroniser r0 r1 r2, data_ready, input register, a ring of `ALL_PIPEL_SIZE` slots (in process, iteration count, coordinates), output register, busy, counter_processes | accept a pixel, circulate, finish, throttle | up to a dozen pixels share the ring; busy is registered and two clocks late; the counter is moved by two independent events | never more pixels than places, no pixel overwritten, exact count, every pixel leaves, with the right count |
| `divergence_node.v`, data path | z, c and delay lines beside multipliers and adders | z := z² + c | chains of different length must meet | z, c, count and flags in a slot belong to the same pixel |
| `pipes.v` | load FSM, unload FSM, node_select, fifo_select, read_count, node FIFOs | deal pixels to nodes, merge results | fills are tested once and acted on later; two FSMs and n nodes run concurrently | no node FIFO overflows, no empty FIFO is read, nobody starves |
| `fractal_accelerator.v` | fifo_in, fifo_out | compose | almost-full flags are looked at only when a pixel is fetched; resets spare the FIFOs | an unordered, loss-free service |
| `fractal_control.v` | FSM, coordinates, accumulated complex number, data_in_write | walk the raster under back-pressure | registers outside the reset branch; wrapping sums | each pixel once, with its own number |
| `fractal_Pattern.v` | FSM, SRAM registers, washer | read results, draw, clean | is stopped at any point when the sync pulse ends | results drawn at their place, none lost |
| `VGA_Ctrl.v` | two counters, two sync flags | raster timing | one counter clocks the other | sync pulses inside the blanking interval |
| `fractal.v`, `para_mux.v`, PLL, seven segments, `Fconvert2`, `Div` | — | wiring, vendor blocks | — | — |

### Lab 2: NIOS program, its board support package, and the DDA solver

```
 count_binary.c --words--> PIO -> top_dda.v (start-up machine) -> dda.v (solver)
   |  ^ positions <------- PIO <------------------------------------+
   |  +-- usleep: alt_busy_sleep
   +--> frame memory (count_binary.c's own routines)
 DDA_nios_bsp:
   open/read/write/ioctl/... -> alt_fd_list, alt_dev_list -> device drivers
   alt_main -> alt_sys_init, alt_io_redirect                  |
                                                              v
   thread -> rings -> interrupt routine -> JTAG UART FIFOs -> host
   system clock -> alt_irq_handler -> alt_tick -> alarms
   alt_sbrk, settod/gettod, caches, video drivers
```

| component | state | operations | hard behaviour | correct when |
|---|---|---|---|---|
| `count_binary.c`, `top_dda.v`, `dda.v` (control) | the program's positions, the frame memory, the word on the port, the registers it lands in, two state machines | send parameters, start, draw | no acknowledge between software and a clock; the program is stopped anywhere and run again while the hardware goes on; it wipes only what it believes has changed | the solver runs with one version's parameters, all of them; no remains on the screen |
| `altera_avalon_jtag_uart_*.c` | two rings, a copy of the interrupt enables, timeout, two FIFOs | read, write, close, ioctl, interrupt routine, alarm | an interrupt between any two steps; interrupts that are switched off when there is nothing to do; the host disappears | a stream in each direction, no wake-up lost, no hanging call |
| `alt_open.c`, `alt_close.c`, `alt_fd_lock.c`, ... | device and file-system lists, descriptor pool, flags, high-water mark | system calls, registration, redirection | failing calls that have already taken something; a search bounded by a mark; exclusive locks | a table of descriptors |
| `alt_irq_handler.c`, `alt_legacy_irq.h`, `alt_iic_isr_register.c` | status, ienable, active set, priority mask, handlers | sections, switching, registering, nesting | several registers written one by one under interrupts | only more urgent ones interrupt, no handler missing |
| `alt_alarm_start.c`, `alt_tick.c`, `alt_llist.h` | a doubly linked list, tick counter, times, roll-over flags | start, stop, tick, callback | a list changed while it is walked; a wrapping counter | every alarm at its tick |
| `altera_up_avalon_video_*.c` | copies of buffer addresses, modes | draw, clear, swap, text | clipping, colour depths, a swap that takes effect later | each call draws what it was asked |
| `alt_sbrk.c`, `alt_settod.c`, `alt_gettod.c`, `alt_busy_sleep.c`, `alt_load.c`, `alt_*cache*`, `alt_*uncached*` | heap end and stack limit; reset time; count; two caches | sbrk; set and read the time; usleep; load, flush, remap | alignment, wraps, ranges that start inside a line, other code meanwhile | own memory, the time as set, a delay as long as asked, fresh code |

The build in the repository (`public.mk`, `system.h`) uses the small, polled UART
driver, has no system clock, an instruction cache of 4 KB with lines of 32 bytes
and no data cache. The package's source also holds the other forms, which the
same settings file selects; the models cover both, and say with a variable
(`small`, `tick_rate`, `alt_tick_rate`, `stack_check`, `flushda`) which was built.

### Other labs

* Lab 1, `automaton.v`, `VGA_Pattern.sv`: a one-dimensional cellular automaton
  computed line by line in SRAM during sync pulses (single-port memory shared
  with the display, a state machine stopped by the display).
* Lab 3, `mesh.v`, `sound_node.v`, `AUDIO_DAC_ADC.v`, `I2C_AV_Config.v`,
  `I2C_Controller.v`, `Reset_Delay.v`: a drum-membrane mesh, an audio
  serialiser and the I2C configuration of the codec with retries on missing
  acknowledges.
* Backups (`backups_src`, `quartus13`), test benches, Matlab scripts.

`PROJECT.json` lists every component with its status, and under "hazards" the
places where this code is hard to test.

## 2. Modules

A register is a variable, named as in the code; a clock edge is one step, in
which every `always` block acts on the values before the edge. A module's
`Clock` is the conjunction of its always blocks and `Tick` adds the wires driven
from outside. `reset_n` is a level, as in the code: `ResetDown` clears the
registers that have a reset branch (not the FIFOs, and not some registers of the
frame control), `ResetUp` releases it, and while it is low `Tick` is disabled;
where something outside the reset goes on (the outer FIFOs, the accelerator that
takes what the control writes) `TickInReset` is the clock edge under reset.
`FractalPattern` has no reset input at all.

| module | models | interface |
|---|---|---|
| `DivergenceNode` | control path of the node; one operator per always block (`InputAccept`, `StartSynchronizer`, `InputRegister`, `Pipeline`, `OutputReg`, `Busy`, `CounterProcesses`); arrays over `Node` as in `generate` | wires `start`, `data_in`; `Host` is the weakest user the handshake allows |
| `DivergenceDatapath` | z, c_reg, c_Mq, the three multipliers, the four adders and the chains that delay one operand beside them, each with registers of its own; a number is what was put into it | extends `DivergenceNode` |
| `ScFifo` | the vendor's FIFO (no show-ahead, checked overflow and underflow) | pure operators |
| `Pipes` | both state machines (one action per state), muxes, node FIFOs, and the nodes as an instance of `DivergenceNode` with `start` bound to node_start | wires data_in, data_in_available, space_ahead |
| `FractalAccelerator` | fifo_in, `Pipes`, fifo_out | the user's wires |
| `PixelService` | abstract: an unordered service that holds pixels and delivers each once; only a falling reset_n may drop some | refined by `FractalAccelerator` |
| `FractalControl` | the raster generator | wires start, data_in_full |
| `FractalPattern` | the display loop, SRAM, washer | keys, sync pulse, results in fifo_out |
| `DivergenceNode_proofs`, `DivergenceDatapath_proofs`, `Pipes_proofs`, `FractalAccelerator_proofs`, `FractalControl_proofs`, `FractalPattern_proofs` | theorems about the module each is named after (section 5) | `Pipes_proofs` instances the theorems of the node, `FractalAccelerator_proofs` those of the pipes |
| `JtagUart` | the console driver: one action per access of a thread or of the interrupt routine to a variable they share; the small driver; device and host | refines `CharStream` in each direction |
| `CharStream` | abstract: what goes in comes out, in order | |
| `FileTable` | registration, start-up, the pool, every system call as one step (one thread, and no interrupt routine uses descriptors) | refines `Descriptors` |
| `Descriptors` | abstract: descriptors bound to devices, exclusive locks, results | |
| `JtagUart_proofs` | theorems about the two UART drivers | |
| `Lab2_proofs` | theorems about `FileTable`, `Alarms` with `Interrupts`, and `Springs`, one part each; the three share no state, and the names of the latter two's formulas (`AlarmsSpec`, `SpringsSpec`) say whose they are | extends the three |
| `Interrupts` | a stack of frames, each at a label; sections, switching, registering, the handler, interruptible routines, one register a step | extended by `Alarms` |
| `Alarms` | the list, `alt_tick`, callbacks that start and stop alarms; two pointers a step, as the list's functions write them | refines `AlarmClock` |
| `AlarmClock` | abstract: ticks left to each alarm, no counter that wraps | |
| `Springs` | the program word by word and call by call; top_dda and the solver's control clock by clock | |
| `VgaDrawing` | the program's line, circle, box and spring as sets of pixels, and the words they are written to | pure operators |
| `VideoDrivers` | each drawing call by the bytes it writes; swap against the refresh; text | |
| `Heap`, `TimeOfDay`, `BusySleep` | alt_sbrk, the time of day, usleep | |
| `Caches` | both caches by line; store, flush, fetch, load; code, uncached blocks, buffers of a device | |
| `Lab2Programs` | the board under each program: `Springs`, or an application of one of the five modules above it | |

The `MC*` modules and `.cfg` files give the constants their model-checking
values. Definitions headed "faulty" in the component modules are forms with a
deliberate mistake (a dropped test, an off-by-one, a missing reset); they are
used in no specification and serve to confirm that each property can fail.

**Abstractions.** A pixel is a member of `Point` and stands for its coordinates
and the complex number computed from them. Whether an orbit diverges is an
arbitrary choice at every clock, so every statement about control holds for
every picture. A slot that is not in process is written as zeros: what it holds
is not read (`finished`, `recirculates` and `load` look at the in-process bit
first, and stage 0 is overwritten by `load`). `counter_pipeline`, `lock_iter`,
`enable_iterations`, the LEDs and the unused FIFO outputs are left out; nothing
depends on them. Iteration and process counters keep their widths. 32-bit
numbers in `FractalControl` are words modulo `WORD`.

In lab 2 the n-th character of a stream is the number n; a device name is a
sequence of components; a driver is the set of functions it provides, and what
one of them returns is a choice; errno is left out. A drawing call is the set of
bytes or words it writes; colours of the program are names. The parameters of a
version of the program are all equal to its number, so that a mixture shows. A
line of a cache has no contents, only whether it is dirty or out of date. Times
and addresses are small numbers with the code's arithmetic, products of 32 bits
wrapping at `Width32`, unsigned coordinates at `Unsigned`.

## 3. Runs

| run | instance | shows |
|---|---|---|
| `node` | 1 node with its data path, ring of 6 (adders of 2, multipliers of 1), 2 pixels, limit 3 | `ProcessCount`, `Capacity`, `Handshake`, `IterationBound`; the register chains meet (`ChainsMeet`), the first constant is the pixel's own (`FirstConstant`); every pixel handed in comes out (`Completion`) |
| `datapath_constant` | same | **violated**: a pixel is iterated with its own constant |
| `pipes` | 2 nodes, FIFOs of 2 words, surroundings as free as the outer FIFOs | headroom (so no overflow), exact reads, `NodeProtocol`, no pixel stuck before the nodes, no FIFO starved |
| `accelerator` | 1 node (the size in the code), 2 pixels, fifo_out of 3 words, fair reader | `FetchFindsPixel`, `FifoOutNoOverflow`, `ExactlyOnce`, `Delivery` |
| `control` | 3 x 2 screen, 3-bit numbers | the frame is complete, without repetitions, and ends |
| `display` | 2-word memory, 2 pixels, 1-word FIFO | results at their place, loss only if stopped, cleaning covers the memory |
| `display_loss` | same | **violated**: no result is lost |
| `jtag_uart` | ring of 3, FIFOs of 1 word, 4 characters in all, writes and reads of 1 or 3, the host comes or goes once, both drivers, with and without a clock | each direction a stream (`StreamsInOrder`); nobody waits for an interrupt that is off (`NeverStranded`); calls return (`CallsReturn`); what was accepted arrives (`EverythingSent`) |
| `file_table` | 3 devices and the null device, 6 descriptors, 3 names, two sets of flags | `OneLockHolder`, and the refinement `TableOfDescriptors` |
| `file_lock` | same | **violated**: whoever holds a lock is alone on its device (`LockedAlone`) |
| `alarms` | 2 alarms, 2 interrupts, counter of 4, delays 0 and 2, periods 1 and 3 | `OnlyMoreUrgent`, `HandlerThere`, the refinement `CalledOnTime`, `TickServed` |
| `lab2_programs` | see below | `NoGhosts`, `RunsOneVersion`, `RunsAsTold`, `DrawnAsAsked`, `OwnMemory`, `ReadsAsSet`, `SleepsAsAsked`, `FreshCode` |

Every run of lab 4 but the two of the display includes resets of any length at any time.
A progress property is excused by a low reset_n and by nothing else.

*Node.* The host starts a node it has seen not busy, as the load machine does.
`busy` is a register and the start passes r0, r1, r2 before it becomes
`data_ready`, so the decision to raise busy and its effect are apart;
`Capacity` says the threshold `ALL_PIPEL_SIZE-2` is right nonetheless, and
`Handshake` that a start always meets free input registers. One more
(`BusyAtRingSize`) or a missing term (`BusyWithoutStart`) is caught.

*Data path.* The multipliers and adders are shift registers of the lengths the
vendor's components are generated with (`Mult_pipeline`, `Add_Sub_pipeline`); the
chains beside them have the lengths the node's parameters give them. Nothing in
a number says whose it is: it is the set of the z's and constants that went into
it. `ChainsMeet` says that whatever stands beside a pixel was computed from one z,
as often iterated as the pixel's own count, and with one constant: the operands of
every product, sum and difference, both parts of z, the comparison and the
overflow flags. An operand taken without its delay (`AddInUndelayed`) is caught,
and so is any of the five chains of `ADD_PIPEL_SIZE` registers that is one register
short: two slots' numbers then come together. A constant that arrives a clock early
(`ConstantPipelineAtLoad`) is what `FirstConstant` catches. The chain
`add_comp_out_trunc_Aq` is left out: only a conversion for the wave viewer reads it.

*Pipes.* The wires data_in_available, space_ahead and data_in move freely, except
that only data_in_read empties the FIFO before the pipes and only write_out
fills the one behind. almost_full is looked at when a pixel is dealt, while the ring may
still hold `ALL_PIPEL_SIZE-3` further pixels: `NodeFifoHeadroom` bounds what a
node and its FIFO hold together by the mark plus that number. In the code: 12 +
12 - 3 = 21 of 25 words. `NodeProtocol` states that, seen from the nodes, the
pipes behave as the `Host` of `DivergenceNode`: the specification of the nodes
is itself the property, so what is proved of them holds inside the pipes.

*Accelerator.* The same argument one level up gives the slack the output FIFO
needs once space_ahead is low: `InFlight` = PIPE_SIZE * 21 + 1, so 199 + 22 of
256 words for the one node in the code, 199 + 43 for two; **for three nodes or
more (PIPE_SIZE is a parameter) 199 + 64 exceeds 256 and the ASSUME fails**. TLC
finds the bound tight for one node (with one word less `FifoOutNoOverflow` fails);
for any number it is proved to suffice. `ExactlyOnce` is a refinement: the
mapping counts, for every pixel, its occurrences in the input FIFO, the load
machine, each node's input register, ring, output register and FIFO, the
merge, and the output FIFO; each clock must be a step of `PixelService`. When
reset_n falls, pixels may be dropped, but at no time is one invented or
repeated, and at no other time is one lost. Two pixel values tell a loss from an
exchange. Two nodes are run in `pipes`, where the merge's reads are exact; that
the accelerator as a whole neither loses nor doubles a result with several nodes
is the theorem `AcceleratorIsService`.

*Control.* data_in_write is in no reset branch. A reset one clock after a grant
leaves it high until the next SEND_DATA, and the accelerator takes the cleared
word (0,0) with constant 0 at every clock meanwhile. `EveryPixelOnce` (the frame
is complete, without repetitions, each pixel with its own number) and
`OneWordPerGrant` say what remains true: only the first pixel can be affected. Word size 8 with start 5 and step 2 makes the real part
wrap inside a row, as it does in the code between -2 and 2.

*Display.* ST_WRITE_1 stores the word read one result earlier (the FIFO answers
a read at the edge at which the loop samples q), so the last result of a frame
is drawn when the next one is started; `LossOnlyByCut` shows that, apart from
that delay, no word is skipped while the loop is not interrupted. When it is
interrupted between READ and WRITE_1, data_out_read stays high (`display_loss`).
Sync pulses are arbitrary here. In the design they last 128 clocks or whole
lines; the loop takes two clocks per result and waits in READ while there is
none, so it can be in either state when a pulse ends.

*JTAG UART.* A thread step is one read or write of a variable the interrupt
routine also uses, and the routine may come between any two; it runs to its end
as the thread stands still, but the device and the host move at each of its
steps. `RoomTx` leaves one slot free: a full ring would look like an empty one
(`RoomTxAll`). The routine switches write interrupts off when it found the ring
empty; the writer that publishes after that switches them on at the end, so
`NeverStranded` names exactly the labels at which a character may wait with
interrupts off. `CallsReturn` needs the alarm: the count stops at INT_MAX-2, so a
timeout of INT_MAX-1 means for ever, and read is claimed to return only if the
host is gone. It is not stated for the small driver, whose write waits for room
without a timeout, also on a descriptor that may not block.

*File table.* `TableOfDescriptors` is a refinement: mark, lists and flag words
must act as a plain table of descriptors, in which a failing call changes
nothing. An open that fails after it took a descriptor is the hard case.
`OneLockHolder` holds although `alt_fd_lock` does not look at the highest
descriptor. The lock its comment describes, whose holder is the only user of the
device, is `LockedAlone`, and `file_lock` shows that the code does not give it; so
`Descriptors` promises only what is left: a lock is refused to a device in use,
unless its other user is the highest descriptor, and a locked device is opened by
nobody. The processor spins in `_exit`, so deadlock is not
checked.

*Alarms.* What runs is a stack of frames; each operation goes through labels and
writes one register, or one pair of pointers, a step. `CalledOnTime` maps the
list, the wrapping times and the roll-over flags to ticks left: an alarm called
a tick early or late, forgotten after a wrap or dropped from the list when
another one is taken out is no step of `AlarmClock`. `TickServed` says the walk
ends and interrupts come on again after every section. Two calls are left out,
each by a guard the code does not have, and the properties say so: a callback
that stops the alarm its own walk holds as next (`Stop`; the walk would not end),
and alt_irq_enable or alt_irq_disable inside or over an interruptible routine
(`MaySwitch`; the priority mask would be undone).

*Lab 2's programs.* One run, six programs that share no state; what is not run
keeps its first state. `Springs`: memory of 5 rows of 8 words, masses one pixel
to either side of positions 0, 5 and 11, so that they overlap, cross both walls
and leave the screen; the program is loaded up to three times, at any point, in
two versions, with 6 clocks between loading and the first word at least.
`VideoDrivers`: a picture of 4 x 3, coordinates from -1 to one past the edge, all
colour depths and both addressings. `Heap`: 16 bytes, grown by 0, 2, 4, 6 and
shrunk by 4, the stack at three depths. `TimeOfDay`: 12 microseconds a second,
three rates, products that wrap at 64, 20 ticks. `BusySleep`: counts to 15, 14
cycles a microsecond and 3 a pass, so that passes are rounded as in the code, every
delay of an unsigned int. `Caches`: two lines of two words, twice as many lines
of memory; ranges that start inside a line, and one longer than the cache;
loads, stores and fetches of other code between two steps, also to the lines an
uncached block shares with it.

**Bounds and why they are enough.** Pipeline lengths: short rings (4 in
the pipes, 6 in the node, where the chains beside the adders have two registers)
make load, delivery and busy collide in every phase; the proofs cover all
lengths, all numbers of nodes and all FIFO sizes the assumptions admit. Two nodes exercise both selects and all races between them. FIFO sizes
are the smallest the ASSUMEs admit, so a property would fail if any needed slack
were missing. Two pixel values distinguish loss from exchange. The limit of one
iteration lets a slot both recirculate and finish; the limit of three in the node
keeps pixels long enough to fill its ring. In lab 2, `MaxChars` (4 through a
ring of 3 with one slot free: wraps and fills), `MaxPlug`, `MaxRuns` (a second
version on top of a first that was stopped, then a third on that), `MaxTicks`
(past the wrap of the product) and `MaxText` (past the edge) bound what would be
infinite; two alarms and a counter of 4 give every order of two times around a
wrap; 6 descriptors leave 3 to open, which a lock, its rival and the highest
descriptor need. No other bound is imposed: every run is exhaustive for its
constants.

**Fairness.** `WF_vars(Tick)`: the clock never stops while reset_n is high.
Nothing is assumed of reset_n: it may fall at any time and may stay low, and
progress is claimed up to its next fall (`Delivery`: once it stays high).
`FractalAccelerator` also assumes that a result that stays available is read,
which is the display loop's part, and `FractalControl` that data_in_full is low
again and again, which is the accelerator's (`Delivery`). `FractalPattern` needs
only the clock. `JtagUart`: the processor runs the thread when no routine does,
and a routine until it returns; the alarm comes every second; a host that stays
attached takes what is offered. Nothing makes the application call, or the host
send. `Alarms`: the processor executes, a device's routine ends; nobody need ask
or call. `Lab2Programs`: the hardware's clock, and the program's start-up code.

## 4. Findings

1. **The constant is not recirculated** (`divergence_node.v:453-460`, run
   `datapath_constant`). A node has one c register, overwritten whenever a pixel
   enters the ring; from its second iteration on a pixel is iterated with the
   constant of the pixel loaded last. `FirstConstant` shows that the first
   iteration is right, which is all a one-pixel test bench sees.
2. **Results are lost at the end of a sync pulse** (`fractal_Pattern.v:157,
   211-215`, run `display_loss`).
3. **A lock is granted on a device in use** (`alt_fd_lock.c:61`, run `file_lock`).
   The comment at lines 43-44 grants it when no other open descriptor references the
   device; the search stops one short of the highest descriptor in use.

Also worth knowing, and covered by properties that hold: the stray write after
a reset, the result drawn one read late, and the limit of two nodes for the
output FIFO's size.

Met while modelling lab 2. Each is in the model as the code has it; the property
or guard that takes account of it is named.

* `alt_fd_lock.c:61` searches `i < alt_max_fd`, the others `<=`: a lock is
  granted although the highest descriptor is open on the device (finding 3). Two
  locks still never meet (`OneLockHolder`, proved).
  Closing a standard stream does not end its lock (line 47 says close does).
* `altera_avalon_jtag_uart_write.c:70`: the small driver waits for room whatever
  the flags, for ever if the host is absent.
* `alt_tick.c:102,140`: a callback that stops the alarm held as the next one
  makes `alt_tick` loop for ever (guard of `Stop`, exception of `TickServed`).
* `alt_alarm_start.c:82-89`: a delay of 2^32-1 is called at the next tick
  (`AlarmsAssumption`).
* `alt_legacy_irq.h:76,94`: switching one interrupt ignores the priority mask, so
  an interruptible routine that does so lets less urgent ones in (guard
  `MaySwitch`, exception of `OnlyMoreUrgent`).
* `altera_up_avalon_video_pixel_buffer_dma.c:123`: clearing the screen in 8-bit
  colours writes four times the width of a row; lines 182-199: negative
  coordinates are not clipped but drawn nowhere or elsewhere in the picture
  (`DriverDrew`). A second swap before the first is done turns the driver's view
  of the buffers round (`settled`).
* `alt_sbrk.c:107`: after a block that ends between two words the stack limit is
  compared with the aligned end and stays behind for good (`ragged`, exception of
  `OwnMemory`); the comment at lines 46-48 says no bounds are checked, the code
  checks them.
* `alt_sbrk.c:124`: on the exception stack the limit of the interrupted stack is
  compared with the heap's end in place of that stack's pointer, so any growth of
  the heap from there is reported as an overflow (`OldStackFollows`).
* `alt_uncached_malloc.c:50-54`, `alt_remap_uncached.c:49`: neither end of the
  block is aligned to a cache line. A store to other data in its first or last line
  brings the line back into the data cache, which later writes it over the block's
  words (`StoreOther`; exception of `FreshCode`, which speaks of the lines that lie
  wholly in the block).
* `alt_settod.c:83`: the product of ticks is 32 bits wide and wraps 71 minutes
  after the start; the time then reads wrong (`ReadsAsSet`).
* `alt_busy_sleep.c:107`: a delay that is a multiple of the longest count makes
  the last loop wrap (exception of `SleepsAsAsked`). `Loops` is rounded down by an
  integer division, so every delay is short by the fraction (50/3 passes become 16,
  4 %); `SleepsAsAsked` measures cycles, and states that loss as its lower bound.
* `alt_dcache_flush_no_writeback.c:83`: the pass added for an unaligned start may
  drop a line beyond the range, with stores nobody asked to lose.
* `count_binary.c`: positions run from 0 to 642 with 10 pixels to either side;
  what is drawn beyond the screen falls in the invisible end of a 1024-pixel row.

## 5. Proofs

TLAPS proves the following for every value of the constants that the named
ASSUMEs admit, under clock edges, resets, calls and interrupts in any order.

| module | theorem | states | from |
|---|---|---|---|
| `DivergenceNode_proofs` | `ProcessCountCorrect`, `CapacityCorrect`, `HandshakeCorrect` | `ProcessCount`, `Capacity`, `Handshake` | `InductiveInvariant` |
| | `IterationBoundCorrect` | `IterationBound` | `TypeCorrect` |
| `DivergenceDatapath_proofs` | `ChainsMeetCorrect`, `FirstConstantIsOwn` | `ChainsMeet`, `FirstConstant` | `PathInvariant` |
| `Pipes_proofs` | `HeadroomSuffices`, `MergeReadsWords`, `PipesHostNodes` | `NodeFifoHeadroom`, `UnloadReadsWords`, `NodeProtocol` | `PipesInvariant` |
| `FractalAccelerator_proofs` | `FetchIsSafe`, `NoResultLostAtOutput`, `AcceleratorIsService` | `FetchFindsPixel`, `FifoOutNoOverflow`, `ExactlyOnce` | `AcceleratorInvariant` |
| `FractalControl_proofs` | `FrameIsPicture`, `OneWord`, `ControlTypes` | `EveryPixelOnce`, `OneWordPerGrant` | `ControlInvariant` |
| `FractalPattern_proofs` | `DrawnInPlace`, `LostOnlyIfCut`, `PatternTypes` | `ScreenTrue`, `LossOnlyByCut` | `PatternInvariant` |
| `JtagUart_proofs` | `NobodyStranded`, `InOrder`, `UartTypes` | `NeverStranded`, `StreamsInOrder` | `DriverInvariant` |
| `Lab2_proofs` | `OneLockHolderCorrect`, `TableOfDescriptorsCorrect` | `OneLockHolder`, `TableOfDescriptors` | `TableInvariant` |
| | `OnlyMoreUrgentCorrect`, `HandlerThereCorrect` | `OnlyMoreUrgent`, `HandlerThere` | `AlarmsInvariant` |
| | `RunsOneVersionCorrect` | `RunsOneVersion` | `SpringsInvariant` |

### Lab 4

*Node.* For every pair of pipeline lengths with `ALL_PIPEL_SIZE <= 33` (what the
5-bit counter allows), every iteration limit of 11 bits and every set of pixels.
`ProcessCount` equates the counter with a cardinality: the live slots of a shift
register whose input is fed back. `ShiftCount` says that a shift changes that
number by what enters minus what leaves; `RingCount` applies it to one clock of
the ring. The counter follows only if its five bits do not wrap (`CounterStep`),
which needs `Capacity`; `Capacity` is preserved because a start meets `Ready`
(`Handshake`); and `Handshake` is preserved because the terms of `Busy` cover
every place a pixel can be between start and the ring. None of the three is
inductive alone. `IterationBound` needs only the type invariant: a slot goes
round only below the limit, so the sum of 11 bits does not wrap.

*Data path.* For every latency of the multiplier and the adder that is the one the
node's parameter names (`LatencyAssumption`). `ChainsMeet` says what the numbers
beside a pixel have in common; `InStep` says which they are, register by register:
in each stage of the multipliers, of the first adders with the square that waits
beside them, and of the last adder with the four chains that do (`Moves`). A clock
takes them all one stage on, and at the joints (the end of the multipliers, of the
first adders, and of the ring) the chains end together because their lengths add up to
`ALL_PIPEL_SIZE`. `FirstConstant` needs more: where the constant was before it was
added. `Meets`: on its first round (iteration count 0) a pixel in stage 0 has its
constant in c_reg, and one in stage i up to the adders has it in c_Mq[i-1]. On the
second round that fails, which is the first finding of section 4.

*Pipes.* The nodes' invariant is not proved again. `Pipes_proofs` instances
`DivergenceNode_proofs` with the wires the pipes drive; the node's assumptions are
conjuncts of `PipesAssumption`, and what is left to show is that the load machine
is the host those theorems assume (`Hosted`). That also gives `PipesHostNodes`.
The headroom is an account of a node and its FIFO together: results move from one
to the other without changing it, the merge only lowers it, and it grows only by
the pixel dealt, at a moment when busy and almost_full are low, hence
when it is below its bound. The invariant says further that start and
data_in_read are pulses of one clock, and that both machines are cleared while
reset_n is low. The step lemmas are about a step of the pipes in any
surroundings (`Move`), so that they can be used again one level up.

*Accelerator.* `Pipes_proofs` is instanced with the real FIFOs around it. The
output FIFO is looked at when a pixel is fetched and never again, so the proof
keeps an account of everything that can still reach it (`Fits`): its words, the
word being written, all that the nodes and their FIFOs hold, and a pixel fetched
but not started. Only a fetch adds to that. The sum over the nodes is stated as
the number of elements of a set (`Held`), so that it needs no recursion. The
bound of `AcceleratorAssumption`, which TLC finds tight, is met exactly: `Room`
says that a word on its way out at the moment of a fetch has left a place behind.

*Accelerator as a service.* `ExactlyOnce` is proved as the refinement it is: the
initial state maps to the empty `PixelService`, and every clock, with the reset
released, falling or low, to a step of it or none. The mapping counts one pixel.
What a node carries of it (`Carried`) grows by the pixel handed in and falls by the one
handed out, whatever its ring does between; together with its FIFO
(`HeldByNode`) that becomes an account that only the load machine and the merge
move. The sum over the nodes is the size of a set of places, so that a sum in
which one term changes by one changes by one (`Places`), for any number of nodes.
At the two ends, a pixel the user writes must find room (`WriteFits`: the full flag
he looked at a clock before still tells the truth) and a result must too (`Fits`):
without either, a clock would lose a pixel, which is no step of the service.

*Frame control.* `EveryPixelOnce` speaks of a finished frame, the invariant of
every moment of one. `OnGrid`: the running sums, modulo the word, are the grid's
values at the coordinates. `SoFar`: what has been written is the part of the
picture before the coordinates, but for what a data_in_write left high by a reset
adds at the corner; `Granted` says it can be left high only there.

*Display.* we_n, addr_reg and data_reg are set by different branches and sampled
a clock later; `PinsMatch` says that an open write always carries a word with its
own address. `ReadsInWrite1`: until the loop is cut short, data_out_read is high
in WRITE_1 and nowhere else, so a word is stored before the FIFO replaces it.

### Lab 2

*JTAG UART.* For every ring of two slots or more, every FIFO, both drivers, and an
interrupt routine that may come between any two steps of a call. `NeverStranded`
needs that the copy of the enables is what the device has, that a non-empty
transmit ring has somebody coming for it, and that read interrupts are off only
while there is no room or a reader is on his way to switch them on. The
refinement of `CharStream` in both directions needs to know where each character
is: `TxStream` and `RxStream` say which number each slot between the indices
holds; `TxClaim` and `RxClaim` say that the slots a thread copies stay its own
until it publishes them, because the routine moves only its end of a ring,
away from them; `TxSpace` says that the space read from the control register at
the start of a pass is still there when the routine uses it.

*File table.* For every pool of more than three descriptors, every set of devices,
file systems, names and drivers. `OneLockHolder` is not inductive: a lock is
granted after a search that leaves out the descriptor at the mark. `BelowMark` (no
used descriptor but the standard ones above the mark) makes the search complete
but for that one; `MarkAlone` says that if the descriptor at the mark holds a
lock it is alone on its device, since the search for *its* lock saw everybody
else, so a second holder could only be the one overlooked, which is none.
`DeviceFlag` (a lock needs a descriptor opened by name on a device, so the mark is
past the standard streams) and `LockFlag` (no lock before main) keep the start-up
out of it; `FreeIsClean` gives a fresh descriptor no lock. The refinement maps
the initial state to one of `Descriptors` (`InitRefines`) and every step to a step
or a stutter (`NextRefines`); an open is refused by a lock because
`alt_file_locked` searches up to and including the mark (`LockIsFree`), which is
what `Descriptors!Open` asks.

*Interrupts and alarms.* For every set of interrupts, every number of alarms,
every counter and any depth of nesting. `OnlyMoreUrgent` speaks of the moments
with interrupts on; what holds then depends on what every section will put back
(`Saved`, `PieKept`), also the nested one inside registering. A frame can only be
interrupted where interrupts are on, so every frame below the running one is the
program at rest, the last, or a routine that has opened itself (`Below`). Each of
these holds the mask that was in force under it, so the mask can be read off the
stack (`Masks`); it is therefore right again when a routine returns, and lets in
only what is more urgent than all routines on the stack (`Order`). The enable
register follows the active set and the mask but for the moment between their
writes (`Enabled`). `HandlerThere` needs that handlers come and go only when
nothing but the program runs, that an interrupt is switched on after its handler
is there and off before it goes (`ActiveHaveHandlers`). `Links` says that pointers
lead from linked alarms to linked alarms, whatever is joined or taken out
between two steps of a walk; it is what the types of a walk rest on.

*Start of the solver.* For every list of parameters, any number of versions and
runs, and a start-up of any length, none included. There is no acknowledge, and
the hardware goes on while a program is stopped and another loaded.
`SpringsInv` says that parameters are on the port only while the start is down
(`Quietly`), and that the registers hold one version's whenever the start is up or
on its way (`StartWhole`), from a program that was stopped there too. A start is
sent only when all parameters have been on the port for a clock (`Sent`). From
there one version reaches the solver: `LoadedWhole`, `RunWhole`. `Lab2Programs`
takes its steps of this program from `SpringsNext`, the next-state relation of the
theorem.

### Assumptions, and what is only model-checked

The assumptions are the named ASSUMEs of the modules the theorems are about
(`PipelineAssumption`, `LatencyAssumption`, `IterationAssumption`, `PointAssumption`,
`PipesAssumption`, `AcceleratorAssumption`, `ControlAssumption`,
`PatternAssumption`, `JtagUartAssumption`, `FileTableAssumption`,
`InterruptsAssumption`, `AlarmsAssumption`, `SpringsAssumption`), which TLC
evaluates in every run of those modules. A module that instances theorems has the
assumptions of the instanced module among its own.

Checked by TLC alone:

* progress, which rests on fairness and ENABLED: `Completion`, `EveryPixelDealt`,
  `EveryFifoDrained`, `Delivery`, `FrameEnds`, `ScreenCleared`, `CallsReturn`,
  `EverythingSent`, `TickServed`, `RunsAsTold`;
* what is stated with recursive functions, whose value for every input needs
  induction over data: `CalledOnTime` (the list of alarms is walked), `DrawnAsAsked`
  and `NoGhosts` (lines are paths);
* `ReadsAsSet` and `SleepsAsAsked` (the time of day and the delay divide and multiply
  variables, which is beyond the arithmetic of the provers), `OwnMemory` (not proved
  yet) and `FreshCode` (which words a pass of
  the loops covers is a question of quotients and remainders by a symbolic line size).

## 6. Not modelled

*Lab 4.* The values of the fixed-point arithmetic (truncation from 8.56 to 4.28
bits, overflow flags, the comparison with 4), the top-level wiring, vendor blocks,
test benches and backups. `VGA_Ctrl`: its vertical counter is clocked by the
horizontal sync it also compares, so a model of it is two counters to 800 and 525
whose scaled-down form says little about the numbers chosen; the display loop is
checked under arbitrary sync pulses instead, which include the real ones.
Metastability and the analogue side of asynchronous resets are outside the model.

*Lab 2.* The integrators' arithmetic and the display of the VGA side of the
hardware. In the board support package: `alt_log_printf` and profiling (not
compiled in), DMA channels and flash devices (the board has none), the
instruction-exception interface (switched off), `alt_printf` (formatting only),
the process calls that return ENOSYS, the semaphore macros (empty without an
operating system), the constants of `system.h` and the Qsys output, and the
assembly of `crt0.S` and the exception entry, of which the models of interrupts
and of the loader say what they do to the state.

*Labs 1 and 3.* Not modelled (section 7).

## 7. Plan

Done: lab 4 from the node to the display loop, and lab 2's program with the
hardware's control and its board support package. Every safety property of lab 4
that a run checks is proved; so are the UART drivers, the file table, the
nesting of interrupts and the start of the solver of lab 2.

What would come next:

1. Proofs: `FreshCode`, with lemmas about the quotients a loop over lines runs
   through; `OwnMemory`, which is linear.
2. `FractalSystem`: control, `PixelService` and display loop composed: a started
   frame reaches the screen, what clean_screen in mid-frame does.
3. Lab 1: the automaton's line state machine and its shared memory.
4. Lab 3: I2C configuration with retries, the audio serialiser, the mesh update.
5. Fixed-point arithmetic of the data path as operators against a reference.
