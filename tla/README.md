# A formal model of the NAND-flash instruction detector and its board software

This directory holds a TLA+ development of the programs of this repository:

* `ptmch`, the FPGA block that listens on an SPI NAND-flash bus, recognises
  watched instructions and answers each with a trigger pulse;
* the software that runs beside it on the Nios II of the DE0-Nano: the drivers
  and services of the board support package, and the demonstrations of `main.c`
  with the controllers they drive;
* the LED block of the board.

It contains the models, the TLC configurations that check them, and proofs
checked by TLAPS.

## 1. The system

### The detector, `src/ip/ptmch`

Five files, about 6,800 lines, 4,600 of which are the same twelve lines for each
of the 384 log registers.

| component | state it keeps | operations | interacts with |
|---|---|---|---|
| `ptmch_rst` | `PTMCH_RST_N` | clear the capture path at each fall of CS | driven by `ptmch_trg` (CS edge), resets most of `ptmch_trg` |
| `ptmch_trg` | bit count and shift register (SPI_CLK), their synchronisers, held instruction, match pipeline, CS pipeline, pulse counter, outputs, ten window synchronisers (CLK160M) | shift a bit; transfer; match; pulse | SPI pins; windows from `ptmch_reg`; `TRG_PLS` to `ptmch_cnt`; `PAGE_ADDR` to `ptmch_reg` |
| `ptmch_cnt` | trigger synchronisers, five counters, `PLS_RISE`, `PADDR_CNT` (CLK100M) | transfer, count, select | `TRG_PLS`; counters and index to `ptmch_reg` |
| `ptmch_reg` | page synchroniser, buffer, 384 log registers, ten windows, select, read data (CLK100M) | log a page; Avalon read and write | `PAGE_ADDR`, `PLS_RISE`, `PADDR_CNT`; the host |
| `ptmch_top` | none | wiring | the four blocks |

There are three clocks with no fixed phase (`DE0_Nano.out.sdc:151-156` cuts
every path between them): SPI_CLK from the bus master, up to 100 MHz and only
running inside a frame; CLK160M; CLK100M. That is where the difficulty is:

* a multi-bit register sampled on another clock may be caught half-changed;
* the frame reset takes four CLK160M clocks to arrive and races the first bit;
* the next frame may arrive while the last instruction's pulse is under way,
  and its reset clears the page address before it stops the pulse;
* a trigger pulse reaches the counters and the page reaches the log along
  pipelines of different length;
* the host reads and writes registers at any time.

It is correct when the instruction held for matching is the frame on the bus;
there is one pulse of the right length, in time, on the right output, for each
watched instruction in its window and nothing for anything else; each pulse is
counted once; each log entry shows the page of its command, and a host that has
read a count finds the entry it names.

### The software, `src/software` (`src/de0_nano_system/software` is the same tree again)

| component | state it keeps | operations | interacts with | correct when |
|---|---|---|---|---|
| JTAG UART driver | two rings, enables, host-activity count | read, write, close, ioctl; interrupt; alarm | core's FIFOs, the host, the alarms | both directions are channels; nothing waits for ever |
| alarms and tick | counter, ring of alarms | start, stop, tick with callbacks | callbacks of the drivers | a callback comes at its tick, also across the wrap |
| time of day | time of tick 0 | settimeofday, gettimeofday | tick counter | shows what was set plus the ticks since |
| `usleep` | loop counters | sleep | - | never shorter than asked |
| data cache | (the processor's) | flush, flush without write back, flush all, remap | interrupts | nothing written is lost or stale |
| file descriptors | pool, high-water mark | open, close, fcntl, ioctl, read, write, ..., start-up and exit | drivers | no leak, exclusive access, access modes |
| I2C library and EEPROM | port levels, place in a call | single and multiple read and write, verification | the device | the wires keep the protocol, the data arrive |
| EPCS driver, flash library | call state, modes of the device | query, read, erase, write, write block, verify | SPI core, the device, resets | no command is lost on the device, data land, the rest stays |
| SPI core and command driver | credits, three registers | command | flash device | no overrun, bytes in order |
| interrupts | table, mask, stack of handlers | register, dispatch, nest | all drivers | pairs match, only more urgent ones nest |
| menu and keys | selection, key flag | choose, run, leave | key port, its interrupt | no press is lost |
| accelerometer, three-wire SPI | FIFOs, start flag, driver | set up, identify, poll, read | two clocks, the device | commands reach the device, answers are its own |
| ADC demonstration | start flag, controller | read | two clocks | each value beside its own label |

`src/rtl/ledpwm.sv` is a breathing LED: a counter and an accumulator.

The `hazards` of `PROJECT.json` say, line by line, what can go wrong here that a
test would hardly reach.

## 2. The modules

Detector:

| module | what it is |
|---|---|
| `PtmchBits` | bit vectors, torn samples, the difference-detect stage |
| `PtmchTrg` | `ptmch_rst` and `ptmch_trg`, every register, with the bus master, the host's window writes and RESET_N as environment |
| `PtmchTrgInv` | the inductive invariant of the front end |
| `InstDetect` | the abstract detector: frames, windows, triggers; no clocks or registers |
| `PtmchTrgObserved` | `PtmchTrg` with an observer on the outputs, and the refinement of `InstDetect` |
| `PtmchTrg_proofs` | the theorems about both: what is held and triggered, the pulses, the refinement, the time of the answer |
| `PtmchCnt` | `ptmch_cnt`, with the trigger outputs as environment |
| `PtmchReg`, `PtmchReg_proofs` | `ptmch_cnt` composed with `ptmch_reg`, with the front end's outputs and the host as environment; the theorems about the counters and the log |
| `PtmchTop`, `PtmchTop_proofs` | `ptmch_top`: an instance of `PtmchTrg` and `PtmchReg` in one state space, on the 8:5 schedule of the two PLL clocks; the theorems about the whole |

Software and the rest of the board:

| module | source | proofs |
|---|---|---|
| `JtagUart`, abstract `ByteChannel` | `altera_avalon_jtag_uart_{init,read,write,ioctl,fd}.c` | `JtagUart_proofs` |
| `AltAlarm` | `alt_tick.c`, `alt_alarm_start.c`, `alt_llist.h` | `Drivers_proofs` |
| `TimeOfDay` | `alt_settod.c`, `alt_gettod.c` | `Drivers_proofs` |
| `BusySleep` | `alt_busy_sleep.c` | `Drivers_proofs` |
| `DataCache` | `alt_dcache_flush*.c`, `alt_remap_uncached.c` and kin | `Drivers_proofs` |
| `FileTable`, abstract `Descriptors` | `alt_open.c`, `alt_close.c`, `alt_fcntl.c`, `alt_fd_lock.c`, `alt_dev.c`, `alt_io_redirect.c`, ... | `Drivers_proofs` |
| `I2cBus` | `terasic_lib/I2C.c` | `I2cBus_proofs` |
| `EpcsFlash` | `altera_avalon_epcs_flash_controller.c`, `epcs_commands.c`, `terasic_lib/flash.c` | `EpcsFlash_proofs` |
| `SpiCommand` | `altera_avalon_spi.c` | `Demos_proofs` |
| `IrqDispatch` | `alt_iic*.c`, `alt_irq_handler.c`, `alt_legacy_irq.h` | `Demos_proofs` |
| `DemoMenu` | `main.c` | `Demos_proofs` |
| `AdcRead` | `main.c`, `adc_spi_read.c`, the converter's controller | `Demos_proofs` |
| `ThreeWire` | `terasic_spi.c`, `accelerometer_adxl345_spi.c`, `SPI_3WIRE.v`, `TERASIC_SPI_3WIRE.v`, `main.c` | `Demos_proofs` |
| `Ledpwm` | `src/rtl/ledpwm.sv` | `Demos_proofs` |

`MC_*` are the TLC instances.

**State and actions of the detector.** Registers keep the names of the source.
The five command classes are the set `Channels`, and whatever the source writes
out five or ten times is one function over it (`win`, `ar_win_1d`, `TRG_PLS`,
`sr_counter`, ...); the log is `sr_paddr_dat`, a function over `1..LogSize`. A
word of n bits is a function from `0..n-1` to `Bit`. An action is one clock edge
(all registers of that domain step at once), or one change of a pin: `Tick160`,
`SpiRise(b)`, `CsFall`, `HostWrite`, `Tick100`, `RisePls`, ... An edge that
coincides with a change of its inputs is an action of its own
(`SpiRiseAtTick`, `HostWriteAtTick`, `ChangePageAtTick`, `BothTick`): the first
synchroniser stage captures any mixture of old and new bits (`Torn`,
`TornCount`). The later stages see settled values, as the source's two-stage
synchronisers intend. In `PtmchTrg` the relative frequency of the clocks is
bounded only where the source relies on it: at most one SPI_CLK edge between two
CLK160M edges (`spiAge`; 100 MHz against 160 MHz), and the bus timing below. All
other interleavings are allowed, so that every phase and drift is covered.

`PTMCH_RST_N` is a flip-flop (`ptmch_rst.sv:34`; its blocking assignment
synthesises to one) whose output clears other registers asynchronously. In the
model the clear takes effect in the same edge (`Cleared`): between two edges the
cleared registers have no other reader.

`sent`, `fresh` and `clean` record what the master did since CS fell. RESET_N may
be asserted at any time (`Resets`); a frame it cuts is marked by `clean` being
FALSE until the next CS fall, because the device cannot know about the bits it
lost.

**State and actions of the software.** An action is what happens between two
points at which somebody else can act: one access to what a thread shares with
an interrupt routine (`JtagUart`, `DemoMenu`, `IrqDispatch`), one poll or write
of a register against a controller with a clock of its own (`SpiCommand`,
`AdcRead`, `ThreeWire`), one port write (`I2cBus`), one command to the device
(`EpcsFlash`), one instruction of a flush (`DataCache`), or a whole call where
only one thread runs (`FileTable`). Sections with interrupts disabled are one
step. Hardware outside `src/` (the UART and SPI cores, key port, EEPROM, flash
device, converter, accelerometer, processor) is modelled from the way the code
uses it and marked external in the map.

**How they compose.** `PtmchReg` extends `PtmchCnt`; `PtmchTop` extends
`PtmchReg` and instantiates `PtmchTrg` on its window registers. `EpcsFlash` takes
one SPI command as a step, which `SpiCommand` shows to be what the driver does
(`Delivered`). `DemoMenu` sees the demonstrations as one step each; their
insides are `ThreeWire`, `AdcRead`, `I2cBus` and `EpcsFlash`. `JtagUart` relies
on the alarms only for a tick that keeps coming, which `AltAlarm` gives
(`CallbackOnTime`, `NothingOverdue`).

## 3. What the runs check

| run | instance | shows |
|---|---|---|
| `trg_frames` | 4-bit instructions, two classes (one with two opcodes, one opcode unused), windows written before the frames, resets | `HeldIsSent`, `TriggerIsCommand`, `PulseInTime`, `NeverTwice`, `PageContract`, and that the front end implements `InstDetect` |
| `trg_live` | 3-bit instructions with two address bits, one class, window rewritten at any time between torn values | `TriggerOwnClass`, `WindowsTrue` (= `WindowsGenuine`, `WindowsSettle`) |
| `trg_inductive` | 3-bit instructions, two classes, resets | the inductive invariant `FrontInv` (= `PipelineInv`, `FrameInv`, `TriggerOwnClass`); the liveness property `InstructionArrives` |
| `reg_parts` | three classes with 2-bit counters, four behaviours side by side: `count`, one pulse more than the counters count, resets; `log`, two classes between which the host selects, two log entries behind an index modulo 3, three commands of one class and two of the other, torn page samples, cut pulses; `port`, one class, a host that polls the count and reads entries, resets; `write`, a host that writes a window around a command | `CountsPulses`, `CountsInStep`; `LogTrue`; `CountThenEntry`; `RegTypeOK` |
| `cnt_stop` | the counters of `count` | violates `CounterStops`: see section 6 |
| `top_frames` | the whole detector, one class, two frames of 3-bit instructions, all eight phases of the clocks | `FramesLogged` (= `FramesCounted`, `LogTrue`) end to end; `ImplementsReg` |
| `uart_rings` | rings of 3, FIFOs of 1, writes and reads of 0, 1 and 3 bytes | `RxIsChannel`, `TxIsChannel` (refinements of `ByteChannel`), `RingsKept` (= `UartTypeOK`, `ReceiveNotStuck`, `TransmitArmed`) |
| `uart_live` | rings of 2, a host that comes and goes, timeouts | `CallsReturn` (= `WriteReturns`, `ReadReturns`, `NeverMeansNever`), `BytesArrive` |
| `drivers` | alarms, time of day, sleep, cache, descriptors, I2C, flash | the first table below |
| `fd_lock` | the pool of `drivers` | violates `HeldAlone`: see section 6 |
| `fd_close` | the same | violates `ReleasedByClose`: see section 6 |
| `demos` | menu, ADC, three-wire, SPI, interrupts, LED | the second table below |

Deadlock is checked in every run.

**Runs with parts.** The components of `drivers` and of `demos`
share no state. Each of the two runs puts them side by side, with a variable
`part` that is chosen at the start and never changes: only that component takes
steps, the others stay in a fixed initial state. So the states of the run are
the sum of the components' states, every property is checked on every behaviour
of its component, and a component deadlocks in the run exactly when it deadlocks
by itself. `reg_parts` does the same with four instances of one module, which
would differ in bounds only. In `demos` the fairness conditions are those of the components, each
about the steps its component takes.

| `drivers`: property | parts | says |
|---|---|---|
| `AlarmsOnTime` | `CallbackOnTime`, `ListIsRunning`, `NothingOverdue` | a callback runs at its tick, none is missed, also across the wrap |
| `ShowsTrueTime` | | the time read is the time set plus the ticks since |
| `SleepsEnough` | | never shorter than asked |
| `WritesKept` | `FlushReaches`, `NothingLost` | a flushed store is in memory, and no store is lost |
| `FilesKept` | `TableImplements`, `NoLeak`, `AccessRespected` | the pool does what is documented of it (`Descriptors`) but for `LockPastTop` and `CloseKeepsLock`; no slot leaks; access modes hold |
| `BusKept` | `SdaStable`, `NoContention`, `BusReleased` | the wires keep the I2C protocol |
| `TransfersTrue` | `TransferTrue`, `VerifyRestores` | transfers do what they report |
| `ModesKept` | `CommandsTaken`, `ThreeByteAtRest` | no command is lost on a device in another mode or busy |
| `ContentsTrue` | `WriteLands`, `CallTrue`, `OthersKept`, `VerifyPasses` | the contents are those the calls describe, everywhere |
| `DriversTypeOK` | | the components' type invariants |

| `demos`: property | parts | says |
|---|---|---|
| `PressKept` | | a key pressed during a demonstration is not lost |
| `SamplesTrue` | `LabelsTrue`, `FrameOver` | each value stands beside its own channel |
| `AnswersTrue` | `SetUp`, `ReadsOwn`, `ReadsTrue` | commands reach the accelerometer, answers are their own |
| `CommandTrue` | `NoOverrun`, `Delivered` | every byte of an SPI command arrives, in order |
| `HandlersNest` | `PairsMatch`, `OnlyHigher`, `EnablesRestored` | own context, only more urgent nest, mask as before |
| `LedTrue` | `LightTrue`, `Smooth` | the LED shows its brightness, which moves by steps |
| `DemosLive` | `PressEnds`, `AdcKeyEnds`, `WireKeyEnds`, `CallEnds`, `CommandReturns`, `Served`, `Breathes` | nothing waits for ever |
| `DemosTypeOK` | | the components' type invariants |

**Bounds of the detector.** `InstLen` replaces 32 and `PlsTop` 15. Nothing in
the source depends on the width of the instruction except that the counter stops
at a power of two; in the model that is the stop value, and a torn count may be
any value of the counter's width (`Count`). Four bits are the smallest
instruction with two-bit opcodes (so that one opcode is unwatched) and two-bit
addresses (so that a torn address differs from both neighbours and a window has
an inside and two outsides). The pulse of `PlsTop` = 3 is shorter than the
frame, as 15 clocks are shorter than 32 SPI clocks plus CS setup at any SPI
frequency the tests use; `NeverTwice` and the refinement show what happens when
the next frame arrives before the pulse is over. `CsSetup` = 5 is the least
number of CLK160M edges for which `HeldIsSent` holds (with four TLC finds a
frame that loses its first bit); the test bench leaves 40 ns, 6.4 clocks
(`ptmch_top_tb.sv:65-98`). `CsHigh` = 1: CS is seen high once. `CntMax` = 3,
`MaxPulses` = 4 in `reg_parts` reach and pass the largest value. In its part `log`
the third command of a class wraps to index 0, which has no entry, and a new
selection goes back to entries the other class has filled. `PageLead` = 3 CLK100M
edges are what 6 CLK160M periods (37.5 ns) contain at least; `PageGap` = 4 edges
is less than the shortest frame. In `PtmchTop` the front end drives the page and
the trigger, and `ImplementsReg` checks both. `FrameGap` = 10 is tight: with 9
TLC finds a command that is not counted. Two frames are enough for the second
to meet every stage of the first. The theorems remove the bounds for the properties they name.

**Bounds of the software.** The numbers are small but keep the proportions on
which the code depends: a ring that fills and wraps; a tick counter modulo 8
that wraps with alarms pending; a word of 128 against loops of 63 turns for
`usleep`; a cache of two lines over four of memory, so that lines displace each
other, and regions at every offset; a pool of five descriptors with three
standard ones; two sectors of two pages of two bytes, so that a write can cross
a page, a sector and the end of the device; one processor reset between any two
flash commands; two interrupts whose handlers nest, and `MaxRaises` requests of
the devices, so that `Served` is checked for that many; four I2C cells and transfers
of two bytes. `Tuned` is the one descriptor on which fcntl is called, `Starts`
the offsets of flash calls, `Discarded` the regions flushed without write back.

**Assumptions about the environment, each named in its module.**

* `AdcRead`, `ThreeWire`: `adcPatient`, `wirePatient` are TRUE in the instances in
  which the driver's limited polls (500 and 100) outlast a frame or command, as
  they do by far on the board; properties that need it say so, and liveness is
  checked in both cases. `WireSleepTicks` = 4 stands for `usleep(10)` on the
  controller's bit clock. One bus read gives one read strobe to the FIFO.
  `ADXL345_SPI_Init` clears the FIFOs twice because the first clear leaves what the
  controller stores until its first start.
* `ThreeWire`: the driver sets the start flag only after the controller has seen it
  clear (`Go`'s `~wireCore.pre`): the bus accesses between are taken to last one
  bit clock (24 cycles of the controller's clock). A shorter gap would hide the
  edge and start nothing. A byte written to a FIFO is there on
  the other side at the next tick: the few clocks the vendor's dual-clock FIFO
  takes are left out.
* `IrqDispatch`: a handler nests (`alt_irq_interruptible`) or enables and disables
  interrupts, not both; the last paragraph of section 6 says what happens with both.
* `AltAlarm`: an alarm is not started twice, and a callback does not stop the
  alarm whose turn is next (section 6).
* `DataCache`: a region flushed without write back starts on a line; a remapped
  block fills its lines and no interrupt routine uses a word of it (section 6).
* `FileTable`: one thread; calls only with open descriptors. The descriptors keep
  what `Descriptors` says but for two named steps (section 6).
* `I2cBus`: the delays are long enough for the device.
* `EpcsFlash`: a command that a reset cuts short counts as not sent.
* `TimeOfDay`: the tick rate divides a million, and less than 71 minutes pass
  (section 6).
* `JtagUart`: two applications, one that reads and one that writes and closes;
  one that does both multiplies the states beyond the time a run has. The two
  directions share only the control register and the host-activity alarm.

**Fairness.** Detector: `WF(Tick160)`, `WF(Tick100)`: the PLL clocks run.
`WF(ResetRelease)`, `WF(FallPls)`: the reset controller lets go, and a pulse ends
because the pulse counter runs on CLK160M. The bus master and the host are not
fair: `InstructionArrives` holds although they may stop, or clock data behind
the instruction for ever. `PulseInTime` states the response of a quiet bus as a
bound in clocks (`Latency` = 11), which is stronger than "eventually" and needs
no fairness. `JtagUart`: the processor runs (thread and interrupt routine), the
timer ticks, and a connected host keeps polling the core and takes its bytes;
that it sends any, or stays connected, is not assumed - the properties say for
which case they hold. `DemoMenu`: weak fairness of `KEY_ISR` and strong fairness
of the monitor's loop, which interrupts suspend: a press lasts long against the
routine, so that the loop always gets on between two. `AdcRead`, `ThreeWire`,
`SpiCommand`: the processor and the controller's clock. `IrqDispatch`: the
processor takes interrupts, runs handlers to their end, and they acknowledge.
`Ledpwm`: the clock, and a reset that ends. `drivers` assumes none: that
alt_tick's walk and the calls of the flash driver come to an end is not checked.

Every property of a passing run has a mutant in `PROJECT.json`: a definition of
the model replaced by a plausible bug (a synchroniser stage too few, a ring that
may fill to the last slot, a write enable left out, ...), for which TLC finds
the property violated. The mutants stand beside the definitions they replace. A property
that is a conjunction of parts has one mutant there; the modules hold further
ones, marked as mutants, that break its other parts.

## 4. What is proved

For every value of the constants that satisfies the assumptions of the module:

| module | theorem | statement |
|---|---|---|
| `PtmchTrg_proofs` | `TypeCorrect`, `FrontInvariant` | `Spec => []TypeOK`, `Spec => [](TypeOK /\ FrontInv)` |
| | `HeldIsSentAlways`, `TriggerOwnClassAlways` | `Spec => []HeldIsSent`, `Spec => []TriggerOwnClass` |
| | `WindowsTrueAlways` | `WriteGap >= 1 /\ Spec => []WindowsTrue` |
| | `ObservedInvariant` | `Assumed /\ ObservedSpec => []ObsInv` |
| | `NeverTwiceAlways`, `TriggerIsCommandAlways`, `PageContractAlways` | the same with `[]NeverTwice`, `[]TriggerIsCommand`, `[]PageContract` |
| | `DetectorImplemented` | the same with `ImplementsDetector`, the refinement of `InstDetect` |
| | `PulseInTimeAlways` | the same with `[]PulseInTime` |
| `PtmchReg_proofs` | `CntTypeCorrect`, `CounterInvariant` | `CntSpec => []CntTypeOK`, `CntSpec => [](CntTypeOK /\ CntInv)` |
| | `CountsPulsesAlways`, `CountsInStepAlways` | `CntSpec => []CountsPulses`, `CntSpec => []CountsInStep` |
| | `RegTypeCorrect`, `RegInvariant` | `LogAssumed /\ RegSpec => []RegTypeOK`, `LogAssumed /\ RegSpec => []RegInv` |
| | `LogTrueAlways` | `LogAssumed /\ RegSpec => []LogTrue` |
| | `CountThenEntryAlways` | `PollAssumed /\ RegSpec => []CountThenEntry` |
| `PtmchTop_proofs` | `TopInvariant` | `TimesAssumed /\ TopSpec => []TopInv` |
| | `TopImplementsReg` | `TimesAssumed /\ TopSpec => ImplementsReg`, the refinement of `PtmchReg` |
| | `FramesLoggedAlways` | `TimesAssumed /\ TopSpec => []FramesLogged` |
| `JtagUart_proofs` | `RingsKeptAlways`, `NeverMeansNeverAlways` | `Spec => []RingsKept`, `Spec => []NeverMeansNever` |
| | `RxIsChannelAlways`, `TxIsChannelAlways` | `Spec => RxIsChannel`, `Spec => TxIsChannel`, the refinements of `ByteChannel` |
| `Demos_proofs` | `AdcInvariant` | `AdcSpec => [](adcPatient => AdcInv)` |
| | `LabelsRight`, `FrameEnds`, `SamplesAlways` | `AdcSpec => []LabelsTrue`, `AdcSpec => []FrameOver`, and both as `[]SamplesTrue` |
| | `MenuInvariant`, `NoPressLost` | `MenuSpec => []MenuInv`, `MenuSpec => []PressKept` |
| | `SpiInvariant`, `NeverOverrun`, `CommandTrueAlways` | `SpiSpec => []SpiInv`, `SpiSpec => []NoOverrun`, `SpiSpec => []CommandTrue` |
| | `AnswersTrueAlways` | `WireSpec => []AnswersTrue` |
| | `LedTrueAlways` | `LedSpec => LedTrue` |
| | `TableInvariant`, `NeverHalfWritten` | `IrqSpec => []TableInv`, `IrqSpec => []PairsMatch` |
| | `NestInvariant` | the same with `NestInv`, if handlers leave the enables alone |
| | `OnlyHigherAlways`, `EnablesComeBack`, `HandlersNestAlways` | `IrqSpec => []OnlyHigher`, `IrqSpec => []EnablesRestored`, and with `PairsMatch` as `[]HandlersNest` |
| | `DemosTypesAlways` | `Spec => []DemosTypeOK`, `Spec` of `MC_Demos` |
| `Drivers_proofs` | `SleepsEnoughAlways` | `SleepSpec => []SleepsEnough` |
| | `ShowsTrueTimeAlways` | `MaxTicks * PerTick < TimeWord` and `TimeSpec => []ShowsTrueTime` |
| | `FilesKeptAlways` | `FileSpec => FilesKept`, the refinement of `Descriptors` but for the two named steps among it |
| | `WritesKeptAlways` | `BlocksAssumed` and `CacheSpec => WritesKept` |
| | `AlarmsOnTimeAlways` | `IntervalsAssumed` and `AlarmSpec => AlarmsOnTime` |
| | `DriversTypesAlways` | `PowersAssumed /\ Spec => []DriversTypeOK`, `Spec` of `MC_Drivers` |
| `EpcsFlash_proofs` | `ModesKeptAlways` | `FlashSpec => []ModesKept` |
| | `ContentsTrueAlways` | `FlashSpec => []ContentsTrue` |
| `I2cBus_proofs` | `BusKeptAlways`, `TransfersTrueAlways` | `PowersAssumed /\ I2cSpec => BusKept`, the same with `TransfersTrue` |
| | `EightBitBus` | `Bits = 8 /\ I2cSpec => BusKept /\ TransfersTrue /\ []I2cTypeOK` |

**Front end.** For every `InstLen`, `OpLen`, `PlsTop`, set of channels and opcodes,
every timing and every behaviour of host and reset. Assumed: opcode shorter than
instruction; no opcode is all zeros and no two classes share one
(`ptmch_trg.sv:44-50`); `PlsTop > 1`; at least five CLK160M edges from the fall
of CS to the first bit and one edge of CS high between frames. `HeldIsSent` is
not inductive: it says nothing of the bits still in the synchronisers.
`PipelineInv` supplies that: if the count has been full for k stages of its
synchroniser, the shift register has been still for k - 1 stages of its own, so
the comparison of stages 2 and 3 can only release the register itself. It holds
for any captured values as long as a full count is captured only from a full
register and a full register is captured untorn (`EdgePipeline`, `TornSound`).
`FrameInv` ties the registers to the bus: after CS falls, either the fall is at a
known stage on its way to `PTMCH_RST_N` after a known number of clocks
(`FallUnderWay`), or it has arrived and left everything clear; and once the first
bit is in, no fall is on its way (`Calm`) and the registers hold exactly the bits
sent (`ShiftReceived`). `TriggerOwnClass` is inductive relative to both: an
output rises only for the class of the held instruction (`EdgeTrigger`), and by
the time a new frame's first bit arrives all outputs are down.

**Windows.** If the host does not write at two edges running (`WriteGap >= 1`), of
two successive stages of a window's synchroniser at most one holds a torn sample
(`GenuineInv`), and the difference detect, which compares two of them, passes on
only what was written. `SettleInv` counts the stages a write has come through.

**Pulses.** Assumed (`Assumed`): `PlsTop < InstLen` (15 clocks against 32 bits),
and windows written before the frames (`LiveWrites = FALSE`; when one changes
under a held instruction the front end may answer it again, section 7). The pulse
counter is the one register that no frame clears: it may still be running for the
frame before. It gains a step for every bit of the new one (`Lag`), at most one
bit falling between two edges, and so is at its end when a full instruction is
loaded: this is where the assumption is needed. Before that, nothing matches
(`Waiting`); from there `Held` lists the places of the match, of its edge and of
the pulse, in the order in which an edge takes one to the next (`HeldRuns`), with
what the observer has counted at each. `UpStage` is the part of it where an
output can be up. `NeverTwice`, `TriggerIsCommand` and `PageContract` are read
off there. The refinement maps each step by what it changes: CS falls, a bit,
a window written, an output up or down, reset; everything between is a stutter
(`DetectorStep`).

**Time.** After the last bit every edge takes the count one stage further
(`Arrives`), and from the loading of the register on, the match and the pulse
(`Reached`): the age of the instruction is never more than five edges ahead of
the place reached (`TimeInv`), so that after `Settled` edges the pulse is over.
What was counted then is not changed by the frames that follow (`Answered`).
This is a bound, proved as a safety property, and stronger than that an answer
comes eventually.

**Counters.** For every set of classes, width, and length and spacing of pulses
the environment's bounds allow. A pulse sampled twice is under way at one of three
places of the synchroniser (`Coming`, `Arrived`, `Rising`); a counter and the
pulse under way make up the pulses there were (`Agrees`). It rests on the low
between two pulses being at least two samples (`Spaced`) and on the third
flip-flop changing only when the two before it agree (`Shaped`).

**Log.** For every set of classes, size of the log, width of the counters and
index, length and spacing of commands, and any torn page sample. Assumed
(`LogAssumed`): the page is there at least three edges before its trigger
(`PageLead >= 3`) and cleared for at least one between two (`PageGap >= 1`); the two
together are long enough for a pulse to have left the synchronisers of
`ptmch_cnt` before the next one rises (`Quiet`), so that one command at a time is
under way there (`Alone`); and no counter reaches its largest value, where it and
the index stop. `LogTrue` speaks only of a log at rest. `LogInv` follows the
command there: `Paged` takes the page through both synchronisers next to the
trigger that it races, `Buffered` says that the buffer agrees with the entry
`PADDR_CNT` points at whenever `PLS_RISE` may write it, and `Logged` that every
entry but that of the command under way already shows what it should. The page
arrives before the pulse because it was ahead by as many edges as its own
synchroniser is longer (`Fronted`); it may be gone again by the time the pulse is
seen only if the pulse was cut, which is the loss that `LogTrue` names.
Neighbouring commands have different entries, as `LogSize < IdxMod`. In the source
`PageLead` is 6 clocks of CLK160M (`PageContract`), which gives three of CLK100M.

**Polling.** Assumed besides (`PollAssumed`): fewer commands than `PADDR_CNT` has
values, or an entry could be overwritten between the two reads, and no change of
the selection. `CountThenEntry` is about two transfers with any time between
them. `PollInv` says what the count is worth while the host is being given it: its
command is in the log, or its entry is the one `PADDR_CNT` points at, and then the
buffer gets there with the next edge, which is no later than the wait state of
the next transfer. From then on it stays (`EntryStays`).

**The whole detector.** For every length of instruction and pulse, opcodes, widths
and phase of the clocks, and every master that leaves five CLK160M edges from the
fall of CS to the first bit. Assumed (`TimesAssumed`): what the log needs
(`LogAssumed`); `5 <= PlsTop < InstLen + 4` (15 and 32 here), so that a pulse is
seen three times if nothing cuts it, and has ended before the next word is
loaded; a `PageGap` that one instruction covers in time, which for 32 bits is any
up to 22 edges of CLK100M; no more frames than `PtmchReg` allows pulses; and
`FrameGap >= 10`. The front end's own invariant here (`Bus`, `Captured`,
`Windowed`) is stronger and simpler than that of `PtmchTrg_proofs`, since no bit
falls on an edge of CLK160M. A word that is loaded is at one of `PlsTop + 7` places
(`At`, `Place`), one edge apart; before that `Way` counts the edges since the
frame's reset, and `InCut` is the pulse that the next frame has cut. Time is in
`skew`, in units of 1.25 ns: an edge of CLK160M takes 5 from it, one of CLK100M
adds 8, and it stays between -5 and 8. So each place bounds the number of CLK100M
edges since the page or the pulse began (`Timed`), `8 * phaseAge >= skew + 5 * p - 3`
at place p, and that gives every guard of `PtmchReg`'s environment: three edges from
page to pulse (`RaiseStep`), three on a pulse of full length (`FullLength`),
`PageGap` from one page to the next (`LoadStep`). Each step then is one of
`PtmchReg` (`TopStepReg`), and `RegInv`, proved there, holds here too: the proof
of the log is used, not repeated. The tally (`Tallied`) counts from the bus: a
command watched is in `seen`, on its way (`Open`), or was followed too soon
(`hurried`); `FrameGap` clocks take a pulse past its second sample before the next
frame can cut it (the last clause of `Timed`). TLC agrees that `TopInv` holds in
the instance of `top_frames`.

**UART.** For every size of the rings and FIFOs, every length of a read or write, and
every interleaving of the thread, the interrupt routine, the host and the alarm.
What the thread measured before it was interrupted is stale when it uses it, but
only to the safe side (`Reserved`): the routine takes bytes out of a ring whose
room the thread has measured, and adds to one whose bytes it has. `CallState` says
where the call is and what it has done so far; `ReceiveNotStuck` and `TransmitArmed`
that an enable is off only where somebody is due to set it. For the refinements
each ring is read as a sequence (`Ring`), with lemmas for what a byte added or a
run of bytes taken makes of it, also across the end of the array (`RingAdd`,
`RingDrop`, `RingWraps`); then each step of the driver is one of the channel or
leaves it alone.

**ADC.** For every number of channels, and `AdcSleepTicks` other than zero - with
no sleep at all the done flag of the call before would end the new one, and the
theorems do not hold. `LabelsTrue` alone knows nothing of the call in progress.
`AdcInv` follows it: for each place of the driver a conjunct (`Resting`, `Asking`,
`Waiting`, `Slow`, `Ending`) says how far the controller is, what channel it was
told and which one it will answer with - above all that the start is accepted
before the done flag is looked at (`Accepted`), so that a call about to return
has seen the end of its own frame (`After`); `Caller` ties the call to the place
of the demonstration, also when that was left in the middle and entered again.

**Menu.** For any set of keys and any entries. A press is kept because the routine
sets the flag before it clears the edges (`FlagFirst`), the interrupt is armed
whenever a monitor runs (`Armed`), and a press counts only while one does
(`Monitored`), when nothing resets the flag.

**SPI.** For every command and every speed of core and driver. The driver has a
credit to send only when all three registers of the core are empty (`Credit`), so
that there is one byte under way at most (`OneByte`) and none that could be
received over one unread. `SpiFlow` adds what the bytes are: what is on the wire
is a beginning of what was asked for, the answers taken are those to its first bytes, and
the counters of the driver are the rest of each. `AtRest` says that between calls nothing
is under way, `Fresh` that the status word the driver acts on, read a step ago,
still holds.

**Interrupts.** For every number of interrupts and depth of nesting. `TableInv`
says that an entry in the making is not enabled, and a running handler was called
with the entry it has. `NestInv` relates the mask to the stack: it is the one the
innermost interruptible handler made (`Masks`), the running handlers are in
falling order of number (`Ordered`), and what each saved is what was there before
it, so that popping restores it.

**LED.** For every number of steps and hold time. The accumulator holds exactly the
light that is owed (`LedInv`), so that none is lost or added over any time; and the
registered brightness is that of the counter one clock ago, so that two neighbours
differ by one step (`BrightMoves`), also where it turns.

**Sleep.** For every argument, width of a word and speed. `SleepInv` says that what
has been slept is paid for in turns, and that the big loops still to do leave less
than one of them. So the product of the last loop fits an integer (`SleepSizes`)
and cannot turn negative.

**Time of day.** For every tick rate and every time set. Assumed: the ticks times the
microseconds of each fit a word, which is 71 minutes (section 6); past that
`settimeofday` loses what the product drops. `TimeInv`: the offset of tick 0 agrees
with what was asked for, unless a settimeofday has read the counter and not yet
stored. The two functions split ticks into seconds and microseconds in
different ways; `TicksSplit` says that both give the same, `CarriedTrue` that the
carry loses nothing and leaves less than a second.

**Flash modes.** For every geometry and kind of device, every sequence of calls, and
any number of resets. `ModesInv` is about the commands a function has left: counted
from its end, each place has the commands it may hold (`LongWrite`, `LongRead`,
`ShortWrite`, `ShortRead`) and the mode the device is in when they are all that is
left (`OnScript`). That is what a count from the end gives: the functions begin
differently but end alike, and a reset that leaves the device in four-byte mode or
with its latch set is met by the next function at its beginning, where the
mode is not asked for.

**Flash contents.** For every geometry and kind of device, all contents, every sequence
of calls that `FlashRequest` allows and any number of resets. `FlashInv` looks at the
flash as it will be: `Outcome(m, g)` is what it will hold and what the call will have
read once the commands still left are carried out. One command of a function does its
work, and carried out again it changes nothing (`WorkOnce`), so a command keeps the
outcome (`CommandOutcome`) and only the steps of the driver between two functions
have to be looked at. `Stage` says what the outcome must be at each place of the
driver: compared up to here, filled up to here, programmed up to here. `Untouched`
holds at any moment, in the middle of a function as well, and is what a reset leaves:
no sector outside the call has changed. `Carries` says that the pages and bytes still to
be written are those of the call, in order; a page is cut at the device's page
boundary (`PageTaken`), which is why the wrap inside a page, which the device does
make, loses nothing. The proof cites `ModesInv`: a command is carried out only by a
ready device in the right mode. For the program of `FLASH_Verify`, `Verifying` and
`Reached` say which blocks the pass under way has erased or written
(`VerifyMoves`, `VerifyReaches`).

**File descriptors.** For any number of descriptors, any devices, file systems, names
and drivers, and whatever the drivers report. Of the parts of `FilesKept`, `NoLeak`
and `AccessRespected` are not inductive. `FileInv` adds that only the descriptor of a
device is ever held exclusively; that a device's descriptor, one that open has
returned, and the standard ones once any has a device, are at or below the
high-water mark, where `alt_file_locked` finds them; that before `main` nothing is
held; and that the mode in the table is the one the last open asked for, until
the entry is released. Each step is then one of `Descriptors`, or one of the two
named steps that the documentation does not have (section 6). `OnlyTopShares` is
the bound on the first: where `alt_fd_lock` finds no other descriptor of the device,
at most the one at the mark shares it. So a lock that the documentation refuses is
granted for that one alone, and every other step, of any pool, is as documented: a
device that is held is not opened again, and `close` of all but the standard
descriptors gives it back.

**Data cache.** For any length and number of lines, any memory, any regions and any
words of the interrupt routines, with and without `flushda`; assumed is
`BlocksAssumed` (section 6). `WordSound` says where the last value of a word is: in
memory and not in the cache if the word is remapped; in the line if the cache has
it, and then also in memory unless the line is dirty; else in memory. Nothing is
lost while every word is sound; a place written back leaves all its words in memory
(`WrittenBackTrue`), and a discard asks for all the words of the line it drops
(`DiscardSound`), because its region starts on a line. That a flush reaches memory needs
what the loop has done so far: `Flushed` collects the lines from the first to
the next one, or all lines of their places when the flush goes by place, and
`FlushInv` says that their words are in memory, except those the interrupt routines
write, and that those of a block to be remapped are out of the cache. At the end the
collected lines are all that was asked for (`Covered`): the extra line of a region
that starts inside one makes up for the line the loop's end misses, and a length
trimmed to the cache's meets every place (`Residues`).

**Alarms.** For any number of alarms, any length of the counter, and any callbacks,
whatever they start, stop and ask for next. Assumed: a callback does not stop the
alarm whose turn is next, which is in the model's `Allowed`, and nobody asks for the
interval of a whole turn of the counter (`IntervalsAssumed`); both are in section 6.
`CallbackOnTime` says nothing of the list or of the rollover flags. `AlarmInv` says
that the links are a ring of the running alarms and the head, each once (`Ring`,
stated for a sequence of any length), that the walk of `alt_tick` is somewhere in
it, and that only what lies ahead of it (`From`) has not been looked at in this
tick. `InsertRing` and `RemoveRing` show that the pointer assignments of
`alt_llist.h` keep such a ring, and `FromInsert` and `FromRemove` that the walk
meets the same alarms as before. The time of an alarm is right in one of two
ways: `Settled` before the tick reaches it and after it has been passed, and
`Pending` in between, when the counter has moved and the flag has not; since an
alarm is never due a whole turn later, `Expired` then holds at the tick it is due
and at no other (`PendingExpires`), also where counter and time have wrapped apart.

**Three-wire SPI.** For every depth of the FIFOs, every length of a sample up to that
and to the six bits of the controller's count, and every sleep of a bit clock or
more. `WireInv`, which holds while the polls outlast every command, follows one
call through the controller. `WireHandshake`: the start flag is up from `Go` to
`Halt`, exactly one edge is seen in between, and from then until the polls end the
state machine is in this call's command; the sleep is what rules out that the first
poll finds the done flag of the command before. `WireCommand`: what the
controller was given, and in the data phase how address, bytes sent and bytes left
belong together. `WireAnswered`: once the first write of the set-up has ended the
noise, the receive FIFO holds what the sensor has sent to this call and nothing
else. `WireSettings` and `SentTrue` relate that to the sensor: a write that is done is
in its register, the data-ready flag means that a sample has been taken, and the
bytes of X, Y and Z are of one sample because none is taken during a read.

**I2C bus.** For every address, length and data, all contents, any transfers and
verifications, and a device that refuses any byte it likes. `BusKept` speaks of edges and
`TransfersTrue` of calls that have returned; neither says anything of the middle of a call.
`I2cInv` does, line by line: `Between(k)` before function k of a call, with what the
device must then expect (`Device`) and what has been read (`GotBy`), and `InStart`, `InStop`,
`InWrite`, `InRead` at the lines of the four functions. Inside a byte the device has taken
as many bits as the loop has had turns, and they are the leading ones of the byte
(`Shifted`, `Sent`; `Prefix` is a division by a power of two), so that after the last it has
the byte. SDA is out of the master's hands, or low, or the device's to move, exactly where
those lines say, and so moves under a high clock only in a start or stop. After a refusal
the device waits for a start and what it was given is dropped, so that a failed read or
single write has changed nothing. The device stores a page at the stop, and until then
`Written` says what the page in its buffer will be. The contents at the start of a step of
`i2c_data_verify` are `Base`: those found, or with the test byte in the cell. The provers
lack the arithmetic of powers: `PowersAssumed` says that each power of two up to `2^Bits` is
positive and doubles. It holds for all bytes; `EightBits` proves it for those of the source,
so `EightBitBus` assumes nothing.

**Types of the composed runs.** `DemosTypeOK` and `DriversTypeOK` speak of the steps of
`MC_Demos` and `MC_Drivers`, in which one component moves and the others stand still, so
each component is proved by itself. Most types follow from the inductive invariants above.
What these leave open is bounded apart: `WireKinds` the three-wire controller, whose
polls `WireInv` presumes to be patient; `LoopTyped` and `GotTyped` the flash driver's
place in its loops and the bytes it has read; `TimeBounds` the clock, whose offset may
be negative but at no tick gives a time before 0; `FlushBounds` a flush, which runs at
most one line past its region.

**Only model-checked:** liveness, that is `InstructionArrives`, `BytesArrive`,
`CallsReturn` and `DemosLive`, which needs ENABLED and is out of the prover's reach.
Every other property of a passing run is stated by a theorem as well.

## 5. How the parts of the detector fit

`PtmchReg` takes the front end as environment: one trigger at a time,
`PAGE_ADDR` stable at least `PageLead` edges before the trigger rises and until
it falls or the next frame cuts it, at least `PageGap` edges of cleared page and
two edges of low trigger between instructions. `NeverTwice` and `PageContract`
say the same of the front end in CLK160M clocks. `ImplementsReg` in `top_frames`
joins the two, for one instance, and `TopImplementsReg` for all: every behaviour of
the real front end on the real schedule of the clocks is one `PtmchReg` allows,
with `phase`, `held` and `want` computed from what the front end does
(`FrontMoves`). `LogTrue` allows exactly one loss: the page of a
command whose pulse was cut to two CLK100M samples may be logged as zero.
`FramesCounted` says it from the bus to the counters: a command whose successor
leaves `FrameGap` clocks is counted, none is counted twice, and nothing else is.

## 6. Findings and observations

Three runs show a disagreement between the code and its own words:

* `ptmch_cnt.sv:199-200`: the block-erase counter is commented `// STOP` at its
  largest value like its siblings, but loads the read-status counter there.
  Run `cnt_stop` shows it. `CountsPulses` and `CountsInStep` are stated for this
  counter until it reaches that value, and for its siblings beyond it.
* `alt_fd_lock.c:61`: exclusive access is documented to be granted "if there are no
  other open file descriptors which reference the same device" (line 43). The
  search ends at `i < alt_max_fd`, but `alt_max_fd` is the highest index in use
  (`alt_get_fd.c` sets it so, and `alt_file_locked` searches with `<=`), so the
  highest descriptor is not looked at. Run `fd_lock`: the first descriptor that
  open returns after startup is 3, the mark; a standard descriptor of the same
  device is then granted exclusive access although 3 is open. In `FilesKept` the step is
  `LockPastTop`.
* `alt_release_fd.c:46`: close is documented to release the lock (`alt_fd_lock.c:47`,
  `alt_file.h:99`). For the standard descriptors `alt_release_fd` does nothing, and
  the flag stays: run `fd_close`. In `FilesKept` the step is `CloseKeepsLock`.

Reading the code for the models showed more. No run shows them; the models
exclude each by a named assumption, or their properties do not depend on it.
Paths are below `src/software`.

* `alt_tick.c:102` keeps the address of the next alarm across a callback, whose
  description (`alt_alarm.h`) allows `alt_alarm_stop`; a stopped element points
  to itself (`alt_llist.h:115`), and the walk does not end.
* `alt_alarm_start.c:89`: the strict comparison misses the one interval
  (2^32 - 1 ticks) that leads back to the present count (`IntervalsAssumed`).
* `alt_settod.c:84`: microseconds as a product in a word overflow after 71
  minutes; `alt_gettod.c:93` computes them another way.
* `alt_dcache_flush_no_writeback.c:82`: the extra line that an unaligned region
  may need is invalidated also when the region does not reach it.
* `alt_uncached_malloc.c:50`: the block need not fill its lines; the write back
  of a neighbour's line puts old data over it. `BlocksAssumed` says that the
  `CacheBlocks` fill theirs; TLC evaluates it for the instance.
* `alt_busy_sleep.c:107`: the last loop tests after its decrement; for an
  argument that leaves zero turns (65,075,262 at 100 MHz) it makes 2^32.
* `altera_avalon_epcs_flash_controller.c:267, 315`: a write past the last block
  stops silently there.
* the same file, `:95`: after a reset in four-byte mode a device that is
  identified by RES may answer otherwise; `:177` tests the result after its use.
* `alt_legacy_irq.h:94`: `alt_irq_enable` and `alt_irq_disable` write
  `alt_irq_active` to the mask register without `alt_priority_mask`; called while an
  interruptible handler runs they let less urgent interrupts in.
* `terasic_spi.c:38`: clearing the start flag does not stop the controller
  (`SPI_3WIRE.v:150` looks at its rising edge only).
* `main.c:149`: the result of `scanf` is ignored; after a letter every pass adds
  one to the selection until it names a demonstration nobody chose.
* `altera_avalon_jtag_uart_write.c:214`: a write of length 0 takes the error
  return on a connected host.

## 7. Limits

* SPI_CLK edges count whether or not CS is low (`ptmch_trg.sv:434`); the model's
  master clocks bits only with CS low.
* A host that rewrites a window while an instruction is held can make the match
  fall a second time: `NeverTwice` and `TriggerIsCommand` are checked with the
  windows written beforehand, `TriggerOwnClass` for any rewriting.
* `ptmch_trg.sv:282` and its siblings reset the *high* bounds to zero as well,
  for the few clocks until the register's value arrives; `WindowsGenuine` admits
  that zero.
* The host selects between commands only (`MaySelect`). A selection while a
  command is in the synchroniser makes PADDR_CNT jump under it, and nothing says
  what the log should show then.
* In `PtmchTop` the edges of SPI_CLK do not coincide with those of CLK160M
  (`PtmchTrg` has those), RESET_N is low only at the start, the windows keep
  their reset values and the host port is idle (`PtmchReg` has its transfers).
* Metastability beyond one stage, and the recovery time of the asynchronous
  clears, are not modelled.
* The registers' bit positions, the delays of the I2C library, the format of
  what is printed and the scaling of samples are abstracted.
* Further hazards beyond those listed, covered by the properties named: a short
  frame and a frame too close to the last (`FrameInv`); a pulse counter that
  starts at 1 (`PulseInTime`); fcntl on the word that holds the access mode
  (`AccessRespected`); two stores of an interrupt table entry (`PairsMatch`).

## 8. Not modelled

* `dyn_phase`: not instantiated by `de0_nano_system.qsys`, and
  `dyn_phase_stm.sv:90` is not legal SystemVerilog (three statements between an
  `if` and its `else` without `begin`), so no behaviour can be attributed to it.
* `de0_nano_top`: wiring. `de0_nano_system/ip`, `db`, `synthesis`: earlier and
  generated copies, but for the three-wire and ADC controllers, which the
  demonstrations drive.
* Qsys interconnect, PLL, Nios II: generated or vendor code; they appear as
  clocks, as the Avalon master and as the processor.
* Formatted output, logging and profiling (`alt_printf.c`, `alt_log_printf.c`,
  `alt_gmon.c`): no state anything else reads.
* Start-up, loader, heap pointer, ENOSYS stubs, timestamp timer, DMA: straight-line
  or unused code. `ADXL345_SPI_WaitDataReady`: nobody calls it.
* `system.h` and the other headers of constants and register macros.
* `src/de0_nano_system/software`: byte for byte the tree that is modelled.

Measured over C files and headers the map reaches a tenth of the lines: half of
them are the second copy, and most of the rest are the headers, logging and
stubs named here. The SystemVerilog sources of the detector, the heart of the
repository, are mapped but are no C.

## 9. Plan

1. *Done:* `PtmchBits`, `PtmchTrg`, `InstDetect`, `PtmchTrgObserved`; proofs of
   type correctness, `HeldIsSent`, `TriggerOwnClass`.
2. *Done:* `PtmchCnt`, `PtmchReg`, and their composition with the front end,
   `PtmchTop`, with end-to-end properties.
3. *Done:* the JTAG UART with its two channels and liveness; the services of the
   board support package; the demonstrations with their controllers; `Ledpwm`.
4. *Done:* proofs for `AdcRead`, `DemoMenu`, `SpiCommand`, `ThreeWire`, `Ledpwm` and `IrqDispatch`;
   for the front end's windows, its pulses and the time of its answer; that
   `PtmchTrgObserved` implements `InstDetect`; for `PtmchCnt`; for the log of
   `PtmchReg` and the host that polls it; that `PtmchTop` implements `PtmchReg` and
   counts and logs every command; that `JtagUart` implements `ByteChannel` in both
   directions; for `BusySleep`, `TimeOfDay`, `FileTable`, `DataCache`, `AltAlarm` and the
   modes and contents of `EpcsFlash`, and for `I2cBus`.
5. Left: a UART application that reads and writes in turn; a change of selection
   during a count, once it is decided what the log should show.
