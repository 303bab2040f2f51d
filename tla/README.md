# Verification of the IWRL6432BOOST range processing firmware

TLA+ models, TLC runs and TLAPS proofs for the firmware in
`minimal_rangeproc_impl/` (C, FreeRTOS, TI mmWave SDK) and for the plotter in
`scripts/`. The firmware configures a radar front end, lets the hardware
accelerator (HWA) compute the range FFT of every chirp into a *radar cube* in
L3 memory, and writes one row of it per frame to a serial line; the plotter
reads that line on a host.

## 1. Inventory

| component | code | state | operations | what must be right |
|---|---|---|---|---|
| boot sequence | `main.c` `freertos_main`, `mmwave_basic.c` | handles in `gSysContext`, life cycle of the mmWave control module | init, HWA open, DPU init, channel configuration, RF power, trim check, open, config, calibration, start | a step runs only on what the earlier ones produced |
| sensor configuration | `mmwave_control_config.c`, `defines.h` | `channelCfg`, `profileComCfg`, `profileTimeCfg`, `frameCfg`, ADC buffer registers | populate channel / profile / chirp / frame / ADC buffer | values are filled before they are read; channels do not overlap |
| factory calibration | `factory_cal.c` | `calibData`, `fecTxclpcCalCmd` | read flash, check magic word, apply | only valid data, for the configured frequency and antennas |
| task structure | `main.c`, `rangeproc_dpc.c`, `uart_transmit.c` | 3 tasks, 4 binary semaphores | create, post, pend | no lost post, no deadlock |
| signal processing chain | `rangeproc_dpc.c` | DPU, radar cube, interrupt counters | reset, config, register interrupts, trigger, process, re-trigger | a cube holds one whole frame and stands still while it is sent |
| serial transmission | `uart_transmit.c` | loop index, cube pointer, bytes on the line | header, one word per range bin, footer | every bin once, in order, from one capture |
| memory pools | `mem_pool.c`, `mem_pool.h` | `currAddr`, `maxCurrAddr` | reset, set, get, alloc, max usage | blocks in the pool, disjoint, aligned |
| DPU configuration arithmetic | `rangeproc_dpc.c:172-346` | `rangeProcDpuCfg` | compute sizes and offsets | sizes agree with each other and with the pools |
| resource table | `include/dpu_res.h` | constants | none | no EDMA channel used twice (constants only: not modelled) |
| sensor stop (dead code) | `mmwave_basic.c:217-255` | control module | stop, close, deinit (never called) | order of the life cycle |
| plotter thread | `scripts/uart_range_plotter.py` | `latest_frame`, position in the byte stream | scan, header, payload, footer, time-out | shows whole frames only, finds back into step |
| plot window | same | lines of the plot | `update` every 5 ms | copies under the lock |
| configuration converter | `scripts/chirp_config_to_defines.py` | parsed commands, `defines.h` on disk | parse, choose output, ask, write, print | the values of the file reach the firmware; no header half written or replaced unasked |

How they interact. `main` creates `freertos_main` (priority 1). It runs the boot
sequence, creates the *dpc* task (priority 5) and waits for
`dpcCfgDoneSemHandle`; the dpc task configures the DPU, posts it, registers
three interrupt handlers and arms the DPU. The main task then creates the
*uart* task (priority 10), starts the front end and waits for ever. From then on
the dpc and the uart task alternate: `DPU_RangeProcHWA_process` returns when the
cube is full, the dpc task posts `uart_tx_start_sem`, the uart task sends and
posts `uart_tx_done_sem`, the dpc task arms the DPU again. The cube is shared
memory between the HWA (writer, through EDMA) and the uart task (reader). The
interrupt handlers write the two counters and nothing else. The plotter knows
the firmware only through the bytes.

Before all of this the converter turns a configuration file into `defines.h`,
which is compiled into the firmware: `RangeProc_config` derives every size,
buffer and offset of the DPU from it, and the plotter's `DATA_LENGTH` has to be
kept equal by hand.

Hard behaviours: the order of the start of the sensor against the arming of the
DPU, which only priorities decide; the sharing of the cube; frames that arrive
while a packet is being written; a configuration that is broken, rounded
differently in two places, or too large for the memory; failing UART writes and failing SDK calls; loss
of synchronisation on the serial line. `PROJECT.json` lists each under `hazards`
at its line, with the properties that would catch it or the reason why none does.

## 2. Plan

Done:

1. `FrameStream` (abstract), `RadarPipeline` (core), `RadarPipelineProofs`.
2. `Boot` (boot sequence, sensor configuration, factory calibration).
3. `SerialLink` (bytes from the firmware to the plotter).
4. `MemPool`, `MemPoolProofs`.
5. `ConfigTool` (the converter), `RangeConfig` (`RangeProc_config`, two instances
   of `MemPool`), `Configuration` (both and the build between them),
   `ConfigurationProofs`.
6. `BootProofs`.
7. `RadarPriorityProofs`, `FirmwareProofs`, `SerialLinkProofs`, with
   `RemainderLemmas`: every invariant that a passing run checks is now a theorem.

Next:

8. Composition of `Boot` with the tasks: `Boot` and `RadarPipeline` meet in the
   creation of the dpc task and the start of the sensor.

## 3. Modules

An operator named `X_Something` is `X` with a plausible mistake. No
specification uses it: it documents which mistakes the properties tell from
the code. `PROJECT.json` (`map`) gives the source lines of every definition.

### FrameStream
What a listener on the serial line may rely on: a buffer of one place.
`Capture` fills it with a capture newer than all earlier ones, `Deliver` empties
it into a packet that holds nothing but this capture. Captures may be skipped,
never repeated, reordered or mixed.

### RadarPipeline
One action per statement of the three tasks that others can see (`MainXxx`,
`DpcXxx`, `UartXxx`), plus `FrameStart` and `Chirp` for the front end with the
interrupt handlers they trigger.

* `pc` is the position of each task, `sem` the binary semaphores (a post of a
  given semaphore leaves it given). `Blocked` says when a task waits;
  `CanRun` is FreeRTOS: with `Preemptive` only the ready task of highest
  priority runs; without, any ready task does, which covers every other
  choice of priorities as well.
* `dpu`, `slot`, `cube`, `captured` are the HWA: once armed it takes the next
  `ChirpsPerFrame` chirps, whichever they are; `cube[s]` remembers the frame
  of the chirp in slot `s`. A cell of the cube belongs to the frame of the
  first chirp of its row (one row per `numTxAntennas` chirps).
* `pkt` is the packet being written, word by word with the cell it was read
  from and its stamp; `packet` the last one that was completed.
* Every call with an error path chooses its outcome among those `Faults` allows:
  the window allocation (early return of `RangeProc_config`), the DPU
  configuration, an unknown MIMO mode (`exit`), an interrupt registration, the
  trigger, `process`, each `UART_write` (logged only), the start of the
  sensor. `DebugP_assert(0)` stops everything (`halted`).

Two abstractions of time. With `~Overrun` a frame after the first begins only
when the DPU is armed: this is what a frame period of 250 ms against about 23 ms
of UART time gives, and nothing in the code checks it. With `Overrun` frames
come at any moment. The FFT itself, the sample values and the layout of the
samples are not modelled.

### Boot
One action per call of `freertos_main`. Antenna masks are sets of channels,
`ctrl` is the life cycle of the SDK's control module, `adc` the registers that
`Mmwave_ADCBufConfig` writes (offsets in units of 16 bytes, 16 bits wide).
`MmwaveConfigSensor` is the whole of `mmwave_configSensor`: the ADC buffer is
laid out from the profile *as it is before* the profile is populated, which is
the order of the code; a profile or chirp that cannot be added ends the
population quietly. `RestoreFactoryCal` reads flash, checks the magic word and
applies; its caller only logs a failure.

### SerialLink
Bytes with their value and, as history, their position in the packet and the number
of bytes lost before them (`gone`); `headerGone` is that number for the header the
plotter found, -1 if what it took for a header lies inside a payload. Only
properties read the history. A payload byte is any of `PayloadBytes`, by its place
modulo 4: the samples are sent unescaped, so a payload may hold whole markers. The
line may lose `MaxLoss` bytes; a failed `UART_write` (4 bytes) looks the same to the
host.
`HostScan` .. `HostFooter` are the reads of `read_frame`; `HostTimeout` is a read
that returns short, possible only between two packets and only with
`LongPauses`. `tx` starts anywhere with `AnyStart`: the plotter may be started at
any time. The firmware's `payloadLen` is one of `PayloadLens`, which the plotter
(`DataLen`) may or may not be made for.

### MemPool
The five operations of `mem_pool.c` with wrapping addresses; `blocks` is a ghost
with what was handed out and not given up since. `Get` and `Set` are static and
currently unused in the firmware, which allocates one window and one cube
(`RangeConfig`).

### ConfigTool
One call of `chirp_config_to_defines.py`. An input file is a sequence of lines, a
line a command with its values and whether their number is right; `headers` is
what `defines.h` holds in `include/`, in another place, and in the working
directory. `ParseCfgLine` handles one line of a `.cfg` file; `ParseJson` a whole
`.json` file, of which `json.load` keeps the last of repeated keys before anything
is checked. `ChooseOutput` and `AskOverwrite` are the choice of the output path with
its fallback, `GenerateDefinesFile` builds the text first and opens the file then,
`PrintBasicConfigInfo` may still fail over a value that is no number, or by a division. `tpc` tells exit 0, exit 1 and
a traceback apart.

### RangeConfig
`RangeProc_config` from the reset of the pools to `DPU_RangeProcHWA_config`, in the
order of the code: sizes, MIMO mode (`exit` for an unknown one), window (early
return), ADC buffer, cube (no check). `defines` is the header the
firmware was built with. The two pools are instances of `MemPool`. A division by
an empty TX mask yields 0 (`SetSizes`) or traps (`DivisionTrap`), as the processor
is set up. Constant settings (data formats, FFT tuning, EDMA channels) are left out.

### Configuration, MCConfiguration, MCSerialLink
`Configuration` runs the converter, builds the firmware with the header in
`include/` (one written by hand if the converter does not run), and configures the
DPU. A header that is missing or cut short does not compile. `MCConfiguration`
gives the input files and headers, `MCSerialLink` the payloads. `CommandValues` collects what a file or a header
may give a command; `AddressAssumption` says with it that no window and no cube
of such values reaches `AddrMod`, the width of an address.

### Proof modules
`RadarPipelineProofs`, `RadarPriorityProofs` (extends it; assumes the priorities),
`BootProofs`, `MemPoolProofs`, `SerialLinkProofs`, `ConfigurationProofs` (converter and
ADC buffer), `FirmwareProofs` (extends it; header, sizes, memory), and
`RemainderLemmas`, the arithmetic of `%` and `\div` that four of them need.

## 4. Runs

| run | asks | bounds and why they suffice |
|---|---|---|
| `pipe_priority` | with the priorities of `main.c`: is every frame captured whole, counted and delivered? (`SensorStartsArmed`, `InterruptsCounted`, `WholeFrameCaptured`, `PacketHasEveryBin`, `EveryFrameDelivered`) | 6 frames of 8 chirps; `CounterMod = 5`, so both counters wrap; `Bins = IndexMod`, the largest number of bins the 8-bit index can hold |
| `pipe_free` | with any scheduling, any failure, frames at any time: does the handshake still protect the cube? (`TypeOK`, `NoLostPost`, `CubeFrozenWhileSent`, `PacketIsOneSnapshot`, `SendsTheConfiguredCube`, `ImplementsFrameStream`) | 3 frames of 4 chirps: a capture, one that overlaps the sending of the first, one more after it; the theorems below cover all sizes |
| `pipe_live` | does every complete evaluation lead to a finished packet, and that to a DPU armed again? (`EveryCaptureLeaves`) | the same sizes, failing UART writes, overrun |
| `doc_cell` | do the words come from the cell the comments name? No: `SendsDocumentedCell` is violated | one frame |
| `boot` | is the base complete whatever fails, and does the calibration fit? (`TypeOK`, `DpcBase`, `CalibrationFitsProfile`) | all fault combinations, all TX masks, three RX masks |
| `boot_uncalibrated` | is calibration always restored? No: `StartsCalibrated` is violated | one flash error |
| `boot_adc` | do the channels have separate room in the ADC buffer? No: `AdcChannelsDisjoint` is violated | the shipped masks and sample count, no failure |
| `mempool` | blocks in the pool, disjoint, aligned; usage figure right (`TypeOK`, `BlocksInPool`, `BlocksDisjoint`, `BlocksAligned`, `UsageCoversBlocks`, `HighWaterMark`) | 11 bytes from an unaligned address, sizes 2..4, alignments 1 and 4: padding, an exact fit and a refusal all occur |
| `link_safe` | never a mixed or shifted frame; no frame of a firmware with another number of bins; out of step only by a loss; back in step after pauses (`TypeOK`, `FramesAreWhole`, `MismatchShowsNothing`, `StaysInStep`, `RecoversInPauses`) | the plotter expects 4 bytes of payload and gets 2, 4, 6 or 8, of which each may be a byte of a marker and four together a whole header (`MarkerPayload`); up to 4 lost bytes, as many as one failed `UART_write`; host up to 4 bytes behind, as many as one read asks for |
| `link_fast` | does the plotter keep reading without long pauses? No: `KeepsReading` is violated | no loss, start in mid-packet, payload bytes of no marker but `AA` (`PlainPayload`) |
| `config` | from the file to the DPU: are headers whole and kept, do the values arrive, do sizes, offsets and blocks agree? (`TypeOK`, `HeadersComplete`, `OverwritesOnlyWhenAllowed`, `FirmwareRunsTheFile`, `RxChannelsApart`, `CubeNullOnlyWhenTooBig`, `UartReadsInCube`, `PlotterNeverMixesPackets`) | files: complete, one command missing or none, one line added (unknown, repeated, malformed, with a value of zero or one that is no number) in three places, `.cfg` and `.json`, and another extension; hand-written headers: nine sample counts (powers of two or not, multiples of 8 or not, one whose window does not fit), three RX and TX masks, six chirp counts (208: an exact fit of the L3 pool; 1: fewer than TX antennas); the pools have their real sizes, the core pool an unaligned address; no address reaches `AddrMod` |
| `range_bins` | are there half as many bins as the FFT has points? No: `BinsAreHalfTheFft` is violated | 100 and 128 samples |

The properties of `link_safe` are about a plotter that found a header of the
firmware. One that starts in mid-packet may take four bytes of a payload for a
header, and the format has neither an escape nor a checksum to tell; what it then
shows is unconstrained. `StaysInStep` says that this does not happen to a plotter
in step, whatever the payloads hold. The bound of `FramesAreWhole` is exact: after
the loss of seven bytes between the markers, the `DD` of the next header lies where
that of the footer should be, and the two halves make a frame.

`MismatchShowsNothing` allows for one case: when the plotter's length, with what was
lost, exceeds the payload by a multiple of the packet length, the footer of this or a
later packet comes exactly where the plotter looks for it. Without losses and with
`DATA_LENGTH = 64` this is so for 1 and 4 range bins and for no other power of two;
`PlotterNeverMixesPackets` states it for the bin counts that `RangeProc_config`
computes. It also fails for 31 bins, which would be the result of 62 samples without
the rounding to a power of two. Like every property of the marker alone, it leaves
out a footer that the samples of a payload happen to spell.

Deadlock checking is off everywhere: the front end stops after `NumFrames`, a
halted processor, a finished boot sequence, a configured DPU and a tool that
ended without a header to build with take no step, and the line model
may fill up while the host waits in a scan.

### Fairness
`pipe_priority`, `pipe_live`: weak fairness of each task, of `FrameStart` and of
`Chirp`. A continuously enabled task is the one the scheduler runs (with
priorities the enabled task *is* the highest ready one); the front end emits by
itself in hardware. `pipe_live` lets any ready task run, and fairness of each
is what FreeRTOS gives as the dpc and the uart task block in each round.
`link_safe`, `link_fast`: weak fairness of sending, of the next packet and of the
reads of the host; none for losing bytes.

## 5. What the runs found

1. `uart_transmit.c:89`: the address multiplies the indices with each other, so
   `chirp_index = 1` has no effect and row 0 is sent (`doc_cell`). The comments in
   lines 81-85 describe `Cube[chirp][antenna][range]`.
2. `main.c:188`: a failed calibration is only logged, while README.md:31 says that
   calibration data is always restored (`boot_uncalibrated`).
3. `mmwave_control_config.c:372`: the ADC buffer is laid out with
   `h_NumOfAdcSamples` before line 386 sets it; the value is still zero and all
   receive channels get offset 0 (`boot_adc`). Whether the front end's own
   configuration overrides these registers later is not visible in the code.
4. `uart_range_plotter.py:42-46`: after a false `AA` (the last byte of a footer, for
   one that starts in mid-packet) the next three bytes are dropped, which are
   `AA BB CC` of the next header; the plotter stays out of step for as long as no
   pause exceeds the 1 s time-out (`link_fast`).
5. `rangeproc_dpc.c:191`: the number of range bins is half of the number of
   samples *rounded up to a power of two*, the size of the FFT (line 244) is the
   number of samples itself; the comment in line 190 calls the one half of the
   other. 100 samples give 64 bins of an FFT of size 100 (`range_bins`); the
   converter prints 50 (`chirp_config_to_defines.py:44`). Equal for powers of two.

Also noted: the help text of the converter offers "output header file or
directory", but a bare file name after `-o` is ignored: its directory part is
empty, the tool falls back to `defines.h` in the working directory and, unlike on
the requested path, overwrites without asking (`Fallback` in
`OverwritesOnlyWhenAllowed`). A slope or a ramp time of 0, or one that is no number,
makes it end with a traceback after the header is written; `FirmwareRunsTheFile`
covers what is built then. `RxChannelsApart` says when one chirp fits the memory it
was given: line 230 of `rangeproc_dpc.c` declares room for ping and pong without the
rounding of line 248, so that the channels of a chirp end beyond their half whenever
the number of samples is no multiple of 8 and there are two receive antennas or more
(100 samples of 3 antennas: 616 bytes in a half of 600). A frame of fewer chirps than TX antennas yields an empty cube
with a pointer that is not NULL (`rangeproc_dpc.c:195`), from which the uart task
would send; `UartReadsInCube` excludes it by its precondition.

The comment in `main.c` (line 234) says that the main task has the
highest priority; it has the lowest, and `SensorStartsArmed` depends on it: the
property fails when the priority is raised (`Priority_MainHighest`).
The interrupt numbers passed to `HwiP_enableInt` and `HwiP_clearInt` lack the
offset 16 of `HwiP_construct`; the model takes a constructed handler as enabled.

## 6. Proofs

Each theorem holds for every value of the constants that satisfies the named
assumptions of its module; the runs show the same property on a small instance.
Where a theorem needs more, the table says what, as a hypothesis of the theorem.

| theorem | property | further hypothesis |
|---|---|---|
| `RadarPipelineProofs` | | |
| `TypeInvariant` | `TypeOK` | |
| `NoPostIsLost` | `NoLostPost` | |
| `CubeStandsStill` | `CubeFrozenWhileSent` | |
| `OneSnapshotPerPacket` | `PacketIsOneSnapshot` | |
| `RefinesFrameStream` | `ImplementsFrameStream` | |
| `CubeSentIsConfigured` | `SendsTheConfiguredCube` | |
| `PacketsAreComplete` | `PacketHasEveryBin` | `Bins <= IndexMod` |
| `RadarPriorityProofs` | | |
| `SensorStartsLast` | `SensorStartsArmed` | `Preemptive` |
| `CountersAgree` | `InterruptsCounted` | `Preemptive` |
| `FramesCapturedWhole` | `WholeFrameCaptured` | `Preemptive`, `~Overrun` |
| `BootProofs` | | |
| `DpcStartsOnBase` | `DpcBase` | |
| `CalibrationFits` | `CalibrationFitsProfile` | |
| `BootTyped` | `TypeOK` | |
| `MemPoolProofs` | | |
| `PoolTyped` | `TypeOK` | |
| `AllocationsStayInPool`, `AllocationsDisjoint`, `AllocationsAligned` | `BlocksInPool`, `BlocksDisjoint`, `BlocksAligned` | |
| `UsageIsAnUpperBound`, `OnlyResetLowersTheMark` | `UsageCoversBlocks`, `HighWaterMark` | |
| `SerialLinkProofs` | | |
| `LinkTyped` | `TypeOK` | |
| `OneFrameOnePacket` | `FramesAreWhole` | |
| `MismatchIsSeen` | `MismatchShowsNothing` | |
| `InStepForGood` | `StaysInStep` | |
| `ConfigurationProofs` | | |
| `HeadersStayComplete`, `NoSilentOverwrite` | `HeadersComplete`, `OverwritesOnlyWhenAllowed` | |
| `ChannelsApart` | `RxChannelsApart` | |
| `FirmwareProofs` | | |
| `FirmwareRunsFile` | `FirmwareRunsTheFile` | |
| `CubeInMemory`, `UartStaysInCube` | `CubeNullOnlyWhenTooBig`, `UartReadsInCube` | |
| `PacketsNeverMixed` | `PlotterNeverMixesPackets` | |
| `ConfigurationTyped` | `TypeOK` | |

### The tasks, under any scheduling (`RadarPipelineProofs`)

* `TypeInvariant` needs `SlotFree` (an armed HWA has a free slot) and
  `RegisterOrder` (how many handlers are registered at each place of the dpc task).
* `NoPostIsLost` rests on `Handshake`: at every moment at most one of the places
  of the token (the two semaphores, the sending, the dpc task's turn) holds it.
  `Startup` says the same of the configuration semaphore. Without them a post
  could meet a semaphore that is given.
* `CubeStandsStill`: while the token is with the uart task the DPU is idle, so
  `Chirp` cannot write.
* `OneSnapshotPerPacket`, from `Snapshot`: from the end of an evaluation to the end
  of its packet the cells that are sent lie in the first row (`CellInFirstRow`) and
  carry the stamp `captured`.
* `RefinesFrameStream`: the buffer is full from the end of an evaluation to the end
  of its packet; `Chirp` of the last slot maps to `Capture`, `UartFooter` to
  `Deliver`, everything else to stuttering. `Order` (stamps in the cube never exceed
  the current frame and the next capture begins after the last one) gives the
  strict increase.
* `CubeSentIsConfigured`, from `Pointer`: a complete evaluation was one of a
  configured DPU, and a uart task past the copy of the pointer holds the final
  one, since it is created after the post of `dpcCfgDoneSemHandle` (`Startup`).
* `PacketsAreComplete`, from `Written`: as long as no `UART_write` may fail, word i of
  the packet being written is that of bin i - 1. With more bins than the 8-bit index counts this is false, so
  `Bins <= IndexMod` is needed.

### The tasks, under their priorities (`RadarPriorityProofs`)

Nothing waits for the DPU to be armed before the sensor starts, so these three
theorems assume `Preemptive`; every call may still fail. `MainRunsLast`: when the
main task takes a step the other two are blocked. The invariant `StartInv` adds to
`Handshake` that a dpc task in its loop has registered its handlers and armed the
DPU (`Armed`; a failure there stops the processor), and that until the first frame
the dpc task stands in its first evaluation (`FirstEvaluation`). `Counted` gives the
counters, modulo any `CounterMod`. `Synchronous` (the DPU is armed only between
frames, and slot and chirp agree while it captures) gives whole frames; it is
inductive only without `Overrun`, that is if the frame period leaves time for a
packet, which no code checks.

### Boot (`BootProofs`)

`Base` says for each place in `freertos_main` what the calls before it have left
behind; of "exited" and "halted" it says nothing. `BootTyped` needs its own
invariant for the numbers: an ADC buffer address stays within its 12 bits because
the offset is kept in 16 bits, whatever the size of a channel is (`AdcRegisters`).

### Memory pools (`MemPoolProofs`)

Requests are small enough that no address wraps (`PoolAssumption`; the firmware
asks for a few kilobytes). The invariant adds that all blocks lie below the bump
pointer (`BlocksBelow`) and that a mark is an address of the pool (`Started`).
`AllocationsAligned` also holds for alignments that are no powers of two, since the
code rounds with `%`.

### From the file to the DPU (`ConfigurationProofs`, `FirmwareProofs`)

* `NoSilentOverwrite`, from `Cleared`: at the place of the write the path was free,
  the answer was "y", or it is the fallback.
* `ChannelsApart`, from `Layout` (what the ADC buffer was set to is a function of the
  header, of which the masks are within three channels) and the arithmetic of the
  rounding (`RoundedUp`, `ThreeChannels`): nothing is added exactly for a multiple of 8.
* `FirmwareRunsFile`, from `Parsing` (the commands parsed so far have the values of
  their last lines so far, which is a fact about one step and needs no induction
  over the file), `Told` (a header in `include/` that is built holds what was parsed,
  after a traceback over the values as well)
  and `Derived` (what the DPU was given is a function of the header).
* `CubeInMemory`, from `Memory`: the L3 pool is fresh when the cube is allocated, and
  the arithmetic of the one allocation.
* `UartStaysInCube`: the cube has a word for each bin, as there is at least one
  chirp, TX and RX antenna if it is not empty.
* `PacketsNeverMixed`: the number of bins is half a power of two (`PowersAreNumbers`),
  so that only finitely many sizes are below `DATA_LENGTH`.
* The last three, and `ConfigurationTyped`, need numbers that do not wrap. `Sourced` says that every value in a header
  is one of `CommandValues`, so that `AddressAssumption` bounds what the firmware
  computes (`InRange`). Neither the tool nor the firmware checks this: with a
  header that asks for a cube near 2^32 bytes the theorems are silent. `ToolAssumption`
  and `ConfigurationAssumption` say what a file and an older header are.

### The serial line (`SerialLinkProofs`)

The theorems assume nothing about the payload, which the firmware sends as it is, nor
about how many bytes are lost in all. The invariant `Link` has three parts: types;
every byte of a marker has the value of its position in its packet (`LineFaithful`);
and `Stream`, which places the bytes the plotter has taken, those on the line and the
next one to be sent on the stream of packets, each as far from the last as the
losses between them say (`Placed`), and after a real header that header as well
(`HeaderAt`). So the place where the plotter looks for a footer is known from the
losses since the header (`AfterHeader`).

* `OneFrameOnePacket`: with no loss that place is the footer and the frame is the
  payload (`FrameIsWhole`). With one to six it is a byte of the footer or of the
  next header other than `DD` (`FooterPlace`), so that nothing is shown. Seven lead to the `DD` of the next header.
* `MismatchIsSeen`: the place is that of a footer only if the lengths and the losses
  differ by whole packets, the case that `MismatchShowsNothing` names.
* `InStepForGood`: as long as nothing is lost, what waits follows the awaited byte
  (`InStepPlaces`), so that each read finds the marker it looks for.

### Only model-checked

`EveryFrameDelivered`, `EveryCaptureLeaves` and `RecoversInPauses` are liveness
properties, out of the prover's reach. The five properties that a run shows to be
violated have no theorem.

## 7. Not modelled

* The plot window: it draws `latest_frame`, which it copies under the lock that
  guards the one assignment to it.
* `mmwave_stop_close_deinit`: nothing calls it.
* The table of EDMA and HWA resources in `dpu_res.h`: constants, which
  `RangeProc_config` copies one by one into fields that only the SDK reads
  (`rangeproc_dpc.c:264-302`, 325-326). That they are distinct is a fact of the table
  and no behaviour; the rows of the DoA, CFAR and micro-Doppler DPUs are unused.
* The timing registers of the profile, the slope of the ramp-down and the tables
  of chirp parameters in `mmwave_control_config.c`: float arithmetic and constants
  that only the front end interprets.
* The text of the header: a macro is the value it is made of. Which values the C
  compiler refuses is reduced to `Compiles`.
* Build files, linker script and IDE projects.
* Everything inside the SDK: HWA, EDMA, the front end, FreeRTOS, flash and UART
  drivers appear only through how the code uses them.
