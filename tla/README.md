# ZYNQ_CPU: TLA+ models, checks and proofs

ZYNQ_CPU is a RISC-V system on a Zynq-7000: a multi-cycle RV32 core with custom
instructions, caches and a 2D fill engine in programmable logic (PL), and an ARM
processing system (PS) whose boot launcher loads firmware and Linux, holds and
releases the PL CPU and carries its console. This directory holds TLA+ models
of the parts in which several actors share state, TLC configurations that check
them, and TLAPS proofs of the main safety properties.

## Inventory

| Component | State | Operations | Hard behaviours | What makes it correct |
|---|---|---|---|---|
| DDR front end (`rtl/soc/zx32_soc.sv`) | I- and D-cache, miss, response and prefetch registers, owner register, GPU request latch | lookup, refill, raw access, prefetch, GPU access, invalidate on write, reset | six requesters share one bridge and one ready wire; the requester can change while a transaction runs; a write completion cancels refills | caches coherent with DDR; each answer goes to the access that caused it; nobody waits for ever |
| AXI4 bridge (`rtl/bus/axi4_master_bridge.sv`) | state, latched request, beat counter, handshake flags | write, read burst | AW and W taken in either order; not reset by `cpu_reset_req` | one transaction at a time, as latched |
| Shared bus and AXI-Lite slave (`rtl/soc/zx32_soc_bd.v`, `zx32_soc.sv`) | slave state, `aw_seen`, `w_seen`, `ctrl_valid_q`, `dmem_pending` | PS read and write, core load and store | the PS preempts the core in any cycle, also between the two cycles of an access | each master gets its own answer; an acknowledged write was performed |
| SBI firmware (`hw_bringup/programs/linux_boot_firmware.zx32.s`) | scratch words, timer registers | putchar, getchar, set_timer, system reset, base, debug | lock-free rings shared with the PS, 32-bit counters, spinning with interrupts off | no character lost, repeated or reordered |
| Boot launcher (`hw_bringup/ps_linux_boot.c`) | local counters, scratch words, reset request | pump input, mirror output, publish temperature, reboot | reads counters and uses them later; restart with the old contents of scratch | as above, over reboots |
| HDMI and LCD text consoles (`hw_bringup/ps_linux_boot.c`) | shadow text and attributes, the panel's memory, cursor, colour, parser | put a byte: print, control, tab, escape sequence; initialise | two parsers on one stream; in-place shifts copied word by word; u32 numbers from the stream; a tab that one console expands through both | both panels show their shadow; the parsers stay in step; an edit stays in its row |
| Bring-up probe (`hw_bringup/ps_uart_probe*.c`) | the test in progress, CPU reset and vector, IMEM, mailbox and result words | 21 tests: clear, load, release, poll, collect, judge | the core under test hangs, answers late, or runs on into the next test; failed loads | PASS only on this test's own results; always comes to an end |
| Control block (`zx32_soc.sv`) | `cpu_reset_req`, reset vector, sysmon words | read, write | shared by launcher and Linux tools | as the shared bus |
| CPU core (`rtl/core/zx32_core.sv`) | pipeline state, CSRs, TLB, reservation | fetch to write-back, page walk, traps | interrupt at write-back, A/D updates, LR/SC | precise traps, TLB agrees with the page table |
| GPU fill engine (`rtl/periph/mmio_gpu_fill.sv`) | configuration, captured command, FIFO, engine | configure, start, submit, soft reset, pixel step | capture against launch, soft reset with an access in flight, timeout | each command runs once, with the parameters it was submitted with |
| DMA controller and stream scratchpad (`rtl/bus/datamover_ctrl.sv`, `rtl/periph/axis_scratchpad.sv`) | command, stream counters | start, stream, complete | start seen in several cycles, zero length | each start moves its bytes once |
| Timer, interrupt controller | mtime, mtimecmp; pending, enable, claim | tick, write; raise, claim, complete | 64-bit values in halves; claim against raise | no deadline or interrupt lost |
| UART TX, display controllers, video pipeline | shift register, text RAM, pixel counters | write, scan out | clock crossing | not modelled: data paths |
| Simulator, assembler, ELF tools, userspace tools, scripts | - | - | sequential | not modelled |

Interactions. The core fetches and loads through the front end; the PS reaches
every PL device through the AXI-Lite slave and the shared bus, where it
preempts the core; the GPU is configured over the shared bus and writes DDR
through the front end; firmware and launcher meet only in the scratchpad and
the control block, which both reach over the shared bus. The launcher prints what
it mirrors on the two panels. The probe is another program of the PS, which
drives the same CPU with test programs.

`PROJECT.json` lists the components with what is left out of each, and the
hazards at their source lines.

## Modules

### AxiBridge, DdrFrontEnd

`AxiBridge` is the bridge's registers and one action per state of its state
machine. `DdrFrontEnd` extends it with the registers of the SoC's front end and
its three masters. One step is one clock edge, and all registers take their next
value together. The definitions under "Combinational signals" have the names of
the RTL's wires and are functions of the current registers; each `...Step` after
them is the next value of one register.

* A word address is `<<line, offset>>`. A data register is abstracted to the
  address it was read from and to whether DDR has been written there since
  (`Data`); a cache to the set of the words it holds and the stale ones among
  them. This is what the coherence properties distinguish: a "value" that is not
  stale is by definition the current one.
* The core holds one request until it is answered. Most instructions return to a
  state without a request in between; what can follow at once is in `Follows`: on a load its
  store (`sc.w`, `xcpyw`), on the store of a page-table entry the access that was
  translated, on an access of a DataMover instruction the next one. The GPU holds its
  request until it is answered. The host appears on the bus at any time for a control, MMIO or BRAM
  access; it has no DDR address (`translate_addr`).
* `go`, `go2` and `dev` are the nondeterminism: whether the DDR port and the
  devices make progress in this cycle.
* `ResetAnytime` says whether the PS may assert `cpu_reset_req` while the front
  end is busy. With FALSE it does so only when nothing is in flight (the CPU parked in
  the BRAM `wfi` loop of `sbi_system_reset`, the GPU drained).

### SharedBus

The AXI-Lite slave, the arbitration and the three kinds of device on the bus:
`ctrl` and `bram` accept in one cycle and answer in the next, `tx` stands for all
that are ready at once, `ddr` for the cached loads that withhold `bus_ready`. A
data register is abstracted to the access it was sampled for. A PS access is one at
a time (`Xil_In32` and `Xil_Out32` on strongly ordered device memory); the channels
of a write may arrive in either order.

### SbiConsole

Firmware and launcher, one access to scratch (or to the PS UART) per step. A
character is its place in its stream; a counter wraps at `Wrap`. `fw.pc` is the
place in the firmware, `ps.pc` the place in the launcher's monitor loop.
`Reboot`, `Hold`, `Clear` and `Release` are the restart path: `pulse_pl_reset`
clears `cpu_reset_req`, so that the old firmware runs until the launcher asserts
it again at line 1879, before it clears the scratch.

### SbiTimer

`rtl/periph/mmio_timer.sv` and the firmware's `program_timer`, one access to a
half of a register per step, and clock ticks in between. A 64-bit value is
`<<high, low>>`; `Add`, `Sub` and `Less` are the firmware's instruction sequences
with their carries and borrows. `due` remembers what Linux asked for, on its own
clock (the `time` CSR, `mcycle`), so that the properties compare the interrupt line
with the request and not with the compare value. The offset is measured with two
reads that are not simultaneous; `skew` is the time between them, and `BootTime`
says that `mtime` is ahead of `time` by more than that when the CPU is released
(the launcher loads the images first).

### GpuFill, CommandQueue

The fill engine's registers, FIFO, launch stage and pixel state machine, the front
end's latch `gpu_ddr_inflight`, and a core that programs the engine. One step is
one clock edge. A command is its opcode and its shape (pixels, rows above the first
one); `fill` stands for fill and line, whose control is the same. `env` is what the
surroundings do in the cycle: the PS has the bus, the DDR port is free, DDR
answers, and which way a data-dependent branch goes (the colour key, the end of a
scaled step). `Preemptable` is the set of accesses during which the PS may take the
bus. A soft reset may come in any cycle, and the timeout may strike while an access
is in flight.

`CommandQueue` is the abstract specification: a bounded queue, commands numbered in
order of acceptance, leaving from the head unchanged. `CommandsInOrder` is the
refinement, with `UnderWay` (running, being launched, FIFO from the read pointer) as
the queue.

### GpuRaster

The coordinate and address registers of one command, one step per finished pixel or
internal advance. Rectangles and copies are compared with the closed form of the
pixel's position, scaled copies with `(column * sw) \div w`, lines with the
half-pixel distance from the ideal line. Rectangles whose end does not fit the
16-bit registers wrap (`RectFits`), which the engine does not check.

### TextConsole, DualConsole

`TextConsole` is one text panel: its shadow arrays, the memory it copies them to,
cursor, colour and CSI parser, one operator per function of `hdmi_console_*`.
`lcd_console_*` is the same code over other constants (a "replica", as its comment
says), so `DualConsole` has two instances of the module and composes them as
`hdmi_console_putc` does: a byte goes to the HDMI console, then to the LCD.

* Bytes are ASCII codes. CSI numbers, and their sums with the cursor, wrap at `Word`.
* A tab is a loop, so it is several steps. The HDMI loop calls the fan-out again for
  every space (`stage = "hdmi"`); then the LCD is given the tab itself (`"lcd"`) and
  runs its own loop (`"lcdTab"`).
* The six actions `LcdParse` ... `LcdPrint` are `lcd_console_putc`, by what the byte is
  to the LCD's parser.
* `items` and `length` only bound the stream.
* `TextConsole` is the abstract specification of either panel; the instances are of
  `TextConsole_proofs`, so that its lemmas hold of both. That each panel reads the
  bytes of one console, with the tab as a special case, is a lemma of the proofs
  (`PanelsRefine`) and not a property of a run: it leaves open how the two streams are
  related. What the documentation says of that is not so after a tab (Limits).

### CpuProbe

The probe's `main` and its 21 tests. A test is a sequence of phases, and a phase a
record that says what the function does: what it writes to DDR before it holds the
CPU, what it clears, how it loads, which vector it sets, which word it polls, what ends
the wait and what follows a wait that failed, which results it compares. The actions of
the PS (`Prepare`, `Hold`, `Clear`, `Load`, ... `Judge`, `Advance`) run any phase; their
lines in the map are those of one test that has all of them.

* A word is abstracted to what it means to the test in progress: `old`, `clear`, `good`,
  `bad`. Nothing in the model makes an old word differ from what a test expects: old
  results may look right.
* The program under test runs between the steps of the PS. It may stop at any point,
  store a wrong result, or a status without its results. A program that was left
  running keeps storing into its own words; if the PS rewrites the DDR it runs from, into
  any word of the scratchpad (`wild`).
* What a test writes into the IMEM for its program it writes after the image is loaded and
  read back (`after`); the image itself may have left anything there.
* A load fails before its first store, or after some segments, or leaves a wrong word
  (`fault`), which only a test that reads the IMEM back can notice.

`MC*` modules give the constants of the runs. Operators marked "Mutant" are
plausible bugs used to confirm that a property can fail; no specification uses
them.

## Runs

| Run | Checks | Shows |
|---|---|---|
| `ddr_coherence` | TypeOK, Coherent, Attributed, GpuAnswersMatch, ReadsSeeDdr, StoresReachDdr, CoreServed, HostServed, GpuServed | safety of the front end, and every access ends |
| `ddr_reset` | FetchesAreFetched, violated | a reset during a burst lets the old burst answer the first fetch |
| `bus_disjoint` | ReadsOwn, WritesTaken, AnswersPs, NobodyStarves | preemption is harmless while PS and core use different two-cycle devices, and neither starves the other |
| `bus_temperature` | CoreReadsOwn, violated | both in the control block: the core is given the PS's word |
| `sbi_rings` | NeverSkips, KeysOnce, OutputInOrder, PutReturns, KeyArrives | the lock-free rings are right, over wraps and a reboot, and nothing is stuck or lost |
| `timer_deadline` | NeverEarly, NeverLate | the interrupt comes when it was asked for, whatever tick falls between two halves, and after a reboot |
| `timer_never` | DeadlineAsDocumented, violated | a request near 2^64 (no timer) wraps to a deadline in the past |
| `gpu_commands` | DoneIsFinal, StaleAnswers, CommandsInOrder, FullIsReported, CommandEnds | each accepted command runs once, in order, as captured, and ends, whatever resets and timeouts leave in flight; a late answer meets only the first access of a later command |
| `gpu_reset` | AnswersMatch, violated | a soft reset with an access in flight: the next command takes the old answer for its own |
| `gpu_raster` | RectPixels, SourcePixels, LinePixels, Finishes | the incremental address arithmetic draws the pixels it should, all of them, and stops |
| `console_panels` | TypeOK, ParsersAgree, BothPainted, InsertUndone, RowEditsStay, TabEnds | two panels of different sizes on one stream: parsers in step, panels painted, edits local, every tab ends |
| `cpu_probe` | PassIsEarned, FailIsDeserved, WaitsForItself, ProbeEnds | verdicts rest on the test's own results, against a core that may do anything |

Where `TypeOK` is not listed it is a conjunct of one of the run's invariants.

The violated properties state what the documents under `docs/` say; the lines are
quoted in `PROJECT.json` under "findings".

### Limits

The passing runs state under which use the properties hold. Outside it the models
show, and the code has, the following.

* SharedBus: with both masters in the control block a PS write can also be
  acknowledged without being performed (`WritesTaken` fails beside `ReadsOwn`).
* DdrFrontEnd: without its premise `CoreServed` fails: `gpu_ddr_start` does not see a
  load in its lookup cycle, each pixel write cancels the refill, and a GPU that always
  has a pixel can do so for ever.
* SbiConsole: ring and mailbox together do not keep the order of keys; the mailbox
  is filled also when the ring has room, and `sbi_getchar` reads the ring first.
  `KeysOnce` and `KeyArrives` claim no order.
* GpuFill, `start` in `Preemptable`: if the PS takes the bus in the cycle between
  capture and acknowledgement, the core presents the start again, and it is refused
  with an error or starts another command.
* GpuFill: after a timeout, as after a soft reset (`gpu_reset`), the answer to the abandoned
  access is taken by the next command. `StaleAnswers` bounds the damage: its first access only,
  and not while done is up.
* DualConsole: after a tab the LCD's text is further right than the HDMI console's: it prints the
  spaces of the HDMI's tab and then up to eight of its own (`ConsoleTab`, `HdmiTabLoop`,
  `LcdTab`). docs/architecture.md:164-165 says that it "mirrors the HDMI console's boot
  text at all times". No property states this; `ParsersAgree` holds all
  the same. Both parsers are instances of one module, so that the copies of the C code are
  alike is read, not checked; and the in-place shifts of a row are one assignment
  here, so that `InsertUndone` says nothing of the direction of their loops.
* GpuRaster: a rectangle whose end wraps at 2^16 (not `RectFits`) is drawn as coded, and
  nothing says what it should be.
* DualConsole: an X (erase) with a number near 2^32 wraps and erases nothing
  (`EraseCells`); the next attribute word after the LCD's last cell holds bytes from
  past the shadow array, which are not shown.
* CpuProbe: a result that a test clears to the value it expects (`blank`: the AMO step,
  CMP_HI, TEXT_HI, SIZE_HI) can pass without having been stored, and the tests that run
  from DDR, and the second phase of the BRAM test, do not read their program back.
  `PassIsEarned` says so in its conditions. A load that fails leaves the CPU held, which
  the next test that does not hold it would meet; in the order of `main` none follows.
* CpuProbe: that a rewritten program stores only into the scratchpad is an assumption
  about a core that is being tested, not something the code ensures.
* GpuFill: stride registers are used live and can change under a running command,
  although docs/architecture.md:129 says that configuration writes are ignored
  while it is busy; the launch of the next queued command clears the error flag of
  the one before.

### Bounds

* Front end: one set per cache, so that any two lines collide; two words per
  line, so that a burst has a first and a last beat and a critical word on either
  side; three lines: two that collide and of which a sequential miss arms a prefetch,
  and one line of VRAM, which the prefetcher can run up to. One host access at any
  point. What larger address sets would add is covered by the proofs.
* Bus: one register per device and master is enough, since only the identity of
  the access that a register was sampled for matters; CTRL has two for the PS.
* Console: rings of two bytes and counters that wrap at 4, so that every
  index meets a wrap while the ring is full; an input ring of one byte, five
  characters, two keys, one reboot (`MaxBoots` counts the boots).
  `Wrap` is a multiple of the ring sizes, as 2^32 is of 256 and 128.
* Timer: halves of five values, requests before, at and after the carry of the low
  half, a window shorter than a half, and a time bound of more than two carries.
* GPU commands: a FIFO of two and four commands, so that a submit meets the full FIFO
  and the pointers wrap; shapes with and without rows to skip; a framebuffer and strides
  that are or are not configured; a timeout of one cycle. `Varied`: every opcode,
  direct starts and configuration writes in any cycle between the acceptance of the first
  command and that of the second; before and after that the core submits fills, clears
  flags and resets. So the varied command follows one that may still run or have
  been abandoned, and is followed by one that meets what it left behind. In
  `gpu_reset` the timeout is out of reach, so that it is the soft reset that violates
  `AnswersMatch`.
* GPU raster: coordinates of 8 values; all lines, so every
  octant and slope; source sizes 1 to 6 onto 1 to 4. Other
  sizes are covered by the proofs.
* Panels: 8 by 2 and 4 by 3, so that a row is two text words on one and one on the
  other, an attribute word is a row on one and two rows on the other, a scroll is
  reached, and a tab on the narrow panel goes over row ends. `Word` is 100, so that two
  digits wrap. Three text bytes or sequences of up to two bytes before the final one.
  Sizes and streams of any length are covered by the proofs.
* Probe: a wait of two reads: an answer before, between and after them. All 21 tests in
  their order; one wrong result at a time.

Deadlock checking is on in every run: no specification here may stop (the raster
walk has an explicit step for the finished command).

### Fairness

* Front end: the clock runs, the DDR port is eventually ready, devices are
  eventually ready. These are properties of the AXI interconnect and of devices that
  answer within two cycles. Nothing is assumed of the masters' requests;
  `CoreServed` states its own condition on the GPU, and `GpuServed` one on the core: that
  it is again and again without a DDR request. Every instruction takes it through decode
  and execute, in which it has none; `CoreStep` allows more chains of accesses than
  that.
* Bus: the same, and a PS that completes the channels of an access it has begun and
  accepts its response.
* Console: weak fairness of both processors, and strong fairness of
  `SbiGetchar`: Linux's `hvc0` polls for input (the firmware has no console
  interrupt), between other calls.
* Panels: the tab loops, which are plain C loops, are run on. Nothing is assumed of the
  stream.
* Probe: the PS runs on. Nothing is assumed of the core or of the DataMover.
* GPU: the clock runs, in some cycle the PS is off the bus, and the repeated
  subtraction of a scaled copy ends (`Finishes` of GpuRaster shows that it does).
  Nothing is assumed of DDR.

## Proofs

`DdrFrontEnd_proofs` proves, for caches, lines, address sets and numbers of host
accesses of any size: `TypeCorrect`, `OwnerIsRight`, `CachesCoherent`,
`GpuGetsItsAnswer`, and from them the action properties `ReadsAreCoherent` and
`StoresAreInDdr`. They rest on the named assumptions on the constants
(`BridgeAssumption`, `FrontEndAssumption`) and on `~ResetAnytime`; without the last
they are false, which is what `ddr_reset` shows.

None of the properties is inductive alone. `IInv` (at the end of `DdrFrontEnd`) adds:
what the bridge has latched and how far a burst is (`BridgeOK`), which kind of
transaction an owner runs (`OwnerOK`), that miss and response registers belong
to the access the core is waiting for (`DemandOK`), that the critical word of a refill
has been captured once it has passed (`RefillOK`), that an armed prefetch
starts at once or not at all (`PrefetchOK`), and that reset finds nothing in flight
(`ResetOK`). The proof that a cycle preserves it splits by the state of the
front end: in reset, quiet (no owner; `Arbitration` says who is chosen), busy (a
transaction runs and nobody is answered from the bridge), done (the owner's answer
is applied).

`TextConsole_proofs` proves, for a panel of any size whose cells fill whole text words
(`Geometry`) and any stream of bytes, that the state keeps its type
(`ConsoleTypeCorrect`: no cell outside the screen is ever addressed) and that the panel
shows the shadow (`ConsolePainted`). `Good(c)` (types and painted) is inductive; there
is one lemma per function of the console that it takes good states to good states
(`PutCellGood`, `ScrollGood`, ...), and the painting lemmas under them (`WritePaints`,
`RangePaints`, `RowPaints`) say that writing the words of all changed cells leaves nothing unpainted: the panel was
equal to the shadow before, so only the changed cells can differ. `RowEditStays` and
`DeleteUndoesInsert` are the facts about the row edits.

`DualConsole_proofs` proves for two panels of any sizes: `TypeCorrect`, `PanelsPainted`,
`ParsersInStep`, `InsertsUndone`, `RowEditsLocal`, and the refinement `PanelsRefine` (as
`HdmiRefines` and `LcdRefines`). `ParsersAgree` is not inductive: it says nothing during a
tab, when the LCD is given spaces that its parser might swallow. `Inv` adds that outside
`ready` no escape sequence is open on either side; a tab is only expanded when the HDMI
parser does not take it, and then, the parsers being equal, the LCD's does not
either. This is also why the LCD refines `TextConsole`: the tab that it is given at the
end is a tab to it. `TabsMoveOn` is the safety half of `TabEnds`: a turn of a tab loop ends it
or brings it one column nearer to the next stop, since the column wraps at the end of a row
and 0 is a stop.

`PsSide_proofs` has the theorems of two specifications that share no variable, the bus by which
the PS reaches the logic (SharedBus) and the probe that drives the CPU (CpuProbe; its
specification is named `ProbeSpec`, so that one module can extend both).

Of the bus it proves, for any sets of addresses and any timing, that the AXI-Lite
slave answers the access the PS is waiting for (`SlaveAnswersPs`). `SlaveInv` says, for each
kind of access, which channels the PS still drives and that these are the ones the
slave has not taken. From it follows `CoreGetsTwoCycles`: a host access ends with its response
pending, while that is so the PS drives no channel, and the slave cannot begin another; so the
core has the bus for the two cycles that a registered device needs. `ReadsAreOwn` and `WritesAreTaken` need the hypothesis `Separate`: the
core leaves the control block to the PS, and not both use the boot BRAM. This is so while
Linux runs and the launcher only polls, until one of the tools that read the temperature from
the core (`zx32_temp`) is started; then they are false, which is what `bus_temperature` shows.
`BusInv` adds that a device which answers a cycle later has sampled the access that is on
the bus when it is ready: a change of master in between matters only if both use the device.

Of the probe it proves, for waits of any length (`Polls` at least 1), that a PASS is earned
(`PassesAreEarned`), a FAIL deserved (`FailsAreDeserved`), that a test waits for its own
program (`TestsWaitForThemselves`) and that no step of `main` goes back (`MainMovesOn`). What
these rest on is spread over 21 functions: a test may look at a word only if it cleared it,
may be started only on code it wrote, and shares no buffer with a program that may still be
storing. `Row` states this of one phase, in three parts: what ends its wait (`Stands`), how
its program is started (`Boots`), which buffers it writes and looks at (`Buffers`). Lemmas
`Row1` to `Row21` establish it for every test, and from there on the proof knows the tests
by `Row` alone: a test that is changed may break its row, but no other lemma. `ProbeInv`, the
inductive invariant, follows a test through its stages:

* `Order`: whose program (or transfer) runs: nobody's from hold to release, this test's
  during its wait. The first two tests do not hold the CPU, and none of theirs runs once the
  third test has held it;
* `Image`: the reset vector points at this test's code when the CPU is released;
* `Memory`: the words looked at are clear when the program starts, and from then on only
  that program changes them; once it has stored its status it stores nothing more;
* `Verdict`: a PASS that was read is still there, behind the last store, so what was
  compared does not change afterwards.

The case that needs the table most is a store of a program that was left running
(`StoreLate`, `LateElsewhere`). What it does to the scratchpad is cleared under the next hold,
but the buffers in DDR are prepared before that hold. `cpu_dma_dst` is the one
buffer with two users, tests 2 and 11; test 3 holds the CPU in between, whether or not it can
load, so a late store of test 2 cannot come that late.

`SbiConsole_proofs` proves, for rings of any sizes and counters that wrap at any common
multiple of them, `FirmwareNeverSkips`, `KeysReachLinuxOnce` and the action property
`MirrorsInOrder`. The output half of `IInv` says that the distance of the two counters is
the number of characters under way and that the slot of every counter value between them
holds the character due there (`OutOK`, `OutBytesOK`); `PutOK` and `MirrorOK` say how stale what
either side has read may be: only in the safe direction. The input half gives every key
one place: the UART, a slot between head and tail (or stored and not yet published), the
mailbox, or Linux (`RingKeys`, `MailKeys`, `GivenKeys`). `NoKeyLost` adds that no step takes a
key out of all of them but a reboot, and that one only what is in the ring or the mailbox;
`FullRingIsDrained` that the firmware never waits for room while the launcher takes the
output ring to be empty.

`SbiTimer_proofs` proves `InterruptNeverEarly` and `InterruptNeverLate` for halves, windows
and boot times of any size, under `NoWrap`: adding the offset to a request does not pass
2^64. Requests of a clock that started at boot satisfy it for centuries; the request
that stands for "no timer" does not, and `timer_never` shows what happens then. The
argument: mtime minus mcycle is constant from release to reboot (`Lead`); a read whose high
half has not changed is not torn (`NotTorn`); so the offset is `Lead` up to `skew`, the
compare value is the request plus the offset or the window, and while it is
half-written its high half is the largest there is.

`GpuFill_proofs` proves, for a FIFO, shapes and a timeout of any size: `DoneNeverEarly`,
`FullFifoIsReported`, the refinement `ImplementsCommandQueue`, and
`LateAnswersMeetFirst` (`StaleAnswers`, with soft resets and timeouts in any cycle). `IInv`
relates the two pointers of the FIFO to its count, says that a launch is only pending while
the engine is idle and the FIFO has room again, and gives what is under way the
last numbers that were accepted (`Numbers`), so that an access of an abandoned command has
a smaller number than the command that meets its answer. `PortOK` says that the access in
flight is either the one the engine makes or older than a command at its first access:
the engine cannot get past that without an answer, and the answer clears the port. The
refinement is a
simulation by cases of the FIFO's step (push, pop, both, neither) and the engine's (launch,
end, neither) with `UnderWay` as the abstract queue. `NoOverrun` and `EngineMovesOn` are the
safety half of `CommandEnds`: the engine tests for its last pixel by equality, and it never
starts at or beyond it, because a launch checks the configuration it takes the length from; and
every cycle is a step towards that pixel or towards the timeout.

`GpuRaster_proofs` proves `RectanglesDrawn`, `SourcesRead` and `LinesStraight` for
coordinates, strides and commands of any size, and the safety half of `Finishes` in three
parts: a command that has ended has drawn all its pixels (`NothingLeftOut`), one that is drawing
has pixels left (`NothingTooMuch`), and between two pixels something gets smaller
(`PixelsFollow`). Rectangles: the count is row times width plus column (`RectPlace`), the
accumulators of a scaled copy are the remainders of a division that is never done
(`Scaled`). Lines: `Near` says that the error term is the distance from the ideal line,
at most half the longer side; `LineStep` that a step keeps this and always moves
along the longer side, proved for one octant and carried to the others by symmetry. It
follows that the error term can reach one and a half times the coordinate range, and that its
double fits the 20 bits that the code gives it.

Only model-checked:

* liveness, out of the prover's reach: `CoreServed`, `HostServed`, `GpuServed`, `TabEnds`,
  `CommandEnds`, `Finishes`, `PutReturns`, `KeyArrives`, `NobodyStarves`, `ProbeEnds`. What can be said of them one step at a time is proved:
  `TabsMoveOn` for `TabEnds`, `NoOverrun` and `EngineMovesOn` for `CommandEnds`, `NothingLeftOut`,
  `NothingTooMuch` and `PixelsFollow` for `Finishes`, `FullRingIsDrained` for `PutReturns`,
  `NoKeyLost` for `KeyArrives`, `CoreGetsTwoCycles` for the core's half of `NobodyStarves`,
  `MainMovesOn` for `ProbeEnds`. Left to TLC is that the steps are taken and that what gets
  smaller runs out. Of the DDR front end's three nothing of the kind is proved;
* what depends on `ResetAnytime`, and the four violations.

## Plan

1. `DataMover`: `datamover_ctrl.sv` with `axis_scratchpad.sv`. A start that is
   presented for several cycles, a transfer of length zero, an error of one direction
   while the other runs. Abstract specification: each start moves its bytes once.
2. `CoreTraps` and `Sv32Tlb`: interrupt acceptance at write-back, delegation,
   the page walk with its A/D update, the TLB and `sfence.vma`, LR/SC. Abstract
   specification of the TLB: a walk of the page table at the time of the fence.
3. `IrqCtrl`; the simulator's PLIC and virtio queue; the launcher's image loading
   and backup.
4. Proofs: those of the modules above as they come. Every invariant and every action
   property of the passing runs of the present ones is proved.

## Not modelled

Data values, ALU and instruction decoding, pixel arithmetic, video timing and
TMDS, the font, image loading and backup, the diagnostic texts and statistics counters of
the launcher, the tools that run on the development machine. The userspace tools
(`gpu_smoke`, `gpu_demo`, `gpu_top`, `image_viewer`, `membench`, `temp`) are sequential
programs that write registers and wait; what they rely on is in GpuFill (`DoneIsFinal`,
`CommandEnds`) and SharedBus. `zx32_temp` reads the four words of a temperature sample
while the launcher may be writing them; the words are published without a protocol
that promises they belong together, so there is nothing to check. The clock crossings of
the video path and analogue behaviour are outside what TLA+ can say about this source.
