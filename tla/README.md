# The Quadra 800 core of wombat33: a TLA+ model

The repository is a Macintosh Quadra 800 for the MiSTer FPGA board. Its own
logic is the SystemVerilog under `src/rtl` and the top level
`src/MacQuadra800.sv`; the CPU core (AP68040) is a git submodule that is not in
the tree, `src/sys` is the vendored MiSTer framework, `src/verilator` the
simulation and its test benches, and `src/SingleStepTests` tests of the CPU.

This directory models the paths on which data can be lost: from a CPU access
through the bus splitter and the beat service to SDRAM over a clock-domain
crossing, and from a SCSI driver through the pseudo-DMA port, the 53C96 and its
sector buffer to the platform's block device; and the ADB path, from the driver
through VIA1's shift register and the shim in `iosb.sv` to keyboard and mouse. And
the paths on which time can be lost: the sound FIFO, the vertical blank, the
pseudo-VIA's edge-latched flags, and VIA1's timers, 60 Hz tick and second. The block
device that the Verilator simulation puts in the platform's place is modelled too,
against the contract the SCSI chip relies on.

## 1. Inventory

| part | state | operations | talks to |
|---|---|---|---|
| `wombat_bus32.sv` | the transaction in flight, first or tail beat | accept, tail beat, finish, abort on bus error | CPU (`t_*`), beat service (`b_*`) |
| `quadra800.sv` | service state, overlay, walker arming | decode, arbitrate walker and CPU, serve RAM/ROM/VRAM, IOSB, DAFB, open bus, bus error | splitter, table walker, targets |
| `sdram_beat32.sv` | beat registers and toggles in two clock domains, refresh timer | capture, post a write, burst read, two-half write, complete | beat service, controller |
| `sdram.sv` | controller state, `ready` and its delay | power-up, refresh, activate, read, write | bridge, SDRAM chip |
| `ncr53c96.sv` | registers, FIFO, phase, CDB, transfer flags, sector buffer, block request | chip commands, CDB execution, one FIFO action per clock, load and flush | IOSB, platform block device |
| `iosb.sv` | bus state, pseudo-DMA shift and watchdog, pseudo-VIA flags, registers | device decode, pseudo-DMA beats, interrupt priority | beat service, all the devices |
| `adb.sv` | bus state, command, response, Listen bytes, key FIFO, mouse report, Caps Lock | state change, command byte, Talk, Listen, Flush, Reset, key, mouse packet | shim, PS/2 |
| `via6522.sv` | ports, shift register, timers, interrupt flags | register access, shift, timer events | IOSB, shim |
| shim in `iosb.sv` | shift timer and direction, byte to deliver, fresh byte | arm, complete, deliver, capture | VIA1, transceiver |
| pseudo-VIA in `iosb.sv` | interrupt flags, enables, edge detectors | latch an edge, read and write flags and enables, interrupt level | all interrupt lines, CPU |
| dividers in `iosb.sv` | E clock, 60 Hz tick, count of the second | count | VIA1 |
| `easc.sv` | two sample FIFOs with pointers and counters, lanes of a write in flight, status and interrupt | push lanes, pop at the sample clock, clear, status read | IOSB, audio output |
| `dafb.sv` | registers, vertical blank status, pixel pipeline | register access, blank, scan out | beat service, pseudo-VIA |
| `scc.v`, `rtc3430042.sv` | device registers, receive FIFO, serial protocol | register access, device events | IOSB |
| `sim_blkdevice.cpp` | current disk, delay, transfer, mount queue, image files | mount, load, flush, acknowledge, once per clock | SCSI chip in simulation |
| `wombat_cpu.sv` | stall watchdog, snoop slot | wiring of the CPU core | splitter, service |
| `MacQuadra800.sv` | ROM upload, mount replay, VRAM/ROM beat answers | reset, upload, beat port multiplexer | everything, hps_io |

Everything in a clock domain moves on the same edge; components interact by
level-held requests with one-cycle acks (`b_req`/`b_ack`, `mem_req`/`mem_ack`,
`iosb_sel`/`iosb_ack`), by toggles across the clock domains, and, towards the
platform, by `io_rd`/`io_wr` strobes answered with a level `io_ack`.

What is hard, and what makes each part correct:

* SDRAM: writes are acked before they happen, a 32-bit beat is two 16-bit words,
  refreshes steal the controller at any time, and the two clock domains know each
  other only through delayed toggles. Correct means: behind the beat handshake it
  is a plain memory, each access is made once and ended by its own `ready`, no
  refresh is lost and every beat is answered.
* Bus: an unaligned access is split in two beats; a bus error may hit either; the
  table walker cuts in. Correct means: exactly the operand's bytes move, each
  access ends once, no beat outlives its owner, nobody starves.
* SCSI: a FIFO engine, a response generator, a prefetcher, a flusher, the driver
  and the platform act in the same clock on one buffer and one FIFO; a command is
  cut in chunks at arbitrary places; drivers of three dialects, a bus watchdog, a
  chip reset. Correct means: what the driver reads is what the disk holds, what it
  wrote is on the disk, CDBs arrive whole, every command ends, a healthy beat never
  faults.
* ADB: three rates meet (clk, the E clock of VIA accesses, the transceiver's enable),
  a software timer stands for the shifts of the wire, and keys and mouse packets come
  at any tick. Correct means: a Talk brings the device's answer whole and once, keys
  are neither lost nor doubled, and the driver never waits for an interrupt that
  nothing will raise.
* Interrupts and sound: an interrupt is an edge that is latched once, while software
  clears flags, reads the status that drops the line and refills the FIFO at any
  clock. Correct means: samples come out once and in order, a sound that is refilled
  goes on, a vertical blank is served, no interrupt storms, no edge is lost.
* VIA1: timers tick in the very clock in which an access may stop, restart or
  reprogram them, or clear their flag. Correct means: an event comes in exactly the
  tick in which it is due, sets its flag, and an enabled flag is served.
* Simulated block device: a state machine that shares one delay between mounts and
  transfers of ten disks. Correct means: it keeps the block port's contract, for every
  latency, and every request and mount ends.

The list of hazards, each at its line with the properties aimed at it, is in
`PROJECT.json`.

## 2. Modules

| module | models |
|---|---|
| `BeatPort` | the beat port: data types, byte enables, the machine as beat master (`quadra800.sv` S_IDLE/S_MEM) |
| `BeatMemory` | the abstract specification: a memory in which a write takes effect when it is accepted and a read returns the last accepted write |
| `SdramBeat32` | `sdram_beat32.sv` + `sdram.sv` + the chip; refinement mapping to `BeatMemory` |
| `SdramBeat32Proofs` | its theorems |
| `WombatBus32` | `wombat_bus32.sv`: shifts, byte lanes, the clocked block |
| `Quadra800` | the beat service of `quadra800.sv`, composed with `WombatBus32`; external CPU, walker and targets |
| `Quadra800Proofs` | its theorems |
| `Ncr53c96` | `ncr53c96.sv`: the chip as operators on a record of its registers |
| `IosbSdma` | the SCSI part of `iosb.sv`: register strobe, pseudo-DMA beat, watchdog |
| `ScsiSystem` | chip, sector buffer and IOSB composed with an external driver and block device |
| `ScsiProofs` | its theorems about the block handshake |
| `ScsiControlProofs` | its theorems about the dialogue of driver and chip |
| `Via6522` | the shift register of `via6522.sv`, its flag and arming, port B's ST bits |
| `AdbShim` | the VIA1 shift register shim of `iosb.sv` |
| `Adb` | `adb.sv`: transceiver, keyboard, mouse, PS/2 input |
| `AdbSystem` | the three on their clocks, with an external driver and user |
| `AdbProofs` | its theorems |
| `Easc` | `easc.sv`: FIFO, write lanes, status, interrupt, sample clock |
| `PseudoVia` | VIA2 of `iosb.sv`: edge latches, flags, enables, interrupt level |
| `IrqSystem` | both on the IOSB bus with the vertical blank of `dafb.sv` and an external guest |
| `IrqSystemProofs` | its theorems |
| `Via1Timers` | timers, CA1, CA2, flags and mask of `via6522.sv` |
| `Via1System` | with the E clock and 60 Hz divider of `iosb.sv` and an external guest |
| `Via1Proofs` | its theorems |
| `BlockPort` | the abstract specification of the block handshake that `ncr53c96.sv` relies on |
| `BlkDevice` | `sim_blkdevice.cpp` with the chip's side of the handshake; refinement mapping to `BlockPort` |
| `BlkDeviceProofs` | its theorems |
| `MC*` | constants for TLC |

**How code becomes TLA+.** A clocked `always` block is a disjunction of its cases
(`Capture`, `Complete`, `SysWait` for the `clk_sys` block of the bridge) and a clock
edge is the conjunction of the blocks it clocks, all reading the values before the
edge. `SdramBeat32` steps on every `clk_ram` edge and on every RATIO-th one also on
`clk_sys`. `Ncr53c96` is one block of overlapping conditional assignments in which
the last wins: there each part is an operator from the old registers `s`, the inputs
`i` and the registers assigned so far `n` to the next `n`, and `Cycle` applies the
parts in source order; `AdbShim` and `Adb` are written the same way. Variables and
operators keep the source's names.

**Data.** SDRAM bytes are members of a set. In `WombatBus32` a register is a
function from byte position to a number that names the byte. In the SCSI modules a
byte is a triple that says what it is (byte n of block b, byte n written by command
c, byte n of response k, a CDB byte), so a byte that is stale, lost, repeated or
from another command is told apart. A CDB's fields are the record of its command. A
sound sample is its number; a counter of VIA1 is two bytes of `BYTE` values each; a
word of a disk sector names where it was first. `IrqSystem` and `Via1System` carry
history variables (`ids`, `hist`): what the samples, timers and flags owe the guest.

**External parts**, modelled from how the code uses them: the SDRAM chip; the CPU
(raises any access, drops it with its ack or fault); the walker (may keep its
request up after the answer); bus targets (answer after any delay; the IOSB may
fault); the SCSI driver (the scripts of the ROM, of a Unix driver with preloaded
FIFO, and of one that negotiates, see `src/verilator/tb_ncr53c96.sv`: `cpu.doing` and
`cpu.step` are its place in the script, `Request` the access of that step and
`NextStep` the order of the steps); the block
device (accepts a request after any delay, then moves words); the ADB driver (the
transactions traced in `src/docs/adb-via-shift.md` and `src/docs/tools/instr_adb.py`,
one VIA access per E period at most, each at most `Prompt` periods late except for
the waits on the shift interrupt) and the PS/2 events of the platform; the guest of
`IrqSystem` (acknowledges a flag, then serves the device, refills by halves or until
the FIFO reads full) and of `Via1System` (programs any register at any tick, reads
the flags in its handler and clears what it read).

The mutated operators next to some definitions ("Faulty variant of ...") are not
part of the model: each is a plausible mistake in that code which makes one of the
properties fail, and shows that the property depends on the code.

## 3. Runs

| run | checks | shows |
|---|---|---|
| `sdram` | TypeOK, NoFalseTrigger, NoSpareAccess, RefreshNotLost, ImplementsMemory, StableAcrossDomains, EveryBeatAcked | bridge, controller and chip implement `BeatMemory`, and every beat is acked |
| `bus` | ReadExact, WriteExact, NoOrphanBeat, OneOutcome, WalkerOnce, CpuServed, WalkerServed | each offset and size moves exactly the operand's bytes, where the target keeps them; arbitration and faults |
| `scsi` | HostExact, WriteLands, NoFalseFault, LoadOwnsBuffer, FlushOwnsBuffer, TimeoutKeepsFifo, CdbIntact, CommandEnds | three drivers: reads and writes by chunks and bytes; responses, sense, empty ID, negotiation; commands after a chip reset in mid-transfer |
| `scsi_collide` | FlushOwnsBuffer, violated | INQUIRY's response overwrites the block being flushed |
| `scsi_reset` | LoadOwnsBuffer, violated | a load left in flight by a chip reset fills the next command's buffer |
| `scsi_watchdog` | NoFalseFault, violated | the watchdog counts while a sector is moving |
| `blkdev` | ImplementsPort, RequestServed, MountEnds | the simulation's block device implements `BlockPort` |
| `adb` | TalkExact, KeysConserved, CapsAgree, MouseExact, NoDeadWait | polls, a moved device, a flush, keys and a packet at any tick |
| `adb_early` | TalkExact, violated | a command started while the idle timer runs is dropped |
| `irq` | SoundExact, EdgeKept, SoundGoesOn, VblServed, NoStorm | a sound plays on, blanks are served, no edge is lost |
| `irq_edge` | EdgeKept, violated | a flag write in the clock of another line's edge drops it |
| `via1` | TypeOK, TimerAExact, TimerBExact, SecondExact, Served | each timer event in its tick, the second in its clock, each enabled flag served |

The five violated runs are the findings of `PROJECT.json`: each quotes a comment
that the code does not keep. `scsi_collide` and `scsi_reset` are reachable by a
driver and lose data. A WRITE followed by INQUIRY while the platform is still
flushing ends with the block corrupted on the disk; the `scsi` run leaves that pair
out, and its driver that resets the chip issues no WRITE. That driver does read both
blocks, and there the load which the reset leaves in flight has a second consequence:
a READ of the other block, begun while that load is on its way, waits for the port, takes
the end of the old load for its own and delivers the old block. `HostExact` excepts the
commands begun at that time (the history `cpu.late`) and holds for all others; with
`~cpu.late` dropped from it, TLC finds such a READ. It has the cause of `scsi_reset`,
whose finding describes both. `scsi_watchdog` needs a
platform that pauses for the whole budget inside one sector. In `adb_early` the driver
begins a command without waiting for the idle completion; the window is the few
accesses between its write of the shift register and of the bus state, so the byte is
lost only when the old timer ends there. In the `adb` run the driver waits first. In
`irq_edge` a handler acknowledges one flag in the clock in which another line rises:
the flag write starts from the old flags. The `irq` run assumes that this clock is
missed (`Coincide = FALSE`) and shows what holds then.

`via6522.sv` (line 376) has the same weakness: a write of the flags in the clock of
another flag's event drops the event, and accesses are sampled in the very clock in
which the timers tick. No text in the repository says otherwise, so no property is about
it: `Served` is checked for guests whose flag writes miss that clock (`Coincide = FALSE`)
and is refuted with `Coincide = TRUE`. A second one is named in `TimerBExact`:
timer B, started again in the tick in which its counter stands at zero, still raises
the event of the old shot and so interrupts the new one after one tick. Timer A takes
the reload back in that tick. A third is in `adb.sv` (line 382): of the mouse deltas,
those from -192 to -129 are cut to seven bits instead of clamped, and a vertical delta
of -64 stays -64 when it is turned upside down, since 64 does not fit in seven bits.
The packets of the `adb` run leave these out, and the theorem names the deltas for
which the clamp is right.

Three smaller remarks from the modelling. The header of `quadra800.sv` (line 10)
promises a bus error beyond installed RAM, while the decode answers open bus there, as
its own comment explains. And a beat raised during the SDRAM's power-up would be ended
by the `ready` edge of the power-up; the top level's reset excludes it. In the
simulated block device, a request that falls in the mount delay is acknowledged without
data (`sim_blkdevice.cpp`, line 160), and a latency of zero (`+blkdev_latency=0`; the default
is 16000) is never counted down to an acknowledge; `BlkAssumption` excludes it.

**Bounds.** SDRAM: two words, one lane of each half written (the theorems cover all
byte enables); RATIO = 3 as in the code; REFRESH_PERIOD = 17 instead of 772 and
STARTUP_CYCLES = 2 instead of 12100. An access takes 7 edges and a refresh 7: in 17 a
refresh falls on every step of an access, and some accesses meet none.
Bus: `bus` has three loads: two longwords, so that a split crosses from RAM to
open bus, and all twelve offset and size pairs; with the walker one longword for each
kind of target, and the split access that crosses from each to the next; and low memory
with a walker that reads the ROM window, so that the boot overlay ends between the two
beats of a split write: the first is lost in ROM, the second stays. SCSI:
sectors, FIFO and responses are 4, 4 and 2 bytes instead of 512, 16 and up to 36, a
CDB is two bytes, and there are two blocks. Sectors still take several words and
chunks, the FIFO fills, chunks end in the middle of a sector. Three commands in a
row (two where a violation is looked for) let the state a command leaves behind meet
the next. The watchdog limit of 12 cycles exceeds the cycles a word takes and is
below the time the platform may wait before it accepts. ADB: the transceiver's
enable comes every 2 clocks (in the two violated runs every 4, as in the code), an E
period has 6 clocks instead of 42; SHIFT_DELAY and IDLE_DELAY are 22 and 29 clocks
instead of 100000 and 363000, in the same order and longer than the driver takes from
the access that starts the timer to the bus state the shift is for (`Prompt`
included). The key FIFO has 4 entries instead of 8, the user sends two Caps Lock
transitions (four events) and one packet; commands repeat without bound. What happens
to keys at a full FIFO, or stored in the very tick of a Flush, is in the model but
excluded from KeysConserved by the history variable `user.lost`: there the code does
lose or resurrect keys. Interrupts: a FIFO of 4 samples instead of 1024, writes of up
to 2 lanes instead of 4, a sample every 6 clocks, IOSB accesses at least 2 clocks
apart; one channel (the second has the same code). The FIFO empties, fills, crosses
half in both directions, and a pop meets every lane of a push. VIA1: a byte has 2
values, so a counter 4, and wraps several times in a run; an E period has 3 clocks and
a 60 Hz period 8, which share no divisor, so an edge of CA1 or CA2 falls on every clock
of the E period; a second has 2 periods. Three guests: timer A with CA1, timer B with
CA2, timer A with port A; the theorems cover all guests and widths. Block device: 3
disks in the loop instead of 10 with the wired one first, 4 words, a mount delay of 6
(a multiple of the disks, as 1200 is of 10), latencies 1, 2, 3 and 7, two sectors. A
request comes only after the mount, as the guest boots long after it.

**Fairness.** The clock ticks: weak fairness of `Next`. `bus` adds that a
selected target answers (`mem_ack`, `dafb_ack`: the targets' code acks every request;
IOSB: its watchdog bounds the only unbounded wait). `scsi` adds that the driver goes
on and that the platform serves its requests; CommandEnds speaks of the drivers that
do not reset. The `adb` run has no fairness: NoDeadWait is an invariant. `irq` adds
that the guest's handler goes on. `blkdev` needs only that the simulation's loop calls
BeforeEval. `via1` uses strong fairness for the handler's two accesses: they are
possible only in the clock of the falling E edge, which comes again and again, and the
processor takes a pending interrupt after the instruction it is in.

## 4. Proofs

`SdramBeat32Proofs` proves, for every clock ratio, refresh period, power-up length
and every set of addresses, bytes and byte enables that satisfies the named
assumptions:

* `TypeCorrect`: `Spec => []TypeOK`.
* `BeatInvariant`: the inductive invariant `BeatInv` holds, when no beat is raised
  during power-up (`EarlyBeats = FALSE`, the condition the top level's reset
  provides; without it NoFalseTrigger fails, as remarked in section 3).
* `NoFalseTriggerCorrect`, `NoSpareAccessCorrect`: from `BeatInv`.
* `MemoryCorrect`: `Spec => Memory!Spec`, the refinement of `BeatMemory`. Its state
  is `MachineMem` (the chip, with the write in flight already applied) and `Job`.
* `StableCorrect`: the action property on the registers that cross the domains.

None of the properties is inductive alone: that a `ready` edge belongs to the beat
depends on where the controller is, that depends on when `rd` and `wr` fall, and those
depend on where the beat is between the domains. `BeatInv` says all three:
`Handshake` (no beat, crossing, working, returning, by the values of the six toggle
copies), `BeatOwner` (the registered operands are the beat's), `Controller` (for each
controller state which half of which beat it is working on, where the burst is and
what `dout` shows) and `Progress` (which half of a write is in the chip, which half
of a read in `hold`). One lemma per conjunct shows that it is preserved, with one
step per action of the controller.

`Via1Proofs` proves, for every counter width, E period, divider and every guest whose
accesses are well typed:

* `TimersInvariant`: the inductive invariant `IInv`. `TimerAExact` is not inductive: it
  speaks of the tick of an event, and what is due then was decided many ticks before.
  `DueAFits` ties the history (ticks to the event) to the registers at all times: none
  if the timer may not interrupt, one if a reload is pending, else the counter plus two;
  `DueBFits` does so for timer B and says which timeout outlives its shot. Wrapping is
  what makes it more than bookkeeping: a counter passes zero without an event when the
  timer is spent, and the lemmas `ByteSplit`, `ByteJoin` and `CountDown` are about that
  arithmetic. `StepShape` reduces every step to one clock with one access.
  For the second it has `ToWrap`, the clocks to the wrap of the count, which is one less
  after every clock (`WrapStep`); `LineFits` says what the line was one and two clocks ago
  in terms of it, and `DueSFits` that the history agrees. The lengths are products of two
  constants; `Lengths` states once what the proof needs of them.
* `TypeCorrect`, `TimerACorrect`, `TimerBCorrect` and `SecondCorrect` from it. The last
  needs half a 60 Hz period to be longer than the two clocks of the VIA's edge detector.

`SdramBeat32Proofs` also has `RefreshKept`: no refresh request is lost to accesses,
if the period exceeds seven edges and power-up does not end in the one edge before a
request (neither 12100 nor 772 meets that edge). `RefreshDue` says how old a request
that waits can be: no older than the way of the controller back to idle, `ToIdle`, leaves
it; the one that waits for the end of power-up needs `TimerAge`, which ties the timer to
the power-up counter, and is the reason for the second hypothesis.

`Quadra800Proofs` proves, for every address map and every set of loads, `NoOrphanBeat`,
`OneOutcome`, `WalkerOnce`, `ReadExact` and `WriteExact`, all from `BusInv`. Splitter,
service, masters and targets move in the same step, so each conjunct ties one side's
registers to the other's: `Splitter` (the beat on the bus is the first or the tail of the
access that is held), `Outcome` (ack and fault are pulses that find their access),
`Selected`, `CpuBeat`, `WalkerBeat` (what the service works on belongs to the owner that
still holds it), `Returned` (which bytes are in the stream register) and `Progress` (how
much of a write is in the targets). The last two are what makes the exactness of data
inductive over a split access. What a write leaves behind also depends on where it goes:
ROM and open bus keep nothing, the DAFB's registers are written whole because its port has
no byte enables, and low memory is ROM or RAM by the overlay at the moment the beat is
taken. `Fate` ties the history of those moments (`shadowed`) to the target the service is
at.

`BlkDeviceProofs` proves `PortImplemented`, the refinement of `BlockPort` by the simulated
block device, for every latency, sector length, mount delay that is a multiple of the
number of disks, and set of blocks that has block 0 (the chip's and the device's address
after reset). `BlkInv` says in which phase of the handshake both sides are (`Mounting`,
`Idle`, `Agreed`), that the one delay, which mounts and transfers share, stands at one
exactly while the acknowledge is up (`Delayed`), and which word is on the port
(`Position`).

`IrqSystemProofs` proves `SoundExact` for every FIFO size, width of a write, sample rate
and distance of accesses, in mono and stereo, and, for a guest whose flag writes miss the
edges (`Coincide = FALSE`; with it the run `irq_edge` refutes it), `EdgeKept`. What is
played is right because of what the RAM holds, which depends on both pointers, on the
lanes of a write that are still on their way, and on the guest never writing more than
fits: `Order` ties pointers, levels and sample numbers, `Content` names every cell and
lane, `Room` says that the guest's remaining budget fits, `Drained` that the lanes are
stored before the next access, and `ReadPort` that the registered read is the next
sample when the sample clock takes it.

`AdbProofs` proves `MouseExact` for all packets whose deltas the clamp handles (`GoodX`,
`GoodY`), every driver, pace and interleaving of commands with packets: a tick keeps the
report, takes its event, or makes it new (`TickReport`), and the clamp's three cases on
bits are the nearest number of seven bits (`ClampXIs`, `ClampYIs`).

`ScsiProofs` proves of the sector buffer, for every driver and platform, that
`flush_pending` covers the platform's transfer from the request to its end (`FlushMark`),
also over a chip reset; that therefore, unless a synthesized response is being made, a
flush owns the buffer (`OnlyResponsesCollide`); and that `FlushOwnsBuffer` holds when no
command is answered with such a response (`FlushOwned`). So the collision that
`scsi_collide` finds has this one cause. `FlushOwnsBuffer` is not inductive: it needs
`FlushMarked`, that the mark and the strobes outlive their transfer by the clock in which
the fall of the acknowledge is noticed, and that no request is up in that clock. One
lemma per part of the chip's block shows that the part leaves the handshake alone.

`ScsiControlProofs` proves, for every command table (any CDB lengths that fit the FIFO,
dialects, blocks, chunks), FIFO depth, sector and response size, watchdog and platform,
and for every driver that does not reset the chip in mid-transfer (`Patient`; the run
`scsi_reset` shows what such a reset breaks):

* `DialogueKept`: the inductive invariant `DialogueInv`. Nothing about one register of
  the chip is inductive by itself: that a CDB is whole depends on the chip still
  collecting when the last byte comes, that on the phase, the phase on which interrupt
  the driver has taken, and that on where its script is. `Agree` therefore ties the two
  sides together: it is a disjunction of fourteen places (`Preparing`, `FeedingRom`,
  `Selecting`, `Receiving`, `Ending`, ...), each saying at which steps the driver may be
  and in which mode the chip is then (`Quiet`, `Collecting`, `Executing`, `Reading`,
  `Writing`, `Messaging`), with the phase, the pending interrupt, and in the select and
  command phases every byte that was sent (`Sent`, `Loaded`). `At` is the driver as the
  chip sees it: an access that was served is over, though the driver notices a clock
  later. `BusOk` says what the IOSB between them holds.
* The proof has three layers. The chip over one clock, mode by mode: lemmas from
  `QuietPlain` to `MessagingWait` say what one `Cycle` does in a mode with each access
  that the driver may make there, and what it leaves alone. The driver over one clock:
  `DriverMoves` reduces its seven actions and the IOSB's states to the relation `Moves`
  on `At`. And one lemma per place, `FromResting` to `FromPreparing`: a move from it
  leads to itself or to the next one.
* `CdbKept` (`CdbIntact`) and `TimeoutKept` (`TimeoutKeepsFifo`) follow from the place
  the driver is at when the chip executes, or when the probe is over.
* `LoadOwned` (`LoadOwnsBuffer`) needs one invariant more, `LoadInv`: from the request
  for a sector to its publication the phase is DATA IN and no response is being made,
  and a response is made in DATA IN only, with no block left to load. Every clock is
  `Paced`: it starts a load in DATA IN only, and leaves DATA IN only when no transfer
  is on its way. With `FlushMarked` that makes `LoadInv` inductive; and the engine
  drains into the buffer in mode `Writing` only, which `Agree` keeps out of DATA IN.

Only model-checked:

* all liveness (EveryBeatAcked, CpuServed, WalkerServed, CommandEnds, RequestServed,
  MountEnds, SoundGoesOn, VblServed, NoStorm, Served), which needs fairness;
* `HostExact` and `WriteLands` of `scsi`: beyond the place in the script they need the
  position of every byte of a block between disk, sector buffer, FIFO, pseudo-DMA latch
  and driver, and of blocks whose number has no bound; and `NoFalseFault`, which bounds
  the clocks a beat waits, a progress argument; and the three properties of
  `ScsiControlProofs` for a driver that resets the chip;
* `TalkExact`, `KeysConserved`, `CapsAgree` and `NoDeadWait` of `adb`: they depend on how
  the E period, the transceiver's divider, the driver's pace and the shift delays relate,
  for every position of the driver's program.

## 5. Not modelled

The reset of the running machine, `init` after power-up, the second SDRAM chip and
the copy port of `sdram.sv`; in the 53C96 the configuration registers, `seq_step`,
the mount pulse, NOP, SCSI bus reset and the ATN and selection-enable commands; in
`iosb.sv` the configuration registers and the SCC's bus states; the VIA's handshake
outputs, input latches and the shift modes that VIA1 does not use; the EASC's
wavetable mode and volumes; DAFB beyond its vertical blank; SCC, RTC, the top level,
the CPU wrapper (the core's stall watchdog, which may give up on an access that the
service still completes, is in a submodule that is not in the tree). `PROJECT.json` lists each component with its reason.

The machine itself is SystemVerilog. What C and C++ there is in the repository is
almost all third-party: the JSON library of `src/SingleStepTests`, Dear ImGui with
ImPlot and its back ends under `src/verilator/sim`, and the vendored framework. They
have no state the machine depends on and are left out. The one piece of it that takes
part in the machine's protocols is the simulated block device, which is modelled
whole, with the part of `sim_main.cpp` that clocks it; the rest of `sim_main.cpp` is
tracing, screenshots, scripted mouse packets (the `adb` run lets a packet come at any
tick) and command line options. The key queue of `sim_input.cpp` is not connected
(`sim_main.cpp` never sets its `ps2_key`), and `sim_serial.cpp` is not built. So only a small share of the C and C++
lines is, or could faithfully be, modelled.

## 6. Plan

1. Done: SDRAM with its abstract memory and proofs; bus splitter and beat service;
   53C96, pseudo-DMA and disk end to end; VIA1's shift register, the shim and ADB;
   the pseudo-VIA, sound and vertical blank; VIA1's timers and flags with proofs; the
   simulated block device with its abstract port.
2. Done: the theorems of section 4. Next: the invariant of one ADB transaction (driver
   position, shift timer, transceiver), for `TalkExact` and `KeysConserved`; then, on top
   of `DialogueInv`, the position of each byte of a block, for `HostExact` and
   `WriteLands`.
3. `Rtc3430042` behind port B and the `Scc` register pointer and receive FIFO.
4. The top level: mount replay over machine resets, ROM reader, VRAM beats, and the
   reset of the machine as an action of `SdramBeat32`.
