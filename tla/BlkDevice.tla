----------------------------- MODULE BlkDevice ------------------------------
(***************************************************************************)
(* verilator/sim/sim_blkdevice.cpp: the block device that the simulation    *)
(* puts in the place of the platform, with the block handshake of           *)
(* ncr53c96.sv as its client.  A step is one rising edge of clk_sys in      *)
(* sim_main.cpp: BeforeEval on what the chip shows, then the chip's clock   *)
(* on what BeforeEval left.  The state is the one between the two, so that  *)
(* a step is the chip's edge followed by the next BeforeEval.               *)
(***************************************************************************)
EXTENDS Integers

CONSTANTS
    kVDNUM,     \* the disks the loop visits (10)
    WORDS,      \* words of a block, kBLKSZ / 2 (256)
    MOUNT,      \* the delay of a mount (1200)
    BOOT,       \* cycles before the device looks at anything (2000)
    Latencies,  \* the values of +blkdev_latency (16000)
    LBAs, Fillings

ASSUME BlkAssumption ==
    /\ kVDNUM \in Nat \ {0} /\ WORDS \in Nat /\ WORDS > 1
    /\ MOUNT \in Nat \ {0} /\ MOUNT % kVDNUM = 0
    /\ BOOT \in Nat /\ Latencies \subseteq Nat \ {0}
    /\ 0 \in LBAs

Unit == 0   \* the disk that is wired, sd_lba[0]

Sector == 0..(WORDS - 1)

\* A sector of words that name where they were first, and which they are.
Filled(tag, l) == [j \in Sector |-> <<tag, l, j>>]

VARIABLES
    dev,     \* SimBlockDevice with its image file, and the signals it drives
    chip,    \* the client: strobes, sector buffer and its read port
    cycles,  \* main_time, up to BOOT
    latency  \* blkdev_read_latency()

vars == <<dev, chip, cycles, latency>>

-----------------------------------------------------------------------------
(* BeforeEval: the pass of its loop for the wired disk *)

DevInit ==
    [current_disk |-> -1, ack_delay |-> 0, reading |-> FALSE, writing |-> FALSE, bytecnt |-> 0,
     mountQueue |-> {Unit}, img_mounted |-> {}, sd_ack |-> {},
     sd_buff_wr |-> FALSE, sd_buff_addr |-> 0, sd_buff_dout |-> <<"power-up", 0, 0>>, at |-> 0,
     disk |-> [l \in LBAs |-> Filled("disk", l)]]

Busy(s) == s.reading \/ s.writing

\* A load's word: its strobe is up every second tick.
LoadWord(s) ==
    [s EXCEPT !.sd_buff_dout = s.disk[s.at][s.bytecnt], !.bytecnt = @ + 1,
              !.sd_buff_addr = s.bytecnt, !.sd_buff_wr = TRUE]

\* Faulty variant of FlushWord: the address of the word it takes, not of the next one.
FlushWordBehind(s, c) ==
    [s EXCEPT !.disk[s.at][s.bytecnt] = c.q_s, !.bytecnt = @ + 1, !.sd_buff_addr = s.bytecnt]

\* A flush's word: what the read port shows; the next address is driven.
FlushWord(s, c) ==
    [s EXCEPT !.disk[s.at][s.bytecnt] = c.q_s, !.bytecnt = @ + 1,
              !.sd_buff_addr = (s.bytecnt + 1) % WORDS]

\* Faulty variant of LoadPause: the test for the last word is off by one.
LoadPauseOver(s) == [s EXCEPT !.sd_buff_wr = FALSE, !.reading = @ /\ s.bytecnt <= WORDS]

\* The tick between two words of a load, or after its last.
LoadPause(s) == [s EXCEPT !.sd_buff_wr = FALSE, !.reading = @ /\ s.bytecnt < WORDS]

SendData(s, c) ==
    IF s.current_disk # Unit THEN s
    ELSE IF s.ack_delay # 1 THEN [s EXCEPT !.sd_buff_wr = FALSE]
    ELSE IF s.reading /\ ~s.sd_buff_wr /\ s.bytecnt < WORDS THEN LoadWord(s)
    ELSE IF s.writing /\ s.bytecnt < WORDS THEN FlushWord(s, c)
    ELSE IF s.writing THEN [s EXCEPT !.sd_buff_addr = 0, !.writing = FALSE]
    ELSE LoadPause(s)

\* Faulty variant of MountStep: the delay of a mount is not a multiple of the loop.
MountStepLonger(s) ==
    IF ~Busy(s) /\ Unit \in s.mountQueue /\ s.img_mounted = {}
    THEN [s EXCEPT !.mountQueue = @ \ {Unit}, !.img_mounted = @ \cup {Unit}, !.ack_delay = MOUNT + 1]
    ELSE IF s.ack_delay = 1 /\ Unit \in s.img_mounted
    THEN [s EXCEPT !.img_mounted = @ \ {Unit}]
    ELSE IF ~Busy(s) /\ s.ack_delay > 0 THEN [s EXCEPT !.ack_delay = @ - 1] ELSE s

\* A queued mount, the end of one, or one tick of the delay: every pass of the loop
\* counts when nothing is transferred.
MountStep(s) ==
    IF ~Busy(s) /\ Unit \in s.mountQueue /\ s.img_mounted = {}
    THEN [s EXCEPT !.mountQueue = @ \ {Unit}, !.img_mounted = @ \cup {Unit}, !.ack_delay = MOUNT]
    ELSE IF s.ack_delay = 1 /\ Unit \in s.img_mounted
    THEN [s EXCEPT !.img_mounted = @ \ {Unit}]
    ELSE IF ~Busy(s) /\ s.ack_delay > 0 THEN [s EXCEPT !.ack_delay = @ - 1] ELSE s

\* A request makes its disk the current one, and starts when no delay runs.
Accept(s, c) ==
    LET mine == s.current_disk \in {-1, Unit} /\ (c.io_rd \/ c.io_wr)
    IN  IF ~mine THEN s
        ELSE IF s.ack_delay # 0 THEN [s EXCEPT !.current_disk = Unit]
        ELSE [s EXCEPT !.current_disk = Unit, !.reading = @ \/ c.io_rd, !.writing = @ \/ c.io_wr,
                       !.at = c.io_lba, !.bytecnt = 0, !.sd_buff_addr = 0, !.ack_delay = latency]

Acknowledge(s) ==
    IF s.current_disk # Unit THEN s
    ELSE LET delay == IF s.ack_delay > 1 \/ (s.ack_delay = 1 /\ ~Busy(s)) THEN s.ack_delay - 1
                      ELSE s.ack_delay
         IN  [s EXCEPT !.sd_ack = IF s.ack_delay = 1 THEN @ \cup {Unit} ELSE @ \ {Unit},
                       !.ack_delay = delay,
                       !.current_disk = IF delay = 0 /\ ~Busy(s) THEN -1 ELSE @]

\* The passes of the disks that are not wired only count the delay.
OtherPasses(s) ==
    IF Busy(s) THEN s
    ELSE [s EXCEPT !.ack_delay = IF @ > kVDNUM - 1 THEN @ - (kVDNUM - 1) ELSE 0]

\* BeforeEval in the order of its code; nothing before the computer boots.
BeforeEval(c) ==
    dev' = IF cycles < BOOT THEN dev
           ELSE OtherPasses(Acknowledge(Accept(MountStep(SendData(dev, c)), c)))

-----------------------------------------------------------------------------
(* The chip's side of the handshake, ncr53c96.sv *)

ChipInit ==
    [io_rd |-> FALSE, io_wr |-> FALSE, io_ack_d |-> FALSE, io_lba |-> 0, op |-> "rd",
     mounted |-> FALSE, sbuf |-> Filled("power-up", 0), q_s |-> <<"power-up", 0, 0>>]

io_busy == chip.io_rd \/ chip.io_wr \/ Unit \in dev.sd_ack \/ chip.io_ack_d

\* An edge on which the engine asks for nothing: the strobes fall with the acknowledge,
\* port S stores and reads.
Edge ==
    [chip EXCEPT
        !.io_rd = @ /\ Unit \notin dev.sd_ack, !.io_wr = @ /\ Unit \notin dev.sd_ack,
        !.io_ack_d = Unit \in dev.sd_ack,
        !.mounted = @ \/ Unit \in dev.img_mounted,
        !.sbuf = IF dev.sd_buff_wr THEN [@ EXCEPT ![dev.sd_buff_addr] = dev.sd_buff_dout] ELSE @,
        !.q_s = chip.sbuf[dev.sd_buff_addr]]

\* The guest reaches for the disk after the mount is over.
Free == ~io_busy /\ chip.mounted /\ dev.img_mounted = {} /\ dev.ack_delay = 0

\* The device's pass over what the chip shows after its edge.
Device(c) ==
    /\ BeforeEval(c)
    /\ chip' = c
    /\ cycles' = IF cycles < BOOT THEN cycles + 1 ELSE cycles
    /\ UNCHANGED latency

Load == Free /\ \E l \in LBAs : Device([Edge EXCEPT !.io_rd = TRUE, !.io_lba = l, !.op = "rd"])

Flush ==
    /\ Free
    /\ \E l \in LBAs, tag \in Fillings :
          Device([Edge EXCEPT !.io_wr = TRUE, !.io_lba = l, !.op = "wr", !.sbuf = Filled(tag, 0)])

Tick == Device(Edge)

Init ==
    /\ dev = DevInit /\ chip = ChipInit /\ cycles = 0
    /\ latency \in Latencies

Next == Load \/ Flush \/ Tick

Spec == Init /\ [][Next]_vars

\* The simulation loop calls BeforeEval on every rising edge.
FairSpec == Spec /\ WF_vars(Tick)

-----------------------------------------------------------------------------
(* Properties *)

InTransfer == chip.io_rd \/ chip.io_wr \/ Unit \in dev.sd_ack

WordsMoved ==
    IF dev.reading /\ InTransfer THEN dev.bytecnt - (IF dev.sd_buff_wr THEN 1 ELSE 0)
    ELSE IF dev.writing THEN dev.bytecnt ELSE 0

Port == INSTANCE BlockPort WITH
    op <- IF InTransfer THEN chip.op ELSE "none", lba <- chip.io_lba,
    ack <- Unit \in dev.sd_ack, w <- WordsMoved, buf <- chip.sbuf, disk <- dev.disk

\* The simulated device keeps the contract of the block port: for every latency, a
\* request is acknowledged, each word of its sector moves once and in order, a load's
\* last word is in the buffer and a flush's last word in the file when the acknowledge
\* falls, and nothing else changes (sim_blkdevice.cpp:95-137, 155-191).
ImplementsPort == Port!Spec

\* Every request is acknowledged and every acknowledge ends, for every latency: the
\* chip's io_busy would otherwise hold the engine for good (sim_blkdevice.cpp:179-191).
RequestServed == InTransfer ~> ~InTransfer

\* The chip sees the disk mounted once, and the mount ends: the delay is counted by all
\* passes of the loop and has to be one when the mounted disk's turn comes
\* (sim_blkdevice.cpp:139-153).
MountEnds == <>[](chip.mounted /\ dev.img_mounted = {})

=============================================================================
