----------------------------- MODULE ScsiSystem -----------------------------
(***************************************************************************)
(* The disk path end to end: a driver (external: CPU and its software) on   *)
(* the IOSB bus, the 53C96 of ncr53c96.sv with its sector buffer, and the   *)
(* platform's block device (external: hps_io and the HPS), all on the same  *)
(* clock.  A step is one clock: the chip and the IOSB do what their code    *)
(* says, the driver and the platform choose to move or to wait.             *)
(*                                                                          *)
(* The driver speaks the dialects tb_ncr53c96.sv names: the ROM's DMA       *)
(* select with the last CDB byte through pseudo-DMA, the Unix FIFO preload  *)
(* with IDENTIFY, and the select that stops to negotiate.  It moves data by *)
(* pseudo-DMA chunks or by non-DMA transfers.                               *)
(***************************************************************************)
EXTENDS Ncr53c96, IosbSdma, SequencesExt

CONSTANTS
    Blocks,       \* the blocks of the disk, 0..n
    SlowTransfer, \* the platform may stall inside a transfer, ack up
    Menus         \* the drivers: the commands one picks from, how many it issues,
                  \* and whether it may reset the chip while it waits

VARIABLES
    chip,    \* the registers of ncr53c96
    sbuf,    \* its sector buffer, ncr_sbuf
    iosb,    \* the IOSB bus interface
    cpu,     \* the driver: what it has to do and what it got
    plat,    \* the block device: the transfer in progress
    disk,    \* the blocks as the platform has them
    image    \* the blocks as the finished commands left them

vars == <<chip, sbuf, iosb, cpu, plat, disk, image>>

ASSUME DriverAssumption ==
    /\ SlowTransfer \in BOOLEAN
    /\ \A m \in Menus : /\ m.picks \subseteq DOMAIN Commands
                        /\ m.limit \in Nat /\ m.impatient \in BOOLEAN
    /\ \A k \in DOMAIN Commands :
          /\ Commands[k].dialect \in {"rom", "unix", "negotiate"}
          /\ Commands[k].mode \in {"dma", "pio"} /\ Commands[k].chunk \in Nat \ {0}
          /\ Commands[k].present \/ Commands[k].dialect = "unix"
          /\ \A b \in 0..(Commands[k].blocks - 1) : Commands[k].lba + b \in Blocks

Bytes == 0..(SECTOR - 1)

-----------------------------------------------------------------------------
(* Requests, and the data of a command *)

Write(rs, val) == [op |-> "write", rs |-> rs, val |-> val, dmabit |-> FALSE]

Command(c, dma) == [op |-> "write", rs |-> "CMD", val |-> c, dmabit |-> dma]

Read(rs) == [op |-> "read", rs |-> rs, val |-> 0, dmabit |-> FALSE]

PdmaIn(n) == [op |-> "pdma_rd", rs |-> "", val |-> n, dmabit |-> FALSE]

PdmaOut(bytes) == [op |-> "pdma_wr", rs |-> "", val |-> bytes, dmabit |-> FALSE]

NoAccess == [op |-> "none", rs |-> "", val |-> 0, dmabit |-> FALSE]

AwaitIrq == [op |-> "irq", rs |-> "", val |-> 0, dmabit |-> FALSE]

CdbBytes(k) == [j \in 1..Commands[k].len |-> <<"cmd", k, j - 1>>]

\* The bytes of a command's data phase, as the finished commands left things.
DataIn(k, key) ==
    LET c == Commands[k]
    IN  IF c.op = "READ"
        THEN [j \in 1..(c.blocks * SECTOR) |->
                image[c.lba + (j - 1) \div SECTOR][(j - 1) % SECTOR]]
        ELSE IF c.op \in Responses
        THEN [j \in 1..SYNTH |-> <<"s", Kind(c.op, key), j - 1>>]
        ELSE <<>>

AtMost(a, b) == IF a < b THEN a ELSE b

-----------------------------------------------------------------------------
(* The driver.  What it is doing is a script of steps: an access of the chip, a  *)
(* loop of them with left bytes to go, or waiting for the interrupt.             *)

CpuInit(menu) ==
    [menu |-> menu, state |-> "idle", k |-> 0, n |-> 0, doing |-> "", step |-> "end", left |-> 0,
     req |-> FALSE, phase |-> "", isr |-> {}, got |-> <<>>, sent |-> 0, status |-> "", flags |-> 0,
     key |-> 0, late |-> FALSE]

Current == Commands[cpu.k]

Left(k) == Len(DataIn(k, cpu.key)) - Len(cpu.got)

\* IDENTIFY goes before the CDB, the data of a WRITE after it.
NextByte ==
    IF cpu.doing = "message_out" THEN Extended
    ELSE IF cpu.doing = "out" THEN <<"w", cpu.n, cpu.sent>>
    ELSE IF cpu.left > Current.len THEN Identify
    ELSE <<"cmd", cpu.k, Current.len - cpu.left>>

SelectCommand ==
    IF Current.dialect = "rom" THEN Command("SELNATN", TRUE)
    ELSE Command(IF Current.dialect = "unix" THEN "SELATN" ELSE "SELATNS", FALSE)

\* A transfer by pseudo-DMA, or byte by byte.
TransferCommand ==
    Command("TI", \/ cpu.doing = "select"
                  \/ cpu.doing = "in" /\ cpu.left > 0
                  \/ cpu.doing = "out" /\ Current.mode = "dma")

\* The accesses that are the same in every script.
Fixed ==
    [flush |-> Command("FLUSH", FALSE), stat |-> Read("STAT"), isr |-> Read("ISR"),
     fetch |-> Read("FIFO"), message |-> Read("FIFO"), flags |-> Read("FLAGS"),
     iccs |-> Command("ICCS", FALSE), accept |-> Command("MSGACC", FALSE),
     reset |-> Command("RESET", FALSE), irq |-> AwaitIrq, end |-> AwaitIrq]

Request ==
    IF cpu.step \in DOMAIN Fixed THEN Fixed[cpu.step]
    ELSE IF cpu.step = "dest" THEN Write("DEST", Current.present)
    ELSE IF cpu.step = "count" THEN Write("TC", IF cpu.doing = "select" THEN 1 ELSE Current.chunk)
    ELSE IF cpu.step = "select" THEN SelectCommand
    ELSE IF cpu.step = "transfer" THEN TransferCommand
    ELSE IF cpu.step = "push" THEN Write("FIFO", NextByte)
    ELSE IF cpu.step = "last" THEN PdmaOut(<<NextByte>>)
    ELSE IF cpu.doing = "in" THEN PdmaIn(2)
    ELSE PdmaOut(<< <<"w", cpu.n, cpu.sent>>, <<"w", cpu.n, cpu.sent + 1>> >>)

\* The step after an access: the ROM selects first, then feeds the CDB, its last byte
\* by pseudo-DMA; the others select with the CDB in the FIFO.  After each interrupt
\* the phase is read before the interrupt register.
NextStep ==
    IF cpu.step = "dest" THEN "flush"
    ELSE IF cpu.step = "flush"
    THEN IF cpu.doing = "select" /\ Current.dialect = "rom" THEN "count" ELSE "push"
    ELSE IF cpu.step = "count" THEN IF cpu.doing = "select" THEN "select" ELSE "transfer"
    ELSE IF cpu.step = "select" THEN IF Current.dialect = "rom" THEN "transfer" ELSE "irq"
    ELSE IF cpu.step = "transfer"
    THEN IF cpu.doing = "select" THEN "push" ELSE IF cpu.left >= 2 THEN "beat" ELSE "irq"
    ELSE IF cpu.step = "push"
    THEN IF cpu.doing = "select" /\ Current.dialect = "rom" /\ cpu.left = 2 THEN "last"
         ELSE IF cpu.left > 1 THEN "push"
         ELSE IF cpu.doing = "select" THEN "select"
         ELSE IF cpu.doing = "command" THEN "irq" ELSE "transfer"
    ELSE IF cpu.step = "beat" THEN IF cpu.left >= 4 THEN "beat" ELSE "irq"
    ELSE IF cpu.step = "stat" THEN "isr"
    ELSE IF cpu.step = "isr"
    THEN IF \/ cpu.doing \in {"status", "message_in"}
            \/ cpu.doing = "in" /\ Current.mode = "pio" /\ Left(cpu.k) > 0
         THEN "fetch" ELSE "end"
    ELSE IF cpu.step = "fetch"
    THEN IF cpu.doing = "in" THEN "end" ELSE IF cpu.doing = "status" THEN "message" ELSE "accept"
    ELSE IF cpu.step = "message" THEN "accept"
    ELSE IF cpu.step \in {"flags", "reset"} THEN "end"
    ELSE "irq"

\* The bytes an access takes off the script.
Taken == IF cpu.step \in {"push", "last"} THEN 1 ELSE IF cpu.step = "beat" THEN 2 ELSE 0

\* A load is on its way: requested, under way, or over and not yet noticed.
LoadInFlight == (chip.io_rd \/ plat.ack \/ chip.io_ack_d) /\ ~chip.flush_pending

\* History: late says that the command was begun with such a load on its way, which
\* only a chip reset can leave behind.
CpuPick ==
    /\ cpu.state = "idle" /\ cpu.step = "end" /\ cpu.n < cpu.menu.limit
    /\ \E k \in cpu.menu.picks :
          cpu' = [cpu EXCEPT !.state = "run", !.k = k, !.n = @ + 1, !.doing = "select",
                             !.step = "dest",
                             !.left = Commands[k].len + (IF Commands[k].dialect = "rom" THEN 0 ELSE 1),
                             !.got = <<>>, !.sent = 0, !.status = "", !.late = LoadInFlight]
    /\ UNCHANGED image

CpuRaise ==
    /\ cpu.step # "end" /\ ~cpu.req
    /\ IF cpu.step = "irq"
       THEN chip.irq /\ cpu' = [cpu EXCEPT !.step = "stat"]
       ELSE cpu' = [cpu EXCEPT !.req = TRUE]
    /\ UNCHANGED image

\* The access is acked: keep what was read.
CpuDone ==
    /\ cpu.req /\ iosb.ack
    /\ cpu' = [cpu EXCEPT
                  !.req = FALSE, !.step = NextStep, !.left = @ - Taken,
                  !.doing = IF cpu.step = "accept" THEN "accept" ELSE @,
                  !.sent = IF cpu.doing = "out" THEN @ + Taken ELSE @,
                  !.phase = IF cpu.step = "stat" THEN iosb.rdata[1] ELSE @,
                  !.isr = IF cpu.step = "isr" THEN iosb.rdata[1] ELSE @,
                  !.flags = IF cpu.step = "flags" THEN iosb.rdata[1] ELSE @,
                  !.status = IF cpu.step = "fetch" /\ cpu.doing = "status"
                             THEN iosb.rdata[1][1] ELSE @,
                  !.got = IF cpu.doing = "in" /\ cpu.step \in {"fetch", "beat"}
                          THEN @ \o iosb.rdata ELSE @]
    /\ UNCHANGED image

Begin(doing, step, left) ==
    cpu' = [cpu EXCEPT !.doing = doing, !.step = step, !.left = left]

\* The phases of a transfer, by pseudo-DMA with the counter set first or byte by byte.
BeginIn ==
    LET left == IF Current.mode = "dma" THEN AtMost(Current.chunk, Left(cpu.k)) ELSE 0
    IN  Begin("in", IF left > 0 THEN "count" ELSE "transfer", left)

BeginOut ==
    LET left == AtMost(Current.chunk, Current.blocks * SECTOR - cpu.sent)
    IN  Begin("out", IF Current.mode = "dma" THEN "count"
                     ELSE IF left > 0 THEN "push" ELSE "transfer", left)

\* An interrupt has been serviced: the phase says what the target wants.  The sync
\* negotiation is turned down, then the command goes out.
CpuDecide ==
    /\ cpu.state = "run" /\ cpu.step = "end"
    /\ \/ /\ "DISC" \in cpu.isr
          /\ cpu' = [cpu EXCEPT !.state = "absent", !.doing = "probe", !.step = "flags"]
       \/ "DISC" \notin cpu.isr /\ cpu.phase = "DIN" /\ BeginIn
       \/ "DISC" \notin cpu.isr /\ cpu.phase = "DOUT" /\ Current.op = "WRITE" /\ BeginOut
       \/ /\ "DISC" \notin cpu.isr /\ cpu.phase = "STAT"
          /\ cpu' = [cpu EXCEPT !.state = "finish", !.doing = "status", !.step = "iccs"]
       \/ "DISC" \notin cpu.isr /\ cpu.phase = "MOUT" /\ Begin("message_out", "flush", 1)
       \/ "DISC" \notin cpu.isr /\ cpu.phase = "MIN" /\ Begin("message_in", "transfer", 0)
       \/ "DISC" \notin cpu.isr /\ cpu.phase = "CMD" /\ Begin("command", "flush", Current.len)
    /\ UNCHANGED image

\* The nexus is over: what was written counts, and the sense key is remembered.
CpuFinish ==
    /\ cpu.state \in {"finish", "absent"} /\ cpu.step = "end"
    /\ cpu' = [cpu EXCEPT !.state = "idle",
                          !.key = IF cpu.state = "absent" THEN @
                                  ELSE IF Current.op = "BAD" THEN 1
                                  ELSE IF Current.op = "SENSE" THEN 0 ELSE @]
    /\ image' = IF cpu.state = "finish" /\ Current.op = "WRITE"
                THEN [b \in Blocks |->
                        IF b \in Current.lba..(Current.lba + Current.blocks - 1)
                        THEN [j \in Bytes |-> <<"w", cpu.n, (b - Current.lba) * SECTOR + j>>]
                        ELSE image[b]]
                ELSE image

\* A driver whose data transfer timed out resets the chip and drops the command.
CpuGiveUp ==
    /\ cpu.menu.impatient /\ cpu.doing = "in" /\ cpu.step = "irq" /\ ~chip.irq
    /\ cpu' = [cpu EXCEPT !.state = "idle", !.doing = "reset", !.step = "reset", !.left = 0,
                          !.key = IF Current.op = "SENSE" THEN 0 ELSE @]
    /\ UNCHANGED image

\* The request drops with its ack (quadra800.sv, S_IOSB); anything else may wait.
CpuHold == ~(cpu.req /\ iosb.ack) /\ UNCHANGED <<cpu, image>>

CpuMoves == CpuPick \/ CpuRaise \/ CpuDone \/ CpuDecide \/ CpuFinish \/ CpuGiveUp

-----------------------------------------------------------------------------
(* The block device *)

PlatInit == [ack |-> FALSE, load |-> FALSE, lba |-> 0, w |-> 0]

PlatAccept ==
    /\ ~plat.ack /\ (chip.io_rd \/ chip.io_wr)
    /\ plat' = [ack |-> TRUE, load |-> chip.io_rd, lba |-> chip.io_lba, w |-> 0]
    /\ UNCHANGED disk

\* A word through port S: into the buffer, or out of it onto the disk.  The ack may
\* fall with the last one (the simulation's device, BlkDevice) or later.
PlatMove ==
    /\ plat.ack /\ plat.w < SECTOR
    /\ \/ plat' = [plat EXCEPT !.w = @ + 2]
       \/ plat.w + 2 = SECTOR /\ plat' = PlatInit
    /\ disk' = IF plat.load THEN disk
               ELSE [disk EXCEPT ![plat.lba] =
                        [j \in Bytes |-> IF j \in {plat.w, plat.w + 1} THEN sbuf[j] ELSE @[j]]]

PlatDone ==
    /\ plat.ack /\ plat.w = SECTOR
    /\ plat' = PlatInit
    /\ UNCHANGED disk

PlatHold ==
    /\ ~plat.ack \/ SlowTransfer
    /\ UNCHANGED <<plat, disk>>

PlatMoves == PlatAccept \/ PlatMove \/ PlatDone

-----------------------------------------------------------------------------
(* The clocked logic *)

Strobe == scsi_strobe(iosb, cpu.req, Request)

ChipInput ==
    LET access == IF Strobe THEN Request ELSE NoAccess
    IN  [op |-> access.op, rs |-> access.rs, val |-> access.val, dmabit |-> access.dmabit,
         dma       |-> iosb.sdma,
         dma_wdata |-> IF iosb.sdma = "wr" THEN Head(iosb.data) ELSE Zero,
         io_ack    |-> plat.ack]

ChipBlock == chip' = Cycle(chip, ChipInput, sbuf)

\* Port E, then port S: a load's word is the last to be stored.
SbufBlock ==
    sbuf' = LET e == WriteE(chip, ChipInput, sbuf)
            IN  IF plat.ack /\ plat.load /\ plat.w < SECTOR /\ plat' # plat
                THEN [j \in Bytes |-> IF j \in {plat.w, plat.w + 1}
                                      THEN disk[plat.lba][j] ELSE e[j]]
                ELSE e

IosbBlock ==
    iosb' = IosbCycle(iosb, cpu.req, IF cpu.req THEN Request ELSE AwaitIrq,
                      IF Strobe /\ Request.op = "read" THEN rdata(chip, Request.rs) ELSE Zero,
                      chip.dma_valid, chip.dma_rlatch, chip.io_rd, chip.io_wr)

Init ==
    /\ chip = ChipInit
    /\ sbuf = [j \in Bytes |-> Zero]
    /\ iosb = IosbInit
    /\ \E menu \in Menus : cpu = CpuInit(menu)
    /\ plat = PlatInit
    /\ disk = [b \in Blocks |-> [j \in Bytes |-> <<"d", b, j>>]]
    /\ image = disk

Machine == ChipBlock /\ IosbBlock /\ SbufBlock

Next == (CpuMoves \/ CpuHold) /\ (PlatMoves \/ PlatHold) /\ Machine

Spec == Init /\ [][Next]_vars

\* The clock runs, the driver goes on and the platform serves its requests.
FairSpec == Spec /\ WF_vars(Next) /\ WF_<<cpu, image>>(CpuMoves) /\ WF_<<plat, disk>>(PlatMoves)

-----------------------------------------------------------------------------
(* Properties *)

\* What the driver reads is what the disk holds, byte for byte and in order, with
\* everything earlier commands wrote, whether it comes by pseudo-DMA chunks or one
\* byte at a time; a response comes from its own command, sense data reports the
\* last failure once, and a finished command has moved all of its data; also after a
\* chip reset in mid-transfer.  Excepted is a command begun while the load of a READ
\* that was reset away is still on its way (late): the reset keeps io_rd and the
\* transfer, and the late end of that load publishes the old block as the new
\* command's data (ncr53c96.sv:482-495, 792-802).
HostExact ==
    (cpu.state \in {"run", "finish"} /\ ~cpu.late)
        => LET all == DataIn(cpu.k, cpu.key)
           IN  /\ IsPrefix(cpu.got, all)
               /\ (cpu.state = "finish" /\ cpu.step = "end")
                     => /\ cpu.got = all
                        /\ cpu.status = (IF Commands[cpu.k].op = "BAD" THEN "check" ELSE "good")

\* Once the buffer is quiet, the disk holds every block of every finished WRITE
\* whole, and nothing else changed: the status phase comes before the last sector
\* is on the disk, and no later command may reach into it.
WriteLands ==
    (cpu.state = "idle" /\ ~io_busy(chip, ChipInput) /\ ~chip.flush_pending) => disk = image

\* The target runs the CDB the driver sent, none of its bytes lost or overtaken on
\* the way through the FIFO and the pseudo-DMA port.
CdbIntact ==
    chip.exec_pending => SubSeq(chip.cdb, 1, Commands[cpu.k].len) = CdbBytes(cpu.k)

\* A beat the chip will serve is never released as a bus error, however long the
\* platform takes to accept a block request (iosb.sv:1207-1216).
NoFalseFault == ~iosb.sdma_fault

\* An empty SCSI ID leaves in the FIFO all the bytes the driver preloaded, the
\* count it compares (ncr53c96.sv:832-852).
TimeoutKeepsFifo ==
    (cpu.state = "absent" /\ cpu.step = "end") => cpu.flags = Commands[cpu.k].len + 1

\* "loads run only during io_rd service of read commands; drain and synth writes
\* only outside them" (ncr53c96.sv:1052-1053).
LoadOwnsBuffer == (plat.ack /\ plat.load) => ~we_e(chip, ChipInput)

\* "mixed-port read-during-write collisions are excluded by buf_valid/flush_pending
\* gating in the engine" (ncr53c96.sv:1053-1055).
FlushOwnsBuffer == (plat.ack /\ ~plat.load) => ~we_e(chip, ChipInput)

\* Every command a patient driver starts comes to its end: no interrupt is lost and no
\* part waits for another forever.  (A driver that aborts may meet the load the reset
\* left in flight, see LoadOwnsBuffer.)
CommandEnds == (cpu.state = "run" /\ ~cpu.menu.impatient) ~> (cpu.state = "idle")

=============================================================================
