------------------------------ MODULE Ncr53c96 ------------------------------
(***************************************************************************)
(* rtl/ncr53c96.sv: the SCSI controller with its integrated disk target.    *)
(*                                                                          *)
(* The chip is one clocked block in which every condition reads the         *)
(* registers s from before the edge, with the inputs i of the cycle, and    *)
(* the last assignment to a register wins.  Each part of the block is an    *)
(* operator from the registers n assigned so far to the next n, and Cycle   *)
(* applies the parts in the order of the source.                            *)
(*                                                                          *)
(* Bytes are triples that say what they are: <<"cmd", k, 0>> is the opcode  *)
(* byte of command k (the record Commands[k] stands for the fields of the   *)
(* CDB), <<"s", kind, n>> byte n of a synthesized response, <<"d", lba, n>> *)
(* byte n of a block as it was, <<"w", c, n>> byte n written by command c.  *)
(* The registers that only hold what the driver wrote, the sequence step,   *)
(* the mount pulse and commands 00, 03, 44, 45, 1A, 1B are left out.        *)
(***************************************************************************)
EXTENDS Integers, Sequences

CONSTANTS
    SECTOR,      \* bytes per block (512)
    FIFO,        \* FIFO depth (16)
    SYNTH,       \* bytes of a synthesized response (4 to 36)
    Commands     \* the CDBs: a sequence of [op, lba, blocks, len]

ASSUME ChipAssumption ==
    /\ SECTOR \in Nat \ {0} /\ SECTOR % 2 = 0
    /\ FIFO \in Nat /\ FIFO >= 3
    /\ SYNTH \in 1..SECTOR
    /\ \A k \in DOMAIN Commands :
          /\ Commands[k].op \in {"TUR", "SENSE", "INQ", "MODE", "CAP", "READ", "WRITE", "BAD"}
          /\ Commands[k].lba \in Nat /\ Commands[k].blocks \in Nat
          /\ Commands[k].len \in 2..(FIFO - 1)

\* The byte $00, the byte of an empty FIFO, and the messages.
Zero == <<"00", 0, 0>>

Idle == <<"FF", 0, 0>>

Identify == <<"identify", 0, 0>>

Extended == <<"01", 0, 0>>

MessageReject == <<"07", 0, 0>>

\* What an opcode the target does not know amounts to (group 0: six bytes).
NoCommand == [op |-> "BAD", lba |-> 0, blocks |-> 0, len |-> 2]

\* synth_kind as it shows in the bytes; REQUEST SENSE also carries the key.
Kind(op, key) ==
    CASE op = "INQ" -> 1 [] op = "MODE" -> 2 [] op = "CAP" -> 3
      [] op = "SENSE" -> 4 + key

ChipInit ==
    [tc_latch |-> 0, tcounter |-> 0, tc_zero |-> FALSE, fifo |-> <<>>, phase |-> "DOUT",
     istatus |-> {}, irq |-> FALSE, dma_active |-> FALSE, dest_ok |-> TRUE,
     cdb_active |-> FALSE, cdb |-> <<>>, skip_cnt |-> 0,
     xfer_msg_out |-> FALSE, msg_first |-> Zero, msg_first_seen |-> FALSE, msgin_reject |-> FALSE,
     exec_pending |-> FALSE, xfer_in |-> FALSE, xfer_out |-> FALSE, xfer_pio_in |-> FALSE,
     xfer_pio_out |-> FALSE, chunk_irq_armed |-> FALSE,
     lba |-> 0, blocks_left |-> 0, sbuf_len |-> 0, sbuf_pos |-> 0, data_dir_in |-> FALSE,
     scsi_status |-> "good", sense_key |-> 0, buf_valid |-> FALSE, flush_pending |-> FALSE,
     io_ack_d |-> FALSE, io_lba |-> 0, io_rd |-> FALSE, io_wr |-> FALSE,
     synth_kind |-> 0, synth_idx |-> 0, synth_len |-> 0,
     dma_valid |-> FALSE, dma_rlatch |-> Zero,
     q_e |-> <<Zero, Zero>>, eq_addr |-> 0, eq_wr |-> FALSE,
     i_new |-> {}]

rdata(s, rs) ==
    IF rs = "FIFO" THEN IF s.fifo = <<>> THEN Zero ELSE Head(s.fifo)
    ELSE IF rs = "STAT" THEN s.phase
    ELSE IF rs = "ISR" THEN s.istatus
    ELSE Len(s.fifo)

-----------------------------------------------------------------------------
io_busy(s, i) == s.io_rd \/ s.io_wr \/ i.io_ack \/ s.io_ack_d

byte_avail(s) == s.buf_valid /\ s.sbuf_pos < s.sbuf_len

synth_on(s) == s.synth_len # 0

fifo_ext(i) ==
    \/ i.op = "write" /\ i.rs \in {"FIFO", "CMD"}
    \/ i.op = "read" /\ i.rs = "FIFO"

\* Faulty variant of sbuf_rd_ok: the word on q_e is always taken for the current one.
sbuf_rd_any(s) == TRUE

sbuf_rd_ok(s) == s.eq_addr = s.sbuf_pos \div 2 /\ ~s.eq_wr

sbuf_byte(s) == s.q_e[(s.sbuf_pos % 2) + 1]

\* The target has nothing more to send and nothing on its way.
Exhausted(s, i) == ~byte_avail(s) /\ s.blocks_left = 0 /\ ~io_busy(s, i) /\ ~synth_on(s)

raise(n, bits) == [n EXCEPT !.i_new = @ \cup bits]

fifo_push(s, n, b) == IF Len(s.fifo) < FIFO THEN [n EXCEPT !.fifo = Append(s.fifo, b)] ELSE n

fifo_shift(s, n) == [n EXCEPT !.fifo = Tail(s.fifo)]

dec_tc(s, n) ==
    [n EXCEPT !.tcounter = s.tcounter - 1, !.tc_zero = IF s.tcounter = 1 THEN TRUE ELSE @]

\* Faulty variant of cdb_byte: IDENTIFY is taken for the opcode.
cdb_byte_raw(s, n, b) == [n EXCEPT !.cdb = Append(s.cdb, b)]

\* One CDB byte: leading message bytes are dropped, the first byte left is the
\* opcode, which tells the length.
cdb_byte(s, n, b) ==
    IF s.skip_cnt # 0 THEN [n EXCEPT !.skip_cnt = s.skip_cnt - 1]
    ELSE [n EXCEPT !.cdb = Append(s.cdb, b)]

\* The opcode byte <<"cmd", k, 0>> names the command.
opcode(s) ==
    IF s.cdb[1][1] = "cmd" /\ s.cdb[1][2] \in DOMAIN Commands
    THEN Commands[s.cdb[1][2]] ELSE NoCommand

\* The command phase starts over: no CDB byte yet.
collect(n, skip) ==
    [n EXCEPT !.phase = "CMD", !.cdb_active = TRUE, !.cdb = <<>>, !.skip_cnt = skip]

-----------------------------------------------------------------------------
(* The parts of the clocked block, in its order *)

\* ack rising drops the strobes; ack falling publishes a load, ends a flush.
IoEdges(s, i, n) ==
    LET m == [n EXCEPT !.io_ack_d = i.io_ack, !.io_rd = @ /\ ~i.io_ack,
                       !.io_wr = @ /\ ~i.io_ack]
    IN  IF s.io_ack_d /\ ~i.io_ack
        THEN IF s.flush_pending
             THEN [m EXCEPT !.flush_pending = FALSE]
             ELSE [m EXCEPT !.buf_valid = TRUE, !.sbuf_len = SECTOR, !.sbuf_pos = 0]
        ELSE m

\* Faulty variant of Prefetch: any command with blocks left fetches.
PrefetchAlways(s, i, n) ==
    IF s.blocks_left # 0 /\ ~io_busy(s, i) /\ (~s.buf_valid \/ s.sbuf_pos >= s.sbuf_len)
    THEN [n EXCEPT !.buf_valid = FALSE, !.io_lba = s.lba, !.lba = s.lba + 1,
                   !.blocks_left = s.blocks_left - 1, !.io_rd = TRUE]
    ELSE n

Prefetch(s, i, n) ==
    IF /\ s.phase = "DIN" /\ s.data_dir_in /\ s.blocks_left # 0 /\ ~io_busy(s, i)
       /\ ~s.buf_valid \/ s.sbuf_pos >= s.sbuf_len
    THEN [n EXCEPT !.buf_valid = FALSE, !.io_lba = s.lba, !.lba = s.lba + 1,
                   !.blocks_left = s.blocks_left - 1, !.io_rd = TRUE]
    ELSE n

\* Faulty variant of drains: the buffer is refilled while it is being flushed.
drains_early(s) == (s.xfer_out \/ s.xfer_pio_out) /\ s.fifo # <<>> /\ s.sbuf_pos < SECTOR

drains(s) ==
    /\ s.xfer_out \/ s.xfer_pio_out
    /\ s.fifo # <<>> /\ ~s.flush_pending /\ s.sbuf_pos < SECTOR

\* The FIFO engine: the first arm whose condition holds, at most one per cycle.
Arm(s, i) ==
    LET eng_rd == i.dma = "rd" /\ ~s.dma_valid
        eng_wr == i.dma = "wr" /\ ~s.dma_valid
        some   == s.fifo # <<>>
    IN  IF fifo_ext(i)                                                  THEN "none"
        ELSE IF eng_rd /\ some                                          THEN "pop"
        ELSE IF eng_rd /\ ~s.xfer_in /\ ~s.cdb_active                   THEN "rd_idle"
        ELSE IF eng_wr /\ s.cdb_active /\ s.dma_active /\ ~s.tc_zero    THEN "cdb_dma"
        ELSE IF /\ eng_wr /\ s.xfer_out /\ s.dma_active /\ ~s.tc_zero
                /\ Len(s.fifo) < FIFO                                   THEN "out_dma"
        ELSE IF eng_wr /\ ~s.cdb_active /\ ~s.xfer_out                  THEN "swallow"
        ELSE IF s.cdb_active /\ some                                    THEN "cdb_ff"
        ELSE IF drains(s)                                               THEN "drain"
        ELSE IF /\ s.xfer_in /\ s.dma_active /\ ~s.tc_zero
                /\ Len(s.fifo) < FIFO /\ byte_avail(s) /\ sbuf_rd_ok(s) THEN "fill"
        ELSE IF s.xfer_pio_in /\ byte_avail(s) /\ ~some /\ sbuf_rd_ok(s) THEN "pio_in"
        ELSE IF s.xfer_msg_out /\ some                                 THEN "msg_out"
        ELSE "none"

Engine(s, i, n) ==
    LET arm == Arm(s, i)
        fed == [fifo_push(s, n, sbuf_byte(s)) EXCEPT !.sbuf_pos = s.sbuf_pos + 1]
    IN  IF arm = "pop"
        THEN [fifo_shift(s, n) EXCEPT !.dma_rlatch = Head(s.fifo), !.dma_valid = TRUE]
        ELSE IF arm = "rd_idle" THEN [n EXCEPT !.dma_rlatch = Idle, !.dma_valid = TRUE]
        ELSE IF arm = "cdb_dma"
        THEN [dec_tc(s, cdb_byte(s, n, i.dma_wdata)) EXCEPT !.dma_valid = TRUE]
        ELSE IF arm = "out_dma"
        THEN [dec_tc(s, fifo_push(s, n, i.dma_wdata)) EXCEPT !.dma_valid = TRUE]
        ELSE IF arm = "swallow" THEN [n EXCEPT !.dma_valid = TRUE]
        ELSE IF arm = "cdb_ff" THEN fifo_shift(s, cdb_byte(s, n, Head(s.fifo)))
        ELSE IF arm = "drain" THEN [fifo_shift(s, n) EXCEPT !.sbuf_pos = s.sbuf_pos + 1]
        ELSE IF arm = "fill" THEN dec_tc(s, fed)
        ELSE IF arm = "pio_in"
        THEN raise([fed EXCEPT !.xfer_pio_in = FALSE,
                               !.phase = IF /\ s.sbuf_pos = s.sbuf_len - 1
                                            /\ s.blocks_left = 0 /\ ~io_busy(s, i)
                                         THEN "STAT" ELSE @], {"BUS"})
        ELSE IF arm = "msg_out"
        THEN [fifo_shift(s, n) EXCEPT !.msg_first = IF s.msg_first_seen THEN @ ELSE Head(s.fifo),
                                      !.msg_first_seen = TRUE]
        ELSE n

\* The synthesized response, a byte per clock; the last one publishes it.
Synth(s, n) ==
    IF ~synth_on(s) THEN n
    ELSE IF s.synth_idx = s.synth_len - 1
         THEN [n EXCEPT !.synth_idx = s.synth_idx + 1, !.synth_len = 0, !.buf_valid = TRUE]
         ELSE [n EXCEPT !.synth_idx = s.synth_idx + 1]

\* The commands answered with bytes the target makes up itself.
Responses == {"SENSE", "INQ", "MODE", "CAP"}

\* REQUEST SENSE clears the sense key it reports.
key_after(s, op) == IF op = "SENSE" THEN 0 ELSE s.sense_key

exec_cdb(s, n) ==
    LET op == opcode(s).op
        m  == raise([n EXCEPT !.scsi_status = "good", !.buf_valid = FALSE, !.sbuf_pos = 0,
                              !.blocks_left = 0, !.data_dir_in = TRUE], {"BUS", "FC"})
    IN  IF op = "TUR" THEN [m EXCEPT !.phase = "STAT"]
        ELSE IF op \in Responses
        THEN [m EXCEPT !.synth_kind = Kind(op, s.sense_key), !.synth_idx = 0,
                       !.synth_len = SYNTH, !.sbuf_len = SYNTH, !.phase = "DIN",
                       !.sense_key = key_after(s, op)]
        ELSE IF op \in {"READ", "WRITE"}
        THEN [m EXCEPT !.lba = opcode(s).lba, !.blocks_left = opcode(s).blocks,
                       !.data_dir_in = (op = "READ"),
                       !.phase = IF op = "READ" THEN "DIN" ELSE "DOUT"]
        ELSE [m EXCEPT !.scsi_status = "check", !.sense_key = 1, !.phase = "STAT"]

CdbDone(s, n) ==
    LET m == IF s.cdb_active /\ s.cdb # <<>> /\ Len(s.cdb) = opcode(s).len
             THEN [n EXCEPT !.cdb_active = FALSE, !.exec_pending = TRUE] ELSE n
    IN  IF s.exec_pending THEN exec_cdb(s, [m EXCEPT !.exec_pending = FALSE]) ELSE m

\* Faulty variant of InEnd: a source that runs out first is not noticed.
InEndCounted(s, i, n) ==
    IF s.xfer_in /\ s.chunk_irq_armed /\ s.tc_zero /\ Len(s.fifo) < 2
    THEN raise([n EXCEPT !.chunk_irq_armed = FALSE, !.xfer_in = FALSE,
                         !.phase = IF Exhausted(s, i) THEN "STAT" ELSE @], {"BUS"})
    ELSE n

\* Data-in ends: the counter ran out and the host drained the FIFO, or the
\* target ran out first.
InEnd(s, i, n) ==
    IF /\ s.xfer_in /\ s.chunk_irq_armed
       /\ IF s.tc_zero THEN Len(s.fifo) < 2 ELSE Exhausted(s, i)
    THEN raise([n EXCEPT !.chunk_irq_armed = FALSE, !.xfer_in = FALSE,
                         !.phase = IF Exhausted(s, i) THEN "STAT" ELSE @], {"BUS"})
    ELSE n

\* The buffer goes to the platform; the last one of the command ends the phase.
StartFlush(s, n) ==
    [n EXCEPT !.io_lba = s.lba, !.lba = s.lba + 1, !.io_wr = TRUE,
              !.flush_pending = TRUE, !.sbuf_pos = 0,
              !.blocks_left = IF s.blocks_left # 0 THEN s.blocks_left - 1 ELSE @,
              !.phase = IF s.blocks_left = 1 /\ ~s.data_dir_in THEN "STAT" ELSE @]

\* Faulty variant of Flush: the end of a chunk flushes what there is.
FlushPartial(s, i, n) ==
    IF /\ s.xfer_out \/ s.xfer_pio_out
       /\ s.sbuf_pos = SECTOR \/ (s.tc_zero /\ s.fifo = <<>> /\ s.sbuf_pos # 0)
       /\ ~s.flush_pending /\ ~io_busy(s, i)
    THEN StartFlush(s, n) ELSE n

Flush(s, i, n) ==
    IF /\ s.xfer_out \/ s.xfer_pio_out
       /\ s.sbuf_pos = SECTOR /\ ~s.flush_pending /\ ~io_busy(s, i)
    THEN StartFlush(s, n) ELSE n

OutEnd(s, i, n) ==
    IF /\ s.xfer_out /\ s.chunk_irq_armed /\ s.tc_zero /\ s.fifo = <<>>
       /\ ~s.flush_pending /\ ~io_busy(s, i)
    THEN raise([n EXCEPT !.chunk_irq_armed = FALSE, !.xfer_out = FALSE,
                         !.phase = IF s.blocks_left = 0 THEN "STAT" ELSE @], {"BUS"})
    ELSE n

PioOutEnd(s, n) ==
    IF s.xfer_pio_out /\ s.fifo = <<>>
    THEN raise([n EXCEPT !.xfer_pio_out = FALSE], {"BUS"}) ELSE n

\* The message has left the FIFO: an extended one is rejected, any other lets
\* the command phase start.
MsgOutEnd(s, n) ==
    LET m == [n EXCEPT !.xfer_msg_out = FALSE]
    IN  IF ~s.xfer_msg_out \/ s.fifo # <<>> THEN n
        ELSE raise(IF s.msg_first = Extended
                   THEN [m EXCEPT !.phase = "MIN", !.msgin_reject = TRUE]
                   ELSE collect(m, 0), {"BUS"})

PioInUnderflow(s, i, n) ==
    IF s.xfer_pio_in /\ Exhausted(s, i)
    THEN raise([n EXCEPT !.xfer_pio_in = FALSE, !.phase = "STAT"], {"BUS"}) ELSE n

\* The select commands.  dest_ok: the destination is the mounted disk; else the
\* select times out, with the FIFO as it was except for SELATNS.
SelectAndStop(s, m) ==
    IF s.dest_ok
    THEN raise([m EXCEPT !.fifo = IF s.fifo = <<>> THEN @ ELSE Tail(s.fifo),
                         !.phase = "MOUT", !.cdb_active = FALSE,
                         !.xfer_msg_out = FALSE, !.msg_first_seen = FALSE], {"BUS", "FC"})
    ELSE raise([m EXCEPT !.fifo = <<>>], {"DISC"})

\* Faulty variant of Select: a timeout empties the FIFO.
SelectFlushes(s, m, skip) ==
    IF s.dest_ok THEN collect(m, skip) ELSE raise([m EXCEPT !.fifo = <<>>], {"DISC"})

Select(s, m, skip) == IF s.dest_ok THEN collect(m, skip) ELSE raise(m, {"DISC"})

\* Transfer information, by phase.
TransferInfo(s, i, m) ==
    IF s.phase = "DIN"
    THEN IF i.dmabit THEN [m EXCEPT !.xfer_in = TRUE, !.chunk_irq_armed = TRUE]
         ELSE IF s.fifo # <<>> THEN raise(m, {"BUS"})
         ELSE [m EXCEPT !.xfer_pio_in = TRUE]
    ELSE IF s.phase = "DOUT"
    THEN IF i.dmabit THEN [m EXCEPT !.xfer_out = TRUE, !.chunk_irq_armed = TRUE]
         ELSE [m EXCEPT !.xfer_pio_out = TRUE]
    ELSE IF s.phase = "STAT"
    THEN raise([m EXCEPT !.fifo = << <<s.scsi_status, 0, 0>>, Zero >>, !.phase = "MIN"], {"FC"})
    ELSE IF s.phase = "MIN"
    THEN raise([m EXCEPT !.fifo = <<IF s.msgin_reject THEN MessageReject ELSE Zero>>], {"FC"})
    ELSE IF s.phase = "MOUT"
    THEN [m EXCEPT !.xfer_msg_out = TRUE, !.msg_first_seen = FALSE, !.msg_first = Zero]
    ELSE IF s.phase = "CMD" THEN m
    ELSE raise(m, {"ILL"})

\* A message is acknowledged: after a rejected negotiation the command follows,
\* else the target disconnects.
MessageAccept(s, m) ==
    IF s.msgin_reject
    THEN raise(collect([m EXCEPT !.fifo = <<>>, !.msgin_reject = FALSE], 0), {"BUS"})
    ELSE raise([m EXCEPT !.fifo = <<>>, !.phase = "DOUT"], {"DISC"})

ChipReset(m) ==
    [m EXCEPT !.fifo = <<>>, !.istatus = {}, !.irq = FALSE, !.phase = "DOUT",
              !.cdb_active = FALSE, !.exec_pending = FALSE, !.skip_cnt = 0,
              !.xfer_in = FALSE, !.xfer_out = FALSE, !.xfer_pio_in = FALSE,
              !.xfer_pio_out = FALSE, !.chunk_irq_armed = FALSE,
              !.xfer_msg_out = FALSE, !.msg_first_seen = FALSE,
              !.msgin_reject = FALSE, !.dma_active = FALSE, !.tc_zero = FALSE]

\* The DMA bit of a command loads the counter.
load_counter(s, i, n) ==
    [n EXCEPT !.dma_active = i.dmabit,
              !.tcounter = IF ~i.dmabit THEN @
                           ELSE IF s.tc_latch = 0 THEN 65536 ELSE s.tc_latch,
              !.tc_zero = IF i.dmabit THEN FALSE ELSE @]

command_case(s, i, m) ==
    IF i.val = "FLUSH" THEN [m EXCEPT !.fifo = <<>>]
    ELSE IF i.val = "RESET" THEN ChipReset(m)
    ELSE IF i.val = "SELNATN" THEN Select(s, m, 0)
    ELSE IF i.val = "SELATN" THEN Select(s, m, 1)
    ELSE IF i.val = "SELATN3" THEN Select(s, m, 3)
    ELSE IF i.val = "SELATNS" THEN SelectAndStop(s, m)
    ELSE IF i.val = "TI" THEN TransferInfo(s, i, m)
    ELSE IF i.val = "ICCS"
    THEN raise([m EXCEPT !.fifo = << <<s.scsi_status, 0, 0>>, Zero >>,
                         !.phase = "MIN", !.msgin_reject = FALSE], {"FC"})
    ELSE IF i.val = "MSGACC" THEN MessageAccept(s, m)
    ELSE IF i.val = "PAD"
    THEN raise([m EXCEPT !.xfer_in = FALSE, !.xfer_out = FALSE, !.tc_zero = TRUE], {"BUS"})
    ELSE raise(m, {"ILL"})

\* A write of the command register.
exec_command(s, i, n) == command_case(s, i, load_counter(s, i, n))

Registers(s, i, n) ==
    IF i.op = "write" /\ i.rs = "TC" THEN [n EXCEPT !.tc_latch = i.val, !.tc_zero = FALSE]
    ELSE IF i.op = "write" /\ i.rs = "FIFO" THEN fifo_push(s, n, i.val)
    ELSE IF i.op = "write" /\ i.rs = "CMD" THEN exec_command(s, i, n)
    ELSE IF i.op = "write" /\ i.rs = "DEST" THEN [n EXCEPT !.dest_ok = i.val]
    ELSE IF i.op = "read" /\ i.rs = "FIFO" /\ s.fifo # <<>> THEN fifo_shift(s, n)
    ELSE n

\* Reading the interrupt register clears it; a raise of the same cycle survives.
Interrupts(s, i, n) ==
    IF i.op = "read" /\ i.rs = "ISR"
    THEN [n EXCEPT !.istatus = n.i_new, !.irq = (n.i_new # {})]
    ELSE IF n.i_new # {} THEN [n EXCEPT !.istatus = s.istatus \cup n.i_new, !.irq = TRUE]
    ELSE n

\* Port E of the sector buffer: synth and drain writes own it, else it reads
\* ahead at sbuf_pos; its read is registered.
we_e(s, i) == synth_on(s) \/ Arm(s, i) = "drain"

pos_e(s) == IF synth_on(s) THEN s.synth_idx ELSE s.sbuf_pos % SECTOR

PortE(s, i, n, sbuf) ==
    LET a == pos_e(s) \div 2
    IN  [n EXCEPT !.q_e = <<sbuf[2 * a], sbuf[2 * a + 1]>>, !.eq_addr = a, !.eq_wr = we_e(s, i)]

WriteE(s, i, sbuf) ==
    IF ~we_e(s, i) THEN sbuf
    ELSE [sbuf EXCEPT ![pos_e(s)] =
            IF synth_on(s) THEN <<"s", s.synth_kind, s.synth_idx>> ELSE Head(s.fifo)]

Cycle(s, i, sbuf) ==
    LET a == IoEdges(s, i, [s EXCEPT !.dma_valid = FALSE, !.i_new = {}])
        b == CdbDone(s, Synth(s, Engine(s, i, Prefetch(s, i, a))))
        c == OutEnd(s, i, Flush(s, i, InEnd(s, i, b)))
        d == PioInUnderflow(s, i, MsgOutEnd(s, PioOutEnd(s, c)))
        e == Interrupts(s, i, Registers(s, i, d))
    IN  [PortE(s, i, e, sbuf) EXCEPT !.i_new = {}]

=============================================================================
