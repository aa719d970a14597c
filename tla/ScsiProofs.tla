----------------------------- MODULE ScsiProofs -----------------------------
(***************************************************************************)
(* Proofs about the disk path: while a sector is on its way to the          *)
(* platform, the engine does not refill the buffer it is read from.  The    *)
(* argument needs the block handshake only, so that it holds for whatever   *)
(* the driver does, resets and unfinished transfers included.               *)
(***************************************************************************)
EXTENDS ScsiSystem, TLAPS

-----------------------------------------------------------------------------
(* What the parts of the clocked block do to the handshake *)

\* No command of this disk is answered with made-up bytes.
NoResponses == \A k \in DOMAIN Commands : Commands[k].op \notin Responses

IoShape(n) ==
    /\ {"io_rd", "io_wr", "io_ack_d", "flush_pending", "synth_len"} \subseteq DOMAIN n
    /\ n.io_rd \in BOOLEAN /\ n.io_wr \in BOOLEAN /\ n.io_ack_d \in BOOLEAN
    /\ n.flush_pending \in BOOLEAN

\* A part that leaves the handshake alone, and starts no response if there is none.
KeepsIo(m, n) ==
    /\ IoShape(n)
    /\ n.io_rd = m.io_rd /\ n.io_wr = m.io_wr /\ n.io_ack_d = m.io_ack_d
    /\ n.flush_pending = m.flush_pending
    /\ (NoResponses /\ m.synth_len = 0) => n.synth_len = 0

LEMMA HelpersKeepIo ==
    ASSUME NEW s, NEW m, NEW n, KeepsIo(m, n)
    PROVE  /\ \A bits : KeepsIo(m, raise(n, bits))
           /\ \A b : KeepsIo(m, fifo_push(s, n, b))
           /\ KeepsIo(m, fifo_shift(s, n))
           /\ KeepsIo(m, dec_tc(s, n))
           /\ \A b : KeepsIo(m, cdb_byte(s, n, b))
           /\ \A skip : KeepsIo(m, collect(n, skip))
  <1>1. \A bits : KeepsIo(m, raise(n, bits))
    BY DEF KeepsIo, IoShape, raise
  <1>2. \A b : KeepsIo(m, fifo_push(s, n, b))
    BY DEF KeepsIo, IoShape, fifo_push
  <1>3. KeepsIo(m, fifo_shift(s, n))
    BY DEF KeepsIo, IoShape, fifo_shift
  <1>4. KeepsIo(m, dec_tc(s, n))
    BY DEF KeepsIo, IoShape, dec_tc
  <1>5. \A b : KeepsIo(m, cdb_byte(s, n, b))
    BY DEF KeepsIo, IoShape, cdb_byte
  <1>6. \A skip : KeepsIo(m, collect(n, skip))
    BY DEF KeepsIo, IoShape, collect
  <1> QED
    BY <1>1, <1>2, <1>3, <1>4, <1>5, <1>6

\* The engine moves bytes only.
LEMMA EngineKeepsIo ==
    ASSUME NEW s, NEW i, NEW m, NEW n, KeepsIo(m, n)
    PROVE  KeepsIo(m, Engine(s, i, n))
  <1>1. PICK shifted : shifted = fifo_shift(s, n)
    OBVIOUS
  <1>2. KeepsIo(m, shifted)
    BY <1>1, HelpersKeepIo
  <1>3. PICK pushed : pushed = fifo_push(s, n, sbuf_byte(s))
    OBVIOUS
  <1>4. KeepsIo(m, pushed)
    BY <1>3, HelpersKeepIo
  <1>5. PICK fed : fed = [pushed EXCEPT !.sbuf_pos = s.sbuf_pos + 1]
    OBVIOUS
  <1>6. KeepsIo(m, fed)
    BY <1>4, <1>5 DEF KeepsIo, IoShape
  <1>7. \A h : KeepsIo(m, [shifted EXCEPT !.dma_rlatch = h, !.dma_valid = TRUE])
    BY <1>2 DEF KeepsIo, IoShape
  <1>8. KeepsIo(m, [n EXCEPT !.dma_rlatch = Idle, !.dma_valid = TRUE])
    BY DEF KeepsIo, IoShape
  <1>9. \A b : KeepsIo(m, [dec_tc(s, cdb_byte(s, n, b)) EXCEPT !.dma_valid = TRUE])
    <2> TAKE b
    <2>1. PICK k : k = dec_tc(s, cdb_byte(s, n, b))
      OBVIOUS
    <2>2. KeepsIo(m, cdb_byte(s, n, b))
      BY HelpersKeepIo
    <2>3. KeepsIo(m, k)
      BY <2>1, <2>2, HelpersKeepIo
    <2>4. KeepsIo(m, [k EXCEPT !.dma_valid = TRUE])
      BY <2>3 DEF KeepsIo, IoShape
    <2> QED
      BY <2>1, <2>4
  <1>10. \A b : KeepsIo(m, [dec_tc(s, fifo_push(s, n, b)) EXCEPT !.dma_valid = TRUE])
    <2> TAKE b
    <2>1. PICK k : k = dec_tc(s, fifo_push(s, n, b))
      OBVIOUS
    <2>2. KeepsIo(m, fifo_push(s, n, b))
      BY HelpersKeepIo
    <2>3. KeepsIo(m, k)
      BY <2>1, <2>2, HelpersKeepIo
    <2>4. KeepsIo(m, [k EXCEPT !.dma_valid = TRUE])
      BY <2>3 DEF KeepsIo, IoShape
    <2> QED
      BY <2>1, <2>4
  <1>11. KeepsIo(m, [n EXCEPT !.dma_valid = TRUE])
    BY DEF KeepsIo, IoShape
  <1>12. \A b : KeepsIo(m, fifo_shift(s, cdb_byte(s, n, b)))
    <2> TAKE b
    <2>1. KeepsIo(m, cdb_byte(s, n, b))
      BY HelpersKeepIo
    <2> QED
      BY <2>1, HelpersKeepIo
  <1>13. KeepsIo(m, [shifted EXCEPT !.sbuf_pos = s.sbuf_pos + 1])
    BY <1>2 DEF KeepsIo, IoShape
  <1>14. KeepsIo(m, dec_tc(s, fed))
    BY <1>6, HelpersKeepIo
  <1>15. PICK last : last = [fed EXCEPT !.xfer_pio_in = FALSE,
                                !.phase = IF /\ s.sbuf_pos = s.sbuf_len - 1
                                             /\ s.blocks_left = 0 /\ ~io_busy(s, i)
                                          THEN "STAT" ELSE @]
    OBVIOUS
  <1>16. KeepsIo(m, last)
    BY <1>6, <1>15 DEF KeepsIo, IoShape
  <1>17. KeepsIo(m, raise(last, {"BUS"}))
    BY <1>16, HelpersKeepIo
  <1>18. KeepsIo(m, [shifted EXCEPT !.msg_first = IF s.msg_first_seen THEN @ ELSE Head(s.fifo),
                                    !.msg_first_seen = TRUE])
    BY <1>2 DEF KeepsIo, IoShape
  <1> QED
    BY <1>1, <1>3, <1>5, <1>7, <1>8, <1>9, <1>10, <1>11, <1>12, <1>13, <1>14, <1>15, <1>17, <1>18
       DEF Engine
\* A command that is executed starts a response only if it is one that has it; an
\* opcode that is not among the commands is refused.
LEMMA ExecKeepsIo ==
    ASSUME NEW s, NEW m, NEW n, KeepsIo(m, n)
    PROVE  KeepsIo(m, exec_cdb(s, n))
  <1>1. PICK op : op = opcode(s).op
    OBVIOUS
  <1>2. NoResponses => op \notin Responses
    BY <1>1 DEF NoResponses, opcode, NoCommand, Responses
  <1>3. PICK k : k = raise([n EXCEPT !.scsi_status = "good", !.buf_valid = FALSE, !.sbuf_pos = 0,
                               !.blocks_left = 0, !.data_dir_in = TRUE], {"BUS", "FC"})
    OBVIOUS
  <1>4. KeepsIo(m, k)
    <2>1. PICK j : j = [n EXCEPT !.scsi_status = "good", !.buf_valid = FALSE, !.sbuf_pos = 0,
                                 !.blocks_left = 0, !.data_dir_in = TRUE]
      OBVIOUS
    <2>2. KeepsIo(m, j)
      BY <2>1 DEF KeepsIo, IoShape
    <2> QED
      BY <1>3, <2>1, <2>2, HelpersKeepIo
  <1>5. KeepsIo(m, [k EXCEPT !.phase = "STAT"])
    BY <1>4 DEF KeepsIo, IoShape
  <1>6. op \in Responses => \A kind, key :
            KeepsIo(m, [k EXCEPT !.synth_kind = kind, !.synth_idx = 0,
                                 !.synth_len = SYNTH, !.sbuf_len = SYNTH, !.phase = "DIN",
                                 !.sense_key = key])
    BY <1>2, <1>4 DEF KeepsIo, IoShape
  <1>7. \A l, b, d, p : KeepsIo(m, [k EXCEPT !.lba = l, !.blocks_left = b, !.data_dir_in = d,
                                             !.phase = p])
    BY <1>4 DEF KeepsIo, IoShape
  <1>8. KeepsIo(m, [k EXCEPT !.scsi_status = "check", !.sense_key = 1, !.phase = "STAT"])
    BY <1>4 DEF KeepsIo, IoShape
  <1> QED
    BY <1>1, <1>3, <1>5, <1>6, <1>7, <1>8 DEF exec_cdb

\* A command of the driver, the reset of the chip included.
LEMMA CommandKeepsIo ==
    ASSUME NEW s, NEW i, NEW m, NEW n, KeepsIo(m, n)
    PROVE  KeepsIo(m, exec_command(s, i, n))
  <1>1. PICK k : k = load_counter(s, i, n)
    OBVIOUS
  <1>2. KeepsIo(m, k)
    BY <1>1 DEF KeepsIo, IoShape, load_counter
  <1>3. \A bits : KeepsIo(m, raise(k, bits))
    BY <1>2, HelpersKeepIo
  <1>4. \A f, bits : KeepsIo(m, raise([k EXCEPT !.fifo = f], bits))
    <2> TAKE f, bits
    <2>1. PICK j : j = [k EXCEPT !.fifo = f]
      OBVIOUS
    <2>2. KeepsIo(m, j)
      BY <1>2, <2>1 DEF KeepsIo, IoShape
    <2> QED
      BY <2>1, <2>2, HelpersKeepIo
  <1>5. \A f : KeepsIo(m, [k EXCEPT !.fifo = f])
    BY <1>2 DEF KeepsIo, IoShape
  <1>6. KeepsIo(m, ChipReset(k))
    BY <1>2 DEF KeepsIo, IoShape, ChipReset
  <1>7. \A skip : KeepsIo(m, Select(s, k, skip))
    BY <1>2, <1>3, HelpersKeepIo DEF Select
  <1>8. KeepsIo(m, SelectAndStop(s, k))
    <2>1. PICK j : j = [k EXCEPT !.fifo = IF s.fifo = <<>> THEN @ ELSE Tail(s.fifo),
                                 !.phase = "MOUT", !.cdb_active = FALSE,
                                 !.xfer_msg_out = FALSE, !.msg_first_seen = FALSE]
      OBVIOUS
    <2>2. KeepsIo(m, j)
      BY <1>2, <2>1 DEF KeepsIo, IoShape
    <2>3. KeepsIo(m, raise(j, {"BUS", "FC"}))
      BY <2>2, HelpersKeepIo
    <2> QED
      BY <1>4, <2>1, <2>3 DEF SelectAndStop
  <1>9. \A f, p, bits : KeepsIo(m, raise([k EXCEPT !.fifo = f, !.phase = p], bits))
    <2> TAKE f, p, bits
    <2>1. PICK j : j = [k EXCEPT !.fifo = f, !.phase = p]
      OBVIOUS
    <2>2. KeepsIo(m, j)
      BY <1>2, <2>1 DEF KeepsIo, IoShape
    <2> QED
      BY <2>1, <2>2, HelpersKeepIo
  <1>10. KeepsIo(m, TransferInfo(s, i, k))
    <2>1. /\ KeepsIo(m, [k EXCEPT !.xfer_in = TRUE, !.chunk_irq_armed = TRUE])
          /\ KeepsIo(m, [k EXCEPT !.xfer_pio_in = TRUE])
          /\ KeepsIo(m, [k EXCEPT !.xfer_out = TRUE, !.chunk_irq_armed = TRUE])
          /\ KeepsIo(m, [k EXCEPT !.xfer_pio_out = TRUE])
      BY <1>2 DEF KeepsIo, IoShape
    <2>2. KeepsIo(m, [k EXCEPT !.xfer_msg_out = TRUE, !.msg_first_seen = FALSE,
                               !.msg_first = Zero])
      BY <1>2 DEF KeepsIo, IoShape
    <2> QED
      BY <1>2, <1>3, <1>4, <1>9, <2>1, <2>2 DEF TransferInfo
  <1>11. \A f : KeepsIo(m, raise([k EXCEPT !.fifo = f, !.phase = "MIN", !.msgin_reject = FALSE],
                                 {"FC"}))
    <2> TAKE f
    <2>1. PICK j : j = [k EXCEPT !.fifo = f, !.phase = "MIN", !.msgin_reject = FALSE]
      OBVIOUS
    <2>2. KeepsIo(m, j)
      BY <1>2, <2>1 DEF KeepsIo, IoShape
    <2> QED
      BY <2>1, <2>2, HelpersKeepIo
  <1>12. KeepsIo(m, MessageAccept(s, k))
    <2>1. PICK j : j = [k EXCEPT !.fifo = <<>>, !.msgin_reject = FALSE]
      OBVIOUS
    <2>2. KeepsIo(m, j)
      BY <1>2, <2>1 DEF KeepsIo, IoShape
    <2>3. PICK c : c = collect(j, 0)
      OBVIOUS
    <2>4. KeepsIo(m, c)
      BY <2>2, <2>3, HelpersKeepIo
    <2>5. KeepsIo(m, raise(c, {"BUS"}))
      BY <2>4, HelpersKeepIo
    <2> QED
      BY <1>9, <2>1, <2>3, <2>5 DEF MessageAccept
  <1>13. KeepsIo(m, raise([k EXCEPT !.xfer_in = FALSE, !.xfer_out = FALSE, !.tc_zero = TRUE],
                          {"BUS"}))
    <2>1. PICK j : j = [k EXCEPT !.xfer_in = FALSE, !.xfer_out = FALSE, !.tc_zero = TRUE]
      OBVIOUS
    <2>2. KeepsIo(m, j)
      BY <1>2, <2>1 DEF KeepsIo, IoShape
    <2> QED
      BY <2>1, <2>2, HelpersKeepIo
  <1>14. KeepsIo(m, command_case(s, i, k))
    BY <1>3, <1>5, <1>6, <1>7, <1>8, <1>10, <1>11, <1>12, <1>13 DEF command_case
  <1> QED
    BY <1>1, <1>14 DEF exec_command

\* The parts between the engine and the flush.
LEMMA FirstPartsKeepIo ==
    ASSUME NEW s, NEW i, NEW m, NEW n, KeepsIo(m, n)
    PROVE  /\ KeepsIo(m, Synth(s, n))
           /\ KeepsIo(m, CdbDone(s, n))
           /\ KeepsIo(m, InEnd(s, i, n))
  <1>1. KeepsIo(m, Synth(s, n))
    <2>1. KeepsIo(m, [n EXCEPT !.synth_idx = s.synth_idx + 1, !.synth_len = 0, !.buf_valid = TRUE])
      BY DEF KeepsIo, IoShape
    <2>2. KeepsIo(m, [n EXCEPT !.synth_idx = s.synth_idx + 1])
      BY DEF KeepsIo, IoShape
    <2> QED
      BY <2>1, <2>2 DEF Synth
  <1>2. KeepsIo(m, CdbDone(s, n))
    <2>1. PICK j : j = IF s.cdb_active /\ s.cdb # <<>> /\ Len(s.cdb) = opcode(s).len
                       THEN [n EXCEPT !.cdb_active = FALSE, !.exec_pending = TRUE] ELSE n
      OBVIOUS
    <2>2. KeepsIo(m, [n EXCEPT !.cdb_active = FALSE, !.exec_pending = TRUE])
      BY DEF KeepsIo, IoShape
    <2>3. KeepsIo(m, j)
      BY <2>1, <2>2
    <2>4. PICK k : k = [j EXCEPT !.exec_pending = FALSE]
      OBVIOUS
    <2>5. KeepsIo(m, k)
      BY <2>3, <2>4 DEF KeepsIo, IoShape
    <2>6. KeepsIo(m, exec_cdb(s, k))
      BY <2>5, ExecKeepsIo
    <2> QED
      BY <2>1, <2>3, <2>4, <2>6 DEF CdbDone
  <1>3. KeepsIo(m, InEnd(s, i, n))
    <2>1. PICK j : j = [n EXCEPT !.chunk_irq_armed = FALSE, !.xfer_in = FALSE,
                                 !.phase = IF Exhausted(s, i) THEN "STAT" ELSE @]
      OBVIOUS
    <2>2. KeepsIo(m, j)
      BY <2>1 DEF KeepsIo, IoShape
    <2>3. KeepsIo(m, raise(j, {"BUS"}))
      BY <2>2, HelpersKeepIo
    <2> QED
      BY <2>1, <2>3 DEF InEnd
  <1> QED
    BY <1>1, <1>2, <1>3

\* The parts after the flush.
LEMMA LastPartsKeepIo ==
    ASSUME NEW s, NEW i, NEW b, NEW m, NEW n, KeepsIo(m, n)
    PROVE  /\ KeepsIo(m, OutEnd(s, i, n))
           /\ KeepsIo(m, PioOutEnd(s, n))
           /\ KeepsIo(m, MsgOutEnd(s, n))
           /\ KeepsIo(m, PioInUnderflow(s, i, n))
           /\ KeepsIo(m, Registers(s, i, n))
           /\ KeepsIo(m, Interrupts(s, i, n))
           /\ KeepsIo(m, PortE(s, i, n, b))
           /\ KeepsIo(m, [n EXCEPT !.i_new = {}])
  <1>1. KeepsIo(m, OutEnd(s, i, n))
    <2>1. PICK j : j = [n EXCEPT !.chunk_irq_armed = FALSE, !.xfer_out = FALSE,
                                 !.phase = IF s.blocks_left = 0 THEN "STAT" ELSE @]
      OBVIOUS
    <2>2. KeepsIo(m, j)
      BY <2>1 DEF KeepsIo, IoShape
    <2>3. KeepsIo(m, raise(j, {"BUS"}))
      BY <2>2, HelpersKeepIo
    <2> QED
      BY <2>1, <2>3 DEF OutEnd
  <1>2. KeepsIo(m, PioOutEnd(s, n))
    <2>1. PICK j : j = [n EXCEPT !.xfer_pio_out = FALSE]
      OBVIOUS
    <2>2. KeepsIo(m, j)
      BY <2>1 DEF KeepsIo, IoShape
    <2>3. KeepsIo(m, raise(j, {"BUS"}))
      BY <2>2, HelpersKeepIo
    <2> QED
      BY <2>1, <2>3 DEF PioOutEnd
  <1>3. KeepsIo(m, MsgOutEnd(s, n))
    <2>1. PICK j : j = [n EXCEPT !.xfer_msg_out = FALSE]
      OBVIOUS
    <2>2. KeepsIo(m, j)
      BY <2>1 DEF KeepsIo, IoShape
    <2>3. PICK k : k = IF s.msg_first = Extended
                       THEN [j EXCEPT !.phase = "MIN", !.msgin_reject = TRUE]
                       ELSE collect(j, 0)
      OBVIOUS
    <2>4. KeepsIo(m, [j EXCEPT !.phase = "MIN", !.msgin_reject = TRUE])
      BY <2>2 DEF KeepsIo, IoShape
    <2>5. KeepsIo(m, k)
      BY <2>2, <2>3, <2>4, HelpersKeepIo
    <2>6. KeepsIo(m, raise(k, {"BUS"}))
      BY <2>5, HelpersKeepIo
    <2> QED
      BY <2>1, <2>3, <2>6 DEF MsgOutEnd
  <1>4. KeepsIo(m, PioInUnderflow(s, i, n))
    <2>1. PICK j : j = [n EXCEPT !.xfer_pio_in = FALSE, !.phase = "STAT"]
      OBVIOUS
    <2>2. KeepsIo(m, j)
      BY <2>1 DEF KeepsIo, IoShape
    <2>3. KeepsIo(m, raise(j, {"BUS"}))
      BY <2>2, HelpersKeepIo
    <2> QED
      BY <2>1, <2>3 DEF PioInUnderflow
  <1>5. KeepsIo(m, Registers(s, i, n))
    <2>1. \A v : KeepsIo(m, [n EXCEPT !.tc_latch = v, !.tc_zero = FALSE])
      BY DEF KeepsIo, IoShape
    <2>2. \A v : KeepsIo(m, [n EXCEPT !.dest_ok = v])
      BY DEF KeepsIo, IoShape
    <2> QED
      BY <2>1, <2>2, HelpersKeepIo, CommandKeepsIo DEF Registers
  <1>6. KeepsIo(m, Interrupts(s, i, n))
    <2>1. \A v, w : KeepsIo(m, [n EXCEPT !.istatus = v, !.irq = w])
      BY DEF KeepsIo, IoShape
    <2> QED
      BY <2>1 DEF Interrupts
  <1>7. KeepsIo(m, PortE(s, i, n, b))
    <2>1. \A q, a, w : KeepsIo(m, [n EXCEPT !.q_e = q, !.eq_addr = a, !.eq_wr = w])
      BY DEF KeepsIo, IoShape
    <2> QED
      BY <2>1 DEF PortE
  <1>8. KeepsIo(m, [n EXCEPT !.i_new = {}])
    BY DEF KeepsIo, IoShape
  <1> QED
    BY <1>1, <1>2, <1>3, <1>4, <1>5, <1>6, <1>7, <1>8
-----------------------------------------------------------------------------
(* The handshake over one clock *)

\* What a clock does to the request strobes and to the mark of a flush: an acknowledge
\* drops the strobes and keeps new ones away, and the mark falls only with it.
Handshake(s, i, n) ==
    /\ IoShape(n) /\ n.io_ack_d = i.io_ack
    /\ i.io_ack => ~n.io_rd /\ ~n.io_wr
    /\ n.io_wr => s.io_wr \/ n.flush_pending
    /\ s.flush_pending /\ ~(s.io_ack_d /\ ~i.io_ack) => n.flush_pending
    /\ (NoResponses /\ s.synth_len = 0) => n.synth_len = 0

LEMMA HandshakeKept ==
    ASSUME NEW s, NEW i, NEW m, NEW n, Handshake(s, i, m), KeepsIo(m, n)
    PROVE  Handshake(s, i, n)
  BY DEF Handshake, KeepsIo

LEMMA CycleHandshake ==
    ASSUME NEW s, NEW i, NEW b, IoShape(s), i.io_ack \in BOOLEAN
    PROVE  Handshake(s, i, Cycle(s, i, b))
  <1>1. PICK n0 : n0 = [s EXCEPT !.dma_valid = FALSE, !.i_new = {}]
    OBVIOUS
  <1>2. KeepsIo(s, n0)
    BY <1>1 DEF KeepsIo, IoShape
  <1>3. PICK n1 : n1 = IoEdges(s, i, n0)
    OBVIOUS
  <1>4. Handshake(s, i, n1)
    <2>1. PICK k : k = [n0 EXCEPT !.io_ack_d = i.io_ack, !.io_rd = @ /\ ~i.io_ack,
                                  !.io_wr = @ /\ ~i.io_ack]
      OBVIOUS
    <2>2. IoShape(n0) /\ n0.io_rd = s.io_rd /\ n0.io_wr = s.io_wr
          /\ n0.flush_pending = s.flush_pending
          /\ ((NoResponses /\ s.synth_len = 0) => n0.synth_len = 0)
      BY <1>2 DEF KeepsIo
    <2>3. /\ IoShape(k) /\ k.io_ack_d = i.io_ack
          /\ k.io_rd = (s.io_rd /\ ~i.io_ack) /\ k.io_wr = (s.io_wr /\ ~i.io_ack)
          /\ k.flush_pending = s.flush_pending
          /\ k.synth_len = n0.synth_len
      BY <2>1, <2>2 DEF IoShape
    <2>4. Handshake(s, i, k)
      BY <2>2, <2>3 DEF Handshake, IoShape
    <2>5. CASE ~(s.io_ack_d /\ ~i.io_ack)
      BY <1>3, <2>1, <2>4, <2>5 DEF IoEdges
    <2>6. CASE s.io_ack_d /\ ~i.io_ack /\ s.flush_pending
      <3>1. n1 = [k EXCEPT !.flush_pending = FALSE]
        BY <1>3, <2>1, <2>6 DEF IoEdges
      <3> QED
        BY <2>2, <2>3, <2>6, <3>1 DEF Handshake, IoShape
    <2>7. CASE s.io_ack_d /\ ~i.io_ack /\ ~s.flush_pending
      <3>1. n1 = [k EXCEPT !.buf_valid = TRUE, !.sbuf_len = SECTOR, !.sbuf_pos = 0]
        BY <1>3, <2>1, <2>7 DEF IoEdges
      <3>2. KeepsIo(k, n1)
        BY <2>3, <3>1 DEF KeepsIo, IoShape
      <3> QED
        BY <2>4, <3>2, HandshakeKept
    <2> QED
      BY <2>5, <2>6, <2>7
  <1>5. PICK n2 : n2 = Prefetch(s, i, n1)
    OBVIOUS
  <1>6. Handshake(s, i, n2)
    <2>1. CASE n2 = n1
      BY <1>4, <2>1
    <2>2. CASE n2 # n1
      <3>1. ~i.io_ack
        BY <1>5, <2>2 DEF Prefetch, io_busy
      <3>2. n2 = [n1 EXCEPT !.buf_valid = FALSE, !.io_lba = s.lba, !.lba = s.lba + 1,
                            !.blocks_left = s.blocks_left - 1, !.io_rd = TRUE]
        BY <1>5, <2>2 DEF Prefetch
      <3> QED
        BY <1>4, <3>1, <3>2 DEF Handshake, IoShape
    <2> QED
      BY <2>1, <2>2
  <1>7. PICK n3 : n3 = InEnd(s, i, CdbDone(s, Synth(s, Engine(s, i, n2))))
    OBVIOUS
  <1>8. Handshake(s, i, n3)
    <2>1. KeepsIo(n2, n2)
      BY <1>6 DEF Handshake, KeepsIo
    <2>2. KeepsIo(n2, Engine(s, i, n2))
      BY <2>1, EngineKeepsIo
    <2>3. KeepsIo(n2, Synth(s, Engine(s, i, n2)))
      BY <2>2, FirstPartsKeepIo
    <2>4. KeepsIo(n2, CdbDone(s, Synth(s, Engine(s, i, n2))))
      BY <2>3, FirstPartsKeepIo
    <2>5. KeepsIo(n2, n3)
      BY <1>7, <2>4, FirstPartsKeepIo
    <2> QED
      BY <1>6, <2>5, HandshakeKept
  <1>9. PICK n4 : n4 = Flush(s, i, n3)
    OBVIOUS
  <1>10. Handshake(s, i, n4)
    <2>1. CASE n4 = n3
      BY <1>8, <2>1
    <2>2. CASE n4 # n3
      <3>1. ~i.io_ack
        BY <1>9, <2>2 DEF Flush, io_busy
      <3>2. n4 = StartFlush(s, n3)
        BY <1>9, <2>2 DEF Flush
      <3>3. \A l, v, p, c : LET f == [n3 EXCEPT !.io_lba = l, !.lba = v, !.io_wr = TRUE,
                                          !.flush_pending = TRUE, !.sbuf_pos = 0,
                                          !.blocks_left = c, !.phase = p]
                            IN  Handshake(s, i, f)
        BY <1>8, <3>1 DEF Handshake, IoShape
      <3> QED
        BY <3>2, <3>3 DEF StartFlush
    <2> QED
      BY <2>1, <2>2
  <1>11. PICK n5 : n5 = PioInUnderflow(s, i, MsgOutEnd(s, PioOutEnd(s, OutEnd(s, i, n4))))
    OBVIOUS
  <1>12. KeepsIo(n4, n5)
    <2>1. KeepsIo(n4, n4)
      BY <1>10 DEF Handshake, KeepsIo
    <2>2. KeepsIo(n4, OutEnd(s, i, n4))
      BY <2>1, LastPartsKeepIo
    <2>3. KeepsIo(n4, PioOutEnd(s, OutEnd(s, i, n4)))
      BY <2>2, LastPartsKeepIo
    <2>4. KeepsIo(n4, MsgOutEnd(s, PioOutEnd(s, OutEnd(s, i, n4))))
      BY <2>3, LastPartsKeepIo
    <2> QED
      BY <1>11, <2>4, LastPartsKeepIo
  <1>13. PICK n6 : n6 = Interrupts(s, i, Registers(s, i, n5))
    OBVIOUS
  <1>14. KeepsIo(n4, n6)
    <2>1. KeepsIo(n4, Registers(s, i, n5))
      BY <1>12, LastPartsKeepIo
    <2> QED
      BY <1>13, <2>1, LastPartsKeepIo
  <1>15. KeepsIo(n4, [PortE(s, i, n6, b) EXCEPT !.i_new = {}])
    <2>1. KeepsIo(n4, PortE(s, i, n6, b))
      BY <1>14, LastPartsKeepIo
    <2> QED
      BY <2>1, LastPartsKeepIo
  <1>16. Cycle(s, i, b) = [PortE(s, i, n6, b) EXCEPT !.i_new = {}]
    BY <1>1, <1>3, <1>5, <1>7, <1>9, <1>11, <1>13 DEF Cycle
  <1> QED
    BY <1>10, <1>15, <1>16, HandshakeKept

-----------------------------------------------------------------------------
(* The flush and the buffer *)

\* The mark of a flush stands from the request to the end of the platform's transfer,
\* and no request is up when the end of an acknowledge is noticed.
FlushMarked ==
    /\ IoShape(chip)
    /\ {"ack", "load"} \subseteq DOMAIN plat /\ plat.ack \in BOOLEAN
    /\ chip.io_wr => chip.flush_pending
    /\ (plat.ack /\ ~plat.load) => chip.flush_pending
    /\ (chip.io_ack_d /\ ~plat.ack) => ~chip.io_rd /\ ~chip.io_wr

\* What the platform may do: accept a request, go on, or let the acknowledge fall.
LEMMA PlatformSteps ==
    ASSUME Next, {"ack", "load"} \subseteq DOMAIN plat
    PROVE  /\ {"ack", "load"} \subseteq DOMAIN plat'
           /\ \/ /\ ~plat.ack /\ (chip.io_rd \/ chip.io_wr)
                 /\ plat'.ack = TRUE /\ plat'.load = chip.io_rd
              \/ plat'.ack = plat.ack /\ plat'.load = plat.load
              \/ plat'.ack = FALSE
  <1>1. PlatMoves \/ PlatHold
    BY DEF Next
  <1>2. CASE PlatAccept
    BY <1>2 DEF PlatAccept
  <1>3. CASE PlatMove
    <2>1. PICK v : v = plat.w + 2
      OBVIOUS
    <2>2. plat' = [plat EXCEPT !.w = v] \/ plat' = PlatInit
      BY <1>3, <2>1 DEF PlatMove
    <2> QED
      BY <2>2 DEF PlatInit
  <1>4. CASE PlatDone
    BY <1>4 DEF PlatDone, PlatInit
  <1>5. CASE PlatHold
    BY <1>5 DEF PlatHold
  <1> QED
    BY <1>1, <1>2, <1>3, <1>4, <1>5 DEF PlatMoves

\* Every clock keeps the mark, whatever the driver and the platform do in it.
LEMMA FlushMarkedStep ==
    ASSUME FlushMarked, Next
    PROVE  /\ FlushMarked'
           /\ (NoResponses /\ chip.synth_len = 0) => chip'.synth_len = 0
  <1>1. PICK i : i = ChipInput
    OBVIOUS
  <1>2. i.io_ack = plat.ack
    BY <1>1 DEF ChipInput
  <1>3. chip' = Cycle(chip, i, sbuf)
    BY <1>1 DEF Next, Machine, ChipBlock
  <1>4. Handshake(chip, i, chip')
    BY <1>2, <1>3, CycleHandshake DEF FlushMarked
  <1>5. /\ IoShape(chip') /\ chip'.io_ack_d = plat.ack
        /\ plat.ack => ~chip'.io_rd /\ ~chip'.io_wr
        /\ chip'.io_wr => chip.io_wr \/ chip'.flush_pending
        /\ chip.flush_pending /\ ~(chip.io_ack_d /\ ~plat.ack) => chip'.flush_pending
        /\ (NoResponses /\ chip.synth_len = 0) => chip'.synth_len = 0
    BY <1>2, <1>4 DEF Handshake
  <1>6. /\ {"ack", "load"} \subseteq DOMAIN plat'
        /\ \/ /\ ~plat.ack /\ (chip.io_rd \/ chip.io_wr)
              /\ plat'.ack = TRUE /\ plat'.load = chip.io_rd
           \/ plat'.ack = plat.ack /\ plat'.load = plat.load
           \/ plat'.ack = FALSE
    BY PlatformSteps DEF FlushMarked
  <1>7. plat'.ack \in BOOLEAN
    BY <1>6 DEF FlushMarked
  <1>8. chip'.io_wr => chip'.flush_pending
    BY <1>5 DEF FlushMarked
  <1>9. (plat'.ack /\ ~plat'.load) => chip'.flush_pending
    BY <1>5, <1>6 DEF FlushMarked
  <1>10. (chip'.io_ack_d /\ ~plat'.ack) => ~chip'.io_rd /\ ~chip'.io_wr
    BY <1>5
  <1> QED
    BY <1>5, <1>6, <1>7, <1>8, <1>9, <1>10 DEF FlushMarked

\* The mark of a flush that the chip keeps (flush_pending) covers the whole of the
\* platform's transfer out of the buffer, for every driver and every platform.
THEOREM FlushMark == Spec => []FlushMarked
  <1>1. Init => FlushMarked
    BY DEF Init, ChipInit, PlatInit, FlushMarked, IoShape
  <1>2. FlushMarked /\ [Next]_vars => FlushMarked'
    <2>1. ASSUME FlushMarked, UNCHANGED vars PROVE FlushMarked'
      BY <2>1 DEF vars, FlushMarked
    <2> QED
      BY <2>1, FlushMarkedStep
  <1> QED
    BY <1>1, <1>2, PTL DEF Spec

\* Marked, the buffer is not drained into: only a response could write it.
LEMMA MarkedNotDrained ==
    ASSUME FlushMarked, chip.synth_len = 0
    PROVE  FlushOwnsBuffer
  <1> SUFFICES ASSUME plat.ack, ~plat.load PROVE ~we_e(chip, ChipInput)
    BY DEF FlushOwnsBuffer
  <1>1. ~drains(chip)
    BY DEF FlushMarked, drains
  <1>2. PICK i : i = ChipInput
    OBVIOUS
  <1>3. Arm(chip, i) # "drain"
    BY <1>1 DEF Arm
  <1> QED
    BY <1>2, <1>3 DEF we_e, synth_on

\* "mixed-port read-during-write collisions are excluded by buf_valid/flush_pending
\* gating in the engine" (ncr53c96.sv:1053-1055) holds of the engine, with every driver
\* and every platform, and fails through a synthesized response alone.
THEOREM OnlyResponsesCollide == Spec => [](chip.synth_len = 0 => FlushOwnsBuffer)
  <1>1. FlushMarked => (chip.synth_len = 0 => FlushOwnsBuffer)
    BY MarkedNotDrained
  <1> QED
    BY <1>1, FlushMark, PTL

\* With commands that move blocks, or no data, only, the buffer belongs to the platform
\* as long as it takes a sector out of it: through aborted commands, resets of the
\* chip and a status phase that ends before the sector is on the disk.
THEOREM FlushOwned ==
    ASSUME NoResponses
    PROVE  Spec => []FlushOwnsBuffer
  <1> DEFINE Quiet == FlushMarked /\ chip.synth_len = 0
  <1>1. Init => Quiet
    BY DEF Init, ChipInit, PlatInit, FlushMarked, IoShape
  <1>2. Quiet /\ [Next]_vars => Quiet'
    <2>1. ASSUME Quiet, UNCHANGED vars PROVE Quiet'
      BY <2>1 DEF vars, FlushMarked
    <2> QED
      BY <2>1, FlushMarkedStep, NoResponses
  <1>3. Quiet => FlushOwnsBuffer
    BY MarkedNotDrained
  <1> QED
    BY <1>1, <1>2, <1>3, PTL DEF Spec

=============================================================================
