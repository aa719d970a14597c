-------------------------- MODULE ScsiControlProofs --------------------------
(***************************************************************************)
(* Proofs about the dialogue of driver and chip: the chip is in one mode at *)
(* a time, in the one the driver's script expects of it.  From this follow  *)
(* that a block being loaded has the sector buffer to itself, that the      *)
(* command descriptor block is the one the driver sent, and that a          *)
(* selection that times out leaves the FIFO alone.                          *)
(***************************************************************************)
EXTENDS ScsiProofs

-----------------------------------------------------------------------------
(* What the parts of the clocked block leave alone *)

\* n differs from m in registers outside F only.
Same(m, n, F) == DOMAIN n = DOMAIN m /\ F \subseteq DOMAIN n /\ \A f \in F : n[f] = m[f]

LEMMA HelpersFrame ==
    ASSUME NEW s, NEW m, NEW n, NEW F, Same(m, n, F)
    PROVE  /\ "i_new" \notin F => \A bits : Same(m, raise(n, bits), F)
           /\ "fifo" \notin F => Same(m, fifo_shift(s, n), F) /\ \A b : Same(m, fifo_push(s, n, b), F)
           /\ F \cap {"tcounter", "tc_zero"} = {} => Same(m, dec_tc(s, n), F)
           /\ F \cap {"cdb", "skip_cnt"} = {} => \A b : Same(m, cdb_byte(s, n, b), F)
           /\ F \cap {"phase", "cdb_active", "cdb", "skip_cnt"} = {}
                 => \A skip : Same(m, collect(n, skip), F)
  <1>1. "i_new" \notin F => \A bits : Same(m, raise(n, bits), F)
    BY DEF Same, raise
  <1>2. "fifo" \notin F => Same(m, fifo_shift(s, n), F)
    BY DEF Same, fifo_shift
  <1>3. "fifo" \notin F => \A b : Same(m, fifo_push(s, n, b), F)
    BY DEF Same, fifo_push
  <1>4. F \cap {"tcounter", "tc_zero"} = {} => Same(m, dec_tc(s, n), F)
    BY DEF Same, dec_tc
  <1>5. F \cap {"cdb", "skip_cnt"} = {} => \A b : Same(m, cdb_byte(s, n, b), F)
    BY DEF Same, cdb_byte
  <1>6. F \cap {"phase", "cdb_active", "cdb", "skip_cnt"} = {}
            => \A skip : Same(m, collect(n, skip), F)
    BY DEF Same, collect
  <1> QED
    BY <1>1, <1>2, <1>3, <1>4, <1>5, <1>6

\* The block handshake and the prefetch.
IoFields == {"io_ack_d", "io_rd", "io_wr", "flush_pending", "buf_valid", "sbuf_len", "sbuf_pos",
             "io_lba", "lba", "blocks_left"}

LEMMA IoFrame ==
    ASSUME NEW s, NEW i, NEW m, NEW n, NEW F, Same(m, n, F), F \cap IoFields = {}
    PROVE  Same(m, IoEdges(s, i, n), F) /\ Same(m, Prefetch(s, i, n), F)
  <1>1. Same(m, IoEdges(s, i, n), F)
    BY DEF Same, IoEdges, IoFields
  <1>2. Same(m, Prefetch(s, i, n), F)
    BY DEF Same, Prefetch, IoFields
  <1> QED
    BY <1>1, <1>2

LEMMA SynthFrame ==
    ASSUME NEW s, NEW m, NEW n, NEW F, Same(m, n, F), F \cap {"synth_idx", "synth_len", "buf_valid"} = {}
    PROVE  Same(m, Synth(s, n), F)
  BY DEF Same, Synth

\* The last two parts: the interrupt register and port E.
LEMMA InterruptsFrame ==
    ASSUME NEW s, NEW i, NEW m, NEW n, NEW F, Same(m, n, F), F \cap {"istatus", "irq"} = {}
    PROVE  Same(m, Interrupts(s, i, n), F)
  BY DEF Same, Interrupts

LEMMA PortFrame ==
    ASSUME NEW s, NEW i, NEW m, NEW n, NEW b, NEW F, Same(m, n, F),
           F \cap {"q_e", "eq_addr", "eq_wr", "i_new"} = {}
    PROVE  Same(m, [PortE(s, i, n, b) EXCEPT !.i_new = {}], F)
  <1>1. PICK k : k = PortE(s, i, n, b)
    OBVIOUS
  <1>2. Same(m, k, F)
    <2>1. \A q, a, w : Same(m, [n EXCEPT !.q_e = q, !.eq_addr = a, !.eq_wr = w], F)
      BY DEF Same
    <2> QED
      BY <1>1, <2>1 DEF PortE
  <1>3. Same(m, [k EXCEPT !.i_new = {}], F)
    BY <1>2 DEF Same
  <1> QED
    BY <1>1, <1>3

-----------------------------------------------------------------------------
(* The modes of the chip *)

NoTransfer(s) ==
    ~s.xfer_in /\ ~s.xfer_out /\ ~s.xfer_pio_in /\ ~s.xfer_pio_out /\ ~s.xfer_msg_out

Quiet(s) == ~s.cdb_active /\ ~s.exec_pending /\ NoTransfer(s)

Collecting(s) == s.cdb_active /\ ~s.exec_pending /\ NoTransfer(s) /\ s.phase = "CMD"

Executing(s) == ~s.cdb_active /\ s.exec_pending /\ NoTransfer(s) /\ s.phase = "CMD"

Reading(s) ==
    /\ ~s.cdb_active /\ ~s.exec_pending /\ ~s.xfer_out /\ ~s.xfer_pio_out /\ ~s.xfer_msg_out
    /\ s.xfer_in = ~s.xfer_pio_in /\ s.phase = "DIN"

Writing(s) ==
    /\ ~s.cdb_active /\ ~s.exec_pending /\ ~s.xfer_in /\ ~s.xfer_pio_in /\ ~s.xfer_msg_out
    /\ s.xfer_out = ~s.xfer_pio_out /\ s.phase \in {"DOUT", "STAT"}

Messaging(s) ==
    /\ ~s.cdb_active /\ ~s.exec_pending /\ ~s.xfer_in /\ ~s.xfer_out /\ ~s.xfer_pio_in
    /\ ~s.xfer_pio_out /\ s.xfer_msg_out /\ s.phase = "MOUT"

\* The registers the modes and the dialogue are about, and those of the sector buffer.
Control ==
    {"phase", "cdb_active", "exec_pending", "xfer_in", "xfer_out", "xfer_pio_in", "xfer_pio_out",
     "xfer_msg_out", "msgin_reject", "istatus", "irq", "dest_ok", "cdb", "skip_cnt", "fifo",
     "i_new", "dma_valid", "synth_len", "blocks_left", "buf_valid", "io_rd", "io_wr", "io_ack_d",
     "flush_pending"}

Modes ==
    {"cdb_active", "exec_pending", "xfer_in", "xfer_out", "xfer_pio_in", "xfer_pio_out",
     "xfer_msg_out"}

Shape(s) ==
    /\ Control \subseteq DOMAIN s /\ \A f \in Modes : s[f] \in BOOLEAN
    /\ s.irq \in BOOLEAN /\ s.msgin_reject \in BOOLEAN /\ s.buf_valid \in BOOLEAN
    /\ s.dma_valid \in BOOLEAN

-----------------------------------------------------------------------------
(* The parts before the engine *)

Opened(s, i) == Prefetch(s, i, IoEdges(s, i, [s EXCEPT !.dma_valid = FALSE, !.i_new = {}]))

Dialogue ==
    {"phase", "cdb_active", "exec_pending", "xfer_in", "xfer_out", "xfer_pio_in", "xfer_pio_out",
     "xfer_msg_out", "msgin_reject", "istatus", "irq", "dest_ok", "cdb", "skip_cnt", "fifo"}

\* The platform's side of a clock: the dialogue goes on as it was.
LEMMA OpenedCycle ==
    ASSUME NEW s, NEW i, Shape(s), i.io_ack \in BOOLEAN
    PROVE  /\ Same(s, Opened(s, i), Dialogue \cup {"synth_len"})
           /\ Control \subseteq DOMAIN Opened(s, i)
           /\ Opened(s, i).i_new = {} /\ Opened(s, i).dma_valid = FALSE
           /\ Opened(s, i).io_rd => \/ s.io_rd
                                    \/ s.phase = "DIN" /\ s.blocks_left # 0 /\ ~io_busy(s, i)
           /\ s.blocks_left = 0 => Opened(s, i).blocks_left = 0
           /\ Opened(s, i).buf_valid
                 => s.buf_valid \/ (s.io_ack_d /\ ~i.io_ack /\ ~s.flush_pending)
  <1> DEFINE F == Dialogue \cup {"synth_len"}
             G == F \cup {"i_new", "dma_valid"}
  <1>1. PICK a : a = [s EXCEPT !.dma_valid = FALSE, !.i_new = {}]
    OBVIOUS
  <1>2. /\ Same(s, a, F \cup {"io_rd", "blocks_left", "buf_valid"}) /\ a.i_new = {} /\ a.dma_valid = FALSE
        /\ DOMAIN a = DOMAIN s /\ Same(a, a, G)
    BY <1>1 DEF Same, Shape, Control, Dialogue, IoFields
  <1>3. PICK b : b = IoEdges(s, i, a)
    OBVIOUS
  <1>4. Same(a, b, G)
    BY <1>2, <1>3, IoFrame DEF IoFields, Dialogue
  <1>5. /\ b.io_rd => s.io_rd
        /\ b.blocks_left = s.blocks_left
        /\ b.buf_valid => s.buf_valid \/ (s.io_ack_d /\ ~i.io_ack /\ ~s.flush_pending)
    <2>1. PICK k : k = [a EXCEPT !.io_ack_d = i.io_ack, !.io_rd = @ /\ ~i.io_ack,
                                 !.io_wr = @ /\ ~i.io_ack]
      OBVIOUS
    <2>2. /\ a.io_rd = s.io_rd /\ a.blocks_left = s.blocks_left /\ a.buf_valid = s.buf_valid
          /\ {"io_rd", "blocks_left", "buf_valid"} \subseteq DOMAIN a
      BY <1>2 DEF Same
    <2>3. /\ k.io_rd => s.io_rd
          /\ k.blocks_left = s.blocks_left /\ k.buf_valid = s.buf_valid
          /\ {"io_rd", "blocks_left", "buf_valid"} \subseteq DOMAIN k
      BY <2>1, <2>2
    <2>4. b = IF s.io_ack_d /\ ~i.io_ack
              THEN IF s.flush_pending
                   THEN [k EXCEPT !.flush_pending = FALSE]
                   ELSE [k EXCEPT !.buf_valid = TRUE, !.sbuf_len = SECTOR, !.sbuf_pos = 0]
              ELSE k
      BY <1>3, <2>1 DEF IoEdges
    <2> QED
      BY <2>3, <2>4
  <1>6. PICK c : c = Prefetch(s, i, b)
    OBVIOUS
  <1>7. Same(a, c, G)
    BY <1>4, <1>6, IoFrame DEF IoFields, Dialogue
  <1>8. /\ c.io_rd => b.io_rd \/ (s.phase = "DIN" /\ s.blocks_left # 0 /\ ~io_busy(s, i))
        /\ s.blocks_left = 0 => c.blocks_left = b.blocks_left
        /\ c.buf_valid => b.buf_valid
    <2>1. {"buf_valid", "io_rd", "blocks_left"} \subseteq DOMAIN b
      BY <1>2, <1>4 DEF Same, Shape, Control
    <2> QED
      BY <1>6, <2>1 DEF Prefetch
  <1>9. c = Opened(s, i)
    BY <1>1, <1>3, <1>6 DEF Opened
  <1>10. Same(s, c, F)
    BY <1>2, <1>7 DEF Same
  <1>11. Control \subseteq DOMAIN c
    BY <1>2, <1>7 DEF Same, Shape
  <1>12. c.i_new = {} /\ c.dma_valid = FALSE
    BY <1>2, <1>7 DEF Same
  <1> HIDE DEF F, G
  <1> QED
    BY <1>5, <1>8, <1>9, <1>10, <1>11, <1>12 DEF F

-----------------------------------------------------------------------------
(* The parts before the registers, mode by mode *)

Moved(s, i) == Synth(s, Engine(s, i, Opened(s, i)))

Body(s, i) ==
    PioInUnderflow(s, i, MsgOutEnd(s, PioOutEnd(s, OutEnd(s, i, Flush(s, i, InEnd(s, i,
        CdbDone(s, Moved(s, i))))))))

LEMMA CycleParts ==
    ASSUME NEW s, NEW i, NEW b
    PROVE  Cycle(s, i, b) = [PortE(s, i, Interrupts(s, i, Registers(s, i, Body(s, i))), b)
                                EXCEPT !.i_new = {}]
  BY DEF Cycle, Body, Moved, Opened

\* What a clock may do to the sector buffer while no command is executed: a load starts
\* in DATA IN only, a response goes on, and DATA IN ends when nothing is on its way.
BufferStep(s, i, n) ==
    /\ n.io_rd => s.io_rd \/ (s.phase = "DIN" /\ s.blocks_left # 0)
    /\ n.synth_len # 0 => /\ s.synth_len # 0
                          /\ s.blocks_left = 0 => n.blocks_left = 0
                          /\ n.buf_valid => \/ s.buf_valid
                                            \/ s.io_ack_d /\ ~i.io_ack /\ ~s.flush_pending
    /\ (s.phase = "DIN" /\ n.phase # "DIN")
          => /\ ~io_busy(s, i) /\ s.blocks_left = 0
             /\ s.synth_len = 0 \/ s.buf_valid

Buffers == {"synth_len", "blocks_left", "buf_valid", "io_rd"}

\* The engine moves bytes and the response goes on; neither starts a load.
LEMMA BufferKept ==
    ASSUME NEW s, NEW i, NEW n, NEW k, Shape(s), i.io_ack \in BOOLEAN,
           Same(Opened(s, i), n, Buffers), k = Synth(s, n)
    PROVE  /\ k.io_rd => s.io_rd \/ (s.phase = "DIN" /\ s.blocks_left # 0)
           /\ k.synth_len # 0 => /\ s.synth_len # 0
                                 /\ k.buf_valid => \/ s.buf_valid
                                                   \/ s.io_ack_d /\ ~i.io_ack /\ ~s.flush_pending
           /\ s.blocks_left = 0 => k.blocks_left = 0
  <1>1. PICK a : a = Opened(s, i)
    OBVIOUS
  <1>2. /\ a.synth_len = s.synth_len
        /\ a.io_rd => s.io_rd \/ (s.phase = "DIN" /\ s.blocks_left # 0)
        /\ s.blocks_left = 0 => a.blocks_left = 0
        /\ a.buf_valid => s.buf_valid \/ (s.io_ack_d /\ ~i.io_ack /\ ~s.flush_pending)
    <2>1. Same(s, a, Dialogue \cup {"synth_len"})
      BY <1>1, OpenedCycle
    <2>2. a.synth_len = s.synth_len
      BY <2>1 DEF Same
    <2> QED
      BY <1>1, <2>2, OpenedCycle
  <1>3. /\ n.synth_len = a.synth_len /\ n.blocks_left = a.blocks_left
        /\ n.buf_valid = a.buf_valid /\ n.io_rd = a.io_rd
        /\ Buffers \subseteq DOMAIN n
    BY <1>1 DEF Same, Buffers
  <1>4. CASE s.synth_len = 0
    BY <1>2, <1>3, <1>4 DEF Synth, synth_on
  <1>5. CASE s.synth_len # 0 /\ s.synth_idx = s.synth_len - 1
    <2>1. k = [n EXCEPT !.synth_idx = s.synth_idx + 1, !.synth_len = 0, !.buf_valid = TRUE]
      BY <1>5 DEF Synth, synth_on
    <2> QED
      BY <1>2, <1>3, <2>1 DEF Buffers
  <1>6. CASE s.synth_len # 0 /\ s.synth_idx # s.synth_len - 1
    <2>1. k = [n EXCEPT !.synth_idx = s.synth_idx + 1]
      BY <1>6 DEF Synth, synth_on
    <2> QED
      BY <1>2, <1>3, <1>6, <2>1 DEF Buffers
  <1> QED
    BY <1>4, <1>5, <1>6

\* An engine that has no transfer to serve only answers pseudo-DMA accesses.
LEMMA IdleEngine ==
    ASSUME NEW s, NEW i, NEW n, NEW F, Same(n, n, F), ~s.cdb_active, NoTransfer(s),
           {"fifo", "dma_valid"} \subseteq DOMAIN n, n.fifo = s.fifo, n.dma_valid = FALSE,
           F \cap {"fifo", "dma_rlatch", "dma_valid"} = {}
    PROVE  /\ Same(n, Engine(s, i, n), F)
           /\ i.dma # "rd" => Engine(s, i, n).fifo = s.fifo
           /\ i.dma = "none" => Engine(s, i, n).dma_valid = FALSE
  <1>1. Arm(s, i) \in {"none", "pop", "rd_idle", "swallow"}
    BY DEF Arm, drains, NoTransfer
  <1>2. Arm(s, i) \in {"pop", "rd_idle"} => i.dma = "rd"
    BY DEF Arm, drains, NoTransfer
  <1>3. Arm(s, i) = "swallow" => i.dma = "wr"
    BY DEF Arm, drains, NoTransfer
  <1>4. CASE Arm(s, i) = "none"
    BY <1>4 DEF Engine
  <1>5. CASE Arm(s, i) = "pop"
    <2>1. PICK h : h = Head(s.fifo)
      OBVIOUS
    <2>2. PICK k : k = fifo_shift(s, n)
      OBVIOUS
    <2>3. Same(n, k, F) /\ DOMAIN k = DOMAIN n
      BY <2>2, HelpersFrame DEF Same
    <2>4. Engine(s, i, n) = [k EXCEPT !.dma_rlatch = h, !.dma_valid = TRUE]
      BY <1>5, <2>1, <2>2 DEF Engine
    <2> QED
      BY <1>2, <1>5, <2>3, <2>4 DEF Same
  <1>6. CASE Arm(s, i) = "rd_idle"
    <2>1. Engine(s, i, n) = [n EXCEPT !.dma_rlatch = Idle, !.dma_valid = TRUE]
      BY <1>6 DEF Engine
    <2> QED
      BY <1>2, <1>6, <2>1 DEF Same
  <1>7. CASE Arm(s, i) = "swallow"
    <2>1. Engine(s, i, n) = [n EXCEPT !.dma_valid = TRUE]
      BY <1>7 DEF Engine
    <2> QED
      BY <1>3, <1>7, <2>1 DEF Same
  <1> QED
    BY <1>1, <1>4, <1>5, <1>6, <1>7

\* The engine and the response of an idle chip, or of one about to execute a command.
LEMMA IdleParts ==
    ASSUME NEW s, NEW i, Shape(s), i.io_ack \in BOOLEAN, ~s.cdb_active, NoTransfer(s)
    PROVE  /\ Same(s, Moved(s, i), Dialogue \ {"fifo"}) /\ Control \subseteq DOMAIN Moved(s, i)
           /\ Moved(s, i).i_new = {}
           /\ i.dma # "rd" => Moved(s, i).fifo = s.fifo
           /\ i.dma = "none" => Moved(s, i).dma_valid = FALSE
           /\ Moved(s, i).io_rd => s.io_rd \/ (s.phase = "DIN" /\ s.blocks_left # 0)
           /\ Moved(s, i).synth_len # 0
                 => /\ s.synth_len # 0
                    /\ Moved(s, i).buf_valid => \/ s.buf_valid
                                                \/ s.io_ack_d /\ ~i.io_ack /\ ~s.flush_pending
           /\ s.blocks_left = 0 => Moved(s, i).blocks_left = 0
  <1> PICK k : k = Moved(s, i)
    OBVIOUS
  <1> DEFINE G == (Dialogue \ {"fifo"}) \cup {"i_new"}
  <1>1. PICK a : a = Opened(s, i)
    OBVIOUS
  <1>2. /\ Same(s, a, Dialogue \cup {"synth_len"}) /\ Control \subseteq DOMAIN a
        /\ a.i_new = {} /\ a.dma_valid = FALSE
    BY <1>1, OpenedCycle
  <1>3. PICK e : e = Engine(s, i, a)
    OBVIOUS
  <1>4. /\ Same(a, e, G \cup Buffers)
        /\ i.dma # "rd" => e.fifo = s.fifo
        /\ i.dma = "none" => e.dma_valid = FALSE
    <2>1. Same(a, a, G \cup Buffers)
      BY <1>2 DEF Same, Dialogue, Buffers, Control
    <2>2. {"fifo", "dma_valid"} \subseteq DOMAIN a /\ a.fifo = s.fifo
      BY <1>2 DEF Same, Dialogue, Control
    <2>3. (G \cup Buffers) \cap {"fifo", "dma_rlatch", "dma_valid"} = {}
      BY DEF Dialogue, Buffers
    <2> HIDE DEF G
    <2> QED
      BY <1>2, <1>3, <2>1, <2>2, <2>3, IdleEngine
  <1>5. k = Synth(s, e)
    BY <1>1, <1>3 DEF Moved
  <1>6. Same(a, k, G)
    <2>1. Same(a, e, G)
      BY <1>4 DEF Same
    <2>2. G \cap {"synth_idx", "synth_len", "buf_valid"} = {}
      BY DEF Dialogue
    <2> HIDE DEF G
    <2> QED
      BY <1>5, <2>1, <2>2, SynthFrame
  <1>7. k.fifo = e.fifo /\ k.dma_valid = e.dma_valid
    <2>1. Same(e, e, {"fifo", "dma_valid"})
      BY <1>2, <1>4 DEF Same, Control
    <2>2. Same(e, k, {"fifo", "dma_valid"})
      BY <1>5, <2>1, SynthFrame
    <2> QED
      BY <2>2 DEF Same
  <1>8. Same(Opened(s, i), e, Buffers)
    BY <1>1, <1>4 DEF Same
  <1>9. Same(s, k, Dialogue \ {"fifo"}) /\ Control \subseteq DOMAIN k /\ k.i_new = {}
    BY <1>2, <1>6 DEF Same
  <1> QED
    BY <1>4, <1>5, <1>7, <1>8, <1>9, BufferKept

\* A chip without a transfer or a command stays as it is and raises nothing.
LEMMA QuietBody ==
    ASSUME NEW s, NEW i, NEW n, Shape(s), i.io_ack \in BOOLEAN, Quiet(s), n = Body(s, i)
    PROVE  /\ Same(s, n, Dialogue \ {"fifo"}) /\ Control \subseteq DOMAIN n /\ n.i_new = {}
           /\ i.dma # "rd" => n.fifo = s.fifo
           /\ i.dma = "none" => n.dma_valid = FALSE
           /\ BufferStep(s, i, n)
  <1>1. PICK k : k = Moved(s, i)
    OBVIOUS
  <1>2. CdbDone(s, k) = k
    BY DEF CdbDone, Quiet
  <1>3. InEnd(s, i, k) = k /\ Flush(s, i, k) = k /\ OutEnd(s, i, k) = k
    BY DEF InEnd, Flush, OutEnd, Quiet, NoTransfer
  <1>4. PioOutEnd(s, k) = k /\ MsgOutEnd(s, k) = k /\ PioInUnderflow(s, i, k) = k
    BY DEF PioOutEnd, MsgOutEnd, PioInUnderflow, Quiet, NoTransfer
  <1>5. n = k
    BY <1>1, <1>2, <1>3, <1>4 DEF Body
  <1>6. ~s.cdb_active /\ NoTransfer(s)
    BY DEF Quiet
  <1>7. Same(s, k, Dialogue \ {"fifo"})
    BY <1>1, <1>6, IdleParts
  <1>8. k.phase = s.phase
    BY <1>7 DEF Same, Dialogue
  <1> QED
    <2>1. BufferStep(s, i, k)
      BY <1>1, <1>6, <1>8, IdleParts DEF BufferStep
    <2>2. /\ Control \subseteq DOMAIN k /\ k.i_new = {}
          /\ i.dma # "rd" => k.fifo = s.fifo
          /\ i.dma = "none" => k.dma_valid = FALSE
      BY <1>1, <1>6, IdleParts
    <2> QED
      BY <1>5, <1>7, <2>1, <2>2

\* What the execution of a command does to the sector buffer.
ExecStep(s, n) ==
    /\ n.io_rd => s.io_rd
    /\ n.synth_len # 0 => \/ s.synth_len # 0
                          \/ n.phase = "DIN" /\ n.blocks_left = 0 /\ n.buf_valid = FALSE


\* A chip with a complete CDB executes it: it asks for the data phase or the status.
LEMMA ExecutingBody ==
    ASSUME NEW s, NEW i, NEW n, Shape(s), i.io_ack \in BOOLEAN, Executing(s), i.dma = "none",
           n = Body(s, i)
    PROVE  /\ Control \subseteq DOMAIN n /\ Quiet(n) /\ n.phase \in {"STAT", "DIN", "DOUT"}
           /\ Same(s, n, {"msgin_reject", "istatus", "irq", "dest_ok", "fifo"})
           /\ n.i_new = {"BUS", "FC"} /\ n.dma_valid = FALSE
           /\ ExecStep(s, n)
  <1>1. PICK k : k = Moved(s, i)
    OBVIOUS
  <1>2. ~s.cdb_active /\ NoTransfer(s) /\ s.phase = "CMD"
    BY DEF Executing
  <1>3. /\ Same(s, k, Dialogue) /\ Control \subseteq DOMAIN k /\ k.i_new = {} /\ k.dma_valid = FALSE
        /\ k.io_rd => s.io_rd
        /\ k.synth_len # 0 => s.synth_len # 0
    <2>1. Same(s, k, Dialogue \ {"fifo"}) /\ k.fifo = s.fifo
      BY <1>1, <1>2, IdleParts
    <2>2. Same(s, k, Dialogue)
      BY <2>1 DEF Same, Shape, Control, Dialogue
    <2> QED
      BY <1>1, <1>2, <2>2, IdleParts
  <1>4. PICK j : j = [k EXCEPT !.exec_pending = FALSE]
    OBVIOUS
  <1>5. /\ Control \subseteq DOMAIN j /\ Quiet(j) /\ j.i_new = {} /\ j.dma_valid = FALSE
        /\ Same(s, j, {"msgin_reject", "istatus", "irq", "dest_ok", "fifo"})
        /\ j.io_rd => s.io_rd
        /\ j.synth_len # 0 => s.synth_len # 0
    BY <1>3, <1>4 DEF Executing, NoTransfer, Quiet, Same, Control, Dialogue
  <1>6. CdbDone(s, k) = exec_cdb(s, j)
    BY <1>4 DEF CdbDone, Executing
  <1>7. PICK x : x = exec_cdb(s, j)
    OBVIOUS
  <1>8. /\ Control \subseteq DOMAIN x /\ Quiet(x) /\ x.phase \in {"STAT", "DIN", "DOUT"}
        /\ Same(s, x, {"msgin_reject", "istatus", "irq", "dest_ok", "fifo"})
        /\ x.i_new = {"BUS", "FC"} /\ x.dma_valid = FALSE
        /\ x.io_rd => s.io_rd
        /\ x.synth_len # 0 => \/ s.synth_len # 0
                              \/ x.phase = "DIN" /\ x.blocks_left = 0 /\ x.buf_valid = FALSE
    <2> DEFINE Kept == {"msgin_reject", "istatus", "irq", "dest_ok", "fifo"}
               Good(y) == /\ Control \subseteq DOMAIN y /\ Quiet(y) /\ Same(s, y, Kept)
                          /\ y.i_new = {"BUS", "FC"} /\ y.dma_valid = FALSE
                          /\ y.io_rd => s.io_rd
    <2>1. PICK l : l = [j EXCEPT !.scsi_status = "good", !.buf_valid = FALSE, !.sbuf_pos = 0,
                                 !.blocks_left = 0, !.data_dir_in = TRUE]
      OBVIOUS
    <2>2. PICK m : m = raise(l, {"BUS", "FC"})
      OBVIOUS
    <2>3. /\ Control \subseteq DOMAIN l /\ Quiet(l) /\ Same(s, l, Kept) /\ l.i_new = {}
          /\ l.dma_valid = FALSE /\ l.io_rd = j.io_rd /\ l.synth_len = j.synth_len
          /\ l.buf_valid = FALSE /\ l.blocks_left = 0
      BY <1>5, <2>1 DEF Quiet, NoTransfer, Same, Control
    <2>4. Good(m) /\ m.buf_valid = FALSE /\ m.blocks_left = 0 /\ m.synth_len = j.synth_len
      BY <1>5, <2>2, <2>3 DEF raise, Quiet, NoTransfer, Same, Control
    <2>5. \A p : p \in {"STAT", "DIN", "DOUT"} =>
             LET y == [m EXCEPT !.phase = p] IN Good(y) /\ y.phase = p /\ y.synth_len = j.synth_len
      BY <2>4 DEF Quiet, NoTransfer, Same, Control
    <2>6. \A kind, key :
             LET y == [m EXCEPT !.synth_kind = kind, !.synth_idx = 0, !.synth_len = SYNTH,
                                !.sbuf_len = SYNTH, !.phase = "DIN", !.sense_key = key]
             IN  Good(y) /\ y.phase = "DIN" /\ y.blocks_left = 0 /\ y.buf_valid = FALSE
      BY <2>4 DEF Quiet, NoTransfer, Same, Control
    <2>8. LET y == [m EXCEPT !.scsi_status = "check", !.sense_key = 1, !.phase = "STAT"]
          IN  Good(y) /\ y.phase = "STAT" /\ y.synth_len = j.synth_len
      BY <2>4 DEF Quiet, NoTransfer, Same, Control
    <2>9. PICK op : op = opcode(s).op
      OBVIOUS
    <2>7. LET y == [m EXCEPT !.lba = opcode(s).lba, !.blocks_left = opcode(s).blocks,
                             !.data_dir_in = (op = "READ"),
                             !.phase = IF op = "READ" THEN "DIN" ELSE "DOUT"]
          IN  Good(y) /\ y.phase \in {"DIN", "DOUT"} /\ y.synth_len = j.synth_len
      BY <2>4 DEF Quiet, NoTransfer, Same, Control
    <2>10. /\ Good(x) /\ x.phase \in {"STAT", "DIN", "DOUT"}
           /\ \/ x.synth_len = j.synth_len
              \/ x.phase = "DIN" /\ x.blocks_left = 0 /\ x.buf_valid = FALSE
      <3> HIDE DEF Good, Kept
      <3>1. x = IF op = "TUR" THEN [m EXCEPT !.phase = "STAT"]
                ELSE IF op \in Responses
                THEN [m EXCEPT !.synth_kind = Kind(op, s.sense_key), !.synth_idx = 0,
                               !.synth_len = SYNTH, !.sbuf_len = SYNTH, !.phase = "DIN",
                               !.sense_key = key_after(s, op)]
                ELSE IF op \in {"READ", "WRITE"}
                THEN [m EXCEPT !.lba = opcode(s).lba, !.blocks_left = opcode(s).blocks,
                               !.data_dir_in = (op = "READ"),
                               !.phase = IF op = "READ" THEN "DIN" ELSE "DOUT"]
                ELSE [m EXCEPT !.scsi_status = "check", !.sense_key = 1, !.phase = "STAT"]
        BY <1>7, <2>1, <2>2, <2>9 DEF exec_cdb
      <3>2. CASE op = "TUR"
        BY <2>5, <3>1, <3>2
      <3>3. CASE op # "TUR" /\ op \in Responses
        <4>1. PICK kind, key : kind = Kind(op, s.sense_key) /\ key = key_after(s, op)
          OBVIOUS
        <4>2. x = [m EXCEPT !.synth_kind = kind, !.synth_idx = 0, !.synth_len = SYNTH,
                            !.sbuf_len = SYNTH, !.phase = "DIN", !.sense_key = key]
          BY <3>1, <3>3, <4>1
        <4> QED
          BY <2>6, <4>2
      <3>4. CASE op # "TUR" /\ op \notin Responses /\ op \in {"READ", "WRITE"}
        BY <2>7, <2>9, <3>1, <3>4
      <3>5. CASE op # "TUR" /\ op \notin Responses /\ op \notin {"READ", "WRITE"}
        BY <2>8, <3>1, <3>5
      <3> QED
        BY <3>2, <3>3, <3>4, <3>5
    <2> QED
      BY <1>5, <2>10
  <1>9. InEnd(s, i, x) = x /\ Flush(s, i, x) = x /\ OutEnd(s, i, x) = x
    BY <1>2 DEF InEnd, Flush, OutEnd, NoTransfer
  <1>10. PioOutEnd(s, x) = x /\ MsgOutEnd(s, x) = x /\ PioInUnderflow(s, i, x) = x
    BY <1>2 DEF PioOutEnd, MsgOutEnd, PioInUnderflow, NoTransfer
  <1>11. n = x
    BY <1>1, <1>6, <1>7, <1>9, <1>10 DEF Body
  <1> QED
    BY <1>8, <1>11 DEF ExecStep

\* A byte of the CDB, or of the message before it.
Takes(s, n, b) ==
    IF s.skip_cnt # 0 THEN n.skip_cnt = s.skip_cnt - 1 /\ n.cdb = s.cdb
    ELSE n.skip_cnt = s.skip_cnt /\ n.cdb = Append(s.cdb, b)

\* Nothing, or one byte by pseudo-DMA, or one out of the FIFO.
CdbStep(s, i, n) ==
    \/ /\ n.fifo = s.fifo /\ n.cdb = s.cdb /\ n.skip_cnt = s.skip_cnt /\ n.dma_valid = FALSE
       /\ fifo_ext(i) \/ s.fifo = <<>> \/ i.dma # "none"
    \/ /\ i.dma = "wr" /\ ~s.dma_valid /\ n.dma_valid = TRUE
       /\ n.fifo = s.fifo /\ Takes(s, n, i.dma_wdata)
    \/ /\ ~fifo_ext(i) /\ s.fifo # <<>> /\ n.dma_valid = FALSE
       /\ n.fifo = Tail(s.fifo) /\ Takes(s, n, Head(s.fifo))

\* The command phase goes on, or the CDB was complete.
Gathered(s, n) ==
    \/ n.cdb_active = TRUE /\ n.exec_pending = FALSE
    \/ /\ n.cdb_active = FALSE /\ n.exec_pending = TRUE
       /\ s.cdb # <<>> /\ Len(s.cdb) = opcode(s).len

\* A chip that collects a CDB takes at most one byte, from the FIFO or by pseudo-DMA, and
\* it goes on to execute the CDB when that was complete.
LEMMA CollectingEngine ==
    ASSUME NEW s, NEW i, NEW n, NEW F, Same(n, n, F), Collecting(s), i.dma # "rd",
           {"fifo", "dma_valid", "cdb", "skip_cnt"} \subseteq DOMAIN n, n.fifo = s.fifo,
           n.cdb = s.cdb, n.skip_cnt = s.skip_cnt, n.dma_valid = FALSE,
           F \cap {"fifo", "dma_valid", "cdb", "skip_cnt", "tcounter", "tc_zero"} = {}
    PROVE  /\ Same(n, Engine(s, i, n), F)
           /\ LET e == Engine(s, i, n)
              IN  \/ /\ e.fifo = s.fifo /\ e.cdb = s.cdb /\ e.skip_cnt = s.skip_cnt
                     /\ e.dma_valid = FALSE
                     /\ fifo_ext(i) \/ s.fifo = <<>> \/ i.dma # "none"
                  \/ /\ i.dma = "wr" /\ ~s.dma_valid /\ e.dma_valid = TRUE
                     /\ e.fifo = s.fifo /\ Takes(s, e, i.dma_wdata)
                  \/ /\ ~fifo_ext(i) /\ s.fifo # <<>> /\ e.dma_valid = FALSE
                     /\ e.fifo = Tail(s.fifo) /\ Takes(s, e, Head(s.fifo))
  <1>1. Arm(s, i) \in {"none", "cdb_dma", "cdb_ff"}
    BY DEF Arm, drains, NoTransfer, Collecting
  <1>2. Arm(s, i) = "none" => fifo_ext(i) \/ s.fifo = <<>> \/ i.dma # "none"
    BY DEF Arm, drains, NoTransfer, Collecting
  <1>3. Arm(s, i) = "cdb_dma" => i.dma = "wr" /\ ~s.dma_valid
    BY DEF Arm, drains, NoTransfer, Collecting
  <1>4. Arm(s, i) = "cdb_ff" => ~fifo_ext(i) /\ s.fifo # <<>>
    BY DEF Arm, drains, NoTransfer, Collecting
  <1>5. \A b : /\ Same(n, cdb_byte(s, n, b), F) /\ Takes(s, cdb_byte(s, n, b), b)
               /\ cdb_byte(s, n, b).fifo = s.fifo /\ cdb_byte(s, n, b).dma_valid = FALSE
               /\ DOMAIN cdb_byte(s, n, b) = DOMAIN n
    BY DEF cdb_byte, Same, Takes
  <1>6. CASE Arm(s, i) = "none"
    BY <1>2, <1>6 DEF Engine
  <1>7. CASE Arm(s, i) = "cdb_dma"
    <2>1. PICK b : b = i.dma_wdata
      OBVIOUS
    <2>2. PICK k : k = cdb_byte(s, n, b)
      OBVIOUS
    <2>3. Same(n, k, F) /\ Takes(s, k, b) /\ k.fifo = s.fifo /\ DOMAIN k = DOMAIN n
      BY <1>5, <2>2
    <2>4. PICK d : d = dec_tc(s, k)
      OBVIOUS
    <2>5. Same(n, d, F) /\ DOMAIN d = DOMAIN n
          /\ d.fifo = k.fifo /\ d.cdb = k.cdb /\ d.skip_cnt = k.skip_cnt
      BY <2>3, <2>4 DEF dec_tc, Same
    <2>6. Engine(s, i, n) = [d EXCEPT !.dma_valid = TRUE]
      BY <1>7, <2>1, <2>2, <2>4 DEF Engine
    <2>7. PICK e : e = [d EXCEPT !.dma_valid = TRUE]
      OBVIOUS
    <2>8. Same(n, e, F) /\ e.dma_valid = TRUE /\ e.fifo = s.fifo /\ e.cdb = k.cdb
          /\ e.skip_cnt = k.skip_cnt
      BY <2>3, <2>5, <2>7 DEF Same
    <2>9. Takes(s, e, i.dma_wdata)
      BY <2>1, <2>3, <2>8 DEF Takes
    <2> QED
      BY <1>3, <1>7, <2>6, <2>7, <2>8, <2>9
  <1>8. CASE Arm(s, i) = "cdb_ff"
    <2>1. PICK b : b = Head(s.fifo)
      OBVIOUS
    <2>2. PICK k : k = cdb_byte(s, n, b)
      OBVIOUS
    <2>3. Same(n, k, F) /\ Takes(s, k, b) /\ k.dma_valid = FALSE /\ DOMAIN k = DOMAIN n
      BY <1>5, <2>2
    <2>4. Engine(s, i, n) = [k EXCEPT !.fifo = Tail(s.fifo)]
      BY <1>8, <2>1, <2>2 DEF Engine, fifo_shift
    <2>5. PICK e : e = [k EXCEPT !.fifo = Tail(s.fifo)]
      OBVIOUS
    <2>6. Same(n, e, F) /\ e.dma_valid = FALSE /\ e.fifo = Tail(s.fifo) /\ e.cdb = k.cdb
          /\ e.skip_cnt = k.skip_cnt
      BY <2>3, <2>5 DEF Same
    <2>7. Takes(s, e, Head(s.fifo))
      BY <2>1, <2>3, <2>6 DEF Takes
    <2> QED
      BY <1>4, <1>8, <2>4, <2>5, <2>6, <2>7
  <1> QED
    BY <1>1, <1>6, <1>7, <1>8

LEMMA CollectingBody ==
    ASSUME NEW s, NEW i, NEW n, Shape(s), i.io_ack \in BOOLEAN, Collecting(s), i.dma # "rd",
           n = Body(s, i)
    PROVE  /\ Control \subseteq DOMAIN n /\ n.i_new = {} /\ BufferStep(s, i, n)
           /\ Same(s, n, {"phase", "msgin_reject", "istatus", "irq", "dest_ok"}) /\ NoTransfer(n)
           /\ Gathered(s, n) /\ CdbStep(s, i, n)
  <1> DEFINE D == {"phase", "msgin_reject", "istatus", "irq", "dest_ok"} \cup Modes
             G == D \cup {"i_new"}
             Bytes4 == {"fifo", "cdb", "skip_cnt", "dma_valid"}
  <1>1. PICK a : a = Opened(s, i)
    OBVIOUS
  <1>2. /\ Same(s, a, Dialogue \cup {"synth_len"}) /\ Control \subseteq DOMAIN a
        /\ a.i_new = {} /\ a.dma_valid = FALSE
    BY <1>1, OpenedCycle
  <1>3. PICK e : e = Engine(s, i, a)
    OBVIOUS
  <1>4. /\ Same(a, e, G \cup Buffers)
        /\ \/ /\ e.fifo = s.fifo /\ e.cdb = s.cdb /\ e.skip_cnt = s.skip_cnt
              /\ e.dma_valid = FALSE
              /\ fifo_ext(i) \/ s.fifo = <<>> \/ i.dma # "none"
           \/ /\ i.dma = "wr" /\ ~s.dma_valid /\ e.dma_valid = TRUE
              /\ e.fifo = s.fifo /\ Takes(s, e, i.dma_wdata)
           \/ /\ ~fifo_ext(i) /\ s.fifo # <<>> /\ e.dma_valid = FALSE
              /\ e.fifo = Tail(s.fifo) /\ Takes(s, e, Head(s.fifo))
    <2>1. Same(a, a, G \cup Buffers)
      BY <1>2 DEF Same, Modes, Buffers, Control
    <2>2. /\ {"fifo", "dma_valid", "cdb", "skip_cnt"} \subseteq DOMAIN a
          /\ a.fifo = s.fifo /\ a.cdb = s.cdb /\ a.skip_cnt = s.skip_cnt
      BY <1>2 DEF Same, Dialogue, Control
    <2>3. (G \cup Buffers) \cap {"fifo", "dma_valid", "cdb", "skip_cnt", "tcounter", "tc_zero"} = {}
      BY DEF Modes, Buffers
    <2>4. PICK H : H = G \cup Buffers
      OBVIOUS
    <2>5. Same(a, Engine(s, i, a), H)
      BY <1>2, <2>1, <2>2, <2>3, <2>4, CollectingEngine
    <2>6. LET v == Engine(s, i, a)
          IN  \/ /\ v.fifo = s.fifo /\ v.cdb = s.cdb /\ v.skip_cnt = s.skip_cnt
                 /\ v.dma_valid = FALSE
                 /\ fifo_ext(i) \/ s.fifo = <<>> \/ i.dma # "none"
              \/ /\ i.dma = "wr" /\ ~s.dma_valid /\ v.dma_valid = TRUE
                 /\ v.fifo = s.fifo /\ Takes(s, v, i.dma_wdata)
              \/ /\ ~fifo_ext(i) /\ s.fifo # <<>> /\ v.dma_valid = FALSE
                 /\ v.fifo = Tail(s.fifo) /\ Takes(s, v, Head(s.fifo))
      BY <1>2, <2>1, <2>2, <2>3, <2>4, CollectingEngine
    <2> QED
      BY <1>3, <2>4, <2>5, <2>6
  <1>5. PICK k : k = Moved(s, i)
    OBVIOUS
  <1>6. k = Synth(s, e)
    BY <1>1, <1>3, <1>5 DEF Moved
  <1>7. Same(a, k, G)
    <2>1. Same(a, e, G)
      BY <1>4 DEF Same
    <2>2. G \cap {"synth_idx", "synth_len", "buf_valid"} = {}
      BY DEF Modes
    <2> HIDE DEF G
    <2> QED
      BY <1>6, <2>1, <2>2, SynthFrame
  <1>8. Same(e, k, Bytes4)
    <2>1. Same(e, e, Bytes4)
      BY <1>2, <1>4 DEF Same, Control
    <2> QED
      BY <1>6, <2>1, SynthFrame
  <1>9. Same(s, k, D) /\ Control \subseteq DOMAIN k /\ k.i_new = {}
    BY <1>2, <1>7 DEF Same, Modes, Dialogue
  <1>10. PICK x : x = CdbDone(s, k)
    OBVIOUS
  <1>11. \/ x = k
         \/ /\ x = [k EXCEPT !.cdb_active = FALSE, !.exec_pending = TRUE]
            /\ s.cdb # <<>> /\ Len(s.cdb) = opcode(s).len
    BY <1>10 DEF CdbDone, Collecting
  <1>12. InEnd(s, i, x) = x /\ Flush(s, i, x) = x /\ OutEnd(s, i, x) = x
    BY DEF InEnd, Flush, OutEnd, NoTransfer, Collecting
  <1>13. PioOutEnd(s, x) = x /\ MsgOutEnd(s, x) = x /\ PioInUnderflow(s, i, x) = x
    BY DEF PioOutEnd, MsgOutEnd, PioInUnderflow, NoTransfer, Collecting
  <1>14. n = x
    BY <1>5, <1>10, <1>12, <1>13 DEF Body
  <1>15. /\ Same(e, n, Bytes4)
         /\ Same(k, n, Buffers \cup {"phase", "msgin_reject", "istatus", "irq", "dest_ok", "i_new",
                            "xfer_in", "xfer_out", "xfer_pio_in", "xfer_pio_out", "xfer_msg_out"})
    <2>1. \A F : (F \subseteq DOMAIN k /\ F \cap {"cdb_active", "exec_pending"} = {}) => Same(k, n, F)
      BY <1>11, <1>14 DEF Same
    <2>2. Same(k, n, Bytes4)
      BY <1>9, <2>1 DEF Control
    <2>3. Same(e, n, Bytes4)
      BY <1>8, <2>2 DEF Same
    <2> QED
      BY <1>9, <2>1, <2>3 DEF Control, Buffers
  <1>16. /\ n.phase = s.phase /\ n.i_new = {} /\ Control \subseteq DOMAIN n /\ NoTransfer(n)
         /\ Same(s, n, {"phase", "msgin_reject", "istatus", "irq", "dest_ok"})
    BY <1>9, <1>15 DEF Same, Collecting, NoTransfer, Modes, Control
  <1>17. \/ n.cdb_active = TRUE /\ n.exec_pending = FALSE
         \/ /\ n.cdb_active = FALSE /\ n.exec_pending = TRUE
            /\ s.cdb # <<>> /\ Len(s.cdb) = opcode(s).len
    <2>1. k.cdb_active = TRUE /\ k.exec_pending = FALSE
          /\ {"cdb_active", "exec_pending"} \subseteq DOMAIN k
      BY <1>9 DEF Same, Collecting, Modes, Control, Shape
    <2> QED
      BY <1>11, <1>14, <2>1
  <1>18. BufferStep(s, i, n)
    <2>1. Same(Opened(s, i), e, Buffers)
      BY <1>1, <1>4 DEF Same
    <2>2. /\ k.io_rd => s.io_rd \/ (s.phase = "DIN" /\ s.blocks_left # 0)
          /\ k.synth_len # 0 => /\ s.synth_len # 0
                                /\ k.buf_valid => \/ s.buf_valid
                                                  \/ s.io_ack_d /\ ~i.io_ack /\ ~s.flush_pending
          /\ s.blocks_left = 0 => k.blocks_left = 0
      BY <1>6, <2>1, BufferKept
    <2>3. /\ n.io_rd = k.io_rd /\ n.synth_len = k.synth_len /\ n.buf_valid = k.buf_valid
          /\ n.blocks_left = k.blocks_left
      BY <1>15 DEF Same, Buffers
    <2> QED
      BY <1>16, <2>2, <2>3 DEF BufferStep
  <1>19. n.fifo = e.fifo /\ n.cdb = e.cdb /\ n.skip_cnt = e.skip_cnt /\ n.dma_valid = e.dma_valid
    BY <1>15 DEF Same
  <1> QED
    BY <1>4, <1>16, <1>17, <1>18, <1>19 DEF Takes, Gathered, CdbStep

\* n differs from m in the registers W only.
Only(m, n, W) == DOMAIN n = DOMAIN m /\ \A f \in DOMAIN m \ W : n[f] = m[f]

Moving == {"fifo", "dma_rlatch", "dma_valid", "tcounter", "tc_zero", "sbuf_pos"}

\* The byte of a transfer that reads one, which may be the last of the command.
ByteRead(s, i, n, e) ==
    /\ s.xfer_pio_in /\ s.buf_valid /\ ~Exhausted(s, i)
    /\ \E p : /\ p = n.phase \/ (p = "STAT" /\ s.blocks_left = 0 /\ ~io_busy(s, i))
              /\ \E v : /\ Only(n, v, Moving)
                        /\ e = raise([v EXCEPT !.xfer_pio_in = FALSE, !.phase = p], {"BUS"})

\* A data transfer: the engine moves bytes, and reading byte by byte ends with one.
LEMMA ReadingEngine ==
    ASSUME NEW s, NEW i, NEW n, NEW e, Reading(s), e = Engine(s, i, n)
    PROVE  \/ Only(n, e, Moving)
           \/ ByteRead(s, i, n, e)
  <1>1. Arm(s, i) \in {"none", "pop", "rd_idle", "swallow", "fill", "pio_in"}
    BY DEF Arm, drains, Reading
  <1>2. CASE Arm(s, i) = "none"
    BY <1>2 DEF Engine, Only
  <1>3. CASE Arm(s, i) \in {"rd_idle", "swallow"}
    BY <1>3 DEF Engine, Only, Moving
  <1>4. CASE Arm(s, i) = "pop"
    <2>1. PICK h, u : h = Head(s.fifo) /\ u = Tail(s.fifo)
      OBVIOUS
    <2>2. PICK v : v = [n EXCEPT !.fifo = u]
      OBVIOUS
    <2>3. e = [v EXCEPT !.dma_rlatch = h, !.dma_valid = TRUE]
      BY <1>4, <2>1, <2>2 DEF Engine, fifo_shift
    <2> QED
      BY <2>2, <2>3 DEF Only, Moving
  <1>5. PICK w : w = fifo_push(s, n, sbuf_byte(s))
    OBVIOUS
  <1>6. Only(n, w, Moving)
    BY <1>5 DEF fifo_push, Only, Moving
  <1>7. PICK v : v = [w EXCEPT !.sbuf_pos = s.sbuf_pos + 1]
    OBVIOUS
  <1>8. Only(n, v, Moving)
    BY <1>6, <1>7 DEF Only, Moving
  <1>9. CASE Arm(s, i) = "fill"
    <2>1. e = dec_tc(s, v)
      BY <1>5, <1>7, <1>9 DEF Engine
    <2> QED
      BY <1>8, <2>1 DEF dec_tc, Only, Moving
  <1>10. CASE Arm(s, i) = "pio_in"
    <2>1. s.xfer_pio_in /\ byte_avail(s)
      BY <1>10 DEF Arm, drains, Reading
    <2>2. s.buf_valid /\ ~Exhausted(s, i)
      BY <2>1 DEF byte_avail, Exhausted
    <2>3. PICK p : p = IF s.sbuf_pos = s.sbuf_len - 1 /\ s.blocks_left = 0 /\ ~io_busy(s, i)
                       THEN "STAT" ELSE v.phase
      OBVIOUS
    <2>4. e = raise([v EXCEPT !.xfer_pio_in = FALSE, !.phase = p], {"BUS"})
      BY <1>5, <1>7, <1>10, <2>3 DEF Engine
    <2>5. v.phase = n.phase
      BY <1>5, <1>7 DEF fifo_push
    <2> QED
      BY <1>8, <2>1, <2>2, <2>3, <2>4, <2>5 DEF ByteRead
  <1> QED
    BY <1>1, <1>2, <1>3, <1>4, <1>9, <1>10

\* A chip that reads stays at it, or ends the transfer with an interrupt.
LEMMA ReadingBody ==
    ASSUME NEW s, NEW i, NEW n, Shape(s), i.io_ack \in BOOLEAN, Reading(s), n = Body(s, i)
    PROVE  /\ Control \subseteq DOMAIN n /\ BufferStep(s, i, n)
           /\ Same(s, n, {"msgin_reject", "istatus", "irq", "dest_ok"})
           /\ \/ n.i_new = {} /\ Reading(n)
              \/ n.i_new = {"BUS"} /\ Quiet(n) /\ n.phase \in {"DIN", "STAT"}
           /\ n.xfer_in \in BOOLEAN /\ n.xfer_pio_in \in BOOLEAN
  <1> DEFINE D == {"cdb_active", "exec_pending", "xfer_in", "xfer_out", "xfer_pio_out",
                   "xfer_msg_out", "msgin_reject", "istatus", "irq", "dest_ok"}
             E == D \cup {"xfer_pio_in", "phase"}
  <1>1. PICK a : a = Opened(s, i)
    OBVIOUS
  <1>2. Same(s, a, E) /\ Control \subseteq DOMAIN a /\ a.i_new = {}
    <2>1. Same(s, a, Dialogue \cup {"synth_len"}) /\ Control \subseteq DOMAIN a /\ a.i_new = {}
      BY <1>1, OpenedCycle
    <2> QED
      BY <2>1 DEF Same, Dialogue
  <1>3. PICK e : e = Engine(s, i, a)
    OBVIOUS
  <1>4. PICK k : k = Synth(s, e)
    OBVIOUS
  <1>5. k = Moved(s, i)
    BY <1>1, <1>3, <1>4 DEF Moved
  <1>6. Only(e, k, {"synth_idx", "synth_len", "buf_valid"})
    BY <1>4 DEF Synth, Only
  <1>7. CdbDone(s, k) = k
    BY DEF CdbDone, Reading
  <1>8. PICK x : x = InEnd(s, i, k)
    OBVIOUS
  <1>9. Flush(s, i, x) = x /\ OutEnd(s, i, x) = x /\ PioOutEnd(s, x) = x /\ MsgOutEnd(s, x) = x
    BY DEF Flush, OutEnd, PioOutEnd, MsgOutEnd, Reading
  <1>10. n = PioInUnderflow(s, i, x)
    BY <1>5, <1>7, <1>8, <1>9 DEF Body
  <1>11. s.xfer_in = ~s.xfer_pio_in /\ s.xfer_in \in BOOLEAN /\ s.xfer_pio_in \in BOOLEAN
    BY DEF Reading, Shape, Modes
  <1>12. Exhausted(s, i) => ~io_busy(s, i) /\ s.blocks_left = 0 /\ s.synth_len = 0
    BY DEF Exhausted, synth_on
  <1>13. Same(a, e, Buffers) =>
            /\ k.io_rd => s.io_rd \/ (s.phase = "DIN" /\ s.blocks_left # 0)
            /\ k.synth_len # 0 => /\ s.synth_len # 0
                                  /\ k.buf_valid => \/ s.buf_valid
                                                    \/ s.io_ack_d /\ ~i.io_ack /\ ~s.flush_pending
            /\ s.blocks_left = 0 => k.blocks_left = 0
    BY <1>1, <1>4, BufferKept
  <1>14. CASE Only(a, e, Moving)
    <2>1. Same(s, k, E) /\ Control \subseteq DOMAIN k /\ k.i_new = {} /\ Same(a, e, Buffers)
      BY <1>2, <1>6, <1>14 DEF Same, Only, Moving, Control, Buffers
    <2>2. /\ k.io_rd => s.io_rd \/ (s.phase = "DIN" /\ s.blocks_left # 0)
          /\ k.synth_len # 0 => /\ s.synth_len # 0
                                /\ k.buf_valid => \/ s.buf_valid
                                                  \/ s.io_ack_d /\ ~i.io_ack /\ ~s.flush_pending
          /\ s.blocks_left = 0 => k.blocks_left = 0
      BY <1>13, <2>1
    <2>3. CASE n = k
      <3>1. Reading(k)
        BY <2>1 DEF Reading, Same
      <3>2. k.phase = s.phase /\ Same(s, k, {"msgin_reject", "istatus", "irq", "dest_ok"})
            /\ k.xfer_in \in BOOLEAN /\ k.xfer_pio_in \in BOOLEAN
        BY <1>11, <2>1 DEF Same
      <3> QED
        BY <2>1, <2>2, <2>3, <3>1, <3>2 DEF BufferStep
    <2>4. CASE n # k
      <3>1. \/ /\ s.xfer_in
               /\ n = raise([k EXCEPT !.chunk_irq_armed = FALSE, !.xfer_in = FALSE,
                                      !.phase = IF Exhausted(s, i) THEN "STAT" ELSE @], {"BUS"})
            \/ /\ s.xfer_pio_in /\ Exhausted(s, i)
               /\ n = raise([k EXCEPT !.xfer_pio_in = FALSE, !.phase = "STAT"], {"BUS"})
        BY <1>8, <1>10, <1>11, <2>4 DEF InEnd, PioInUnderflow
      <3>2. k.phase = "DIN" /\ ~k.cdb_active /\ ~k.exec_pending /\ ~k.xfer_out /\ ~k.xfer_pio_out
            /\ ~k.xfer_msg_out /\ k.xfer_in = s.xfer_in /\ k.xfer_pio_in = s.xfer_pio_in
        BY <2>1 DEF Same, Reading
      <3>3. PICK p : p = (IF s.xfer_in THEN IF Exhausted(s, i) THEN "STAT" ELSE "DIN" ELSE "STAT")
        OBVIOUS
      <3>4. \/ /\ s.xfer_in
               /\ n = [k EXCEPT !.chunk_irq_armed = FALSE, !.xfer_in = FALSE, !.phase = p,
                                !.i_new = {"BUS"}]
            \/ /\ s.xfer_pio_in
               /\ n = [k EXCEPT !.xfer_pio_in = FALSE, !.phase = p, !.i_new = {"BUS"}]
        <4>1. k.i_new \cup {"BUS"} = {"BUS"}
          BY <2>1
        <4>2. CASE s.xfer_in
          <5>1. PICK y : y = [k EXCEPT !.chunk_irq_armed = FALSE, !.xfer_in = FALSE, !.phase = p]
            OBVIOUS
          <5>2. p = IF Exhausted(s, i) THEN "STAT" ELSE k.phase
            BY <3>2, <3>3, <4>2
          <5>3. n = raise(y, {"BUS"})
            BY <1>11, <3>1, <4>2, <5>1, <5>2
          <5>4. y.i_new = k.i_new
            BY <5>1
          <5> QED
            BY <4>1, <4>2, <5>1, <5>3, <5>4 DEF raise
        <4>3. CASE s.xfer_pio_in
          <5>1. PICK y : y = [k EXCEPT !.xfer_pio_in = FALSE, !.phase = p]
            OBVIOUS
          <5>2. p = "STAT"
            BY <1>11, <3>3, <4>3
          <5>3. n = raise(y, {"BUS"})
            BY <1>11, <3>1, <4>3, <5>1, <5>2
          <5>4. y.i_new = k.i_new
            BY <5>1
          <5> QED
            BY <4>1, <4>3, <5>1, <5>3, <5>4 DEF raise
        <4> QED
          BY <1>11, <4>2, <4>3
      <3>5. /\ Only(k, n, {"chunk_irq_armed", "xfer_in", "xfer_pio_in", "phase", "i_new"})
            /\ n.xfer_in = FALSE /\ n.xfer_pio_in = FALSE /\ n.i_new = {"BUS"} /\ n.phase = p
        BY <1>11, <2>1, <3>2, <3>4 DEF Only, Control
      <3>6. Control \subseteq DOMAIN n /\ Same(s, n, {"msgin_reject", "istatus", "irq", "dest_ok"})
            /\ Quiet(n)
        BY <2>1, <3>2, <3>5 DEF Only, Same, Quiet, NoTransfer, Control
      <3>7. n.io_rd = k.io_rd /\ n.synth_len = k.synth_len /\ n.buf_valid = k.buf_valid
            /\ n.blocks_left = k.blocks_left
        BY <2>1, <3>5 DEF Only, Control
      <3>8. p # "DIN" => Exhausted(s, i)
        BY <1>11, <3>1, <3>3
      <3>9. BufferStep(s, i, n)
        BY <1>12, <2>2, <3>5, <3>7, <3>8 DEF BufferStep
      <3> QED
        BY <3>3, <3>5, <3>6, <3>9
    <2> QED
      BY <2>3, <2>4
  <1>15. CASE ~Only(a, e, Moving)
    <2>1. PICK p, v : /\ s.xfer_pio_in /\ s.buf_valid /\ ~Exhausted(s, i)
                      /\ p = a.phase \/ (p = "STAT" /\ s.blocks_left = 0 /\ ~io_busy(s, i))
                      /\ Only(a, v, Moving)
                      /\ e = raise([v EXCEPT !.xfer_pio_in = FALSE, !.phase = p], {"BUS"})
      <3>1. ByteRead(s, i, a, e)
        BY <1>3, <1>15, ReadingEngine
      <3> QED
        BY <3>1 DEF ByteRead
    <2>2. n = k
      BY <1>8, <1>10, <1>11, <2>1 DEF InEnd, PioInUnderflow
    <2>3. PICK y : y = [v EXCEPT !.xfer_pio_in = FALSE, !.phase = p]
      OBVIOUS
    <2>4. /\ Only(a, y, Moving \cup {"xfer_pio_in", "phase"}) /\ y.xfer_pio_in = FALSE
          /\ y.phase = p /\ y.i_new = {}
      BY <1>2, <2>1, <2>3 DEF Only, Moving, Control
    <2>5. /\ Only(a, e, Moving \cup {"xfer_pio_in", "phase", "i_new"}) /\ e.xfer_pio_in = FALSE
          /\ e.phase = p /\ e.i_new = {"BUS"}
      <3>1. y.i_new \cup {"BUS"} = {"BUS"}
        BY <2>4
      <3>2. e = [y EXCEPT !.i_new = {"BUS"}]
        BY <2>1, <2>3, <3>1 DEF raise
      <3> QED
        BY <1>2, <2>4, <3>2 DEF Only, Control, Moving
    <2>6. /\ Same(s, k, D) /\ Control \subseteq DOMAIN k /\ Same(a, e, Buffers)
          /\ k.xfer_pio_in = FALSE /\ k.phase = p /\ k.i_new = {"BUS"}
      BY <1>2, <1>6, <2>5 DEF Same, Only, Moving, Control, Buffers
    <2>7. Quiet(k) /\ Same(s, k, {"msgin_reject", "istatus", "irq", "dest_ok"})
      BY <1>11, <2>1, <2>6 DEF Same, Reading, Quiet, NoTransfer
    <2>8. p \in {"DIN", "STAT"} /\ (p # "DIN" => s.blocks_left = 0 /\ ~io_busy(s, i))
      BY <1>2, <2>1 DEF Same, Reading
    <2>9. k.xfer_in = FALSE
      BY <1>11, <2>1, <2>6 DEF Same
    <2>10. BufferStep(s, i, k)
      BY <1>13, <2>1, <2>6, <2>8 DEF BufferStep
    <2> QED
      BY <2>2, <2>6, <2>7, <2>8, <2>9, <2>10
  <1> QED
    BY <1>14, <1>15

LEMMA WritingEngine ==
    ASSUME NEW s, NEW i, NEW n, Writing(s)
    PROVE  Only(n, Engine(s, i, n), Moving)
  <1>1. Arm(s, i) \in {"none", "pop", "rd_idle", "out_dma", "swallow", "drain"}
    BY DEF Arm, Writing
  <1>2. CASE Arm(s, i) = "none"
    BY <1>2 DEF Engine, Only
  <1>3. CASE Arm(s, i) \in {"rd_idle", "swallow"}
    BY <1>3 DEF Engine, Only, Moving
  <1>4. PICK u, v : u = Tail(s.fifo) /\ v = [n EXCEPT !.fifo = u]
    OBVIOUS
  <1>5. CASE Arm(s, i) = "pop"
    <2>1. PICK h : h = Head(s.fifo)
      OBVIOUS
    <2>2. Engine(s, i, n) = [v EXCEPT !.dma_rlatch = h, !.dma_valid = TRUE]
      BY <1>4, <1>5, <2>1 DEF Engine, fifo_shift
    <2> QED
      BY <1>4, <2>2 DEF Only, Moving
  <1>6. CASE Arm(s, i) = "drain"
    <2>1. Engine(s, i, n) = [v EXCEPT !.sbuf_pos = s.sbuf_pos + 1]
      BY <1>4, <1>6 DEF Engine, fifo_shift
    <2> QED
      BY <1>4, <2>1 DEF Only, Moving
  <1>7. CASE Arm(s, i) = "out_dma"
    <2>1. PICK w : w = fifo_push(s, n, i.dma_wdata)
      OBVIOUS
    <2>2. Only(n, w, Moving)
      BY <2>1 DEF fifo_push, Only, Moving
    <2>3. PICK d : d = dec_tc(s, w)
      OBVIOUS
    <2>4. Only(n, d, Moving)
      BY <2>2, <2>3 DEF dec_tc, Only, Moving
    <2>5. Engine(s, i, n) = [d EXCEPT !.dma_valid = TRUE]
      BY <1>7, <2>1, <2>3 DEF Engine
    <2> QED
      BY <2>4, <2>5 DEF Only, Moving
  <1> QED
    BY <1>1, <1>2, <1>3, <1>5, <1>6, <1>7

\* A chip that writes stays at it, through the flush of a sector, or ends the transfer
\* with an interrupt.
LEMMA WritingBody ==
    ASSUME NEW s, NEW i, NEW n, Shape(s), i.io_ack \in BOOLEAN, Writing(s), n = Body(s, i)
    PROVE  /\ Control \subseteq DOMAIN n /\ BufferStep(s, i, n)
           /\ Same(s, n, {"msgin_reject", "istatus", "irq", "dest_ok"})
           /\ \/ n.i_new = {} /\ Writing(n)
              \/ n.i_new = {"BUS"} /\ Quiet(n) /\ n.phase \in {"DOUT", "STAT"}
           /\ n.xfer_out \in BOOLEAN /\ n.xfer_pio_out \in BOOLEAN
  <1> DEFINE E == Modes \cup {"msgin_reject", "istatus", "irq", "dest_ok"}
  <1>1. PICK a : a = Opened(s, i)
    OBVIOUS
  <1>2. Same(s, a, E \cup {"phase"}) /\ Control \subseteq DOMAIN a /\ a.i_new = {}
    <2>1. Same(s, a, Dialogue \cup {"synth_len"}) /\ Control \subseteq DOMAIN a /\ a.i_new = {}
      BY <1>1, OpenedCycle
    <2> QED
      BY <2>1 DEF Same, Dialogue, Modes
  <1>3. PICK e : e = Engine(s, i, a)
    OBVIOUS
  <1>4. Only(a, e, Moving)
    BY <1>3, WritingEngine
  <1>5. PICK k : k = Synth(s, e)
    OBVIOUS
  <1>6. k = Moved(s, i)
    BY <1>1, <1>3, <1>5 DEF Moved
  <1>7. Only(e, k, {"synth_idx", "synth_len", "buf_valid"})
    BY <1>5 DEF Synth, Only
  <1>8. /\ Same(s, k, E \cup {"phase"}) /\ Control \subseteq DOMAIN k /\ k.i_new = {}
        /\ Same(a, e, Buffers)
    BY <1>2, <1>4, <1>7 DEF Same, Only, Moving, Control, Buffers, Modes
  <1>9. /\ k.io_rd => s.io_rd \/ (s.phase = "DIN" /\ s.blocks_left # 0)
        /\ k.synth_len # 0 => /\ s.synth_len # 0
                              /\ k.buf_valid => \/ s.buf_valid
                                                \/ s.io_ack_d /\ ~i.io_ack /\ ~s.flush_pending
        /\ s.blocks_left = 0 => k.blocks_left = 0
    <2>1. Same(Opened(s, i), e, Buffers)
      BY <1>1, <1>8
    <2> QED
      BY <1>5, <2>1, BufferKept
  <1>10. CdbDone(s, k) = k /\ InEnd(s, i, k) = k
    BY DEF CdbDone, InEnd, Writing
  <1>11. PICK f : f = Flush(s, i, k)
    OBVIOUS
  <1>12. /\ Only(k, f, {"io_lba", "lba", "io_wr", "flush_pending", "sbuf_pos", "blocks_left", "phase"})
         /\ f.phase \in {"DOUT", "STAT"} /\ (s.blocks_left = 0 => f.blocks_left = k.blocks_left)
    <2>1. k.phase \in {"DOUT", "STAT"} /\ {"phase", "blocks_left"} \subseteq DOMAIN k
      BY <1>8 DEF Same, Writing, Control
    <2>2. CASE f = k
      BY <2>1, <2>2 DEF Only
    <2>3. CASE f = StartFlush(s, k)
      BY <2>1, <2>3 DEF StartFlush, Only
    <2> QED
      BY <1>11, <2>2, <2>3 DEF Flush
  <1>13. /\ Same(s, f, E) /\ Control \subseteq DOMAIN f /\ f.i_new = {}
         /\ f.io_rd = k.io_rd /\ f.synth_len = k.synth_len /\ f.buf_valid = k.buf_valid
    BY <1>8, <1>12 DEF Only, Same, Control, Modes
  <1>14. s.xfer_out = ~s.xfer_pio_out /\ s.xfer_out \in BOOLEAN /\ s.xfer_pio_out \in BOOLEAN
    BY DEF Writing, Shape, Modes
  <1>15. n = PioInUnderflow(s, i, MsgOutEnd(s, PioOutEnd(s, OutEnd(s, i, f))))
    BY <1>6, <1>10, <1>11 DEF Body
  <1>16. \A y : MsgOutEnd(s, y) = y /\ PioInUnderflow(s, i, y) = y
    BY DEF MsgOutEnd, PioInUnderflow, Writing
  <1>17. n = PioOutEnd(s, OutEnd(s, i, f))
    BY <1>15, <1>16
  <1>18. \/ n = f
         \/ \E p : /\ p \in {f.phase, "STAT"}
                   /\ s.xfer_out
                   /\ n = raise([f EXCEPT !.chunk_irq_armed = FALSE, !.xfer_out = FALSE,
                                          !.phase = p], {"BUS"})
         \/ s.xfer_pio_out /\ n = raise([f EXCEPT !.xfer_pio_out = FALSE], {"BUS"})
    <2>1. CASE s.xfer_out
      <3>1. n = OutEnd(s, i, f)
        BY <1>14, <1>17, <2>1 DEF PioOutEnd
      <3>2. PICK p : p = IF s.blocks_left = 0 THEN "STAT" ELSE f.phase
        OBVIOUS
      <3> QED
        BY <2>1, <3>1, <3>2 DEF OutEnd
    <2>2. CASE s.xfer_pio_out
      BY <1>14, <1>17, <2>2 DEF OutEnd, PioOutEnd
    <2> QED
      BY <1>14, <2>1, <2>2
  <1>19. CASE n = f
    <2>1. Writing(f)
      BY <1>12, <1>13 DEF Writing, Same, Modes
    <2>2. Same(s, f, {"msgin_reject", "istatus", "irq", "dest_ok"})
          /\ f.xfer_out \in BOOLEAN /\ f.xfer_pio_out \in BOOLEAN
      BY <1>13, <1>14 DEF Same, Modes
    <2>3. BufferStep(s, i, f)
      BY <1>9, <1>12, <1>13 DEF BufferStep, Writing
    <2> QED
      BY <1>13, <1>19, <2>1, <2>2, <2>3
  <1>20. CASE n # f
    <2>1. PICK y : /\ n = raise(y, {"BUS"})
                   /\ Only(f, y, {"chunk_irq_armed", "xfer_out", "xfer_pio_out", "phase"})
                   /\ y.phase \in {"DOUT", "STAT"} /\ y.xfer_out = FALSE /\ y.xfer_pio_out = FALSE
      <3>1. /\ f.phase \in {"DOUT", "STAT"} /\ f.xfer_out = s.xfer_out
            /\ f.xfer_pio_out = s.xfer_pio_out
            /\ {"phase", "xfer_out", "xfer_pio_out"} \subseteq DOMAIN f
        BY <1>12, <1>13 DEF Same, Modes, Control
      <3>2. CASE s.xfer_out
        <4>1. PICK p : /\ p \in {f.phase, "STAT"}
                       /\ n = raise([f EXCEPT !.chunk_irq_armed = FALSE, !.xfer_out = FALSE,
                                              !.phase = p], {"BUS"})
          BY <1>14, <1>18, <1>20, <3>2
        <4>2. PICK y : y = [f EXCEPT !.chunk_irq_armed = FALSE, !.xfer_out = FALSE, !.phase = p]
          OBVIOUS
        <4>3. /\ Only(f, y, {"chunk_irq_armed", "xfer_out", "xfer_pio_out", "phase"})
              /\ y.phase \in {"DOUT", "STAT"} /\ y.xfer_out = FALSE /\ y.xfer_pio_out = FALSE
          BY <1>14, <3>1, <3>2, <4>1, <4>2 DEF Only
        <4> QED
          BY <4>1, <4>2, <4>3
      <3>3. CASE s.xfer_pio_out
        <4>1. PICK y : y = [f EXCEPT !.xfer_pio_out = FALSE]
          OBVIOUS
        <4>2. /\ Only(f, y, {"chunk_irq_armed", "xfer_out", "xfer_pio_out", "phase"})
              /\ y.phase \in {"DOUT", "STAT"} /\ y.xfer_out = FALSE /\ y.xfer_pio_out = FALSE
          BY <1>14, <3>1, <3>3, <4>1 DEF Only
        <4>3. n = raise(y, {"BUS"})
          BY <1>14, <1>18, <1>20, <3>3, <4>1
        <4> QED
          BY <4>2, <4>3
      <3> QED
        BY <1>14, <3>2, <3>3
    <2>2. /\ Same(s, y, {"cdb_active", "exec_pending", "xfer_in", "xfer_pio_in", "xfer_msg_out",
                         "msgin_reject", "istatus", "irq", "dest_ok"})
          /\ Control \subseteq DOMAIN y /\ y.i_new = {}
          /\ y.io_rd = f.io_rd /\ y.synth_len = f.synth_len /\ y.buf_valid = f.buf_valid
          /\ y.blocks_left = f.blocks_left
      BY <1>13, <2>1 DEF Only, Same, Control, Modes
    <2>3. n = [y EXCEPT !.i_new = {"BUS"}]
      <3>1. y.i_new \cup {"BUS"} = {"BUS"}
        BY <2>2
      <3> QED
        BY <2>1, <3>1 DEF raise
    <2>4. /\ Control \subseteq DOMAIN n /\ n.i_new = {"BUS"} /\ Only(y, n, {"i_new"})
      BY <2>2, <2>3 DEF Only, Control
    <2>5. /\ Quiet(n) /\ n.phase \in {"DOUT", "STAT"} /\ n.xfer_out = FALSE /\ n.xfer_pio_out = FALSE
          /\ Same(s, n, {"msgin_reject", "istatus", "irq", "dest_ok"})
      BY <2>1, <2>2, <2>4 DEF Only, Same, Quiet, NoTransfer, Control, Writing
    <2>6. /\ n.io_rd = f.io_rd /\ n.synth_len = f.synth_len /\ n.buf_valid = f.buf_valid
          /\ n.blocks_left = f.blocks_left
      BY <2>2, <2>4 DEF Only, Control
    <2>7. BufferStep(s, i, n)
      BY <1>9, <1>12, <1>13, <2>6 DEF BufferStep, Writing
    <2> QED
      BY <2>4, <2>5, <2>7
  <1> QED
    BY <1>19, <1>20

\* The command phase has just started: nothing is collected and nothing is waiting.
Fresh(s) == Collecting(s) /\ s.fifo = <<>> /\ s.cdb = <<>> /\ s.skip_cnt = 0

\* A chip that takes a message stays at it, or ends with an interrupt: with a rejection
\* to fetch, or ready for the command.
LEMMA MessagingBody ==
    ASSUME NEW s, NEW i, NEW n, Shape(s), i.io_ack \in BOOLEAN, Messaging(s), i.dma = "none",
           n = Body(s, i)
    PROVE  /\ Control \subseteq DOMAIN n /\ BufferStep(s, i, n)
           /\ Same(s, n, {"istatus", "irq", "dest_ok"}) /\ n.dma_valid = FALSE
           /\ \/ n.i_new = {} /\ Messaging(n) /\ n.msgin_reject = s.msgin_reject
              \/ n.i_new = {"BUS"} /\ Quiet(n) /\ n.phase = "MIN" /\ n.msgin_reject = TRUE
              \/ n.i_new = {"BUS"} /\ Fresh(n) /\ n.msgin_reject = s.msgin_reject
  <1> DEFINE E == Modes \cup {"phase", "msgin_reject", "istatus", "irq", "dest_ok"}
  <1>1. PICK a : a = Opened(s, i)
    OBVIOUS
  <1>2. /\ Same(s, a, E \cup {"fifo"}) /\ Control \subseteq DOMAIN a /\ a.i_new = {}
        /\ a.dma_valid = FALSE
    <2>1. /\ Same(s, a, Dialogue \cup {"synth_len"}) /\ Control \subseteq DOMAIN a /\ a.i_new = {}
          /\ a.dma_valid = FALSE
      BY <1>1, OpenedCycle
    <2> QED
      BY <2>1 DEF Same, Dialogue, Modes
  <1>3. PICK e : e = Engine(s, i, a)
    OBVIOUS
  <1>4. Only(a, e, {"fifo", "msg_first", "msg_first_seen"}) /\ (s.fifo = <<>> => e = a)
    <2>1. /\ Arm(s, i) \in {"none", "msg_out"}
          /\ Arm(s, i) = "msg_out" => s.fifo # <<>>
      BY DEF Arm, drains, Messaging
    <2>2. CASE Arm(s, i) = "none"
      BY <1>3, <2>2 DEF Engine, Only
    <2>3. CASE Arm(s, i) = "msg_out"
      <3>1. PICK u, v : u = Tail(s.fifo) /\ v = [a EXCEPT !.fifo = u]
        OBVIOUS
      <3>2. PICK h : h = IF s.msg_first_seen THEN v.msg_first ELSE Head(s.fifo)
        OBVIOUS
      <3>3. e = [v EXCEPT !.msg_first = h, !.msg_first_seen = TRUE]
        BY <1>3, <2>3, <3>1, <3>2 DEF Engine, fifo_shift
      <3> QED
        BY <2>1, <2>3, <3>1, <3>3 DEF Only
    <2> QED
      BY <2>1, <2>2, <2>3
  <1>5. PICK k : k = Synth(s, e)
    OBVIOUS
  <1>6. k = Moved(s, i)
    BY <1>1, <1>3, <1>5 DEF Moved
  <1>7. Only(e, k, {"synth_idx", "synth_len", "buf_valid"})
    BY <1>5 DEF Synth, Only
  <1>8. /\ Same(s, k, E) /\ Control \subseteq DOMAIN k /\ k.i_new = {} /\ k.dma_valid = FALSE
        /\ Same(a, e, Buffers) /\ (s.fifo = <<>> => k.fifo = <<>>)
    BY <1>2, <1>4, <1>7 DEF Same, Only, Control, Buffers, Modes
  <1>9. /\ k.io_rd => s.io_rd \/ (s.phase = "DIN" /\ s.blocks_left # 0)
        /\ k.synth_len # 0 => /\ s.synth_len # 0
                              /\ k.buf_valid => \/ s.buf_valid
                                                \/ s.io_ack_d /\ ~i.io_ack /\ ~s.flush_pending
        /\ s.blocks_left = 0 => k.blocks_left = 0
    <2>1. Same(Opened(s, i), e, Buffers)
      BY <1>1, <1>8
    <2> QED
      BY <1>5, <2>1, BufferKept
  <1>10. /\ CdbDone(s, k) = k /\ InEnd(s, i, k) = k /\ Flush(s, i, k) = k
         /\ OutEnd(s, i, k) = k /\ PioOutEnd(s, k) = k
    BY DEF CdbDone, InEnd, Flush, OutEnd, PioOutEnd, Messaging
  <1>11. \A y : PioInUnderflow(s, i, y) = y
    BY DEF PioInUnderflow, Messaging
  <1>12. n = MsgOutEnd(s, k)
    BY <1>6, <1>10, <1>11 DEF Body
  <1>13. CASE n = k
    <2>1. Messaging(k) /\ k.msgin_reject = s.msgin_reject
          /\ Same(s, k, {"istatus", "irq", "dest_ok"})
      BY <1>8 DEF Same, Messaging, Modes
    <2>2. BufferStep(s, i, k)
      BY <1>9 DEF BufferStep, Messaging
    <2> QED
      BY <1>8, <1>13, <2>1, <2>2
  <1>14. CASE n # k
    <2>1. PICK m : m = [k EXCEPT !.xfer_msg_out = FALSE]
      OBVIOUS
    <2>2. /\ Only(k, m, {"xfer_msg_out"}) /\ Control \subseteq DOMAIN m /\ m.i_new = {}
          /\ Quiet(m) /\ m.fifo = k.fifo
      BY <1>8, <2>1 DEF Only, Quiet, NoTransfer, Control, Same, Messaging, Modes
    <2>3. s.fifo = <<>> /\ k.fifo = <<>>
      BY <1>8, <1>12, <1>14 DEF MsgOutEnd
    <2>4. PICK y : /\ n = raise(y, {"BUS"})
                   /\ \/ y = [m EXCEPT !.phase = "MIN", !.msgin_reject = TRUE]
                      \/ y = collect(m, 0)
      BY <1>12, <1>14, <2>1 DEF MsgOutEnd
    <2>5. /\ Only(m, y, {"phase", "msgin_reject", "cdb_active", "cdb", "skip_cnt"})
          /\ \/ Quiet(y) /\ y.phase = "MIN" /\ y.msgin_reject = TRUE
             \/ Fresh(y) /\ y.msgin_reject = m.msgin_reject
      <3>1. CASE y = [m EXCEPT !.phase = "MIN", !.msgin_reject = TRUE]
        BY <2>2, <3>1 DEF Only, Quiet, NoTransfer, Control
      <3>2. CASE y = collect(m, 0)
        BY <2>2, <2>3, <3>2 DEF Only, Quiet, NoTransfer, Control, collect, Fresh, Collecting
      <3> QED
        BY <2>4, <3>1, <3>2
    <2>6. n = [y EXCEPT !.i_new = {"BUS"}]
      <3>1. y.i_new \cup {"BUS"} = {"BUS"}
        BY <2>2, <2>5 DEF Only, Control
      <3> QED
        BY <2>4, <3>1 DEF raise
    <2>7. Control \subseteq DOMAIN n /\ n.i_new = {"BUS"} /\ Only(y, n, {"i_new"})
      BY <2>2, <2>5, <2>6 DEF Only, Control
    <2>8. \/ Quiet(n) /\ n.phase = "MIN" /\ n.msgin_reject = TRUE
          \/ Fresh(n) /\ n.msgin_reject = m.msgin_reject
      BY <2>5, <2>7 DEF Only, Quiet, NoTransfer, Control, Fresh, Collecting
    <2>9. Only(k, n, {"xfer_msg_out", "phase", "msgin_reject", "cdb_active", "cdb", "skip_cnt", "i_new"})
      BY <2>2, <2>5, <2>7 DEF Only
    <2>10. /\ Same(s, n, {"istatus", "irq", "dest_ok"}) /\ n.dma_valid = FALSE
           /\ n.io_rd = k.io_rd /\ n.synth_len = k.synth_len /\ n.buf_valid = k.buf_valid
           /\ n.blocks_left = k.blocks_left /\ m.msgin_reject = s.msgin_reject
      BY <1>8, <2>2, <2>9 DEF Only, Same, Control
    <2>11. BufferStep(s, i, n)
      BY <1>9, <2>10 DEF BufferStep, Messaging
    <2> QED
      BY <2>7, <2>8, <2>10, <2>11
  <1> QED
    BY <1>13, <1>14

-----------------------------------------------------------------------------
(* The registers and the end of the clock *)

\* The end of the clock publishes the interrupts raised in it.
Published(s, i, r, c) ==
    /\ (i.op = "read" /\ i.rs = "ISR") => c.istatus = r.i_new /\ (r.i_new = {} => c.irq = FALSE)
    /\ (~(i.op = "read" /\ i.rs = "ISR") /\ r.i_new = {}) => c.istatus = r.istatus /\ c.irq = r.irq
    /\ (~(i.op = "read" /\ i.rs = "ISR") /\ r.i_new # {})
          => c.istatus = s.istatus \cup r.i_new /\ c.irq = TRUE

LEMMA CycleEnd ==
    ASSUME NEW s, NEW i, NEW b, NEW r, NEW c, r = Registers(s, i, Body(s, i)),
           Control \subseteq DOMAIN r, c = Cycle(s, i, b)
    PROVE  /\ Control \subseteq DOMAIN c
           /\ Same(r, c, Control \ {"istatus", "irq", "i_new"})
           /\ Published(s, i, r, c)
  <1>1. PICK t : t = Interrupts(s, i, r)
    OBVIOUS
  <1>2. c = [PortE(s, i, t, b) EXCEPT !.i_new = {}]
    BY <1>1, CycleParts
  <1>3. DOMAIN t = DOMAIN r
    BY <1>1 DEF Interrupts
  <1>4. Same(t, c, Control \ {"i_new"})
    <2>1. Same(t, t, Control \ {"i_new"})
      BY <1>3 DEF Same
    <2>2. (Control \ {"i_new"}) \cap {"q_e", "eq_addr", "eq_wr", "i_new"} = {}
      BY DEF Control
    <2> QED
      BY <1>2, <2>1, <2>2, PortFrame
  <1>5. Same(r, t, Control \ {"istatus", "irq", "i_new"})
    BY <1>1, <1>3 DEF Interrupts, Same
  <1>6. Same(r, c, Control \ {"istatus", "irq", "i_new"}) /\ Control \subseteq DOMAIN c
    BY <1>3, <1>4, <1>5 DEF Same
  <1>7. c.istatus = t.istatus /\ c.irq = t.irq
    BY <1>4 DEF Same, Control
  <1>8. {"istatus", "irq"} \subseteq DOMAIN r
    BY DEF Control
  <1>9. (i.op = "read" /\ i.rs = "ISR") => t.istatus = r.i_new /\ (r.i_new = {} => t.irq = FALSE)
    BY <1>1, <1>8 DEF Interrupts
  <1>10. (~(i.op = "read" /\ i.rs = "ISR") /\ r.i_new = {}) => t.istatus = r.istatus /\ t.irq = r.irq
    BY <1>1 DEF Interrupts
  <1>11. (~(i.op = "read" /\ i.rs = "ISR") /\ r.i_new # {})
            => t.istatus = s.istatus \cup r.i_new /\ t.irq = TRUE
    BY <1>1, <1>8 DEF Interrupts
  <1> QED
    BY <1>6, <1>7, <1>9, <1>10, <1>11 DEF Published

\* The driver's accesses that give no command.
LEMMA PlainAccess ==
    ASSUME NEW s, NEW i, NEW n, NEW r, r = Registers(s, i, n), Control \subseteq DOMAIN n
    PROVE  /\ i.op = "none" => r = n
           /\ (i.op = "read" /\ i.rs # "FIFO") => r = n
           /\ (i.op = "read" /\ i.rs = "FIFO") => Only(n, r, {"fifo"})
           /\ (i.op = "write" /\ i.rs = "TC") => Only(n, r, {"tc_latch", "tc_zero"})
           /\ (i.op = "write" /\ i.rs = "DEST") => Only(n, r, {"dest_ok"}) /\ r.dest_ok = i.val
           /\ (i.op = "write" /\ i.rs = "FIFO")
                 => /\ Only(n, r, {"fifo"})
                    /\ Len(s.fifo) < FIFO => r.fifo = Append(s.fifo, i.val)
  <1>1. (i.op = "none" \/ (i.op = "read" /\ i.rs # "FIFO")) => r = n
    BY DEF Registers
  <1>2. (i.op = "read" /\ i.rs = "FIFO") => Only(n, r, {"fifo"})
    BY DEF Registers, fifo_shift, Only
  <1>3. (i.op = "write" /\ i.rs = "TC") => Only(n, r, {"tc_latch", "tc_zero"})
    BY DEF Registers, Only
  <1>4. (i.op = "write" /\ i.rs = "DEST") => Only(n, r, {"dest_ok"}) /\ r.dest_ok = i.val
    BY DEF Registers, Only, Control
  <1>5. (i.op = "write" /\ i.rs = "FIFO")
            => /\ Only(n, r, {"fifo"})
               /\ Len(s.fifo) < FIFO => r.fifo = Append(s.fifo, i.val)
    BY DEF Registers, fifo_push, Only, Control
  <1> QED
    BY <1>1, <1>2, <1>3, <1>4, <1>5

Counter == {"dma_active", "tcounter", "tc_zero"}

\* Only the registers W differ, and bits are raised.
Raised(n, r, W, bits) == Only(n, r, W \cup {"i_new"}) /\ r.i_new = n.i_new \cup bits

LEMMA RaiseOnly ==
    ASSUME NEW n, NEW m, NEW W, NEW bits, Only(n, m, W), "i_new" \notin W, "i_new" \in DOMAIN n
    PROVE  Raised(n, raise(m, bits), W, bits)
  BY DEF Only, Raised, raise

LEMMA CounterOnly ==
    ASSUME NEW s, NEW i, NEW n, NEW m, m = load_counter(s, i, n), Control \subseteq DOMAIN n
    PROVE  Only(n, m, Counter) /\ DOMAIN m = DOMAIN n /\ Control \subseteq DOMAIN m
  <1>1. PICK t : t = IF ~i.dmabit THEN n.tcounter
                     ELSE IF s.tc_latch = 0 THEN 65536 ELSE s.tc_latch
    OBVIOUS
  <1>2. PICK z : z = IF i.dmabit THEN FALSE ELSE n.tc_zero
    OBVIOUS
  <1>3. m = [n EXCEPT !.dma_active = i.dmabit, !.tcounter = t, !.tc_zero = z]
    BY <1>1, <1>2 DEF load_counter
  <1>4. Only(n, m, Counter) /\ DOMAIN m = DOMAIN n
    BY <1>3 DEF Only, Counter
  <1> QED
    BY <1>4

\* The commands of the driver's scripts but the transfers: what they change, and raise.
Flushed(n, r) == Only(n, r, Counter \cup {"fifo"}) /\ r.fifo = <<>>

Selected(i, n, r) ==
    /\ Only(n, r, Counter \cup {"phase", "cdb_active", "cdb", "skip_cnt"})
    /\ r.phase = "CMD" /\ r.cdb_active = TRUE /\ r.cdb = <<>>
    /\ r.skip_cnt = (IF i.val = "SELATN" THEN 1 ELSE 0)

Stopped(n, r) ==
    /\ Raised(n, r, Counter \cup {"fifo", "phase", "cdb_active", "xfer_msg_out", "msg_first_seen"},
              {"BUS", "FC"})
    /\ r.phase = "MOUT" /\ r.cdb_active = FALSE /\ r.xfer_msg_out = FALSE

Concluded(n, r) ==
    /\ Raised(n, r, Counter \cup {"fifo", "phase", "msgin_reject"}, {"FC"})
    /\ r.phase = "MIN" /\ r.msgin_reject = FALSE

Parted(n, r) == Raised(n, r, Counter \cup {"fifo", "phase"}, {"DISC"}) /\ r.phase = "DOUT"

Resumed(n, r) ==
    /\ Raised(n, r, Counter \cup {"fifo", "phase", "msgin_reject", "cdb_active", "cdb", "skip_cnt"},
              {"BUS"})
    /\ r.phase = "CMD" /\ r.cdb_active = TRUE /\ r.cdb = <<>> /\ r.skip_cnt = 0
    /\ r.fifo = <<>> /\ r.msgin_reject = FALSE

LEMMA CommandAccess ==
    ASSUME NEW s, NEW i, NEW n, NEW r, r = Registers(s, i, n), Control \subseteq DOMAIN n,
           i.op = "write", i.rs = "CMD"
    PROVE  /\ i.val = "FLUSH" => Flushed(n, r)
           /\ (i.val \in {"SELNATN", "SELATN"} /\ s.dest_ok) => Selected(i, n, r)
           /\ (i.val \in {"SELNATN", "SELATN"} /\ ~s.dest_ok) => Raised(n, r, Counter, {"DISC"})
           /\ (i.val = "SELATNS" /\ s.dest_ok) => Stopped(n, r)
           /\ i.val = "ICCS" => Concluded(n, r)
           /\ (i.val = "MSGACC" /\ ~s.msgin_reject) => Parted(n, r)
           /\ (i.val = "MSGACC" /\ s.msgin_reject) => Resumed(n, r)
  <1>1. PICK m : m = load_counter(s, i, n)
    OBVIOUS
  <1>2. Only(n, m, Counter) /\ DOMAIN m = DOMAIN n /\ Control \subseteq DOMAIN m
    BY <1>1, CounterOnly
  <1>3. r = command_case(s, i, m)
    BY <1>1 DEF Registers, exec_command
  <1>4. "i_new" \in DOMAIN n /\ "i_new" \notin Counter
    BY DEF Control, Counter
  <1>5. i.val = "FLUSH" => Only(n, r, Counter \cup {"fifo"}) /\ r.fifo = <<>>
    BY <1>2, <1>3 DEF command_case, Only, Control
  <1>6. \A skip : /\ Only(n, collect(m, skip), Counter \cup {"phase", "cdb_active", "cdb", "skip_cnt"})
                  /\ collect(m, skip).phase = "CMD" /\ collect(m, skip).cdb_active = TRUE
                  /\ collect(m, skip).cdb = <<>> /\ collect(m, skip).skip_cnt = skip
    BY <1>2 DEF collect, Only, Control
  <1>7. (i.val \in {"SELNATN", "SELATN"} /\ s.dest_ok)
           => r = collect(m, IF i.val = "SELATN" THEN 1 ELSE 0)
    <2>1. (i.val = "SELNATN" /\ s.dest_ok) => r = collect(m, 0)
      BY <1>3 DEF command_case, Select
    <2>2. (i.val = "SELATN" /\ s.dest_ok) => r = collect(m, 1)
      BY <1>3 DEF command_case, Select
    <2> QED
      BY <2>1, <2>2
  <1>8. (i.val \in {"SELNATN", "SELATN"} /\ ~s.dest_ok) => Raised(n, r, Counter, {"DISC"})
    <2>1. (i.val \in {"SELNATN", "SELATN"} /\ ~s.dest_ok) => r = raise(m, {"DISC"})
      BY <1>3 DEF command_case, Select
    <2> QED
      BY <1>2, <1>4, <2>1, RaiseOnly
  <1>9. (i.val = "SELATNS" /\ s.dest_ok)
           => /\ Raised(n, r, Counter \cup {"fifo", "phase", "cdb_active", "xfer_msg_out",
                                            "msg_first_seen"}, {"BUS", "FC"})
              /\ r.phase = "MOUT" /\ r.cdb_active = FALSE /\ r.xfer_msg_out = FALSE
    <2> SUFFICES ASSUME i.val = "SELATNS", s.dest_ok
                 PROVE  /\ Raised(n, r, Counter \cup {"fifo", "phase", "cdb_active", "xfer_msg_out",
                                            "msg_first_seen"}, {"BUS", "FC"})
                        /\ r.phase = "MOUT" /\ r.cdb_active = FALSE /\ r.xfer_msg_out = FALSE
      OBVIOUS
    <2>1. PICK f : f = IF s.fifo = <<>> THEN m.fifo ELSE Tail(s.fifo)
      OBVIOUS
    <2>2. PICK y : y = [m EXCEPT !.fifo = f, !.phase = "MOUT", !.cdb_active = FALSE,
                                 !.xfer_msg_out = FALSE, !.msg_first_seen = FALSE]
      OBVIOUS
    <2>3. r = raise(y, {"BUS", "FC"})
      BY <1>3, <2>1, <2>2 DEF command_case, SelectAndStop
    <2>4. /\ Only(n, y, Counter \cup {"fifo", "phase", "cdb_active", "xfer_msg_out", "msg_first_seen"})
          /\ y.phase = "MOUT" /\ y.cdb_active = FALSE /\ y.xfer_msg_out = FALSE
      BY <1>2, <2>2 DEF Only, Control
    <2>5. r.phase = y.phase /\ r.cdb_active = y.cdb_active /\ r.xfer_msg_out = y.xfer_msg_out
      BY <2>3 DEF raise
    <2> QED
      BY <1>4, <2>3, <2>4, <2>5, RaiseOnly
  <1>10. i.val = "ICCS"
            => /\ Raised(n, r, Counter \cup {"fifo", "phase", "msgin_reject"}, {"FC"})
               /\ r.phase = "MIN" /\ r.msgin_reject = FALSE
    <2> SUFFICES ASSUME i.val = "ICCS"
                 PROVE  /\ Raised(n, r, Counter \cup {"fifo", "phase", "msgin_reject"}, {"FC"})
                        /\ r.phase = "MIN" /\ r.msgin_reject = FALSE
      OBVIOUS
    <2>1. PICK f : f = << <<s.scsi_status, 0, 0>>, Zero >>
      OBVIOUS
    <2>2. PICK y : y = [m EXCEPT !.fifo = f, !.phase = "MIN", !.msgin_reject = FALSE]
      OBVIOUS
    <2>3. r = raise(y, {"FC"})
      BY <1>3, <2>1, <2>2 DEF command_case
    <2>4. /\ Only(n, y, Counter \cup {"fifo", "phase", "msgin_reject"})
          /\ y.phase = "MIN" /\ y.msgin_reject = FALSE
      BY <1>2, <2>2 DEF Only, Control
    <2>5. r.phase = y.phase /\ r.msgin_reject = y.msgin_reject
      BY <2>3 DEF raise
    <2> QED
      BY <1>4, <2>3, <2>4, <2>5, RaiseOnly
  <1>11. (i.val = "MSGACC" /\ ~s.msgin_reject)
            => Raised(n, r, Counter \cup {"fifo", "phase"}, {"DISC"}) /\ r.phase = "DOUT"
    <2>1. PICK y : y = [m EXCEPT !.fifo = <<>>, !.phase = "DOUT"]
      OBVIOUS
    <2>2. (i.val = "MSGACC" /\ ~s.msgin_reject) => r = raise(y, {"DISC"})
      BY <1>3, <2>1 DEF command_case, MessageAccept
    <2>3. Only(n, y, Counter \cup {"fifo", "phase"}) /\ y.phase = "DOUT"
      BY <1>2, <2>1 DEF Only, Control
    <2>4. raise(y, {"DISC"}).phase = y.phase
      BY DEF raise
    <2> QED
      BY <1>4, <2>2, <2>3, <2>4, RaiseOnly
  <1>12. (i.val = "MSGACC" /\ s.msgin_reject)
            => /\ Raised(n, r, Counter \cup {"fifo", "phase", "msgin_reject", "cdb_active", "cdb",
                                             "skip_cnt"}, {"BUS"})
               /\ r.phase = "CMD" /\ r.cdb_active = TRUE /\ r.cdb = <<>> /\ r.skip_cnt = 0
               /\ r.fifo = <<>> /\ r.msgin_reject = FALSE
    <2> SUFFICES ASSUME i.val = "MSGACC", s.msgin_reject
                 PROVE  /\ Raised(n, r, Counter \cup {"fifo", "phase", "msgin_reject", "cdb_active",
                                                      "cdb", "skip_cnt"}, {"BUS"})
                        /\ r.phase = "CMD" /\ r.cdb_active = TRUE /\ r.cdb = <<>> /\ r.skip_cnt = 0
                        /\ r.fifo = <<>> /\ r.msgin_reject = FALSE
      OBVIOUS
    <2>1. PICK y : y = [m EXCEPT !.fifo = <<>>, !.msgin_reject = FALSE]
      OBVIOUS
    <2>2. PICK z : z = collect(y, 0)
      OBVIOUS
    <2>3. r = raise(z, {"BUS"})
      BY <1>3, <2>1, <2>2 DEF command_case, MessageAccept
    <2>4. /\ Only(n, y, Counter \cup {"fifo", "msgin_reject"}) /\ y.fifo = <<>>
          /\ y.msgin_reject = FALSE /\ DOMAIN y = DOMAIN n
      BY <1>2, <2>1 DEF Only, Control
    <2>5. /\ Only(n, z, Counter \cup {"fifo", "phase", "msgin_reject", "cdb_active", "cdb", "skip_cnt"})
          /\ z.phase = "CMD" /\ z.cdb_active = TRUE /\ z.cdb = <<>> /\ z.skip_cnt = 0
          /\ z.fifo = <<>> /\ z.msgin_reject = FALSE
      BY <2>2, <2>4 DEF Only, collect, Control
    <2>6. /\ r.phase = z.phase /\ r.cdb_active = z.cdb_active /\ r.cdb = z.cdb
          /\ r.skip_cnt = z.skip_cnt /\ r.fifo = z.fifo /\ r.msgin_reject = z.msgin_reject
      BY <2>3 DEF raise
    <2> QED
      BY <1>4, <2>3, <2>5, <2>6, RaiseOnly
  <1>13. (i.val \in {"SELNATN", "SELATN"} /\ s.dest_ok) => Selected(i, n, r)
    BY <1>6, <1>7 DEF Selected
  <1> QED
    BY <1>5, <1>8, <1>9, <1>10, <1>11, <1>12, <1>13 DEF Flushed, Stopped, Concluded, Parted, Resumed
-----------------------------------------------------------------------------
(* Every part keeps the registers and their flags *)

Flags == Modes \cup {"irq", "msgin_reject", "buf_valid", "dma_valid"}

Typed(n) == Control \subseteq DOMAIN n /\ \A f \in Flags : n[f] \in BOOLEAN

LEMMA TypedShape ==
    ASSUME NEW s, Typed(s)
    PROVE  Shape(s)
  BY DEF Typed, Shape, Flags, Modes

LEMMA HelpersTyped ==
    ASSUME NEW s, NEW n, Typed(n)
    PROVE  /\ \A bits : Typed(raise(n, bits))
           /\ \A b : Typed(fifo_push(s, n, b))
           /\ Typed(fifo_shift(s, n))
           /\ Typed(dec_tc(s, n))
           /\ \A b : Typed(cdb_byte(s, n, b))
           /\ \A skip : Typed(collect(n, skip))
  <1>1. \A bits : Typed(raise(n, bits))
    BY DEF Typed, Flags, Modes, raise
  <1>2. \A b : Typed(fifo_push(s, n, b))
    BY DEF Typed, Flags, Modes, fifo_push
  <1>3. Typed(fifo_shift(s, n))
    BY DEF Typed, Flags, Modes, fifo_shift
  <1>4. Typed(dec_tc(s, n))
    BY DEF Typed, Flags, Modes, dec_tc
  <1>5. \A b : Typed(cdb_byte(s, n, b))
    BY DEF Typed, Flags, Modes, cdb_byte
  <1>6. \A skip : Typed(collect(n, skip))
    BY DEF Typed, Flags, Modes, collect
  <1> QED
    BY <1>1, <1>2, <1>3, <1>4, <1>5, <1>6

LEMMA EngineTyped ==
    ASSUME NEW s, NEW i, NEW n, Typed(n)
    PROVE  Typed(Engine(s, i, n))
  <1>1. PICK shifted : shifted = fifo_shift(s, n)
    OBVIOUS
  <1>2. Typed(shifted)
    BY <1>1, HelpersTyped
  <1>3. PICK pushed : pushed = fifo_push(s, n, sbuf_byte(s))
    OBVIOUS
  <1>4. PICK fed : fed = [pushed EXCEPT !.sbuf_pos = s.sbuf_pos + 1]
    OBVIOUS
  <1>5. Typed(fed)
    <2>1. Typed(pushed)
      BY <1>3, HelpersTyped
    <2> QED
      BY <1>4, <2>1 DEF Typed, Flags, Modes
  <1>6. \A h : Typed([shifted EXCEPT !.dma_rlatch = h, !.dma_valid = TRUE])
    BY <1>2 DEF Typed, Flags, Modes
  <1>7. Typed([n EXCEPT !.dma_rlatch = Idle, !.dma_valid = TRUE])
    BY DEF Typed, Flags, Modes
  <1>8. \A k : Typed(k) => Typed([k EXCEPT !.dma_valid = TRUE])
    BY DEF Typed, Flags, Modes
  <1>9. \A b : Typed(dec_tc(s, cdb_byte(s, n, b)))
    <2> TAKE b
    <2>1. Typed(cdb_byte(s, n, b))
      BY HelpersTyped
    <2> QED
      BY <2>1, HelpersTyped
  <1>10. \A b : Typed(dec_tc(s, fifo_push(s, n, b)))
    <2> TAKE b
    <2>1. Typed(fifo_push(s, n, b))
      BY HelpersTyped
    <2> QED
      BY <2>1, HelpersTyped
  <1>11. \A b : Typed(fifo_shift(s, cdb_byte(s, n, b)))
    <2> TAKE b
    <2>1. Typed(cdb_byte(s, n, b))
      BY HelpersTyped
    <2> QED
      BY <2>1, HelpersTyped
  <1>12. Typed([shifted EXCEPT !.sbuf_pos = s.sbuf_pos + 1])
    BY <1>2 DEF Typed, Flags, Modes
  <1>13. Typed(dec_tc(s, fed))
    BY <1>5, HelpersTyped
  <1>14. PICK last : last = [fed EXCEPT !.xfer_pio_in = FALSE,
                                !.phase = IF /\ s.sbuf_pos = s.sbuf_len - 1
                                             /\ s.blocks_left = 0 /\ ~io_busy(s, i)
                                          THEN "STAT" ELSE @]
    OBVIOUS
  <1>15. Typed(raise(last, {"BUS"}))
    <2>1. Typed(last)
      BY <1>5, <1>14 DEF Typed, Flags, Modes
    <2> QED
      BY <2>1, HelpersTyped
  <1>16. Typed([shifted EXCEPT !.msg_first = IF s.msg_first_seen THEN @ ELSE Head(s.fifo),
                               !.msg_first_seen = TRUE])
    BY <1>2 DEF Typed, Flags, Modes
  <1>17. \A b : /\ Typed([dec_tc(s, cdb_byte(s, n, b)) EXCEPT !.dma_valid = TRUE])
                /\ Typed([dec_tc(s, fifo_push(s, n, b)) EXCEPT !.dma_valid = TRUE])
    BY <1>8, <1>9, <1>10
  <1> QED
    BY <1>1, <1>3, <1>4, <1>6, <1>7, <1>8, <1>11, <1>12, <1>13, <1>14, <1>15, <1>16, <1>17
       DEF Engine

LEMMA ExecTyped ==
    ASSUME NEW s, NEW n, Typed(n)
    PROVE  Typed(exec_cdb(s, n))
  <1>1. PICK j : j = [n EXCEPT !.scsi_status = "good", !.buf_valid = FALSE, !.sbuf_pos = 0,
                               !.blocks_left = 0, !.data_dir_in = TRUE]
    OBVIOUS
  <1>2. Typed(j)
    BY <1>1 DEF Typed, Flags, Modes
  <1>3. PICK k : k = raise(j, {"BUS", "FC"})
    OBVIOUS
  <1>4. Typed(k)
    BY <1>2, <1>3, HelpersTyped
  <1>5. Typed([k EXCEPT !.phase = "STAT"])
    BY <1>4 DEF Typed, Flags, Modes
  <1>6. \A kind, key : Typed([k EXCEPT !.synth_kind = kind, !.synth_idx = 0,
                                 !.synth_len = SYNTH, !.sbuf_len = SYNTH, !.phase = "DIN",
                                 !.sense_key = key])
    BY <1>4 DEF Typed, Flags, Modes
  <1>7. \A l, b, d, p : Typed([k EXCEPT !.lba = l, !.blocks_left = b, !.data_dir_in = d,
                                        !.phase = p])
    BY <1>4 DEF Typed, Flags, Modes
  <1>8. Typed([k EXCEPT !.scsi_status = "check", !.sense_key = 1, !.phase = "STAT"])
    BY <1>4 DEF Typed, Flags, Modes
  <1> QED
    BY <1>1, <1>3, <1>5, <1>6, <1>7, <1>8 DEF exec_cdb


LEMMA CommandTyped ==
    ASSUME NEW s, NEW i, NEW n, Typed(n)
    PROVE  Typed(exec_command(s, i, n))
  <1>1. PICK k : k = load_counter(s, i, n)
    OBVIOUS
  <1>2. Typed(k)
    <2>1. \A d, t, z : Typed([n EXCEPT !.dma_active = d, !.tcounter = t, !.tc_zero = z])
      BY DEF Typed, Flags, Modes
    <2>2. PICK t : t = IF ~i.dmabit THEN n.tcounter
                       ELSE IF s.tc_latch = 0 THEN 65536 ELSE s.tc_latch
      OBVIOUS
    <2>3. PICK z : z = IF i.dmabit THEN FALSE ELSE n.tc_zero
      OBVIOUS
    <2>4. k = [n EXCEPT !.dma_active = i.dmabit, !.tcounter = t, !.tc_zero = z]
      BY <1>1, <2>2, <2>3 DEF load_counter
    <2> QED
      BY <2>1, <2>4
  <1>3. \A bits : Typed(raise(k, bits))
    BY <1>2, HelpersTyped
  <1>4. \A f, bits : Typed(raise([k EXCEPT !.fifo = f], bits))
    <2> TAKE f, bits
    <2>1. PICK j : j = [k EXCEPT !.fifo = f]
      OBVIOUS
    <2>2. Typed(j)
      BY <1>2, <2>1 DEF Typed, Flags, Modes
    <2> QED
      BY <2>1, <2>2, HelpersTyped
  <1>5. \A f : Typed([k EXCEPT !.fifo = f])
    BY <1>2 DEF Typed, Flags, Modes
  <1>6. Typed(ChipReset(k))
    <2>1. PICK j : j = [k EXCEPT !.fifo = <<>>, !.istatus = {}, !.irq = FALSE, !.phase = "DOUT",
                                 !.cdb_active = FALSE, !.exec_pending = FALSE, !.skip_cnt = 0]
      OBVIOUS
    <2>2. Typed(j)
      BY <1>2, <2>1 DEF Typed, Flags, Modes
    <2>3. PICK l : l = [j EXCEPT !.xfer_in = FALSE, !.xfer_out = FALSE, !.xfer_pio_in = FALSE,
                                 !.xfer_pio_out = FALSE, !.chunk_irq_armed = FALSE]
      OBVIOUS
    <2>4. Typed(l)
      BY <2>2, <2>3 DEF Typed, Flags, Modes
    <2>5. Typed([l EXCEPT !.xfer_msg_out = FALSE, !.msg_first_seen = FALSE,
                          !.msgin_reject = FALSE, !.dma_active = FALSE, !.tc_zero = FALSE])
      BY <2>4 DEF Typed, Flags, Modes
    <2> QED
      BY <2>1, <2>3, <2>5 DEF ChipReset
  <1>7. \A skip : Typed(Select(s, k, skip))
    BY <1>2, <1>3, HelpersTyped DEF Select
  <1>8. Typed(SelectAndStop(s, k))
    <2>1. PICK j : j = [k EXCEPT !.fifo = IF s.fifo = <<>> THEN @ ELSE Tail(s.fifo),
                                 !.phase = "MOUT", !.cdb_active = FALSE,
                                 !.xfer_msg_out = FALSE, !.msg_first_seen = FALSE]
      OBVIOUS
    <2>2. Typed(j)
      BY <1>2, <2>1 DEF Typed, Flags, Modes
    <2>3. Typed(raise(j, {"BUS", "FC"}))
      BY <2>2, HelpersTyped
    <2> QED
      BY <1>4, <2>1, <2>3 DEF SelectAndStop
  <1>9. \A f, p, bits : Typed(raise([k EXCEPT !.fifo = f, !.phase = p], bits))
    <2> TAKE f, p, bits
    <2>1. PICK j : j = [k EXCEPT !.fifo = f, !.phase = p]
      OBVIOUS
    <2>2. Typed(j)
      BY <1>2, <2>1 DEF Typed, Flags, Modes
    <2> QED
      BY <2>1, <2>2, HelpersTyped
  <1>10. Typed(TransferInfo(s, i, k))
    <2>1. /\ Typed([k EXCEPT !.xfer_in = TRUE, !.chunk_irq_armed = TRUE])
          /\ Typed([k EXCEPT !.xfer_pio_in = TRUE])
      BY <1>2 DEF Typed, Flags, Modes
    <2>2. /\ Typed([k EXCEPT !.xfer_out = TRUE, !.chunk_irq_armed = TRUE])
          /\ Typed([k EXCEPT !.xfer_pio_out = TRUE])
      BY <1>2 DEF Typed, Flags, Modes
    <2>3. Typed([k EXCEPT !.xfer_msg_out = TRUE, !.msg_first_seen = FALSE, !.msg_first = Zero])
      BY <1>2 DEF Typed, Flags, Modes
    <2> QED
      BY <1>2, <1>3, <1>4, <1>9, <2>1, <2>2, <2>3 DEF TransferInfo
  <1>11. \A f : Typed(raise([k EXCEPT !.fifo = f, !.phase = "MIN", !.msgin_reject = FALSE], {"FC"}))
    <2> TAKE f
    <2>1. PICK j : j = [k EXCEPT !.fifo = f, !.phase = "MIN", !.msgin_reject = FALSE]
      OBVIOUS
    <2>2. Typed(j)
      BY <1>2, <2>1 DEF Typed, Flags, Modes
    <2> QED
      BY <2>1, <2>2, HelpersTyped
  <1>12. Typed(MessageAccept(s, k))
    <2>1. PICK j : j = [k EXCEPT !.fifo = <<>>, !.msgin_reject = FALSE]
      OBVIOUS
    <2>2. Typed(j)
      BY <1>2, <2>1 DEF Typed, Flags, Modes
    <2>3. Typed(collect(j, 0))
      BY <2>2, HelpersTyped
    <2>4. Typed(raise(collect(j, 0), {"BUS"}))
      BY <2>3, HelpersTyped
    <2> QED
      BY <1>9, <2>1, <2>4 DEF MessageAccept
  <1>13. Typed(raise([k EXCEPT !.xfer_in = FALSE, !.xfer_out = FALSE, !.tc_zero = TRUE], {"BUS"}))
    <2>1. PICK j : j = [k EXCEPT !.xfer_in = FALSE, !.xfer_out = FALSE, !.tc_zero = TRUE]
      OBVIOUS
    <2>2. Typed(j)
      BY <1>2, <2>1 DEF Typed, Flags, Modes
    <2> QED
      BY <2>1, <2>2, HelpersTyped
  <1>14. Typed(command_case(s, i, k))
    BY <1>3, <1>5, <1>6, <1>7, <1>8, <1>10, <1>11, <1>12, <1>13 DEF command_case
  <1> QED
    BY <1>1, <1>14 DEF exec_command

\* A clock as a whole.
LEMMA CycleTyped ==
    ASSUME NEW s, NEW i, NEW b, Typed(s), i.io_ack \in BOOLEAN
    PROVE  Typed(Cycle(s, i, b))
  <1>1. Typed([s EXCEPT !.dma_valid = FALSE, !.i_new = {}])
    BY DEF Typed, Flags, Modes
  <1>2. \A n : Typed(n) => Typed(IoEdges(s, i, n))
    <2> TAKE n
    <2> HAVE Typed(n)
    <2>1. PICK k : k = [n EXCEPT !.io_ack_d = i.io_ack, !.io_rd = @ /\ ~i.io_ack,
                                 !.io_wr = @ /\ ~i.io_ack]
      OBVIOUS
    <2>2. Typed(k)
      BY <2>1 DEF Typed, Flags, Modes
    <2>3. Typed([k EXCEPT !.flush_pending = FALSE])
      BY <2>2 DEF Typed, Flags, Modes
    <2>4. Typed([k EXCEPT !.buf_valid = TRUE, !.sbuf_len = SECTOR, !.sbuf_pos = 0])
      BY <2>2 DEF Typed, Flags, Modes
    <2> QED
      BY <2>1, <2>2, <2>3, <2>4 DEF IoEdges
  <1>3. \A n : Typed(n) => Typed(Prefetch(s, i, n))
    <2>1. \A n, l, m, k : Typed(n) => Typed([n EXCEPT !.buf_valid = FALSE, !.io_lba = l, !.lba = m,
                                                   !.blocks_left = k, !.io_rd = TRUE])
      BY DEF Typed, Flags, Modes
    <2> QED
      BY <2>1 DEF Prefetch
  <1>4. Typed(Opened(s, i))
    BY <1>1, <1>2, <1>3 DEF Opened
  <1>5. \A n : Typed(n) => Typed(Synth(s, n))
    <2>1. \A n, x : Typed(n) => /\ Typed([n EXCEPT !.synth_idx = x, !.synth_len = 0, !.buf_valid = TRUE])
                                /\ Typed([n EXCEPT !.synth_idx = x])
      BY DEF Typed, Flags, Modes
    <2> QED
      BY <2>1 DEF Synth
  <1>6. Typed(Moved(s, i))
    BY <1>4, <1>5, EngineTyped DEF Moved
  <1>7. \A n : Typed(n) => Typed(CdbDone(s, n))
    <2> TAKE n
    <2> HAVE Typed(n)
    <2>1. PICK j : j = IF s.cdb_active /\ s.cdb # <<>> /\ Len(s.cdb) = opcode(s).len
                       THEN [n EXCEPT !.cdb_active = FALSE, !.exec_pending = TRUE] ELSE n
      OBVIOUS
    <2>2. Typed([n EXCEPT !.cdb_active = FALSE, !.exec_pending = TRUE])
      BY DEF Typed, Flags, Modes
    <2>3. Typed(j)
      BY <2>1, <2>2
    <2>4. Typed([j EXCEPT !.exec_pending = FALSE])
      BY <2>3 DEF Typed, Flags, Modes
    <2> QED
      BY <2>1, <2>3, <2>4, ExecTyped DEF CdbDone
  <1>8. \A n, p, bits : Typed(n)
            => /\ Typed(raise([n EXCEPT !.chunk_irq_armed = FALSE, !.xfer_in = FALSE, !.phase = p], bits))
               /\ Typed(raise([n EXCEPT !.chunk_irq_armed = FALSE, !.xfer_out = FALSE, !.phase = p], bits))
    <2> TAKE n, p, bits
    <2> HAVE Typed(n)
    <2>1. /\ Typed([n EXCEPT !.chunk_irq_armed = FALSE, !.xfer_in = FALSE, !.phase = p])
          /\ Typed([n EXCEPT !.chunk_irq_armed = FALSE, !.xfer_out = FALSE, !.phase = p])
      BY DEF Typed, Flags, Modes
    <2> QED
      BY <2>1, HelpersTyped
  <1>9. \A n : Typed(n) => Typed(InEnd(s, i, n)) /\ Typed(OutEnd(s, i, n))
    <2> TAKE n
    <2> HAVE Typed(n)
    <2>1. PICK p : p = IF Exhausted(s, i) THEN "STAT" ELSE n.phase
      OBVIOUS
    <2>2. \/ InEnd(s, i, n) = n
          \/ InEnd(s, i, n) = raise([n EXCEPT !.chunk_irq_armed = FALSE, !.xfer_in = FALSE,
                                              !.phase = p], {"BUS"})
      BY <2>1 DEF InEnd
    <2>3. PICK q : q = IF s.blocks_left = 0 THEN "STAT" ELSE n.phase
      OBVIOUS
    <2>4. \/ OutEnd(s, i, n) = n
          \/ OutEnd(s, i, n) = raise([n EXCEPT !.chunk_irq_armed = FALSE, !.xfer_out = FALSE,
                                               !.phase = q], {"BUS"})
      BY <2>3 DEF OutEnd
    <2>5. /\ Typed(raise([n EXCEPT !.chunk_irq_armed = FALSE, !.xfer_in = FALSE, !.phase = p], {"BUS"}))
          /\ Typed(raise([n EXCEPT !.chunk_irq_armed = FALSE, !.xfer_out = FALSE, !.phase = q], {"BUS"}))
      BY <1>8
    <2> QED
      BY <2>2, <2>4, <2>5
  <1>10. \A n : Typed(n) => Typed(Flush(s, i, n))
    <2> TAKE n
    <2> HAVE Typed(n)
    <2>1. \A l, v, p, c : Typed([n EXCEPT !.io_lba = l, !.lba = v, !.io_wr = TRUE,
                                          !.flush_pending = TRUE, !.sbuf_pos = 0,
                                          !.blocks_left = c, !.phase = p])
      BY DEF Typed, Flags, Modes
    <2>2. Typed(StartFlush(s, n))
      BY <2>1 DEF StartFlush
    <2> QED
      BY <2>2 DEF Flush
  <1>11. \A n : Typed(n) => Typed(PioOutEnd(s, n)) /\ Typed(PioInUnderflow(s, i, n))
    <2> TAKE n
    <2> HAVE Typed(n)
    <2>1. Typed([n EXCEPT !.xfer_pio_out = FALSE]) /\ Typed([n EXCEPT !.xfer_pio_in = FALSE, !.phase = "STAT"])
      BY DEF Typed, Flags, Modes
    <2> QED
      BY <2>1, HelpersTyped DEF PioOutEnd, PioInUnderflow
  <1>12. \A n : Typed(n) => Typed(MsgOutEnd(s, n))
    <2> TAKE n
    <2> HAVE Typed(n)
    <2>1. PICK j : j = [n EXCEPT !.xfer_msg_out = FALSE]
      OBVIOUS
    <2>2. Typed(j)
      BY <2>1 DEF Typed, Flags, Modes
    <2>3. PICK k : k = IF s.msg_first = Extended
                       THEN [j EXCEPT !.phase = "MIN", !.msgin_reject = TRUE]
                       ELSE collect(j, 0)
      OBVIOUS
    <2>4. Typed([j EXCEPT !.phase = "MIN", !.msgin_reject = TRUE])
      BY <2>2 DEF Typed, Flags, Modes
    <2>5. Typed(k)
      BY <2>2, <2>3, <2>4, HelpersTyped
    <2>6. Typed(raise(k, {"BUS"}))
      BY <2>5, HelpersTyped
    <2> QED
      BY <2>1, <2>3, <2>6 DEF MsgOutEnd
  <1>13. Typed(Body(s, i))
    BY <1>6, <1>7, <1>9, <1>10, <1>11, <1>12 DEF Body
  <1>14. \A n : Typed(n) => Typed(Registers(s, i, n))
    <2> TAKE n
    <2> HAVE Typed(n)
    <2>1. \A v : Typed([n EXCEPT !.tc_latch = v, !.tc_zero = FALSE]) /\ Typed([n EXCEPT !.dest_ok = v])
      BY DEF Typed, Flags, Modes
    <2> QED
      BY <2>1, HelpersTyped, CommandTyped DEF Registers
  <1>15. \A n : Typed(n) => Typed(Interrupts(s, i, n))
    <2>1. \A n, v, w : Typed(n) /\ w \in BOOLEAN => Typed([n EXCEPT !.istatus = v, !.irq = w])
      BY DEF Typed, Flags, Modes
    <2> QED
      BY <2>1 DEF Interrupts
  <1>16. \A n : Typed(n) => Typed(PortE(s, i, n, b))
    <2>1. \A n, q, a, w : Typed(n) => Typed([n EXCEPT !.q_e = q, !.eq_addr = a, !.eq_wr = w])
      BY DEF Typed, Flags, Modes
    <2> QED
      BY <2>1 DEF PortE
  <1>17. \A n : Typed(n) => Typed([n EXCEPT !.i_new = {}])
    BY DEF Typed, Flags, Modes
  <1>18. Typed(PortE(s, i, Interrupts(s, i, Registers(s, i, Body(s, i))), b))
    BY <1>13, <1>14, <1>15, <1>16
  <1> QED
    BY <1>17, <1>18, CycleParts

-----------------------------------------------------------------------------
(* The transfers, and what an access leaves to the buffer *)

ReadsByDma(n, r) ==
    Only(n, r, Counter \cup {"xfer_in", "chunk_irq_armed"}) /\ r.xfer_in = TRUE

ReadsByte(n, r) == Only(n, r, Counter \cup {"xfer_pio_in"}) /\ r.xfer_pio_in = TRUE

WritesByDma(n, r) ==
    Only(n, r, Counter \cup {"xfer_out", "chunk_irq_armed"}) /\ r.xfer_out = TRUE

WritesBytes(n, r) == Only(n, r, Counter \cup {"xfer_pio_out"}) /\ r.xfer_pio_out = TRUE

SendsMessage(n, r) ==
    /\ Only(n, r, Counter \cup {"xfer_msg_out", "msg_first_seen", "msg_first"})
    /\ r.xfer_msg_out = TRUE

LEMMA TransferAccess ==
    ASSUME NEW s, NEW i, NEW n, NEW r, r = Registers(s, i, n), Control \subseteq DOMAIN n,
           i.op = "write", i.rs = "CMD", i.val = "TI"
    PROVE  /\ s.phase = "CMD" => Only(n, r, Counter)
           /\ (s.phase = "DIN" /\ i.dmabit) => ReadsByDma(n, r)
           /\ (s.phase = "DIN" /\ ~i.dmabit /\ s.fifo # <<>>) => Raised(n, r, Counter, {"BUS"})
           /\ (s.phase = "DIN" /\ ~i.dmabit /\ s.fifo = <<>>) => ReadsByte(n, r)
           /\ (s.phase = "DOUT" /\ i.dmabit) => WritesByDma(n, r)
           /\ (s.phase = "DOUT" /\ ~i.dmabit) => WritesBytes(n, r)
           /\ s.phase = "MIN" => Raised(n, r, Counter \cup {"fifo"}, {"FC"})
           /\ s.phase = "MOUT" => SendsMessage(n, r)
  <1>1. PICK m : m = load_counter(s, i, n)
    OBVIOUS
  <1>2. Only(n, m, Counter) /\ DOMAIN m = DOMAIN n /\ Control \subseteq DOMAIN m
    BY <1>1, CounterOnly
  <1>3. r = TransferInfo(s, i, m)
    BY <1>1 DEF Registers, exec_command, command_case
  <1>4. "i_new" \in DOMAIN n /\ "i_new" \notin Counter
    BY DEF Control, Counter
  <1>5. s.phase = "CMD" => r = m
    BY <1>3 DEF TransferInfo
  <1>6. (s.phase = "DIN" /\ i.dmabit)
            => Only(n, r, Counter \cup {"xfer_in", "chunk_irq_armed"}) /\ r.xfer_in = TRUE
    <2>1. (s.phase = "DIN" /\ i.dmabit) => r = [m EXCEPT !.xfer_in = TRUE, !.chunk_irq_armed = TRUE]
      BY <1>3 DEF TransferInfo
    <2> QED
      BY <1>2, <2>1 DEF Only, Control
  <1>7. (s.phase = "DIN" /\ ~i.dmabit /\ s.fifo # <<>>) => Raised(n, r, Counter, {"BUS"})
    <2>1. (s.phase = "DIN" /\ ~i.dmabit /\ s.fifo # <<>>) => r = raise(m, {"BUS"})
      BY <1>3 DEF TransferInfo
    <2> QED
      BY <1>2, <1>4, <2>1, RaiseOnly
  <1>8. (s.phase = "DIN" /\ ~i.dmabit /\ s.fifo = <<>>)
            => Only(n, r, Counter \cup {"xfer_pio_in"}) /\ r.xfer_pio_in = TRUE
    <2>1. (s.phase = "DIN" /\ ~i.dmabit /\ s.fifo = <<>>) => r = [m EXCEPT !.xfer_pio_in = TRUE]
      BY <1>3 DEF TransferInfo
    <2> QED
      BY <1>2, <2>1 DEF Only, Control
  <1>9. (s.phase = "DOUT" /\ i.dmabit)
            => Only(n, r, Counter \cup {"xfer_out", "chunk_irq_armed"}) /\ r.xfer_out = TRUE
    <2>1. (s.phase = "DOUT" /\ i.dmabit) => r = [m EXCEPT !.xfer_out = TRUE, !.chunk_irq_armed = TRUE]
      BY <1>3 DEF TransferInfo
    <2> QED
      BY <1>2, <2>1 DEF Only, Control
  <1>10. (s.phase = "DOUT" /\ ~i.dmabit)
            => Only(n, r, Counter \cup {"xfer_pio_out"}) /\ r.xfer_pio_out = TRUE
    <2>1. (s.phase = "DOUT" /\ ~i.dmabit) => r = [m EXCEPT !.xfer_pio_out = TRUE]
      BY <1>3 DEF TransferInfo
    <2> QED
      BY <1>2, <2>1 DEF Only, Control
  <1>11. s.phase = "MIN" => Raised(n, r, Counter \cup {"fifo"}, {"FC"})
    <2>1. PICK y : y = [m EXCEPT !.fifo = <<IF s.msgin_reject THEN MessageReject ELSE Zero>>]
      OBVIOUS
    <2>2. s.phase = "MIN" => r = raise(y, {"FC"})
      BY <1>3, <2>1 DEF TransferInfo
    <2>3. Only(n, y, Counter \cup {"fifo"})
      BY <1>2, <2>1 DEF Only
    <2> QED
      BY <1>4, <2>2, <2>3, RaiseOnly
  <1>12. s.phase = "MOUT"
            => /\ Only(n, r, Counter \cup {"xfer_msg_out", "msg_first_seen", "msg_first"})
               /\ r.xfer_msg_out = TRUE
    <2>1. s.phase = "MOUT" => r = [m EXCEPT !.xfer_msg_out = TRUE, !.msg_first_seen = FALSE,
                                            !.msg_first = Zero]
      BY <1>3 DEF TransferInfo
    <2> QED
      BY <1>2, <2>1 DEF Only, Control
  <1> QED
    BY <1>2, <1>5, <1>6, <1>7, <1>8, <1>9, <1>10, <1>11, <1>12
       DEF ReadsByDma, ReadsByte, WritesByDma, WritesBytes, SendsMessage

-----------------------------------------------------------------------------
(* A clock of the quiet chip *)

Carries(n, c, W) == \A f \in Control \ (W \cup {"istatus", "irq", "i_new"}) : c[f] = n[f]

\* The interrupt stays as it is, or more is raised.
Holds(s, c) == c.istatus = s.istatus /\ c.irq = s.irq

Rings(s, c, bits) == c.istatus = s.istatus \cup bits /\ c.irq = TRUE

Calm(s) == s.irq = FALSE /\ s.istatus = {}

ReadsIsr(i) == i.op = "read" /\ i.rs = "ISR"

LEMMA Accessed ==
    ASSUME NEW s, NEW i, NEW b, NEW n, NEW r, NEW c, NEW W, n = Body(s, i), r = Registers(s, i, n),
           c = Cycle(s, i, b), Control \subseteq DOMAIN n, n.istatus = s.istatus, n.irq = s.irq,
           n.i_new = {}, W \cap {"istatus", "irq", "i_new"} = {}
    PROVE  /\ (Only(n, r, W) /\ ~ReadsIsr(i)) => Carries(n, c, W) /\ Carries(r, c, {}) /\ Holds(s, c)
           /\ (Only(n, r, W) /\ ReadsIsr(i)) => Carries(n, c, W) /\ Carries(r, c, {}) /\ Calm(c)
           /\ \A bits : (Raised(n, r, W, bits) /\ bits # {} /\ ~ReadsIsr(i))
                           => Carries(n, c, W) /\ Carries(r, c, {}) /\ Rings(s, c, bits)
  <1>1. Only(n, r, W \cup {"i_new"}) => Control \subseteq DOMAIN r /\ r.istatus = n.istatus /\ r.irq = n.irq
    BY DEF Only, Control
  <1>2. Only(n, r, W) => Only(n, r, W \cup {"i_new"}) /\ r.i_new = {}
    BY DEF Only, Control
  <1>3. ASSUME Only(n, r, W \cup {"i_new"}) PROVE Carries(n, c, W) /\ Carries(r, c, {})
    <2>1. Same(r, c, Control \ {"istatus", "irq", "i_new"})
      BY <1>1, <1>3, CycleEnd
    <2>2. Carries(r, c, {})
      BY <2>1 DEF Same, Carries
    <2> QED
      BY <1>3, <2>2 DEF Carries, Only
  <1>4. ASSUME Only(n, r, W \cup {"i_new"})
        PROVE  /\ ReadsIsr(i) => c.istatus = r.i_new /\ (r.i_new = {} => c.irq = FALSE)
               /\ (~ReadsIsr(i) /\ r.i_new = {}) => Holds(s, c)
               /\ (~ReadsIsr(i) /\ r.i_new # {}) => Rings(s, c, r.i_new)
    <2>1. r = Registers(s, i, Body(s, i)) /\ Control \subseteq DOMAIN r
      BY <1>1, <1>4
    <2>2. Published(s, i, r, c)
      BY <2>1, CycleEnd
    <2> QED
      BY <1>1, <1>4, <2>2 DEF ReadsIsr, Holds, Rings, Published
  <1>5. \A bits : (Raised(n, r, W, bits) /\ bits # {})
            => Only(n, r, W \cup {"i_new"}) /\ r.i_new = bits
    BY DEF Raised
  <1>6. (Only(n, r, W) /\ ReadsIsr(i)) => Calm(c)
    BY <1>2, <1>4 DEF Calm
  <1> QED
    BY <1>2, <1>3, <1>4, <1>5, <1>6

LEMMA KeptBuffer ==
    ASSUME NEW s, NEW i, NEW n, NEW c, NEW W, BufferStep(s, i, n), Carries(n, c, W),
           W \cap Buffers = {}, s.phase # "DIN" \/ c.phase = n.phase
    PROVE  BufferStep(s, i, c)
  BY DEF BufferStep, Carries, Buffers, Control

Plain(i) == i.op \in {"none", "read"} \/ (i.op = "write" /\ i.rs \in {"TC", "DEST", "FIFO"})

\* An access that gives no command.
AfterPlain(s, i, c) ==
    /\ Quiet(c) /\ c.phase = s.phase /\ c.msgin_reject = s.msgin_reject /\ BufferStep(s, i, c)
    /\ IF ReadsIsr(i) THEN Calm(c) ELSE Holds(s, c)
    /\ ~(i.op = "write" /\ i.rs = "DEST") => c.dest_ok = s.dest_ok
    /\ (i.op = "write" /\ i.rs = "DEST") => c.dest_ok = i.val
    /\ (i.dma = "none" /\ ~(i.op # "none" /\ i.rs = "FIFO")) => c.fifo = s.fifo
    /\ (i.dma = "none" /\ i.op = "write" /\ i.rs = "FIFO" /\ Len(s.fifo) < FIFO)
          => c.fifo = Append(s.fifo, i.val)
    /\ i.dma = "none" => c.dma_valid = FALSE

LEMMA QuietPlain ==
    ASSUME NEW s, NEW i, NEW b, NEW c, Shape(s), i.io_ack \in BOOLEAN, Quiet(s), Plain(i),
           c = Cycle(s, i, b)
    PROVE  AfterPlain(s, i, c)
  <1>1. PICK n : n = Body(s, i)
    OBVIOUS
  <1>2. /\ Same(s, n, Dialogue \ {"fifo"}) /\ Control \subseteq DOMAIN n /\ n.i_new = {}
        /\ i.dma # "rd" => n.fifo = s.fifo
        /\ i.dma = "none" => n.dma_valid = FALSE
        /\ BufferStep(s, i, n)
    BY <1>1, QuietBody
  <1>3. /\ n.istatus = s.istatus /\ n.irq = s.irq /\ n.phase = s.phase
        /\ n.msgin_reject = s.msgin_reject /\ n.dest_ok = s.dest_ok /\ Quiet(n)
    BY <1>2 DEF Same, Dialogue, Quiet, NoTransfer
  <1>4. PICK r : r = Registers(s, i, n)
    OBVIOUS
  <1>5. PICK W : /\ W = {"tc_latch", "tc_zero"} \cup (IF i.op # "none" /\ i.rs = "FIFO" THEN {"fifo"} ELSE {})
                       \cup (IF i.op = "write" /\ i.rs = "DEST" THEN {"dest_ok"} ELSE {})
    OBVIOUS
  <1>6. Only(n, r, W)
    <2>1. Only(n, n, W)
      BY DEF Only
    <2>2. CASE i.op = "none" \/ (i.op = "read" /\ i.rs # "FIFO")
      BY <1>2, <1>4, <2>1, <2>2, PlainAccess
    <2>3. CASE i.op = "read" /\ i.rs = "FIFO"
      <3>1. Only(n, r, {"fifo"}) /\ {"fifo"} \subseteq W
        BY <1>2, <1>4, <1>5, <2>3, PlainAccess
      <3> QED
        BY <3>1 DEF Only
    <2>4. CASE i.op = "write" /\ i.rs = "TC"
      <3>1. Only(n, r, {"tc_latch", "tc_zero"}) /\ {"tc_latch", "tc_zero"} \subseteq W
        BY <1>2, <1>4, <1>5, <2>4, PlainAccess
      <3> QED
        BY <3>1 DEF Only
    <2>5. CASE i.op = "write" /\ i.rs = "DEST"
      <3>1. Only(n, r, {"dest_ok"}) /\ {"dest_ok"} \subseteq W
        BY <1>2, <1>4, <1>5, <2>5, PlainAccess
      <3> QED
        BY <3>1 DEF Only
    <2>6. CASE i.op = "write" /\ i.rs = "FIFO"
      <3>1. Only(n, r, {"fifo"}) /\ {"fifo"} \subseteq W
        BY <1>2, <1>4, <1>5, <2>6, PlainAccess
      <3> QED
        BY <3>1 DEF Only
    <2> QED
      BY <2>2, <2>3, <2>4, <2>5, <2>6 DEF Plain
  <1>7. W \cap {"istatus", "irq", "i_new"} = {} /\ W \cap Buffers = {} /\ W \cap (Modes \cup {"phase", "msgin_reject", "dma_valid"}) = {}
    BY <1>5 DEF Buffers, Modes
  <1>8. /\ Carries(n, c, W) /\ Carries(r, c, {})
        /\ IF ReadsIsr(i) THEN Calm(c) ELSE Holds(s, c)
    BY <1>1, <1>2, <1>3, <1>4, <1>6, <1>7, Accessed
  <1>9. /\ \A f \in Modes \cup {"phase", "msgin_reject", "dma_valid"} : c[f] = n[f]
        /\ c.fifo = r.fifo /\ c.dest_ok = r.dest_ok
    BY <1>7, <1>8 DEF Carries, Control, Modes
  <1>10. Quiet(c) /\ c.phase = s.phase /\ c.msgin_reject = s.msgin_reject
         /\ (i.dma = "none" => c.dma_valid = FALSE)
    BY <1>2, <1>3, <1>9 DEF Quiet, NoTransfer, Modes
  <1>11. BufferStep(s, i, c)
    BY <1>2, <1>3, <1>7, <1>8, <1>10, KeptBuffer
  <1>12. /\ ~(i.op = "write" /\ i.rs = "DEST") => c.dest_ok = s.dest_ok
         /\ (i.dma = "none" /\ ~(i.op # "none" /\ i.rs = "FIFO")) => c.fifo = s.fifo
    <2>1. /\ ~(i.op = "write" /\ i.rs = "DEST") => "dest_ok" \notin W
          /\ ~(i.op # "none" /\ i.rs = "FIFO") => "fifo" \notin W
      BY <1>5
    <2> QED
      BY <1>2, <1>3, <1>8, <2>1 DEF Carries, Control
  <1>13. (i.op = "write" /\ i.rs = "DEST") => c.dest_ok = i.val
    BY <1>2, <1>4, <1>9, PlainAccess
  <1>14. (i.op = "write" /\ i.rs = "FIFO" /\ Len(s.fifo) < FIFO) => c.fifo = Append(s.fifo, i.val)
    BY <1>2, <1>4, <1>9, PlainAccess
  <1> QED
    BY <1>8, <1>10, <1>11, <1>12, <1>13, <1>14 DEF AfterPlain

\* The quiet chip as it comes to a command: nothing but the block handshake has moved.
Ready(s, i, n) ==
    /\ Control \subseteq DOMAIN n /\ Quiet(n) /\ n.fifo = s.fifo /\ n.phase = s.phase
    /\ n.msgin_reject = s.msgin_reject /\ n.dest_ok = s.dest_ok
    /\ n.istatus = s.istatus /\ n.irq = s.irq /\ n.i_new = {} /\ n.dma_valid = FALSE
    /\ n.xfer_in = s.xfer_in /\ n.xfer_out = s.xfer_out
    /\ BufferStep(s, i, n)

LEMMA QuietReady ==
    ASSUME NEW s, NEW i, NEW n, Shape(s), i.io_ack \in BOOLEAN, Quiet(s), i.dma = "none",
           n = Body(s, i)
    PROVE  Ready(s, i, n)
  <1>1. /\ Same(s, n, Dialogue \ {"fifo"}) /\ Control \subseteq DOMAIN n /\ n.i_new = {}
        /\ n.fifo = s.fifo /\ n.dma_valid = FALSE /\ BufferStep(s, i, n)
    BY QuietBody
  <1> QED
    BY <1>1 DEF Same, Dialogue, Quiet, NoTransfer, Ready

Commanded(s, i, val) ==
    /\ Shape(s) /\ i.io_ack \in BOOLEAN /\ Quiet(s) /\ i.dma = "none"
    /\ i.op = "write" /\ i.rs = "CMD" /\ i.val = val

AfterFlush(s, i, c) ==
    /\ Quiet(c) /\ c.phase = s.phase /\ c.msgin_reject = s.msgin_reject /\ c.dest_ok = s.dest_ok
    /\ Holds(s, c) /\ c.fifo = <<>> /\ BufferStep(s, i, c)

LEMMA QuietFlush ==
    ASSUME NEW s, NEW i, NEW b, NEW c, Commanded(s, i, "FLUSH"), c = Cycle(s, i, b)
    PROVE  AfterFlush(s, i, c)
  <1>1. PICK n : n = Body(s, i)
    OBVIOUS
  <1>2. PICK r : r = Registers(s, i, n)
    OBVIOUS
  <1>3. Ready(s, i, n)
    BY <1>1, QuietReady DEF Commanded
  <1>4. PICK W : W = Counter \cup {"fifo"}
    OBVIOUS
  <1>5. Only(n, r, W) /\ r.fifo = <<>>
    <2>1. Flushed(n, r)
      BY <1>2, <1>3, CommandAccess DEF Ready, Commanded
    <2> QED
      BY <1>4, <2>1 DEF Flushed
  <1>6. W \cap {"istatus", "irq", "i_new"} = {} /\ W \cap Buffers = {}
    BY <1>4 DEF Counter, Buffers
  <1>7. Carries(n, c, W) /\ Carries(r, c, {}) /\ Holds(s, c)
    BY <1>1, <1>2, <1>3, <1>5, <1>6, Accessed DEF Ready, Commanded, ReadsIsr
  <1>8. /\ Quiet(c) /\ c.phase = s.phase /\ c.msgin_reject = s.msgin_reject /\ c.dest_ok = s.dest_ok
        /\ c.fifo = <<>>
    BY <1>3, <1>4, <1>5, <1>7 DEF Carries, Control, Counter, Ready, Quiet, NoTransfer
  <1>9. BufferStep(s, i, c)
    BY <1>3, <1>6, <1>7, <1>8, KeptBuffer DEF Ready
  <1> QED
    BY <1>7, <1>8, <1>9 DEF AfterFlush

AfterSelect(s, i, c) ==
    /\ Collecting(c) /\ c.cdb = <<>> /\ c.skip_cnt = (IF i.val = "SELATN" THEN 1 ELSE 0)
    /\ c.fifo = s.fifo /\ c.dest_ok = s.dest_ok /\ c.msgin_reject = s.msgin_reject
    /\ Holds(s, c) /\ BufferStep(s, i, c)

LEMMA QuietSelect ==
    ASSUME NEW s, NEW i, NEW b, NEW c, NEW val \in {"SELNATN", "SELATN"}, Commanded(s, i, val),
           s.dest_ok, s.phase # "DIN", c = Cycle(s, i, b)
    PROVE  AfterSelect(s, i, c)
  <1>1. PICK n : n = Body(s, i)
    OBVIOUS
  <1>2. PICK r : r = Registers(s, i, n)
    OBVIOUS
  <1>3. Ready(s, i, n)
    BY <1>1, QuietReady DEF Commanded
  <1>4. PICK W : W = Counter \cup {"phase", "cdb_active", "cdb", "skip_cnt"}
    OBVIOUS
  <1>5. /\ Only(n, r, W) /\ r.phase = "CMD" /\ r.cdb_active = TRUE /\ r.cdb = <<>>
        /\ r.skip_cnt = (IF i.val = "SELATN" THEN 1 ELSE 0)
    <2>1. Selected(i, n, r)
      BY <1>2, <1>3, CommandAccess DEF Ready, Commanded
    <2> QED
      BY <1>4, <2>1 DEF Selected
  <1>6. W \cap {"istatus", "irq", "i_new"} = {} /\ W \cap Buffers = {}
    BY <1>4 DEF Counter, Buffers
  <1>7. Carries(n, c, W) /\ Carries(r, c, {}) /\ Holds(s, c)
    BY <1>1, <1>2, <1>3, <1>5, <1>6, Accessed DEF Ready, Commanded, ReadsIsr
  <1>8. /\ c.cdb = r.cdb /\ c.skip_cnt = r.skip_cnt /\ c.phase = r.phase
        /\ c.cdb_active = r.cdb_active /\ c.exec_pending = n.exec_pending
    BY <1>4, <1>7 DEF Carries, Control, Counter
  <1>9. /\ NoTransfer(c) /\ c.fifo = s.fifo /\ c.dest_ok = s.dest_ok /\ c.msgin_reject = s.msgin_reject
    <2>1. /\ NoTransfer(n) /\ n.fifo = s.fifo /\ n.dest_ok = s.dest_ok
          /\ n.msgin_reject = s.msgin_reject
      BY <1>3 DEF Ready, Quiet
    <2> QED
      BY <1>4, <1>7, <2>1 DEF Carries, Control, Counter, NoTransfer
  <1>10. BufferStep(s, i, c)
    BY <1>3, <1>6, <1>7, KeptBuffer DEF Ready
  <1>11. Collecting(c)
    BY <1>3, <1>5, <1>8, <1>9 DEF Collecting, Ready, Quiet
  <1> QED
    BY <1>5, <1>7, <1>8, <1>9, <1>10, <1>11 DEF AfterSelect

AfterTimeout(s, i, c) ==
    /\ Quiet(c) /\ c.phase = s.phase /\ c.fifo = s.fifo /\ c.dest_ok = s.dest_ok
    /\ c.msgin_reject = s.msgin_reject /\ Rings(s, c, {"DISC"}) /\ BufferStep(s, i, c)

LEMMA QuietTimeout ==
    ASSUME NEW s, NEW i, NEW b, NEW c, NEW val \in {"SELNATN", "SELATN"}, Commanded(s, i, val),
           ~s.dest_ok, c = Cycle(s, i, b)
    PROVE  AfterTimeout(s, i, c)
  <1>1. PICK n : n = Body(s, i)
    OBVIOUS
  <1>2. PICK r : r = Registers(s, i, n)
    OBVIOUS
  <1>3. Ready(s, i, n)
    BY <1>1, QuietReady DEF Commanded
  <1>4. Raised(n, r, Counter, {"DISC"})
    BY <1>2, <1>3, CommandAccess DEF Ready, Commanded
  <1>5. Counter \cap {"istatus", "irq", "i_new"} = {} /\ Counter \cap Buffers = {}
    BY DEF Counter, Buffers
  <1>6. {"DISC"} # {} /\ ~ReadsIsr(i)
    BY DEF Commanded, ReadsIsr
  <1>7. Carries(n, c, Counter) /\ Rings(s, c, {"DISC"})
    BY <1>1, <1>2, <1>3, <1>4, <1>5, <1>6, Accessed DEF Ready
  <1>8. /\ Quiet(c) /\ c.phase = s.phase /\ c.msgin_reject = s.msgin_reject /\ c.dest_ok = s.dest_ok
        /\ c.fifo = s.fifo
    BY <1>3, <1>7 DEF Carries, Control, Counter, Ready, Quiet, NoTransfer
  <1>9. BufferStep(s, i, c)
    BY <1>3, <1>5, <1>7, <1>8, KeptBuffer DEF Ready
  <1> QED
    BY <1>7, <1>8, <1>9 DEF AfterTimeout

AfterStop(s, i, c) ==
    Quiet(c) /\ c.phase = "MOUT" /\ Rings(s, c, {"BUS", "FC"}) /\ BufferStep(s, i, c)

LEMMA QuietStop ==
    ASSUME NEW s, NEW i, NEW b, NEW c, Commanded(s, i, "SELATNS"), s.dest_ok, s.phase # "DIN", c = Cycle(s, i, b)
    PROVE  AfterStop(s, i, c)
  <1>1. PICK n : n = Body(s, i)
    OBVIOUS
  <1>2. PICK r : r = Registers(s, i, n)
    OBVIOUS
  <1>3. Ready(s, i, n)
    BY <1>1, QuietReady DEF Commanded
  <1>4. PICK W : W = Counter \cup {"fifo", "phase", "cdb_active", "xfer_msg_out", "msg_first_seen"}
    OBVIOUS
  <1>5. Raised(n, r, W, {"BUS", "FC"}) /\ r.phase = "MOUT" /\ r.cdb_active = FALSE /\ r.xfer_msg_out = FALSE
    <2>1. Stopped(n, r)
      BY <1>2, <1>3, CommandAccess DEF Ready, Commanded
    <2> QED
      BY <1>4, <2>1 DEF Stopped
  <1>6. W \cap {"istatus", "irq", "i_new"} = {} /\ W \cap Buffers = {}
    BY <1>4 DEF Counter, Buffers
  <1>7. {"BUS", "FC"} # {} /\ ~ReadsIsr(i)
    BY DEF Commanded, ReadsIsr
  <1>8. Carries(n, c, W) /\ Carries(r, c, {}) /\ Rings(s, c, {"BUS", "FC"})
    BY <1>1, <1>2, <1>3, <1>5, <1>6, <1>7, Accessed DEF Ready
  <1>9. /\ c.phase = r.phase /\ c.cdb_active = r.cdb_active /\ c.xfer_msg_out = r.xfer_msg_out
        /\ c.exec_pending = n.exec_pending /\ c.xfer_in = n.xfer_in /\ c.xfer_out = n.xfer_out
        /\ c.xfer_pio_in = n.xfer_pio_in /\ c.xfer_pio_out = n.xfer_pio_out /\ c.msgin_reject = n.msgin_reject
        /\ c.dest_ok = n.dest_ok
    BY <1>4, <1>8 DEF Carries, Control, Counter
  <1>10. Quiet(c) /\ c.phase = "MOUT"
    BY <1>3, <1>5, <1>9 DEF Ready, Quiet, NoTransfer, Quiet
  <1>11. BufferStep(s, i, c)
    BY <1>3, <1>6, <1>8, <1>9, KeptBuffer DEF Ready
  <1> QED
    BY <1>8, <1>10, <1>11 DEF AfterStop

AfterConclude(s, i, c) ==
    /\ Quiet(c) /\ c.phase = "MIN" /\ c.msgin_reject = FALSE /\ Rings(s, c, {"FC"})
    /\ BufferStep(s, i, c)

LEMMA QuietConclude ==
    ASSUME NEW s, NEW i, NEW b, NEW c, Commanded(s, i, "ICCS"), s.phase # "DIN", c = Cycle(s, i, b)
    PROVE  AfterConclude(s, i, c)
  <1>1. PICK n : n = Body(s, i)
    OBVIOUS
  <1>2. PICK r : r = Registers(s, i, n)
    OBVIOUS
  <1>3. Ready(s, i, n)
    BY <1>1, QuietReady DEF Commanded
  <1>4. PICK W : W = Counter \cup {"fifo", "phase", "msgin_reject"}
    OBVIOUS
  <1>5. Raised(n, r, W, {"FC"}) /\ r.phase = "MIN" /\ r.msgin_reject = FALSE
    <2>1. Concluded(n, r)
      BY <1>2, <1>3, CommandAccess DEF Ready, Commanded
    <2> QED
      BY <1>4, <2>1 DEF Concluded
  <1>6. W \cap {"istatus", "irq", "i_new"} = {} /\ W \cap Buffers = {}
    BY <1>4 DEF Counter, Buffers
  <1>7. {"FC"} # {} /\ ~ReadsIsr(i)
    BY DEF Commanded, ReadsIsr
  <1>8. Carries(n, c, W) /\ Carries(r, c, {}) /\ Rings(s, c, {"FC"})
    BY <1>1, <1>2, <1>3, <1>5, <1>6, <1>7, Accessed DEF Ready
  <1>9. /\ c.phase = r.phase /\ c.msgin_reject = r.msgin_reject /\ c.cdb_active = n.cdb_active
        /\ c.exec_pending = n.exec_pending /\ c.xfer_in = n.xfer_in /\ c.xfer_out = n.xfer_out
        /\ c.xfer_pio_in = n.xfer_pio_in /\ c.xfer_pio_out = n.xfer_pio_out /\ c.xfer_msg_out = n.xfer_msg_out
        /\ c.dest_ok = n.dest_ok
    BY <1>4, <1>8 DEF Carries, Control, Counter
  <1>10. Quiet(c) /\ c.phase = "MIN" /\ c.msgin_reject = FALSE
    BY <1>3, <1>5, <1>9 DEF Ready, Quiet, NoTransfer, Quiet
  <1>11. BufferStep(s, i, c)
    BY <1>3, <1>6, <1>8, <1>9, KeptBuffer DEF Ready
  <1> QED
    BY <1>8, <1>10, <1>11 DEF AfterConclude

AfterPart(s, i, c) ==
    Quiet(c) /\ c.phase = "DOUT" /\ Rings(s, c, {"DISC"}) /\ BufferStep(s, i, c)

LEMMA QuietPart ==
    ASSUME NEW s, NEW i, NEW b, NEW c, Commanded(s, i, "MSGACC"), ~s.msgin_reject, s.phase # "DIN", c = Cycle(s, i, b)
    PROVE  AfterPart(s, i, c)
  <1>1. PICK n : n = Body(s, i)
    OBVIOUS
  <1>2. PICK r : r = Registers(s, i, n)
    OBVIOUS
  <1>3. Ready(s, i, n)
    BY <1>1, QuietReady DEF Commanded
  <1>4. PICK W : W = Counter \cup {"fifo", "phase"}
    OBVIOUS
  <1>5. Raised(n, r, W, {"DISC"}) /\ r.phase = "DOUT"
    <2>1. Parted(n, r)
      BY <1>2, <1>3, CommandAccess DEF Ready, Commanded
    <2> QED
      BY <1>4, <2>1 DEF Parted
  <1>6. W \cap {"istatus", "irq", "i_new"} = {} /\ W \cap Buffers = {}
    BY <1>4 DEF Counter, Buffers
  <1>7. {"DISC"} # {} /\ ~ReadsIsr(i)
    BY DEF Commanded, ReadsIsr
  <1>8. Carries(n, c, W) /\ Carries(r, c, {}) /\ Rings(s, c, {"DISC"})
    BY <1>1, <1>2, <1>3, <1>5, <1>6, <1>7, Accessed DEF Ready
  <1>9. /\ c.phase = r.phase /\ c.cdb_active = n.cdb_active /\ c.exec_pending = n.exec_pending
        /\ c.xfer_in = n.xfer_in /\ c.xfer_out = n.xfer_out /\ c.xfer_pio_in = n.xfer_pio_in
        /\ c.xfer_pio_out = n.xfer_pio_out /\ c.xfer_msg_out = n.xfer_msg_out /\ c.msgin_reject = n.msgin_reject
        /\ c.dest_ok = n.dest_ok
    BY <1>4, <1>8 DEF Carries, Control, Counter
  <1>10. Quiet(c) /\ c.phase = "DOUT"
    BY <1>3, <1>5, <1>9 DEF Ready, Quiet, NoTransfer, Quiet
  <1>11. BufferStep(s, i, c)
    BY <1>3, <1>6, <1>8, <1>9, KeptBuffer DEF Ready
  <1> QED
    BY <1>8, <1>10, <1>11 DEF AfterPart

AfterResume(s, i, c) ==
    Fresh(c) /\ Rings(s, c, {"BUS"}) /\ BufferStep(s, i, c)

LEMMA QuietResume ==
    ASSUME NEW s, NEW i, NEW b, NEW c, Commanded(s, i, "MSGACC"), s.msgin_reject, s.phase # "DIN", c = Cycle(s, i, b)
    PROVE  AfterResume(s, i, c)
  <1>1. PICK n : n = Body(s, i)
    OBVIOUS
  <1>2. PICK r : r = Registers(s, i, n)
    OBVIOUS
  <1>3. Ready(s, i, n)
    BY <1>1, QuietReady DEF Commanded
  <1>4. PICK W : W = Counter \cup {"fifo", "phase", "msgin_reject", "cdb_active", "cdb", "skip_cnt"}
    OBVIOUS
  <1>5. Raised(n, r, W, {"BUS"})
        /\ r.phase = "CMD" /\ r.cdb_active = TRUE /\ r.cdb = <<>> /\ r.skip_cnt = 0 /\ r.fifo = <<>>
    <2>1. Resumed(n, r)
      BY <1>2, <1>3, CommandAccess DEF Ready, Commanded
    <2> QED
      BY <1>4, <2>1 DEF Resumed
  <1>6. W \cap {"istatus", "irq", "i_new"} = {} /\ W \cap Buffers = {}
    BY <1>4 DEF Counter, Buffers
  <1>7. {"BUS"} # {} /\ ~ReadsIsr(i)
    BY DEF Commanded, ReadsIsr
  <1>8. Carries(n, c, W) /\ Carries(r, c, {}) /\ Rings(s, c, {"BUS"})
    BY <1>1, <1>2, <1>3, <1>5, <1>6, <1>7, Accessed DEF Ready
  <1>9. /\ c.phase = r.phase /\ c.msgin_reject = r.msgin_reject /\ c.cdb_active = r.cdb_active
        /\ c.cdb = r.cdb /\ c.skip_cnt = r.skip_cnt /\ c.fifo = r.fifo
        /\ c.exec_pending = n.exec_pending /\ c.xfer_in = n.xfer_in /\ c.xfer_out = n.xfer_out
        /\ c.xfer_pio_in = n.xfer_pio_in /\ c.xfer_pio_out = n.xfer_pio_out /\ c.xfer_msg_out = n.xfer_msg_out
        /\ c.dest_ok = n.dest_ok
    BY <1>4, <1>8 DEF Carries, Control, Counter
  <1>10. Fresh(c)
    BY <1>3, <1>5, <1>9 DEF Ready, Quiet, NoTransfer, Fresh, Collecting
  <1>11. BufferStep(s, i, c)
    BY <1>3, <1>6, <1>8, <1>9, KeptBuffer DEF Ready
  <1> QED
    BY <1>8, <1>10, <1>11 DEF AfterResume

AfterRead(s, i, c) ==
    Reading(c) /\ Holds(s, c) /\ BufferStep(s, i, c)

LEMMA QuietReadDma ==
    ASSUME NEW s, NEW i, NEW b, NEW c, Commanded(s, i, "TI"), s.phase = "DIN", i.dmabit, c = Cycle(s, i, b)
    PROVE  AfterRead(s, i, c)
  <1>1. PICK n : n = Body(s, i)
    OBVIOUS
  <1>2. PICK r : r = Registers(s, i, n)
    OBVIOUS
  <1>3. Ready(s, i, n)
    BY <1>1, QuietReady DEF Commanded
  <1>4. PICK W : W = Counter \cup {"xfer_in", "chunk_irq_armed"}
    OBVIOUS
  <1>5. Only(n, r, W) /\ r.xfer_in = TRUE
    <2>1. ReadsByDma(n, r)
      BY <1>2, <1>3, TransferAccess DEF Ready, Commanded
    <2> QED
      BY <1>4, <2>1 DEF ReadsByDma
  <1>6. W \cap {"istatus", "irq", "i_new"} = {} /\ W \cap Buffers = {}
    BY <1>4 DEF Counter, Buffers
  <1>7. ~ReadsIsr(i)
    BY DEF Commanded, ReadsIsr
  <1>8. Carries(n, c, W) /\ Carries(r, c, {}) /\ Holds(s, c)
    BY <1>1, <1>2, <1>3, <1>5, <1>6, <1>7, Accessed DEF Ready
  <1>9. /\ c.xfer_in = r.xfer_in /\ c.cdb_active = n.cdb_active /\ c.exec_pending = n.exec_pending
        /\ c.xfer_out = n.xfer_out /\ c.xfer_pio_in = n.xfer_pio_in /\ c.xfer_pio_out = n.xfer_pio_out
        /\ c.xfer_msg_out = n.xfer_msg_out /\ c.phase = n.phase /\ c.msgin_reject = n.msgin_reject
        /\ c.dest_ok = n.dest_ok
    BY <1>4, <1>8 DEF Carries, Control, Counter
  <1>10. Reading(c)
    BY <1>3, <1>5, <1>9 DEF Ready, Quiet, NoTransfer, Reading
  <1>11. BufferStep(s, i, c)
    BY <1>3, <1>6, <1>8, <1>9, KeptBuffer DEF Ready
  <1> QED
    BY <1>8, <1>10, <1>11 DEF AfterRead

LEMMA QuietReadByte ==
    ASSUME NEW s, NEW i, NEW b, NEW c, Commanded(s, i, "TI"), s.phase = "DIN", ~i.dmabit, s.fifo = <<>>, c = Cycle(s, i, b)
    PROVE  AfterRead(s, i, c)
  <1>1. PICK n : n = Body(s, i)
    OBVIOUS
  <1>2. PICK r : r = Registers(s, i, n)
    OBVIOUS
  <1>3. Ready(s, i, n)
    BY <1>1, QuietReady DEF Commanded
  <1>4. PICK W : W = Counter \cup {"xfer_pio_in"}
    OBVIOUS
  <1>5. Only(n, r, W) /\ r.xfer_pio_in = TRUE
    <2>1. ReadsByte(n, r)
      BY <1>2, <1>3, TransferAccess DEF Ready, Commanded
    <2> QED
      BY <1>4, <2>1 DEF ReadsByte
  <1>6. W \cap {"istatus", "irq", "i_new"} = {} /\ W \cap Buffers = {}
    BY <1>4 DEF Counter, Buffers
  <1>7. ~ReadsIsr(i)
    BY DEF Commanded, ReadsIsr
  <1>8. Carries(n, c, W) /\ Carries(r, c, {}) /\ Holds(s, c)
    BY <1>1, <1>2, <1>3, <1>5, <1>6, <1>7, Accessed DEF Ready
  <1>9. /\ c.xfer_pio_in = r.xfer_pio_in /\ c.cdb_active = n.cdb_active /\ c.exec_pending = n.exec_pending
        /\ c.xfer_in = n.xfer_in /\ c.xfer_out = n.xfer_out /\ c.xfer_pio_out = n.xfer_pio_out
        /\ c.xfer_msg_out = n.xfer_msg_out /\ c.phase = n.phase /\ c.msgin_reject = n.msgin_reject
        /\ c.dest_ok = n.dest_ok
    BY <1>4, <1>8 DEF Carries, Control, Counter
  <1>10. Reading(c)
    BY <1>3, <1>5, <1>9 DEF Ready, Quiet, NoTransfer, Reading, Commanded, Shape, Modes
  <1>11. BufferStep(s, i, c)
    BY <1>3, <1>6, <1>8, <1>9, KeptBuffer DEF Ready
  <1> QED
    BY <1>8, <1>10, <1>11 DEF AfterRead

AfterWrite(s, i, c) ==
    Writing(c) /\ Holds(s, c) /\ BufferStep(s, i, c)

LEMMA QuietWriteDma ==
    ASSUME NEW s, NEW i, NEW b, NEW c, Commanded(s, i, "TI"), s.phase = "DOUT", i.dmabit, c = Cycle(s, i, b)
    PROVE  AfterWrite(s, i, c)
  <1>1. PICK n : n = Body(s, i)
    OBVIOUS
  <1>2. PICK r : r = Registers(s, i, n)
    OBVIOUS
  <1>3. Ready(s, i, n)
    BY <1>1, QuietReady DEF Commanded
  <1>4. PICK W : W = Counter \cup {"xfer_out", "chunk_irq_armed"}
    OBVIOUS
  <1>5. Only(n, r, W) /\ r.xfer_out = TRUE
    <2>1. WritesByDma(n, r)
      BY <1>2, <1>3, TransferAccess DEF Ready, Commanded
    <2> QED
      BY <1>4, <2>1 DEF WritesByDma
  <1>6. W \cap {"istatus", "irq", "i_new"} = {} /\ W \cap Buffers = {}
    BY <1>4 DEF Counter, Buffers
  <1>7. ~ReadsIsr(i)
    BY DEF Commanded, ReadsIsr
  <1>8. Carries(n, c, W) /\ Carries(r, c, {}) /\ Holds(s, c)
    BY <1>1, <1>2, <1>3, <1>5, <1>6, <1>7, Accessed DEF Ready
  <1>9. /\ c.xfer_out = r.xfer_out /\ c.cdb_active = n.cdb_active /\ c.exec_pending = n.exec_pending
        /\ c.xfer_in = n.xfer_in /\ c.xfer_pio_in = n.xfer_pio_in /\ c.xfer_pio_out = n.xfer_pio_out
        /\ c.xfer_msg_out = n.xfer_msg_out /\ c.phase = n.phase /\ c.msgin_reject = n.msgin_reject
        /\ c.dest_ok = n.dest_ok
    BY <1>4, <1>8 DEF Carries, Control, Counter
  <1>10. Writing(c)
    BY <1>3, <1>5, <1>9 DEF Ready, Quiet, NoTransfer, Writing, Commanded, Shape, Modes
  <1>11. BufferStep(s, i, c)
    BY <1>3, <1>6, <1>8, <1>9, KeptBuffer DEF Ready
  <1> QED
    BY <1>8, <1>10, <1>11 DEF AfterWrite

LEMMA QuietWriteBytes ==
    ASSUME NEW s, NEW i, NEW b, NEW c, Commanded(s, i, "TI"), s.phase = "DOUT", ~i.dmabit, c = Cycle(s, i, b)
    PROVE  AfterWrite(s, i, c)
  <1>1. PICK n : n = Body(s, i)
    OBVIOUS
  <1>2. PICK r : r = Registers(s, i, n)
    OBVIOUS
  <1>3. Ready(s, i, n)
    BY <1>1, QuietReady DEF Commanded
  <1>4. PICK W : W = Counter \cup {"xfer_pio_out"}
    OBVIOUS
  <1>5. Only(n, r, W) /\ r.xfer_pio_out = TRUE
    <2>1. WritesBytes(n, r)
      BY <1>2, <1>3, TransferAccess DEF Ready, Commanded
    <2> QED
      BY <1>4, <2>1 DEF WritesBytes
  <1>6. W \cap {"istatus", "irq", "i_new"} = {} /\ W \cap Buffers = {}
    BY <1>4 DEF Counter, Buffers
  <1>7. ~ReadsIsr(i)
    BY DEF Commanded, ReadsIsr
  <1>8. Carries(n, c, W) /\ Carries(r, c, {}) /\ Holds(s, c)
    BY <1>1, <1>2, <1>3, <1>5, <1>6, <1>7, Accessed DEF Ready
  <1>9. /\ c.xfer_pio_out = r.xfer_pio_out /\ c.cdb_active = n.cdb_active /\ c.exec_pending = n.exec_pending
        /\ c.xfer_in = n.xfer_in /\ c.xfer_out = n.xfer_out /\ c.xfer_pio_in = n.xfer_pio_in
        /\ c.xfer_msg_out = n.xfer_msg_out /\ c.phase = n.phase /\ c.msgin_reject = n.msgin_reject
        /\ c.dest_ok = n.dest_ok
    BY <1>4, <1>8 DEF Carries, Control, Counter
  <1>10. Writing(c)
    BY <1>3, <1>5, <1>9 DEF Ready, Quiet, NoTransfer, Writing, Commanded, Shape, Modes
  <1>11. BufferStep(s, i, c)
    BY <1>3, <1>6, <1>8, <1>9, KeptBuffer DEF Ready
  <1> QED
    BY <1>8, <1>10, <1>11 DEF AfterWrite

AfterSend(s, i, c) ==
    Messaging(c) /\ Holds(s, c) /\ BufferStep(s, i, c)

LEMMA QuietSend ==
    ASSUME NEW s, NEW i, NEW b, NEW c, Commanded(s, i, "TI"), s.phase = "MOUT", c = Cycle(s, i, b)
    PROVE  AfterSend(s, i, c)
  <1>1. PICK n : n = Body(s, i)
    OBVIOUS
  <1>2. PICK r : r = Registers(s, i, n)
    OBVIOUS
  <1>3. Ready(s, i, n)
    BY <1>1, QuietReady DEF Commanded
  <1>4. PICK W : W = Counter \cup {"xfer_msg_out", "msg_first_seen", "msg_first"}
    OBVIOUS
  <1>5. Only(n, r, W) /\ r.xfer_msg_out = TRUE
    <2>1. SendsMessage(n, r)
      BY <1>2, <1>3, TransferAccess DEF Ready, Commanded
    <2> QED
      BY <1>4, <2>1 DEF SendsMessage
  <1>6. W \cap {"istatus", "irq", "i_new"} = {} /\ W \cap Buffers = {}
    BY <1>4 DEF Counter, Buffers
  <1>7. ~ReadsIsr(i)
    BY DEF Commanded, ReadsIsr
  <1>8. Carries(n, c, W) /\ Carries(r, c, {}) /\ Holds(s, c)
    BY <1>1, <1>2, <1>3, <1>5, <1>6, <1>7, Accessed DEF Ready
  <1>9. /\ c.xfer_msg_out = r.xfer_msg_out /\ c.cdb_active = n.cdb_active /\ c.exec_pending = n.exec_pending
        /\ c.xfer_in = n.xfer_in /\ c.xfer_out = n.xfer_out /\ c.xfer_pio_in = n.xfer_pio_in
        /\ c.xfer_pio_out = n.xfer_pio_out /\ c.phase = n.phase /\ c.msgin_reject = n.msgin_reject
        /\ c.dest_ok = n.dest_ok
    BY <1>4, <1>8 DEF Carries, Control, Counter
  <1>10. Messaging(c)
    BY <1>3, <1>5, <1>9 DEF Ready, Quiet, NoTransfer, Messaging
  <1>11. BufferStep(s, i, c)
    BY <1>3, <1>6, <1>8, <1>9, KeptBuffer DEF Ready
  <1> QED
    BY <1>8, <1>10, <1>11 DEF AfterSend

\* A message in, and the byte that waits in the FIFO.
AfterByte(s, i, c, bits) ==
    /\ Quiet(c) /\ c.phase = s.phase /\ c.msgin_reject = s.msgin_reject /\ Rings(s, c, bits)
    /\ BufferStep(s, i, c)

LEMMA QuietByte ==
    ASSUME NEW s, NEW i, NEW b, NEW c, NEW bits \in {{"FC"}, {"BUS"}}, Commanded(s, i, "TI"),
           c = Cycle(s, i, b),
           \/ s.phase = "MIN" /\ bits = {"FC"}
           \/ s.phase = "DIN" /\ ~i.dmabit /\ s.fifo # <<>> /\ bits = {"BUS"}
    PROVE  AfterByte(s, i, c, bits)
  <1>1. PICK n : n = Body(s, i)
    OBVIOUS
  <1>2. PICK r : r = Registers(s, i, n)
    OBVIOUS
  <1>3. Ready(s, i, n)
    BY <1>1, QuietReady DEF Commanded
  <1>4. PICK W : W = Counter \cup {"fifo"}
    OBVIOUS
  <1>5. Raised(n, r, W, bits)
    <2>1. CASE s.phase = "MIN" /\ bits = {"FC"}
      <3>1. Raised(n, r, Counter \cup {"fifo"}, {"FC"})
        BY <1>2, <1>3, <2>1, TransferAccess DEF Ready, Commanded
      <3> QED
        BY <1>4, <2>1, <3>1
    <2>2. CASE s.phase = "DIN" /\ ~i.dmabit /\ s.fifo # <<>> /\ bits = {"BUS"}
      <3>1. Raised(n, r, Counter, {"BUS"})
        BY <1>2, <1>3, <2>2, TransferAccess DEF Ready, Commanded
      <3> QED
        BY <1>4, <2>2, <3>1 DEF Raised, Only
    <2> QED
      BY <2>1, <2>2
  <1>6. W \cap {"istatus", "irq", "i_new"} = {} /\ W \cap Buffers = {}
    BY <1>4 DEF Counter, Buffers
  <1>7. bits # {} /\ ~ReadsIsr(i)
    BY DEF Commanded, ReadsIsr
  <1>8. Carries(n, c, W) /\ Carries(r, c, {}) /\ Rings(s, c, bits)
    BY <1>1, <1>2, <1>3, <1>5, <1>6, <1>7, Accessed DEF Ready
  <1>9. /\ Quiet(c) /\ c.phase = s.phase /\ c.msgin_reject = s.msgin_reject
    BY <1>3, <1>4, <1>8 DEF Carries, Control, Counter, Ready, Quiet, NoTransfer
  <1>10. BufferStep(s, i, c)
    BY <1>3, <1>6, <1>8, <1>9, KeptBuffer DEF Ready
  <1> QED
    BY <1>8, <1>9, <1>10 DEF AfterByte

-----------------------------------------------------------------------------
(* A clock of the chip that collects a CDB *)

Gathering(s, n) ==
    /\ Control \subseteq DOMAIN n /\ NoTransfer(n) /\ n.phase = "CMD"
    /\ n.msgin_reject = s.msgin_reject /\ n.dest_ok = s.dest_ok /\ Gathered(s, n)
    /\ n.istatus = s.istatus /\ n.irq = s.irq /\ n.i_new = {}

LEMMA CollectingReady ==
    ASSUME NEW s, NEW i, NEW n, Shape(s), i.io_ack \in BOOLEAN, Collecting(s), i.dma # "rd",
           n = Body(s, i)
    PROVE  Gathering(s, n) /\ CdbStep(s, i, n) /\ BufferStep(s, i, n)
  <1>1. /\ Control \subseteq DOMAIN n /\ n.i_new = {} /\ BufferStep(s, i, n)
        /\ Same(s, n, {"phase", "msgin_reject", "istatus", "irq", "dest_ok"}) /\ NoTransfer(n)
        /\ Gathered(s, n) /\ CdbStep(s, i, n)
    BY CollectingBody
  <1> QED
    BY <1>1 DEF Same, Gathering, Collecting

\* The command phase over one clock: the CDB goes on, or it was complete and is executed.
CmdStep(s, i, c) ==
    /\ c.msgin_reject = s.msgin_reject /\ c.dest_ok = s.dest_ok /\ BufferStep(s, i, c)
    /\ \/ Collecting(c)
       \/ Executing(c) /\ s.cdb # <<>> /\ Len(s.cdb) = opcode(s).len

LEMMA CmdStepCarried ==
    ASSUME NEW s, NEW i, NEW n, NEW c, NEW W, Gathering(s, n), BufferStep(s, i, n), Carries(n, c, W),
           W \cap (Buffers \cup Modes \cup {"phase", "msgin_reject", "dest_ok"}) = {}
    PROVE  CmdStep(s, i, c)
  <1>1. /\ c.phase = n.phase /\ c.msgin_reject = n.msgin_reject /\ c.dest_ok = n.dest_ok
        /\ \A f \in Modes : c[f] = n[f]
    BY DEF Carries, Control, Modes
  <1>2. NoTransfer(c) /\ c.phase = "CMD" /\ Gathered(s, c)
    BY <1>1 DEF Gathering, NoTransfer, Modes, Gathered
  <1>3. BufferStep(s, i, c)
    <2>1. W \cap Buffers = {}
      OBVIOUS
    <2> QED
      BY <1>1, <2>1, KeptBuffer
  <1>4. \/ Collecting(c)
        \/ Executing(c) /\ s.cdb # <<>> /\ Len(s.cdb) = opcode(s).len
    BY <1>2 DEF Gathered, Collecting, Executing
  <1> QED
    BY <1>1, <1>3, <1>4 DEF CmdStep, Gathering

LEMMA CollectingWait ==
    ASSUME NEW s, NEW i, NEW b, NEW c, Shape(s), i.io_ack \in BOOLEAN, Collecting(s), i.dma # "rd",
           i.op = "none" \/ (i.op = "read" /\ i.rs # "FIFO"), c = Cycle(s, i, b)
    PROVE  /\ CmdStep(s, i, c) /\ CdbStep(s, i, c)
           /\ IF ReadsIsr(i) THEN Calm(c) ELSE Holds(s, c)
  <1>1. PICK n : n = Body(s, i)
    OBVIOUS
  <1>2. PICK r : r = Registers(s, i, n)
    OBVIOUS
  <1>3. Gathering(s, n) /\ CdbStep(s, i, n) /\ BufferStep(s, i, n)
    BY <1>1, CollectingReady
  <1>4. r = n
    BY <1>2, <1>3, PlainAccess DEF Gathering
  <1>5. PICK W : W = {}
    OBVIOUS
  <1>6. Only(n, r, W) /\ W \cap {"istatus", "irq", "i_new"} = {}
        /\ W \cap (Buffers \cup Modes \cup {"phase", "msgin_reject", "dest_ok"}) = {}
    BY <1>4, <1>5 DEF Only
  <1>7. Carries(n, c, W) /\ IF ReadsIsr(i) THEN Calm(c) ELSE Holds(s, c)
    BY <1>1, <1>2, <1>3, <1>6, Accessed DEF Gathering
  <1>8. CmdStep(s, i, c)
    BY <1>3, <1>6, <1>7, CmdStepCarried
  <1>9. c.fifo = n.fifo /\ c.cdb = n.cdb /\ c.skip_cnt = n.skip_cnt /\ c.dma_valid = n.dma_valid
    BY <1>5, <1>7 DEF Carries, Control
  <1>10. CdbStep(s, i, c)
    BY <1>3, <1>9 DEF CdbStep, Takes
  <1> QED
    BY <1>7, <1>8, <1>10

\* The driver feeds a byte, empties the FIFO or starts the transfer of the CDB: the engine
\* stands by in that clock.
Feeds(i) ==
    /\ i.op = "write"
    /\ i.rs = "FIFO" \/ (i.rs = "CMD" /\ i.val \in {"FLUSH", "TI"})

FedStep(s, i, c) ==
    /\ c.cdb = s.cdb /\ c.skip_cnt = s.skip_cnt /\ c.dma_valid = FALSE
    /\ (i.rs = "FIFO" /\ Len(s.fifo) < FIFO) => c.fifo = Append(s.fifo, i.val)
    /\ (i.rs = "CMD" /\ i.val = "FLUSH") => c.fifo = <<>>
    /\ (i.rs = "CMD" /\ i.val = "TI") => c.fifo = s.fifo

LEMMA CollectingFeed ==
    ASSUME NEW s, NEW i, NEW b, NEW c, Shape(s), i.io_ack \in BOOLEAN, Collecting(s), i.dma = "none",
           Feeds(i), c = Cycle(s, i, b)
    PROVE  CmdStep(s, i, c) /\ FedStep(s, i, c) /\ Holds(s, c)
  <1>1. PICK n : n = Body(s, i)
    OBVIOUS
  <1>2. PICK r : r = Registers(s, i, n)
    OBVIOUS
  <1>3. Gathering(s, n) /\ CdbStep(s, i, n) /\ BufferStep(s, i, n)
    BY <1>1, CollectingReady
  <1>4. n.fifo = s.fifo /\ n.cdb = s.cdb /\ n.skip_cnt = s.skip_cnt /\ n.dma_valid = FALSE
    <2>1. fifo_ext(i)
      BY DEF Feeds, fifo_ext
    <2> QED
      BY <1>3, <2>1 DEF CdbStep
  <1>5. PICK W : W = Counter \cup {"fifo"}
    OBVIOUS
  <1>6. /\ Only(n, r, W)
        /\ (i.rs = "FIFO" /\ Len(s.fifo) < FIFO) => r.fifo = Append(s.fifo, i.val)
        /\ (i.rs = "CMD" /\ i.val = "FLUSH") => r.fifo = <<>>
        /\ (i.rs = "CMD" /\ i.val = "TI") => r.fifo = n.fifo
    <2>1. CASE i.rs = "FIFO"
      <3>1. Only(n, r, {"fifo"}) /\ (Len(s.fifo) < FIFO => r.fifo = Append(s.fifo, i.val))
        BY <1>2, <1>3, <2>1, PlainAccess DEF Gathering, Feeds
      <3> QED
        BY <1>5, <2>1, <3>1 DEF Only
    <2>2. CASE i.rs = "CMD" /\ i.val = "FLUSH"
      <3>1. Flushed(n, r)
        BY <1>2, <1>3, <2>2, CommandAccess DEF Gathering, Feeds
      <3> QED
        BY <1>5, <2>2, <3>1 DEF Flushed
    <2>3. CASE i.rs = "CMD" /\ i.val = "TI"
      <3>1. Only(n, r, Counter)
        BY <1>2, <1>3, <2>3, TransferAccess DEF Gathering, Feeds, Collecting
      <3> QED
        BY <1>3, <1>5, <2>3, <3>1 DEF Only, Counter, Gathering, Control
    <2> QED
      BY <2>1, <2>2, <2>3 DEF Feeds
  <1>7. /\ W \cap {"istatus", "irq", "i_new"} = {}
        /\ W \cap (Buffers \cup Modes \cup {"phase", "msgin_reject", "dest_ok"}) = {}
    BY <1>5 DEF Counter, Buffers, Modes
  <1>8. ~ReadsIsr(i)
    BY DEF Feeds, ReadsIsr
  <1>9. Carries(n, c, W) /\ Carries(r, c, {}) /\ Holds(s, c)
    BY <1>1, <1>2, <1>3, <1>6, <1>7, <1>8, Accessed DEF Gathering
  <1>10. CmdStep(s, i, c)
    BY <1>3, <1>7, <1>9, CmdStepCarried
  <1>11. c.fifo = r.fifo /\ c.cdb = n.cdb /\ c.skip_cnt = n.skip_cnt /\ c.dma_valid = n.dma_valid
    BY <1>5, <1>9 DEF Carries, Control, Counter
  <1> QED
    BY <1>4, <1>6, <1>9, <1>10, <1>11 DEF FedStep

-----------------------------------------------------------------------------
(* A clock of the chip at work, the driver waiting *)

LEMMA WaitEnd ==
    ASSUME NEW s, NEW i, NEW b, NEW n, NEW c, n = Body(s, i), c = Cycle(s, i, b), i.op = "none",
           Control \subseteq DOMAIN n, n.istatus = s.istatus, n.irq = s.irq
    PROVE  /\ Carries(n, c, {})
           /\ n.i_new = {} => Holds(s, c)
           /\ n.i_new # {} => Rings(s, c, n.i_new)
  <1>1. PICK r : r = Registers(s, i, Body(s, i))
    OBVIOUS
  <1>2. r = n
    BY <1>1, PlainAccess
  <1>3. Same(r, c, Control \ {"istatus", "irq", "i_new"}) /\ Published(s, i, r, c)
    BY <1>1, <1>2, CycleEnd
  <1>4. Carries(n, c, {})
    BY <1>2, <1>3 DEF Same, Carries
  <1> QED
    BY <1>2, <1>3, <1>4 DEF Published, Holds, Rings

\* The command is executed: it asks for a data phase or for the status.
AfterExec(s, i, c) ==
    /\ Quiet(c) /\ c.phase \in {"STAT", "DIN", "DOUT"} /\ Rings(s, c, {"BUS", "FC"})
    /\ c.msgin_reject = s.msgin_reject /\ c.dest_ok = s.dest_ok
    /\ ExecStep(s, c)

LEMMA ExecutingWait ==
    ASSUME NEW s, NEW i, NEW b, NEW c, Shape(s), i.io_ack \in BOOLEAN, Executing(s), i.dma = "none",
           i.op = "none", c = Cycle(s, i, b)
    PROVE  AfterExec(s, i, c)
  <1>1. PICK n : n = Body(s, i)
    OBVIOUS
  <1>2. /\ Control \subseteq DOMAIN n /\ Quiet(n) /\ n.phase \in {"STAT", "DIN", "DOUT"}
        /\ Same(s, n, {"msgin_reject", "istatus", "irq", "dest_ok", "fifo"})
        /\ n.i_new = {"BUS", "FC"} /\ n.dma_valid = FALSE
        /\ ExecStep(s, n)
    BY <1>1, ExecutingBody
  <1>3. /\ n.msgin_reject = s.msgin_reject /\ n.dest_ok = s.dest_ok
        /\ n.istatus = s.istatus /\ n.irq = s.irq /\ n.i_new # {}
    BY <1>2 DEF Same
  <1>4. Carries(n, c, {}) /\ Rings(s, c, n.i_new)
    BY <1>1, <1>2, <1>3, WaitEnd
  <1>5. /\ Quiet(c) /\ c.phase = n.phase /\ c.msgin_reject = n.msgin_reject /\ c.dest_ok = n.dest_ok
        /\ c.io_rd = n.io_rd /\ c.synth_len = n.synth_len /\ c.blocks_left = n.blocks_left
        /\ c.buf_valid = n.buf_valid
    BY <1>2, <1>4 DEF Carries, Control, Quiet, NoTransfer
  <1> QED
    BY <1>2, <1>3, <1>4, <1>5 DEF AfterExec, ExecStep

\* A transfer goes on, or ends with an interrupt.
ReadStep(s, i, c) ==
    /\ BufferStep(s, i, c)
    /\ \/ Reading(c) /\ Holds(s, c)
       \/ Quiet(c) /\ c.phase \in {"DIN", "STAT"} /\ Rings(s, c, {"BUS"})

LEMMA ReadingWait ==
    ASSUME NEW s, NEW i, NEW b, NEW c, Shape(s), i.io_ack \in BOOLEAN, Reading(s), i.op = "none",
           c = Cycle(s, i, b)
    PROVE  ReadStep(s, i, c)
  <1>1. PICK n : n = Body(s, i)
    OBVIOUS
  <1>2. /\ Control \subseteq DOMAIN n /\ BufferStep(s, i, n)
        /\ Same(s, n, {"msgin_reject", "istatus", "irq", "dest_ok"})
        /\ \/ n.i_new = {} /\ Reading(n)
           \/ n.i_new = {"BUS"} /\ Quiet(n) /\ n.phase \in {"DIN", "STAT"}
    BY <1>1, ReadingBody
  <1>3. n.istatus = s.istatus /\ n.irq = s.irq
    BY <1>2 DEF Same
  <1>4. Carries(n, c, {}) /\ (n.i_new = {} => Holds(s, c)) /\ (n.i_new # {} => Rings(s, c, n.i_new))
    BY <1>1, <1>2, <1>3, WaitEnd
  <1>5. c.phase = n.phase /\ (Quiet(n) => Quiet(c)) /\ (Reading(n) => Reading(c))
    BY <1>4 DEF Carries, Control, Quiet, NoTransfer, Reading
  <1>6. BufferStep(s, i, c)
    <2>1. PICK W : W = {}
      OBVIOUS
    <2> QED
      BY <1>2, <1>4, <1>5, <2>1, KeptBuffer
  <1> QED
    BY <1>2, <1>4, <1>5, <1>6 DEF ReadStep

WriteStep(s, i, c) ==
    /\ BufferStep(s, i, c)
    /\ \/ Writing(c) /\ Holds(s, c)
       \/ Quiet(c) /\ c.phase \in {"DOUT", "STAT"} /\ Rings(s, c, {"BUS"})

LEMMA WritingWait ==
    ASSUME NEW s, NEW i, NEW b, NEW c, Shape(s), i.io_ack \in BOOLEAN, Writing(s), i.op = "none",
           c = Cycle(s, i, b)
    PROVE  WriteStep(s, i, c)
  <1>1. PICK n : n = Body(s, i)
    OBVIOUS
  <1>2. /\ Control \subseteq DOMAIN n /\ BufferStep(s, i, n)
        /\ Same(s, n, {"msgin_reject", "istatus", "irq", "dest_ok"})
        /\ \/ n.i_new = {} /\ Writing(n)
           \/ n.i_new = {"BUS"} /\ Quiet(n) /\ n.phase \in {"DOUT", "STAT"}
    BY <1>1, WritingBody
  <1>3. n.istatus = s.istatus /\ n.irq = s.irq
    BY <1>2 DEF Same
  <1>4. Carries(n, c, {}) /\ (n.i_new = {} => Holds(s, c)) /\ (n.i_new # {} => Rings(s, c, n.i_new))
    BY <1>1, <1>2, <1>3, WaitEnd
  <1>5. c.phase = n.phase /\ (Quiet(n) => Quiet(c)) /\ (Writing(n) => Writing(c))
    BY <1>4 DEF Carries, Control, Quiet, NoTransfer, Writing
  <1>6. BufferStep(s, i, c)
    <2>1. PICK W : W = {}
      OBVIOUS
    <2> QED
      BY <1>2, <1>4, <1>5, <2>1, KeptBuffer
  <1> QED
    BY <1>2, <1>4, <1>5, <1>6 DEF WriteStep

MessageStep(s, i, c) ==
    /\ BufferStep(s, i, c)
    /\ \/ Messaging(c) /\ Holds(s, c)
       \/ Quiet(c) /\ c.phase = "MIN" /\ c.msgin_reject = TRUE /\ Rings(s, c, {"BUS"})
       \/ Fresh(c) /\ Rings(s, c, {"BUS"})

LEMMA MessagingWait ==
    ASSUME NEW s, NEW i, NEW b, NEW c, Shape(s), i.io_ack \in BOOLEAN, Messaging(s), i.dma = "none",
           i.op = "none", c = Cycle(s, i, b)
    PROVE  MessageStep(s, i, c)
  <1>1. PICK n : n = Body(s, i)
    OBVIOUS
  <1>2. /\ Control \subseteq DOMAIN n /\ BufferStep(s, i, n) /\ Same(s, n, {"istatus", "irq", "dest_ok"})
        /\ \/ n.i_new = {} /\ Messaging(n)
           \/ n.i_new = {"BUS"} /\ Quiet(n) /\ n.phase = "MIN" /\ n.msgin_reject = TRUE
           \/ n.i_new = {"BUS"} /\ Fresh(n)
    BY <1>1, MessagingBody
  <1>3. n.istatus = s.istatus /\ n.irq = s.irq
    BY <1>2 DEF Same
  <1>4. Carries(n, c, {}) /\ (n.i_new = {} => Holds(s, c)) /\ (n.i_new # {} => Rings(s, c, n.i_new))
    BY <1>1, <1>2, <1>3, WaitEnd
  <1>5. /\ c.phase = n.phase /\ c.msgin_reject = n.msgin_reject /\ (Quiet(n) => Quiet(c))
        /\ (Messaging(n) => Messaging(c)) /\ (Fresh(n) => Fresh(c))
    BY <1>4 DEF Carries, Control, Quiet, NoTransfer, Messaging, Fresh, Collecting
  <1>6. BufferStep(s, i, c)
    <2>1. PICK W : W = {}
      OBVIOUS
    <2> QED
      BY <1>2, <1>4, <1>5, <2>1, KeptBuffer
  <1> QED
    BY <1>2, <1>4, <1>5, <1>6 DEF MessageStep

-----------------------------------------------------------------------------
(* The driver as the chip sees it: a request that has been served is over, though the     *)
(* driver is yet to notice                                                                *)

Acked == cpu.req /\ iosb.ack

At ==
    [state |-> cpu.state, k |-> cpu.k,
     doing |-> IF Acked /\ cpu.step = "accept" THEN "accept" ELSE cpu.doing,
     step  |-> IF Acked THEN NextStep ELSE cpu.step,
     left  |-> IF Acked THEN cpu.left - Taken ELSE cpu.left,
     phase |-> IF Acked /\ cpu.step = "stat" THEN iosb.rdata[1] ELSE cpu.phase,
     isr   |-> IF Acked /\ cpu.step = "isr" THEN iosb.rdata[1] ELSE cpu.isr,
     flags |-> IF Acked /\ cpu.step = "flags" THEN iosb.rdata[1] ELSE cpu.flags,
     pushed |-> Acked /\ cpu.step = "push",
     dma   |-> iosb.sdma]

LengthOf(k) == Commands[k].len

ByRom(k) == Commands[k].dialect = "rom"

\* The bytes a driver sends for command k.
Sendable(k) == {Identify} \cup {<<"cmd", k, j>> : j \in Nat}

\* The FIFO holds the first m bytes of IDENTIFY and the CDB.
Loaded(k, f, m) ==
    /\ f \in Seq(Sendable(k)) /\ Len(f) = m
    /\ \A x \in 1..Len(f) : f[x] = (IF x = 1 THEN Identify ELSE <<"cmd", k, x - 2>>)

\* The CDB so far, and what of it waits in the FIFO.
Sent(k, s) ==
    /\ s.cdb \in Seq(Sendable(k)) /\ s.fifo \in Seq(Sendable(k)) /\ s.skip_cnt = 0
    /\ \A y \in 1..Len(s.cdb) : s.cdb[y] = <<"cmd", k, y - 1>>
    /\ \A x \in 1..Len(s.fifo) : s.fifo[x] = <<"cmd", k, Len(s.cdb) + x - 1>>

Whole(k, s) == Sent(k, s) /\ Len(s.cdb) = LengthOf(k)

\* The driver feeds the CDB: m bytes are with the chip, at most the last one in the FIFO.
Feeding(at, s, m) ==
    /\ Collecting(s) /\ Calm(s) /\ Sent(at.k, s) /\ Len(s.cdb) + Len(s.fifo) = m
    /\ Len(s.fifo) = (IF at.pushed THEN 1 ELSE 0)

\* The driver waits for the command to be executed.
CdbWork(k, s) ==
    /\ Calm(s)
    /\ \/ Collecting(s) /\ Sent(k, s) /\ Len(s.cdb) + Len(s.fifo) <= LengthOf(k)
       \/ Collecting(s) /\ s.skip_cnt = 1 /\ s.cdb = <<>> /\ Loaded(k, s.fifo, LengthOf(k) + 1)
       \/ Executing(s) /\ Whole(k, s)

Stands(s, p) == Quiet(s) /\ Calm(s) /\ s.phase = p

\* The chip has answered: the driver is told, reads the phase and the interrupt.
Told(at, s) ==
    \/ at.step \in {"irq", "beat", "stat"} /\ s.irq = TRUE /\ "DISC" \notin s.istatus
    \/ at.step = "isr" /\ s.irq = TRUE /\ "DISC" \notin s.istatus /\ at.phase = s.phase
    \/ at.step \in {"fetch", "end"} /\ Calm(s) /\ "DISC" \notin at.isr /\ at.phase = s.phase

Resting(at, s) == at.state = "idle" /\ at.step = "end" /\ Stands(s, "DOUT")

Runs(at, doing) == at.state = "run" /\ at.doing = doing /\ at.k \in DOMAIN Commands

\* The select, by dialect.
Preparing(at, s) ==
    /\ Runs(at, "select") /\ Stands(s, "DOUT")
    /\ \/ at.step = "dest" /\ at.left = LengthOf(at.k) + (IF ByRom(at.k) THEN 0 ELSE 1)
       \/ /\ s.dest_ok = Commands[at.k].present
          /\ \/ at.step = "flush" /\ at.left = LengthOf(at.k) + (IF ByRom(at.k) THEN 0 ELSE 1)
             \/ /\ ByRom(at.k) /\ at.step \in {"count", "select"} /\ s.fifo = <<>>
                /\ at.left = LengthOf(at.k)
             \/ /\ ~ByRom(at.k) /\ at.step = "push" /\ at.left \in 1..(LengthOf(at.k) + 1)
                /\ Loaded(at.k, s.fifo, LengthOf(at.k) + 1 - at.left)
             \/ ~ByRom(at.k) /\ at.step = "select" /\ Loaded(at.k, s.fifo, LengthOf(at.k) + 1)

FeedingRom(at, s) ==
    /\ Runs(at, "select") /\ ByRom(at.k)
    /\ \/ /\ at.step = "transfer" /\ at.left = LengthOf(at.k) /\ Feeding(at, s, 0)
          /\ at.pushed = FALSE
       \/ /\ at.step = "push" /\ at.left \in 2..LengthOf(at.k)
          /\ Feeding(at, s, LengthOf(at.k) - at.left)
       \/ /\ at.step = "last" /\ at.left = 1
          /\ s.dma_valid = FALSE /\ Feeding(at, s, LengthOf(at.k) - 1)
       \/ /\ at.step = "last" /\ at.left = 1 /\ at.pushed = FALSE
          /\ s.dma_valid = TRUE /\ at.dma = "wr" /\ Feeding(at, s, LengthOf(at.k))

Selecting(at, s) ==
    /\ Runs(at, "select")
    /\ \/ at.step = "irq" /\ CdbWork(at.k, s)
       \/ /\ at.step \in {"irq", "stat", "isr", "end"} /\ Told(at, s)
          /\ Quiet(s) /\ s.phase \in {"DIN", "DOUT", "STAT", "MOUT"}

\* Nobody answered the select.
TimingOut(at, s) ==
    /\ Runs(at, "select") /\ Quiet(s) /\ s.phase = "DOUT" /\ Len(s.fifo) = LengthOf(at.k) + 1
    /\ \/ at.step \in {"irq", "stat"} /\ s.irq = TRUE
       \/ at.step = "isr" /\ s.irq = TRUE /\ at.phase = "DOUT"
       \/ at.step = "end" /\ Calm(s) /\ at.phase = "DOUT"

Probing(at, s) ==
    /\ at.state = "absent" /\ at.doing = "probe" /\ at.k \in DOMAIN Commands /\ Stands(s, "DOUT")
    /\ \/ at.step = "flags" /\ Len(s.fifo) = LengthOf(at.k) + 1
       \/ at.step = "end" /\ at.flags = LengthOf(at.k) + 1

Receiving(at, s) ==
    /\ Runs(at, "in")
    /\ \/ at.step \in {"count", "transfer"} /\ Stands(s, "DIN")
       \/ at.step \in {"beat", "irq"} /\ Reading(s) /\ Calm(s)
       \/ /\ at.step \in {"beat", "irq", "stat", "isr", "fetch", "end"} /\ Told(at, s)
          /\ Quiet(s) /\ s.phase \in {"DIN", "STAT"}

Sending(at, s) ==
    /\ Runs(at, "out")
    /\ \/ at.step \in {"count", "push", "transfer"} /\ Stands(s, "DOUT")
       \/ at.step \in {"beat", "irq"} /\ Writing(s) /\ Calm(s)
       \/ /\ at.step \in {"beat", "irq", "stat", "isr", "end"} /\ Told(at, s)
          /\ Quiet(s) /\ s.phase \in {"DOUT", "STAT"}

\* Status, the message that ends the command, and its acceptance.
Ending(at, s) ==
    /\ at.state = "finish" /\ at.doing = "status" /\ at.k \in DOMAIN Commands
    /\ \/ at.step = "iccs" /\ Stands(s, "STAT")
       \/ /\ at.step \in {"irq", "stat", "isr"} /\ s.irq = TRUE
          /\ Quiet(s) /\ s.phase = "MIN" /\ s.msgin_reject = FALSE
       \/ /\ at.step \in {"fetch", "message", "accept"} /\ Stands(s, "MIN") /\ s.msgin_reject = FALSE

Parting(at, s) ==
    /\ at.state = "finish" /\ at.doing = "accept" /\ at.k \in DOMAIN Commands
    /\ \/ at.step \in {"irq", "stat", "isr"} /\ s.irq = TRUE /\ Quiet(s) /\ s.phase = "DOUT"
       \/ at.step = "end" /\ Stands(s, "DOUT")

\* The negotiation: a message out, its rejection in, and the command.
Proposing(at, s) ==
    /\ Runs(at, "message_out")
    /\ \/ at.step \in {"flush", "push"} /\ at.left = 1 /\ Stands(s, "MOUT")
       \/ at.step = "transfer" /\ at.left = 0 /\ Stands(s, "MOUT")
       \/ at.step = "irq" /\ Messaging(s) /\ Calm(s)
       \/ /\ at.step \in {"irq", "stat", "isr", "end"} /\ Told(at, s)
          /\ Fresh(s) \/ (Quiet(s) /\ s.phase = "MIN" /\ s.msgin_reject = TRUE)

Refused(at, s) ==
    /\ Runs(at, "message_in")
    /\ \/ at.step = "transfer" /\ at.left = 0 /\ Stands(s, "MIN")
       \/ /\ at.step \in {"irq", "stat", "isr"} /\ s.irq = TRUE /\ "DISC" \notin s.istatus
          /\ Quiet(s) /\ s.phase = "MIN"
       \/ at.step \in {"fetch", "accept"} /\ Stands(s, "MIN")
    /\ s.msgin_reject = TRUE

Resuming(at, s) ==
    /\ Runs(at, "accept") /\ at.step \in {"irq", "stat", "isr", "end"} /\ Told(at, s) /\ Fresh(s)

Ordering(at, s) ==
    /\ Runs(at, "command")
    /\ \/ at.step = "flush" /\ at.left = LengthOf(at.k) /\ Fresh(s) /\ Calm(s)
       \/ /\ at.step = "push" /\ at.left \in 1..LengthOf(at.k)
          /\ Feeding(at, s, LengthOf(at.k) - at.left)
       \/ at.step = "irq" /\ CdbWork(at.k, s)
       \/ /\ at.step \in {"irq", "stat", "isr", "end"} /\ Told(at, s)
          /\ Quiet(s) /\ s.phase \in {"DIN", "DOUT", "STAT"}

\* Where the driver is, the chip is too.
Agree(at, s) ==
    \/ Resting(at, s) \/ Preparing(at, s) \/ FeedingRom(at, s) \/ Selecting(at, s)
    \/ TimingOut(at, s) \/ Probing(at, s) \/ Receiving(at, s) \/ Sending(at, s)
    \/ Ending(at, s) \/ Parting(at, s) \/ Proposing(at, s) \/ Refused(at, s)
    \/ Resuming(at, s) \/ Ordering(at, s)

\* The bus between them: an access that is served in a clock, or a beat under way.
BusOk ==
    /\ {"menu", "state", "k", "n", "doing", "step", "left", "req", "phase", "isr", "got", "sent",
        "status", "flags", "key"} \subseteq DOMAIN cpu
    /\ {"astate", "ack", "sdma_fault", "sdma", "sdma_left", "data", "rdata", "sdma_watch"}
          \subseteq DOMAIN iosb
    /\ cpu.menu \in Menus /\ cpu.req \in BOOLEAN /\ iosb.ack \in BOOLEAN
    /\ iosb.ack => cpu.req /\ iosb.astate = "IDLE"
    /\ cpu.req => cpu.step \notin {"irq", "end"}
    /\ iosb.astate = "IDLE" => iosb.sdma = "none"
    /\ iosb.astate # "IDLE" => /\ cpu.req /\ cpu.step \in {"beat", "last"}
                               /\ iosb.sdma = (IF cpu.doing = "in" THEN "rd" ELSE "wr")
    /\ (iosb.astate # "IDLE" /\ cpu.step = "last")
          => iosb.sdma_left = 1 /\ Head(iosb.data) = <<"cmd", cpu.k, LengthOf(cpu.k) - 1>>

DialogueInv == Typed(chip) /\ BusOk /\ Agree(At, chip)
-----------------------------------------------------------------------------
(* What the driver asks for, step by step *)

Steps ==
    {"dest", "flush", "count", "select", "transfer", "push", "last", "beat", "irq", "stat", "isr",
     "fetch", "message", "flags", "iccs", "accept", "end"}

Ask(r, op, rs, val) == r.op = op /\ r.rs = rs /\ r.val = val

\* The command that selects.
SelectBy(k) ==
    IF ByRom(k) THEN "SELNATN" ELSE IF Commands[k].dialect = "unix" THEN "SELATN" ELSE "SELATNS"

\* The byte of the CDB that is sent when left bytes are to go.
CdbByte(k, left) == IF left > LengthOf(k) THEN Identify ELSE <<"cmd", k, LengthOf(k) - left>>

Asks(at, r) ==
    /\ at.step = "dest" => Ask(r, "write", "DEST", Commands[at.k].present)
    /\ at.step = "flush" => Ask(r, "write", "CMD", "FLUSH")
    /\ at.step = "count" => r.op = "write" /\ r.rs = "TC"
    /\ at.step = "select" => Ask(r, "write", "CMD", SelectBy(at.k))
    /\ at.step = "transfer" => Ask(r, "write", "CMD", "TI") /\ r.dmabit \in BOOLEAN
    /\ at.step = "push" => /\ r.op = "write" /\ r.rs = "FIFO"
                           /\ at.doing \in {"select", "command"} => r.val = CdbByte(at.k, at.left)
    /\ at.step = "stat" => r.op = "read" /\ r.rs = "STAT"
    /\ at.step = "isr" => r.op = "read" /\ r.rs = "ISR"
    /\ at.step \in {"fetch", "message"} => r.op = "read" /\ r.rs = "FIFO"
    /\ at.step = "flags" => r.op = "read" /\ r.rs = "FLAGS"
    /\ at.step = "iccs" => Ask(r, "write", "CMD", "ICCS")
    /\ at.step = "accept" => Ask(r, "write", "CMD", "MSGACC")

LEMMA RequestAsks ==
    ASSUME cpu.step \in Steps \ {"irq", "end", "beat", "last"}
    PROVE  Asks(cpu, Request) /\ Request.op \in {"read", "write"}
  <1>1. CASE cpu.step \in {"flush", "stat", "isr", "fetch", "message", "flags", "iccs", "accept"}
    <2>1. cpu.step \in DOMAIN Fixed /\ Request = Fixed[cpu.step]
      BY <1>1 DEF Fixed, Request
    <2> QED
      BY <1>1, <2>1 DEF Fixed, Asks, Ask, Command, Read
  <1>2. CASE cpu.step \in {"dest", "count"}
    BY <1>2 DEF Fixed, Request, Asks, Ask, Write, Current
  <1>3. CASE cpu.step = "select"
    BY <1>3 DEF Fixed, Request, Asks, Ask, SelectCommand, Command, Current, SelectBy, ByRom
  <1>4. CASE cpu.step = "transfer"
    BY <1>4 DEF Fixed, Request, Asks, Ask, TransferCommand, Command
  <1>5. CASE cpu.step = "push"
    BY <1>5 DEF Fixed, Request, Asks, Ask, Write, NextByte, CdbByte, LengthOf, Current
  <1> QED
    BY <1>1, <1>2, <1>3, <1>4, <1>5 DEF Steps

\* A beat, and the last byte of the CDB.
LEMMA RequestBeat ==
    /\ cpu.step \in {"beat", "last"} => Request.op \in {"pdma_rd", "pdma_wr"}
    /\ cpu.step = "beat" => (Request.op = "pdma_rd" <=> cpu.doing = "in")
    /\ (cpu.step = "last" /\ cpu.doing = "select" /\ cpu.left = 1 /\ LengthOf(cpu.k) \in Nat /\ LengthOf(cpu.k) >= 2)
          => /\ Request.op = "pdma_wr" /\ Len(Request.val) = 1
             /\ Head(Request.val) = <<"cmd", cpu.k, LengthOf(cpu.k) - 1>>
  <1>1. {"beat", "last"} \cap DOMAIN Fixed = {}
    BY DEF Fixed
  <1>2. CASE cpu.step = "beat"
    BY <1>1, <1>2 DEF Request, PdmaIn, PdmaOut
  <1>3. CASE cpu.step = "last"
    <2>1. Request.op = "pdma_wr" /\ Request.val = <<NextByte>>
      BY <1>1, <1>3 DEF Request, PdmaOut
    <2>2. (cpu.doing = "select" /\ cpu.left = 1 /\ LengthOf(cpu.k) \in Nat /\ LengthOf(cpu.k) >= 2)
             => NextByte = <<"cmd", cpu.k, LengthOf(cpu.k) - 1>>
      BY DEF NextByte, LengthOf, Current
    <2> QED
      BY <1>3, <2>1, <2>2
  <1> QED
    BY <1>2, <1>3

\* The step after an access.
Goes(at, step) ==
    /\ at.step = "dest" => step = "flush"
    /\ at.step = "flush" => step = (IF at.doing = "select" /\ ByRom(at.k) THEN "count" ELSE "push")
    /\ at.step = "count" => step = (IF at.doing = "select" THEN "select" ELSE "transfer")
    /\ at.step = "select" => step = (IF ByRom(at.k) THEN "transfer" ELSE "irq")
    /\ at.step = "transfer"
          => IF at.doing = "select" THEN step = "push"
             ELSE IF at.doing \in {"in", "out"} THEN step \in {"beat", "irq"}
             ELSE at.left = 0 => step = "irq"
    /\ at.step = "push"
          => IF at.doing = "out" THEN step \in {"push", "transfer"}
             ELSE IF at.doing = "select" /\ ByRom(at.k) /\ at.left = 2 THEN step = "last"
             ELSE IF at.left > 1 THEN step = "push"
             ELSE IF at.doing = "select" THEN step = "select"
             ELSE IF at.doing = "command" THEN step = "irq" ELSE step = "transfer"
    /\ at.step = "beat" => step \in {"beat", "irq"}
    /\ at.step = "stat" => step = "isr"
    /\ at.step = "isr" => IF at.doing \in {"status", "message_in"} THEN step = "fetch"
                          ELSE IF at.doing = "in" THEN step \in {"fetch", "end"} ELSE step = "end"
    /\ at.step = "fetch" => step = (IF at.doing = "in" THEN "end"
                                    ELSE IF at.doing = "status" THEN "message" ELSE "accept")
    /\ at.step = "message" => step = "accept"
    /\ at.step = "flags" => step = "end"
    /\ at.step \in {"last", "iccs", "accept"} => step = "irq"

LEMMA NextStepGoes == Goes(cpu, NextStep)
  <1>1. CASE cpu.step = "push"
    BY <1>1 DEF Goes, NextStep, ByRom, Current
  <1>2. CASE cpu.step \in {"transfer", "isr", "fetch"}
    BY <1>2 DEF Goes, NextStep
  <1>3. CASE cpu.step \notin {"push", "transfer", "isr", "fetch"}
    BY <1>3 DEF Goes, NextStep, ByRom, Current
  <1> QED
    BY <1>1, <1>2, <1>3

-----------------------------------------------------------------------------
(* The driver over one clock *)

\* The registers of at but the step.
Stay(at, at2) ==
    /\ at2.state = at.state /\ at2.k = at.k /\ at2.doing = at.doing /\ at2.phase = at.phase
    /\ at2.isr = at.isr /\ at2.flags = at.flags /\ at2.pushed = FALSE

\* It waits, or prepares its next access.
Stays(at, s, at2) ==
    /\ Stay(at, at2) /\ at2.step = at.step /\ at2.left = at.left
    /\ at.dma # "none" => at2.dma = at.dma
    /\ ~(at.step = "last" /\ at.dma # "none" /\ s.dma_valid)

\* A beat is over, served or given up.
Advances(at, at2) ==
    /\ at.step \in {"beat", "last"} /\ Stay(at, at2)
    /\ at2.step = "irq" \/ (at.step = "beat" /\ at2.step = "beat")

Serves(at, s, at2) == at.step = "irq" /\ s.irq /\ Stay(at, at2) /\ at2.step = "stat"

Picks(at, at2) ==
    /\ at.state = "idle" /\ at.step = "end" /\ at2.state = "run" /\ at2.k \in DOMAIN Commands
    /\ at2.doing = "select" /\ at2.step = "dest" /\ at2.pushed = FALSE
    /\ at2.left = LengthOf(at2.k) + (IF ByRom(at2.k) THEN 0 ELSE 1)

Turns(at, at2, state, doing, steps) ==
    /\ at2.k = at.k /\ at2.state = state /\ at2.doing = doing /\ at2.step \in steps
    /\ at2.pushed = FALSE

Decides(at, at2) ==
    /\ at.state = "run" /\ at.step = "end"
    /\ \/ "DISC" \in at.isr /\ Turns(at, at2, "absent", "probe", {"flags"})
       \/ /\ "DISC" \notin at.isr
          /\ \/ at.phase = "DIN" /\ Turns(at, at2, "run", "in", {"count", "transfer"})
             \/ at.phase = "DOUT" /\ Turns(at, at2, "run", "out", {"count", "push", "transfer"})
             \/ at.phase = "STAT" /\ Turns(at, at2, "finish", "status", {"iccs"})
             \/ at.phase = "MOUT" /\ Turns(at, at2, "run", "message_out", {"flush"}) /\ at2.left = 1
             \/ at.phase = "MIN" /\ Turns(at, at2, "run", "message_in", {"transfer"}) /\ at2.left = 0
             \/ /\ at.phase = "CMD" /\ Turns(at, at2, "run", "command", {"flush"})
                /\ at2.left = LengthOf(at.k)

Finishes(at, at2) ==
    /\ at.state \in {"finish", "absent"} /\ at.step = "end"
    /\ at2.state = "idle" /\ at2.step = "end" /\ at2.pushed = FALSE /\ at2.flags = at.flags

\* It reads or writes a register.
Accesses(at, s, i, at2) ==
    /\ at.step \notin {"irq", "end", "beat", "last"} /\ Asks(at, i) /\ Goes(at, at2.step)
    /\ at2.state = at.state /\ at2.k = at.k
    /\ at2.doing = (IF at.step = "accept" THEN "accept" ELSE at.doing)
    /\ at2.left = at.left - (IF at.step = "push" THEN 1 ELSE 0)
    /\ at2.phase = (IF at.step = "stat" THEN s.phase ELSE at.phase)
    /\ at2.isr = (IF at.step = "isr" THEN s.istatus ELSE at.isr)
    /\ at2.flags = (IF at.step = "flags" THEN Len(s.fifo) ELSE at.flags)
    /\ at2.pushed = (at.step = "push")

Waits(at, s, at2) ==
    \/ Stays(at, s, at2) \/ Advances(at, at2) \/ Serves(at, s, at2)
    \/ Picks(at, at2) \/ Decides(at, at2) \/ Finishes(at, at2)

Moves(at, s, i, at2) ==
    /\ i.io_ack \in BOOLEAN /\ i.dma = at.dma
    /\ at.step \notin {"beat", "last"} => at.dma = "none"
    /\ at.step = "beat" \/ at.dma # "rd"
    /\ (at.step = "last" /\ at.dma = "wr") => i.dma_wdata = <<"cmd", at.k, LengthOf(at.k) - 1>>
    /\ at.pushed \in BOOLEAN /\ (at.pushed => i.op = "none" /\ at.dma = "none")
    /\ \/ i.op = "none" /\ Waits(at, s, at2)
       \/ at.dma = "none" /\ Accesses(at, s, i, at2)

\* The IOSB over one clock: it rests, serves an access, takes up a beat or goes on with one.
BusRests ==
    /\ iosb'.astate = "IDLE" /\ iosb'.ack = FALSE /\ iosb'.sdma = iosb.sdma

BusServes(value) ==
    /\ iosb'.astate = "IDLE" /\ iosb'.ack = TRUE /\ iosb'.sdma = iosb.sdma
    /\ iosb'.rdata[1] = value

BusTakes(r) ==
    /\ iosb'.astate = "SDMA" /\ iosb'.ack = FALSE
    /\ iosb'.sdma = (IF r.op = "pdma_rd" THEN "rd" ELSE "wr")
    /\ r.op # "pdma_rd" => iosb'.sdma_left = Len(r.val) /\ iosb'.data = r.val

BusGoes ==
    /\ iosb'.astate = iosb.astate /\ iosb'.ack = FALSE /\ iosb'.sdma = iosb.sdma
    /\ iosb.sdma_left = 1
          => ~chip.dma_valid /\ iosb'.sdma_left = 1 /\ iosb'.data = iosb.data

BusEnds == iosb'.astate = "IDLE" /\ iosb'.ack = TRUE /\ iosb'.sdma = "none"

LEMMA BusClock ==
    ASSUME BusOk, IosbBlock
    PROVE  /\ DOMAIN iosb' = DOMAIN iosb
           /\ (iosb.astate = "IDLE" /\ (~cpu.req \/ iosb.ack)) => BusRests
           /\ (iosb.astate = "IDLE" /\ cpu.req /\ ~iosb.ack /\ Request.op = "read")
                 => BusServes(rdata(chip, Request.rs))
           /\ (iosb.astate = "IDLE" /\ cpu.req /\ ~iosb.ack /\ Request.op = "write")
                 => BusServes(Zero)
           /\ (iosb.astate = "IDLE" /\ cpu.req /\ ~iosb.ack /\ Request.op \in {"pdma_rd", "pdma_wr"})
                 => BusTakes(Request)
           /\ iosb.astate # "IDLE" => BusGoes \/ BusEnds
  <1>1. PICK o : o = iosb
    OBVIOUS
  <1>2. PICK n : n = [o EXCEPT !.ack = FALSE, !.sdma_fault = FALSE]
    OBVIOUS
  <1>3. PICK req : req = IF cpu.req THEN Request ELSE AwaitIrq
    OBVIOUS
  <1>4. PICK value : value = IF Strobe /\ Request.op = "read" THEN rdata(chip, Request.rs) ELSE Zero
    OBVIOUS
  <1>5. PICK p : p = IosbCycle(o, cpu.req, req, value, chip.dma_valid, chip.dma_rlatch,
                               chip.io_rd, chip.io_wr)
    OBVIOUS
  <1>6. iosb' = p
    BY <1>1, <1>3, <1>4, <1>5 DEF IosbBlock
  <1>7. {"astate", "ack", "sdma_fault", "sdma", "sdma_left", "data", "rdata", "sdma_watch"} \subseteq DOMAIN o
    BY <1>1 DEF BusOk
  <1>8. /\ DOMAIN n = DOMAIN o /\ n.ack = FALSE
        /\ n.astate = o.astate /\ n.sdma = o.sdma /\ n.sdma_left = o.sdma_left
        /\ n.data = o.data
    BY <1>2, <1>7
  <1>9. CASE iosb.astate = "IDLE"
    <2>1. p = IosbIdle(o, cpu.req, req, value)
      BY <1>1, <1>5, <1>9 DEF IosbCycle
    <2>2. CASE ~cpu.req \/ iosb.ack
      <3>1. p = n
        BY <1>1, <1>2, <2>1, <2>2 DEF IosbIdle, starts
      <3> QED
        BY <1>1, <1>6, <1>8, <1>9, <2>2, <3>1 DEF BusRests
    <2>3. CASE cpu.req /\ ~iosb.ack /\ Request.op \in {"read", "write"}
      <3>1. Strobe /\ req = Request
        BY <1>3, <1>9, <2>3 DEF Strobe, scsi_strobe, starts
      <3>2. p = [n EXCEPT !.ack = TRUE, !.rdata = <<value>>]
        BY <1>1, <1>2, <1>9, <2>1, <2>3, <3>1 DEF IosbIdle, starts, scsi_strobe
      <3>3. DOMAIN p = DOMAIN o /\ p.astate = o.astate /\ p.ack = TRUE /\ p.sdma = o.sdma /\ p.rdata = <<value>>
        BY <1>7, <1>8, <3>2
      <3> QED
        BY <1>1, <1>4, <1>6, <1>9, <2>3, <3>1, <3>3 DEF BusServes
    <2>4. CASE cpu.req /\ ~iosb.ack /\ Request.op \in {"pdma_rd", "pdma_wr"}
      <3>1. req = Request
        BY <1>3, <2>4
      <3>2. CASE req.op = "pdma_rd"
        <4>1. p = [n EXCEPT !.astate = "SDMA", !.sdma = "rd", !.sdma_left = req.val,
                            !.data = <<>>, !.sdma_watch = 0]
          BY <1>1, <1>2, <1>9, <2>1, <2>4, <3>2 DEF IosbIdle, starts, scsi_strobe
        <4>2. DOMAIN p = DOMAIN o /\ p.astate = "SDMA" /\ p.ack = FALSE /\ p.sdma = "rd"
          BY <1>7, <1>8, <4>1
        <4> QED
          BY <1>1, <1>6, <1>9, <2>4, <3>1, <3>2, <4>2 DEF BusTakes
      <3>3. CASE req.op # "pdma_rd"
        <4>1. p = [n EXCEPT !.astate = "SDMA", !.sdma = "wr", !.sdma_left = Len(req.val),
                            !.data = req.val, !.sdma_watch = 0]
          BY <1>1, <1>2, <1>9, <2>1, <2>4, <3>1, <3>3 DEF IosbIdle, starts, scsi_strobe
        <4>2. /\ DOMAIN p = DOMAIN o /\ p.astate = "SDMA" /\ p.ack = FALSE /\ p.sdma = "wr"
              /\ p.sdma_left = Len(req.val) /\ p.data = req.val
          BY <1>7, <1>8, <4>1
        <4> QED
          BY <1>1, <1>6, <1>9, <2>4, <3>1, <3>3, <4>2 DEF BusTakes
      <3> QED
        BY <3>2, <3>3
    <2>5. CASE cpu.req /\ ~iosb.ack /\ Request.op \notin {"read", "write", "pdma_rd", "pdma_wr"}
      <3>1. DOMAIN p = DOMAIN o
        BY <1>1, <1>3, <1>8, <1>2, <1>9, <2>1, <2>5 DEF IosbIdle, starts, scsi_strobe
      <3> QED
        BY <1>1, <1>6, <1>9, <2>5, <3>1
    <2> QED
      BY <2>2, <2>3, <2>4, <2>5
  <1>10. CASE iosb.astate # "IDLE"
    <2>1. p = IF chip.dma_valid THEN SdmaByte(n, chip.dma_rlatch)
              ELSE IF o.sdma_watch = SDMA_LIMIT THEN SdmaTimeout(n)
              ELSE SdmaAge(n, chip.io_rd, chip.io_wr)
      BY <1>1, <1>2, <1>5, <1>10 DEF IosbCycle
    <2>2. CASE chip.dma_valid /\ n.sdma_left = 1
      <3>1. PICK rest : p = [n EXCEPT !.sdma_watch = 0, !.sdma = "none", !.ack = TRUE, !.rdata = rest,
                                      !.data = <<>>, !.astate = "IDLE"]
        BY <2>1, <2>2 DEF SdmaByte
      <3>2. DOMAIN p = DOMAIN o /\ p.astate = "IDLE" /\ p.ack = TRUE /\ p.sdma = "none"
        BY <1>7, <1>8, <3>1
      <3> QED
        BY <1>1, <1>6, <1>10, <3>2 DEF BusEnds
    <2>3. CASE chip.dma_valid /\ n.sdma_left # 1
      <3>1. PICK rest : p = [n EXCEPT !.sdma_watch = 0, !.data = rest, !.sdma_left = n.sdma_left - 1]
        BY <2>1, <2>3 DEF SdmaByte
      <3>2. DOMAIN p = DOMAIN o /\ p.astate = o.astate /\ p.ack = FALSE /\ p.sdma = o.sdma
        BY <1>7, <1>8, <3>1
      <3> QED
        BY <1>1, <1>6, <1>8, <1>10, <2>3, <3>2 DEF BusGoes
    <2>4. CASE ~chip.dma_valid /\ o.sdma_watch = SDMA_LIMIT
      <3>1. p = [n EXCEPT !.sdma = "none", !.ack = TRUE, !.sdma_fault = TRUE, !.rdata = <<>>,
                          !.sdma_watch = 0, !.data = <<>>, !.astate = "IDLE"]
        BY <2>1, <2>4 DEF SdmaTimeout
      <3>2. DOMAIN p = DOMAIN o /\ p.astate = "IDLE" /\ p.ack = TRUE /\ p.sdma = "none"
        BY <1>7, <1>8, <3>1
      <3> QED
        BY <1>1, <1>6, <1>10, <3>2 DEF BusEnds
    <2>5. CASE ~chip.dma_valid /\ o.sdma_watch # SDMA_LIMIT
      <3>1. p = n \/ p = [n EXCEPT !.sdma_watch = n.sdma_watch + 1]
        BY <2>1, <2>5 DEF SdmaAge
      <3>2. /\ DOMAIN p = DOMAIN o /\ p.astate = o.astate /\ p.ack = FALSE /\ p.sdma = o.sdma
            /\ p.sdma_left = o.sdma_left /\ p.data = o.data
        BY <1>7, <1>8, <3>1
      <3> QED
        BY <1>1, <1>6, <1>10, <2>5, <3>2 DEF BusGoes
    <2> QED
      BY <2>2, <2>3, <2>4, <2>5
  <1> QED
    BY <1>9, <1>10

LEMMA NextStepGoesOn == Goes(cpu', NextStep')
  <1>1. CASE cpu'.step = "push"
    BY <1>1 DEF Goes, NextStep, ByRom, Current
  <1>2. CASE cpu'.step \in {"transfer", "isr", "fetch"}
    BY <1>2 DEF Goes, NextStep
  <1>3. CASE cpu'.step \notin {"push", "transfer", "isr", "fetch"}
    BY <1>3 DEF Goes, NextStep, ByRom, Current
  <1> QED
    BY <1>1, <1>2, <1>3

SameAs(at, r) ==
    /\ at.state = r.state /\ at.k = r.k /\ at.doing = r.doing /\ at.step = r.step
    /\ at.left = r.left /\ at.phase = r.phase /\ at.isr = r.isr /\ at.flags = r.flags

Input(i) ==
    /\ Strobe => /\ i.op = Request.op /\ i.rs = Request.rs /\ i.val = Request.val
                 /\ i.dmabit = Request.dmabit
    /\ ~Strobe => i.op = "none"
    /\ i.dma = iosb.sdma /\ i.io_ack = plat.ack
    /\ iosb.sdma = "wr" => i.dma_wdata = Head(iosb.data)

LEMMA InputIs == Input(ChipInput)
  BY DEF Input, ChipInput, NoAccess

\* What the driver may do next when it has serviced an interrupt.
Begun(state, doing, step, left) ==
    cpu' = [cpu EXCEPT !.state = state, !.doing = doing, !.step = step, !.left = left]

DecidesTo(state, doing, step, left) ==
    /\ Begun(state, doing, step, left)
    /\ \/ "DISC" \in cpu.isr /\ state = "absent" /\ doing = "probe" /\ step = "flags"
       \/ /\ "DISC" \notin cpu.isr
          /\ \/ /\ cpu.phase = "DIN" /\ state = "run" /\ doing = "in"
                /\ step \in {"count", "transfer"}
             \/ /\ cpu.phase = "DOUT" /\ state = "run" /\ doing = "out"
                /\ step \in {"count", "push", "transfer"}
             \/ cpu.phase = "STAT" /\ state = "finish" /\ doing = "status" /\ step = "iccs"
             \/ /\ cpu.phase = "MOUT" /\ state = "run" /\ doing = "message_out"
                /\ step = "flush" /\ left = 1
             \/ /\ cpu.phase = "MIN" /\ state = "run" /\ doing = "message_in"
                /\ step = "transfer" /\ left = 0
             \/ /\ cpu.phase = "CMD" /\ state = "run" /\ doing = "command"
                /\ step = "flush" /\ left = LengthOf(cpu.k)

\* No request is under way: the driver waits, goes on with its script or makes up its mind.
LEMMA DriverFree ==
    ASSUME BusOk, ~cpu.req, At.step \in Steps, plat.ack \in BOOLEAN,
           \A m \in Menus : ~m.impatient, CpuMoves \/ CpuHold, IosbBlock
    PROVE  BusOk' /\ Moves(At, chip, ChipInput, At')
  <1>1. PICK at : at = At
    OBVIOUS
  <1>2. PICK at2 : at2 = At'
    OBVIOUS
  <1>3. PICK i : i = ChipInput
    OBVIOUS
  <1>4. PICK s : s = chip
    OBVIOUS
  <1>5. iosb.astate = "IDLE" /\ iosb.ack = FALSE /\ iosb.sdma = "none"
    BY DEF BusOk
  <1>6. /\ DOMAIN iosb' = DOMAIN iosb /\ iosb'.astate = "IDLE" /\ iosb'.ack = FALSE
        /\ iosb'.sdma = "none"
    BY <1>5, BusClock DEF BusRests
  <1>7. i.op = "none" /\ i.dma = "none" /\ i.io_ack \in BOOLEAN
    <2>1. ~Strobe
      BY DEF Strobe, scsi_strobe, starts
    <2>2. Input(i)
      BY <1>3, InputIs
    <2> QED
      BY <1>5, <2>1, <2>2 DEF Input
  <1>8. SameAs(at, cpu) /\ at.pushed = FALSE /\ at.dma = "none"
    BY <1>1, <1>5 DEF At, Acked, SameAs
  <1>9. SameAs(at2, cpu') /\ at2.pushed = FALSE /\ at2.dma = "none"
    BY <1>2, <1>6 DEF At, Acked, SameAs
  <1>10. ASSUME Waits(at, s, at2) PROVE Moves(at, s, i, at2)
    BY <1>7, <1>8, <1>10 DEF Moves
  <1>11. ASSUME DOMAIN cpu' = DOMAIN cpu, cpu'.menu = cpu.menu, cpu'.req \in BOOLEAN,
                cpu'.req => cpu'.step \notin {"irq", "end"}
         PROVE  BusOk'
    BY <1>6, <1>11 DEF BusOk
  <1>12. cpu.step \in Steps
    BY <1>1, <1>8 DEF SameAs
  <1>13. CASE CpuHold
    <2>1. cpu' = cpu
      BY <1>13 DEF CpuHold
    <2>2. BusOk'
      BY <1>11, <2>1 DEF BusOk
    <2>3. Stays(at, s, at2)
      BY <1>8, <1>9, <2>1 DEF SameAs, Stays, Stay
    <2> QED
      BY <1>1, <1>2, <1>3, <1>4, <1>10, <2>2, <2>3 DEF Waits
  <1>14. CASE CpuPick
    <2>1. PICK k \in cpu.menu.picks :
             /\ cpu.state = "idle" /\ cpu.step = "end"
             /\ cpu' = [cpu EXCEPT !.state = "run", !.k = k, !.n = @ + 1, !.doing = "select",
                             !.step = "dest",
                             !.left = Commands[k].len + (IF Commands[k].dialect = "rom" THEN 0 ELSE 1),
                             !.got = <<>>, !.sent = 0, !.status = "", !.late = LoadInFlight]
      BY <1>14 DEF CpuPick
    <2>2. k \in DOMAIN Commands
      BY DriverAssumption DEF BusOk
    <2>3. /\ DOMAIN cpu' = DOMAIN cpu /\ cpu'.menu = cpu.menu /\ cpu'.req = cpu.req
          /\ cpu'.state = "run" /\ cpu'.k = k /\ cpu'.doing = "select" /\ cpu'.step = "dest"
          /\ cpu'.left = Commands[k].len + (IF Commands[k].dialect = "rom" THEN 0 ELSE 1)
      BY <2>1 DEF BusOk
    <2>4. BusOk'
      BY <1>11, <2>3 DEF BusOk
    <2>5. Picks(at, at2)
      <3>1. /\ at2.state = "run" /\ at2.k = k /\ at2.doing = "select" /\ at2.step = "dest"
            /\ at2.left = cpu'.left
        BY <1>9, <2>3 DEF SameAs
      <3>2. at2.left = LengthOf(at2.k) + (IF ByRom(at2.k) THEN 0 ELSE 1)
        BY <2>3, <3>1 DEF LengthOf, ByRom
      <3> QED
        BY <1>8, <1>9, <2>1, <2>2, <3>1, <3>2 DEF SameAs, Picks
    <2> QED
      BY <1>1, <1>2, <1>3, <1>4, <1>10, <2>4, <2>5 DEF Waits
  <1>15. CASE CpuRaise
    <2>1. CASE cpu.step = "irq"
      <3>1. chip.irq /\ cpu' = [cpu EXCEPT !.step = "stat"]
        BY <1>15, <2>1 DEF CpuRaise
      <3>2. BusOk'
        BY <1>11, <3>1 DEF BusOk
      <3>3. Serves(at, s, at2)
        BY <1>4, <1>8, <1>9, <2>1, <3>1 DEF SameAs, Serves, Stay, BusOk
      <3> QED
        BY <1>1, <1>2, <1>3, <1>4, <1>10, <3>2, <3>3 DEF Waits
    <2>2. CASE cpu.step # "irq"
      <3>1. cpu' = [cpu EXCEPT !.req = TRUE] /\ cpu.step # "end"
        BY <1>15, <2>2 DEF CpuRaise
      <3>2. BusOk'
        BY <1>11, <2>2, <3>1 DEF BusOk
      <3>3. Stays(at, s, at2)
        BY <1>8, <1>9, <3>1 DEF SameAs, Stays, Stay, BusOk
      <3> QED
        BY <1>1, <1>2, <1>3, <1>4, <1>10, <3>2, <3>3 DEF Waits
    <2> QED
      BY <2>1, <2>2
  <1>16. CASE CpuDone
    BY <1>16 DEF CpuDone
  <1>17. CASE CpuDecide
    <2>1. cpu.state = "run" /\ cpu.step = "end"
      BY <1>17 DEF CpuDecide
    <2>2. PICK state, doing, step, left : DecidesTo(state, doing, step, left)
      <3>1. \A doing, step, left : Begin(doing, step, left)
               => Begun("run", doing, step, left)
        BY <2>1 DEF Begin, Begun, BusOk
      <3>2. CASE /\ "DISC" \in cpu.isr
                 /\ cpu' = [cpu EXCEPT !.state = "absent", !.doing = "probe", !.step = "flags"]
        <4>1. DecidesTo("absent", "probe", "flags", cpu.left)
          BY <3>2 DEF DecidesTo, Begun, BusOk
        <4> QED
          BY <4>1
      <3>3. CASE /\ "DISC" \notin cpu.isr /\ cpu.phase = "STAT"
                 /\ cpu' = [cpu EXCEPT !.state = "finish", !.doing = "status", !.step = "iccs"]
        <4>1. DecidesTo("finish", "status", "iccs", cpu.left)
          BY <3>3 DEF DecidesTo, Begun, BusOk
        <4> QED
          BY <4>1
      <3>4. CASE "DISC" \notin cpu.isr /\ cpu.phase = "DIN" /\ BeginIn
        <4>1. PICK step, left : step \in {"count", "transfer"} /\ Begin("in", step, left)
          BY <3>4 DEF BeginIn
        <4>2. DecidesTo("run", "in", step, left)
          BY <3>1, <3>4, <4>1 DEF DecidesTo
        <4> QED
          BY <4>2
      <3>5. CASE "DISC" \notin cpu.isr /\ cpu.phase = "DOUT" /\ BeginOut
        <4>1. PICK step, left : step \in {"count", "push", "transfer"} /\ Begin("out", step, left)
          BY <3>5 DEF BeginOut
        <4>2. DecidesTo("run", "out", step, left)
          BY <3>1, <3>5, <4>1 DEF DecidesTo
        <4> QED
          BY <4>2
      <3>6. CASE "DISC" \notin cpu.isr /\ cpu.phase = "MOUT" /\ Begin("message_out", "flush", 1)
        <4>1. DecidesTo("run", "message_out", "flush", 1)
          BY <3>1, <3>6 DEF DecidesTo
        <4> QED
          BY <4>1
      <3>7. CASE "DISC" \notin cpu.isr /\ cpu.phase = "MIN" /\ Begin("message_in", "transfer", 0)
        <4>1. DecidesTo("run", "message_in", "transfer", 0)
          BY <3>1, <3>7 DEF DecidesTo
        <4> QED
          BY <4>1
      <3>8. CASE "DISC" \notin cpu.isr /\ cpu.phase = "CMD" /\ Begin("command", "flush", Current.len)
        <4>1. DecidesTo("run", "command", "flush", LengthOf(cpu.k))
          BY <3>1, <3>8 DEF DecidesTo, Current, LengthOf
        <4> QED
          BY <4>1
      <3> QED
        BY <1>17, <3>2, <3>3, <3>4, <3>5, <3>6, <3>7, <3>8 DEF CpuDecide
    <2>3. /\ DOMAIN cpu' = DOMAIN cpu /\ cpu'.menu = cpu.menu /\ cpu'.req = cpu.req
          /\ cpu'.state = state /\ cpu'.k = cpu.k /\ cpu'.doing = doing /\ cpu'.step = step /\ cpu'.left = left
      BY <2>2 DEF DecidesTo, Begun, BusOk
    <2>4. BusOk'
      BY <1>11, <2>3 DEF BusOk
    <2>5. Decides(at, at2)
      <3>1. /\ at.state = "run" /\ at.step = "end" /\ at.isr = cpu.isr /\ at.phase = cpu.phase
            /\ at.k = cpu.k
        BY <1>8, <2>1 DEF SameAs
      <3>2. at2.state = state /\ at2.k = at.k /\ at2.doing = doing /\ at2.step = step /\ at2.left = left
        BY <1>9, <2>3, <3>1 DEF SameAs
      <3> QED
        BY <1>9, <2>2, <3>1, <3>2 DEF Decides, Turns, DecidesTo
    <2> QED
      BY <1>1, <1>2, <1>3, <1>4, <1>10, <2>4, <2>5 DEF Waits
  <1>18. CASE CpuFinish
    <2>1. PICK key : /\ cpu.state \in {"finish", "absent"} /\ cpu.step = "end"
                     /\ cpu' = [cpu EXCEPT !.state = "idle", !.key = key]
      BY <1>18 DEF CpuFinish
    <2>2. BusOk'
      BY <1>11, <2>1 DEF BusOk
    <2>3. Finishes(at, at2)
      BY <1>8, <1>9, <2>1 DEF SameAs, Finishes, BusOk
    <2> QED
      BY <1>1, <1>2, <1>3, <1>4, <1>10, <2>2, <2>3 DEF Waits
  <1>19. CASE CpuGiveUp
    BY <1>19 DEF CpuGiveUp, BusOk
  <1> QED
    BY <1>13, <1>14, <1>15, <1>16, <1>17, <1>18, <1>19 DEF CpuMoves

\* The driver takes the answer of an access: nothing changes for the chip.
LEMMA DriverTakes ==
    ASSUME BusOk, cpu.req, iosb.ack, At.step \in Steps, plat.ack \in BOOLEAN,
           CpuMoves \/ CpuHold, IosbBlock
    PROVE  BusOk' /\ Moves(At, chip, ChipInput, At')
  <1>1. PICK at : at = At
    OBVIOUS
  <1>2. PICK at2 : at2 = At'
    OBVIOUS
  <1>3. PICK i : i = ChipInput
    OBVIOUS
  <1>4. PICK s : s = chip
    OBVIOUS
  <1>5. iosb.astate = "IDLE" /\ iosb.sdma = "none" /\ cpu.step \notin {"irq", "end"}
    BY DEF BusOk
  <1>6. /\ DOMAIN iosb' = DOMAIN iosb /\ iosb'.astate = "IDLE" /\ iosb'.ack = FALSE
        /\ iosb'.sdma = "none"
    BY <1>5, BusClock DEF BusRests
  <1>7. i.op = "none" /\ i.dma = "none" /\ i.io_ack \in BOOLEAN
    <2>1. ~Strobe
      BY DEF Strobe, scsi_strobe, starts
    <2>2. Input(i)
      BY <1>3, InputIs
    <2> QED
      BY <1>5, <2>1, <2>2 DEF Input
  <1>8. CpuDone
    BY <1>5 DEF CpuMoves, CpuHold, CpuPick, CpuRaise, CpuDecide, CpuFinish, CpuGiveUp
  <1>9. PICK sent, status, got :
           cpu' = [cpu EXCEPT
                      !.req = FALSE, !.step = at.step, !.left = at.left, !.doing = at.doing,
                      !.sent = sent, !.phase = at.phase, !.isr = at.isr, !.flags = at.flags,
                      !.status = status, !.got = got]
    <2>1. /\ at.step = NextStep /\ at.left = cpu.left - Taken
          /\ at.doing = (IF cpu.step = "accept" THEN "accept" ELSE cpu.doing)
          /\ at.phase = (IF cpu.step = "stat" THEN iosb.rdata[1] ELSE cpu.phase)
          /\ at.isr = (IF cpu.step = "isr" THEN iosb.rdata[1] ELSE cpu.isr)
          /\ at.flags = (IF cpu.step = "flags" THEN iosb.rdata[1] ELSE cpu.flags)
      BY <1>1 DEF At, Acked
    <2> QED
      BY <1>8, <2>1 DEF CpuDone, BusOk
  <1>10. /\ DOMAIN cpu' = DOMAIN cpu /\ cpu'.menu = cpu.menu /\ cpu'.req = FALSE
         /\ cpu'.step = at.step /\ cpu'.left = at.left /\ cpu'.doing = at.doing
         /\ cpu'.phase = at.phase /\ cpu'.isr = at.isr /\ cpu'.flags = at.flags
         /\ cpu'.state = cpu.state /\ cpu'.k = cpu.k
    BY <1>9 DEF BusOk
  <1>11. BusOk'
    BY <1>6, <1>10 DEF BusOk
  <1>12. at.state = cpu.state /\ at.k = cpu.k /\ at.dma = "none" /\ at.pushed \in BOOLEAN
    BY <1>1, <1>5 DEF At, Acked
  <1>13. SameAs(at2, cpu') /\ at2.pushed = FALSE /\ at2.dma = "none"
    BY <1>2, <1>6 DEF At, Acked, SameAs
  <1>14. Stays(at, s, at2)
    BY <1>10, <1>12, <1>13 DEF SameAs, Stays, Stay
  <1>15. Moves(at, s, i, at2)
    BY <1>7, <1>12, <1>14 DEF Moves, Waits
  <1> QED
    BY <1>1, <1>2, <1>3, <1>4, <1>11, <1>15

\* While its request stands the driver does not move.
LEMMA DriverHolds ==
    ASSUME BusOk, cpu.req, ~iosb.ack, CpuMoves \/ CpuHold
    PROVE  cpu' = cpu
  <1>1. cpu.step \notin {"irq", "end"}
    BY DEF BusOk
  <1> QED
    BY <1>1 DEF CpuMoves, CpuHold, CpuPick, CpuRaise, CpuDone, CpuDecide, CpuFinish, CpuGiveUp

\* An access of a register is served in a clock.
LEMMA DriverAccess ==
    ASSUME BusOk, cpu.req, ~iosb.ack, iosb.astate = "IDLE", At.step \in Steps, plat.ack \in BOOLEAN,
           cpu.step \notin {"beat", "last"}, CpuMoves \/ CpuHold, IosbBlock
    PROVE  BusOk' /\ Moves(At, chip, ChipInput, At')
  <1>1. PICK at : at = At
    OBVIOUS
  <1>2. PICK at2 : at2 = At'
    OBVIOUS
  <1>3. PICK i : i = ChipInput
    OBVIOUS
  <1>4. PICK s : s = chip
    OBVIOUS
  <1>5. iosb.sdma = "none" /\ cpu' = cpu
    BY DriverHolds DEF BusOk
  <1>6. SameAs(at, cpu) /\ at.pushed = FALSE /\ at.dma = "none"
    BY <1>1, <1>5 DEF At, Acked, SameAs
  <1>7. cpu.step \in Steps \ {"irq", "end", "beat", "last"}
    BY <1>1, <1>6 DEF SameAs, BusOk
  <1>8. Asks(cpu, Request) /\ Request.op \in {"read", "write"}
    BY <1>7, RequestAsks
  <1>9. Input(i) /\ Strobe
    BY <1>3, <1>8, InputIs DEF Strobe, scsi_strobe, starts
  <1>10. i.dma = "none" /\ i.io_ack \in BOOLEAN
    BY <1>5, <1>9 DEF Input
  <1>11. Asks(at, i)
    BY <1>6, <1>8, <1>9 DEF Asks, Ask, Input, SameAs
  <1>12. PICK value : BusServes(value) /\ (Request.op = "read" => value = rdata(s, Request.rs))
    BY <1>4, <1>8, BusClock
  <1>13. DOMAIN iosb' = DOMAIN iosb /\ iosb'.astate = "IDLE" /\ iosb'.ack = TRUE /\ iosb'.sdma = "none"
    BY <1>5, <1>12, BusClock DEF BusServes
  <1>14. BusOk'
    BY <1>5, <1>7, <1>13 DEF BusOk
  <1>15. /\ at2.state = cpu.state /\ at2.k = cpu.k /\ at2.dma = "none"
         /\ at2.doing = (IF cpu.step = "accept" THEN "accept" ELSE cpu.doing)
         /\ at2.step = NextStep' /\ at2.left = cpu.left - Taken'
         /\ at2.phase = (IF cpu.step = "stat" THEN value ELSE cpu.phase)
         /\ at2.isr = (IF cpu.step = "isr" THEN value ELSE cpu.isr)
         /\ at2.flags = (IF cpu.step = "flags" THEN value ELSE cpu.flags)
         /\ at2.pushed = (cpu.step = "push")
    BY <1>2, <1>5, <1>12, <1>13 DEF At, Acked, BusServes
  <1>16. Taken' = (IF cpu.step = "push" THEN 1 ELSE 0)
    BY <1>5 DEF Taken
  <1>17. /\ cpu.step = "stat" => value = s.phase
         /\ cpu.step = "isr" => value = s.istatus
         /\ cpu.step = "flags" => value = Len(s.fifo)
    BY <1>8, <1>12 DEF Asks, rdata
  <1>18. Goes(at, at2.step)
    <2>1. Goes(cpu, NextStep')
      BY <1>5, NextStepGoesOn
    <2> QED
      BY <1>6, <1>15, <2>1 DEF Goes, SameAs
  <1>19. Accesses(at, s, i, at2)
    BY <1>6, <1>7, <1>11, <1>15, <1>16, <1>17, <1>18 DEF SameAs, Accesses
  <1>20. Moves(at, s, i, at2)
    BY <1>6, <1>7, <1>10, <1>19 DEF Moves, SameAs
  <1> QED
    BY <1>1, <1>2, <1>3, <1>4, <1>14, <1>20

\* A beat is taken up, goes on, or ends.
LEMMA DriverBeat ==
    ASSUME BusOk, cpu.req, ~iosb.ack, cpu.step \in {"beat", "last"}, plat.ack \in BOOLEAN,
           cpu.step = "last" => cpu.doing = "select" /\ cpu.left = 1 /\ cpu.k \in DOMAIN Commands,
           CpuMoves \/ CpuHold, IosbBlock
    PROVE  BusOk' /\ Moves(At, chip, ChipInput, At')
  <1>1. PICK at : at = At
    OBVIOUS
  <1>2. PICK at2 : at2 = At'
    OBVIOUS
  <1>3. PICK i : i = ChipInput
    OBVIOUS
  <1>4. PICK s : s = chip
    OBVIOUS
  <1>5. cpu' = cpu
    BY DriverHolds
  <1>6. SameAs(at, cpu) /\ at.pushed = FALSE /\ at.dma = iosb.sdma
    BY <1>1 DEF At, Acked, SameAs
  <1>7. Request.op \in {"pdma_rd", "pdma_wr"} /\ ~Strobe
    BY RequestBeat DEF Strobe, scsi_strobe
  <1>8. /\ i.op = "none" /\ i.dma = at.dma /\ i.io_ack \in BOOLEAN
        /\ at.dma = "wr" => i.dma_wdata = Head(iosb.data)
    BY <1>3, <1>6, <1>7, InputIs DEF Input
  <1>9. /\ at.step = "beat" \/ at.dma # "rd"
        /\ (at.step = "last" /\ at.dma = "wr") => i.dma_wdata = <<"cmd", at.k, LengthOf(at.k) - 1>>
    BY <1>6, <1>8 DEF BusOk, SameAs
  <1>10. ASSUME Waits(at, s, at2) PROVE Moves(at, s, i, at2)
    BY <1>6, <1>8, <1>9, <1>10 DEF Moves, SameAs
  <1>11. CASE iosb.astate = "IDLE"
    <2>1. BusTakes(Request) /\ DOMAIN iosb' = DOMAIN iosb /\ iosb.sdma = "none"
      BY <1>7, <1>11, BusClock DEF BusOk
    <2>2. cpu.step = "last"
             => /\ Request.op = "pdma_wr" /\ Len(Request.val) = 1
                /\ Head(Request.val) = <<"cmd", cpu.k, LengthOf(cpu.k) - 1>>
      BY RequestBeat, ChipAssumption DEF LengthOf
    <2>3. iosb'.sdma = (IF cpu.doing = "in" THEN "rd" ELSE "wr")
      BY <1>7, <2>1, <2>2, RequestBeat DEF BusTakes
    <2>4. /\ iosb'.astate = "SDMA" /\ iosb'.ack = FALSE
          /\ cpu.step = "last" => /\ iosb'.sdma_left = 1
                                  /\ Head(iosb'.data) = <<"cmd", cpu.k, LengthOf(cpu.k) - 1>>
      BY <2>1, <2>2 DEF BusTakes
    <2>5. BusOk'
      BY <1>5, <2>1, <2>3, <2>4 DEF BusOk, LengthOf
    <2>6. SameAs(at2, cpu) /\ at2.pushed = FALSE
      BY <1>2, <1>5, <2>4 DEF At, Acked, SameAs
    <2>7. Stays(at, s, at2)
      BY <1>6, <2>1, <2>6 DEF SameAs, Stays, Stay
    <2> QED
      BY <1>1, <1>2, <1>3, <1>4, <1>10, <2>5, <2>7 DEF Waits
  <1>12. CASE iosb.astate # "IDLE" /\ BusGoes
    <2>1. DOMAIN iosb' = DOMAIN iosb
      BY BusClock
    <2>2. BusOk'
      BY <1>5, <1>12, <2>1 DEF BusOk, BusGoes, LengthOf
    <2>3. SameAs(at2, cpu) /\ at2.pushed = FALSE /\ at2.dma = iosb.sdma
      BY <1>2, <1>5, <1>12 DEF At, Acked, SameAs, BusGoes
    <2>4. Stays(at, s, at2)
      BY <1>4, <1>6, <1>12, <2>3 DEF SameAs, Stays, Stay, BusOk, BusGoes
    <2> QED
      BY <1>1, <1>2, <1>3, <1>4, <1>10, <2>2, <2>4 DEF Waits
  <1>13. CASE iosb.astate # "IDLE" /\ BusEnds
    <2>1. DOMAIN iosb' = DOMAIN iosb
      BY BusClock
    <2>2. BusOk'
      BY <1>5, <1>13, <2>1 DEF BusOk, BusEnds
    <2>3. /\ at2.state = cpu.state /\ at2.k = cpu.k /\ at2.doing = cpu.doing /\ at2.step = NextStep'
          /\ at2.phase = cpu.phase /\ at2.isr = cpu.isr /\ at2.flags = cpu.flags /\ at2.pushed = FALSE
      BY <1>2, <1>5, <1>13 DEF At, Acked, BusEnds
    <2>4. Goes(cpu, at2.step)
      BY <1>5, <2>3, NextStepGoesOn
    <2>5. Advances(at, at2)
      BY <1>6, <2>3, <2>4 DEF Advances, Stay, SameAs, Goes
    <2> QED
      BY <1>1, <1>2, <1>3, <1>4, <1>10, <2>2, <2>5 DEF Waits
  <1> QED
    BY <1>11, <1>12, <1>13, BusClock

\* What a place says of the driver alone.
LEMMA PlaceOfDriver ==
    ASSUME NEW at, NEW s, Agree(at, s)
    PROVE  /\ at.step \in Steps
           /\ at.step = "last" => at.doing = "select" /\ at.left = 1 /\ at.k \in DOMAIN Commands
  BY DEF Agree, Resting, Preparing, FeedingRom, Selecting, TimingOut, Probing, Receiving, Sending,
         Ending, Parting, Proposing, Refused, Resuming, Ordering, Runs, Told, Steps

\* A clock of the driver and the bus.
LEMMA DriverMoves ==
    ASSUME BusOk, Agree(At, chip), plat.ack \in BOOLEAN, \A m \in Menus : ~m.impatient,
           CpuMoves \/ CpuHold, IosbBlock
    PROVE  BusOk' /\ Moves(At, chip, ChipInput, At')
  <1>1. /\ At.step \in Steps
        /\ At.step = "last" => At.doing = "select" /\ At.left = 1 /\ At.k \in DOMAIN Commands
    BY PlaceOfDriver
  <1>2. CASE ~cpu.req
    BY <1>1, <1>2, DriverFree
  <1>3. CASE cpu.req /\ iosb.ack
    BY <1>1, <1>3, DriverTakes
  <1>4. CASE cpu.req /\ ~iosb.ack /\ cpu.step \notin {"beat", "last"}
    <2>1. iosb.astate = "IDLE"
      BY <1>4 DEF BusOk
    <2> QED
      BY <1>1, <1>4, <2>1, DriverAccess
  <1>5. CASE cpu.req /\ ~iosb.ack /\ cpu.step \in {"beat", "last"}
    <2>1. cpu.step = "last" => cpu.doing = "select" /\ cpu.left = 1 /\ cpu.k \in DOMAIN Commands
      BY <1>1, <1>5 DEF At, Acked
    <2> QED
      BY <1>5, <2>1, DriverBeat
  <1> QED
    BY <1>2, <1>3, <1>4, <1>5

-----------------------------------------------------------------------------
(* The bytes of the CDB on their way *)

LEMMA LengthRange ==
    ASSUME NEW k \in DOMAIN Commands
    PROVE  LengthOf(k) \in Nat /\ LengthOf(k) >= 2 /\ LengthOf(k) < FIFO /\ FIFO \in Nat
  BY ChipAssumption DEF LengthOf

LEMMA LoadedPush ==
    ASSUME NEW k \in DOMAIN Commands, NEW f, NEW left \in 1..(LengthOf(k) + 1),
           Loaded(k, f, LengthOf(k) + 1 - left)
    PROVE  Loaded(k, Append(f, CdbByte(k, left)), LengthOf(k) + 2 - left) /\ Len(f) < FIFO
  <1>1. LengthOf(k) \in Nat /\ LengthOf(k) < FIFO /\ FIFO \in Nat
    BY LengthRange
  <1>2. CdbByte(k, left) \in Sendable(k)
    BY <1>1 DEF CdbByte, Sendable
  <1>3. PICK g : g = Append(f, CdbByte(k, left))
    OBVIOUS
  <1>4. f \in Seq(Sendable(k)) /\ Len(f) = LengthOf(k) + 1 - left
    BY DEF Loaded
  <1>5. /\ g \in Seq(Sendable(k)) /\ Len(g) = Len(f) + 1 /\ g[Len(f) + 1] = CdbByte(k, left)
        /\ \A x \in 1..Len(f) : g[x] = f[x]
    BY <1>2, <1>3, <1>4
  <1>6. ASSUME NEW x \in 1..Len(g)
        PROVE  g[x] = (IF x = 1 THEN Identify ELSE <<"cmd", k, x - 2>>)
    <2>1. CASE x \in 1..Len(f)
      BY <1>5, <2>1 DEF Loaded
    <2>2. CASE x = Len(f) + 1
      <3>1. PICK n \in Nat, v \in Nat : n = LengthOf(k) /\ v = left /\ v \in 1..(n + 1)
        BY <1>1
      <3>2. x = n + 2 - v
        BY <1>4, <2>2, <3>1
      <3>3. x = 1 <=> left > LengthOf(k)
        BY <3>1, <3>2
      <3>4. x - 2 = LengthOf(k) - left
        BY <3>1, <3>2
      <3>5. g[x] = CdbByte(k, left)
        BY <1>5, <2>2
      <3> QED
        BY <3>3, <3>4, <3>5 DEF CdbByte
    <2> QED
      BY <1>4, <1>5, <2>1, <2>2
  <1>7. Len(g) = LengthOf(k) + 2 - left /\ Len(f) < FIFO
    BY <1>1, <1>4, <1>5
  <1>8. Loaded(k, g, LengthOf(k) + 2 - left)
    BY <1>5, <1>6, <1>7 DEF Loaded
  <1> QED
    BY <1>3, <1>7, <1>8

LEMMA LoadedNone ==
    ASSUME NEW k
    PROVE  Loaded(k, <<>>, 0)
  BY DEF Loaded

LEMMA SentNone ==
    ASSUME NEW k, NEW s, s.cdb = <<>>, s.fifo = <<>>, s.skip_cnt = 0
    PROVE  Sent(k, s) /\ Len(s.cdb) = 0 /\ Len(s.fifo) = 0
  BY DEF Sent

LEMMA SentSame ==
    ASSUME NEW k, NEW s, NEW c, Sent(k, s), c.cdb = s.cdb, c.fifo = s.fifo, c.skip_cnt = s.skip_cnt
    PROVE  Sent(k, c) /\ Len(c.cdb) = Len(s.cdb) /\ Len(c.fifo) = Len(s.fifo)
  BY DEF Sent

LEMMA SentTyped ==
    ASSUME NEW k, NEW s, Sent(k, s)
    PROVE  /\ Len(s.cdb) \in Nat /\ Len(s.fifo) \in Nat
           /\ s.cdb = <<>> <=> Len(s.cdb) = 0
           /\ s.fifo = <<>> <=> Len(s.fifo) = 0
  BY DEF Sent

\* The next byte is taken out of the FIFO, or comes by pseudo-DMA, or is put into the FIFO.
LEMMA SentShift ==
    ASSUME NEW k, NEW s, NEW c, Sent(k, s), s.fifo # <<>>, c.fifo = Tail(s.fifo),
           Takes(s, c, Head(s.fifo))
    PROVE  Sent(k, c) /\ Len(c.cdb) = Len(s.cdb) + 1 /\ Len(c.fifo) = Len(s.fifo) - 1
  <1>1. /\ s.cdb \in Seq(Sendable(k)) /\ s.fifo \in Seq(Sendable(k)) /\ s.skip_cnt = 0
        /\ \A y \in 1..Len(s.cdb) : s.cdb[y] = <<"cmd", k, y - 1>>
        /\ \A x \in 1..Len(s.fifo) : s.fifo[x] = <<"cmd", k, Len(s.cdb) + x - 1>>
    BY DEF Sent
  <1>2. PICK h : h = Head(s.fifo)
    OBVIOUS
  <1>3. /\ h \in Sendable(k) /\ h = s.fifo[1] /\ Len(s.fifo) \in Nat \ {0} /\ Len(s.cdb) \in Nat
        /\ c.fifo \in Seq(Sendable(k)) /\ Len(c.fifo) = Len(s.fifo) - 1
        /\ \A x \in 1..Len(c.fifo) : c.fifo[x] = s.fifo[x + 1]
    BY <1>1, <1>2
  <1>4. c.skip_cnt = 0 /\ c.cdb = Append(s.cdb, h)
    BY <1>1, <1>2 DEF Takes
  <1>5. /\ c.cdb \in Seq(Sendable(k)) /\ Len(c.cdb) = Len(s.cdb) + 1
        /\ c.cdb[Len(s.cdb) + 1] = h /\ \A y \in 1..Len(s.cdb) : c.cdb[y] = s.cdb[y]
    BY <1>1, <1>3, <1>4
  <1>6. h = <<"cmd", k, Len(s.cdb)>>
    BY <1>1, <1>3
  <1>7. ASSUME NEW y \in 1..Len(c.cdb) PROVE c.cdb[y] = <<"cmd", k, y - 1>>
    <2>1. CASE y \in 1..Len(s.cdb)
      BY <1>1, <1>5, <2>1
    <2>2. CASE y = Len(s.cdb) + 1
      <3>1. y - 1 = Len(s.cdb)
        BY <1>3, <2>2
      <3> QED
        BY <1>5, <1>6, <2>2, <3>1
    <2> QED
      BY <1>3, <1>5, <2>1, <2>2
  <1>8. \A x \in 1..Len(c.fifo) : c.fifo[x] = <<"cmd", k, Len(c.cdb) + x - 1>>
    BY <1>1, <1>3, <1>5
  <1> QED
    BY <1>3, <1>4, <1>5, <1>7, <1>8 DEF Sent

LEMMA SentByDma ==
    ASSUME NEW k, NEW s, NEW c, Sent(k, s), s.fifo = <<>>, c.fifo = s.fifo,
           Takes(s, c, <<"cmd", k, Len(s.cdb)>>)
    PROVE  Sent(k, c) /\ Len(c.cdb) = Len(s.cdb) + 1 /\ Len(c.fifo) = 0
  <1>1. /\ s.cdb \in Seq(Sendable(k)) /\ s.fifo \in Seq(Sendable(k)) /\ s.skip_cnt = 0
        /\ \A y \in 1..Len(s.cdb) : s.cdb[y] = <<"cmd", k, y - 1>> /\ Len(s.cdb) \in Nat
    BY DEF Sent
  <1>2. PICK h : h = <<"cmd", k, Len(s.cdb)>>
    OBVIOUS
  <1>3. h \in Sendable(k) /\ Len(s.cdb) \in Nat
    BY <1>1, <1>2 DEF Sendable
  <1>4. c.skip_cnt = 0 /\ c.cdb = Append(s.cdb, h)
    BY <1>1, <1>2 DEF Takes
  <1>5. /\ c.cdb \in Seq(Sendable(k)) /\ Len(c.cdb) = Len(s.cdb) + 1
        /\ c.cdb[Len(s.cdb) + 1] = h /\ \A y \in 1..Len(s.cdb) : c.cdb[y] = s.cdb[y]
    BY <1>1, <1>3, <1>4
  <1>6. ASSUME NEW y \in 1..Len(c.cdb) PROVE c.cdb[y] = <<"cmd", k, y - 1>>
    <2>1. CASE y \in 1..Len(s.cdb)
      BY <1>1, <1>5, <2>1
    <2>2. CASE y = Len(s.cdb) + 1
      <3>1. y - 1 = Len(s.cdb)
        BY <1>3, <2>2
      <3> QED
        BY <1>2, <1>5, <2>2, <3>1
    <2> QED
      BY <1>3, <1>5, <2>1, <2>2
  <1> QED
    BY <1>1, <1>4, <1>5, <1>6 DEF Sent

Puts(k, s, c) ==
    /\ s.fifo = <<>> /\ c.cdb = s.cdb /\ c.skip_cnt = s.skip_cnt
    /\ c.fifo = Append(s.fifo, <<"cmd", k, Len(s.cdb)>>)

LEMMA SentPush ==
    ASSUME NEW k, NEW s, NEW c, Sent(k, s), Puts(k, s, c)
    PROVE  Sent(k, c) /\ Len(c.cdb) = Len(s.cdb) /\ Len(c.fifo) = 1
  <1> USE DEF Puts
  <1>1. s.cdb \in Seq(Sendable(k)) /\ s.fifo \in Seq(Sendable(k)) /\ Len(s.cdb) \in Nat
    BY DEF Sent
  <1>2. PICK h : h = <<"cmd", k, Len(s.cdb)>>
    OBVIOUS
  <1>3. h \in Sendable(k)
    BY <1>1, <1>2 DEF Sendable
  <1>4. c.fifo \in Seq(Sendable(k)) /\ Len(c.fifo) = 1 /\ c.fifo[1] = h
    BY <1>1, <1>2, <1>3
  <1>5. \A x \in 1..Len(c.fifo) : c.fifo[x] = <<"cmd", k, Len(c.cdb) + x - 1>>
    BY <1>1, <1>2, <1>4
  <1> QED
    BY <1>4, <1>5 DEF Sent

\* IDENTIFY is dropped.
LEMMA SentSkip ==
    ASSUME NEW k \in DOMAIN Commands, NEW s, NEW c, Loaded(k, s.fifo, LengthOf(k) + 1), s.cdb = <<>>,
           s.skip_cnt = 1, c.fifo = Tail(s.fifo), Takes(s, c, Head(s.fifo))
    PROVE  Sent(k, c) /\ Len(c.cdb) = 0 /\ Len(c.fifo) = LengthOf(k)
  <1>1. /\ s.fifo \in Seq(Sendable(k)) /\ Len(s.fifo) = LengthOf(k) + 1
        /\ \A x \in 1..Len(s.fifo) : s.fifo[x] = (IF x = 1 THEN Identify ELSE <<"cmd", k, x - 2>>)
    BY DEF Loaded
  <1>2. LengthOf(k) \in Nat
    BY LengthRange
  <1>3. /\ c.fifo \in Seq(Sendable(k)) /\ Len(c.fifo) = LengthOf(k)
        /\ \A x \in 1..Len(c.fifo) : c.fifo[x] = s.fifo[x + 1]
    BY <1>1, <1>2
  <1>4. c.skip_cnt = 0 /\ c.cdb = <<>> /\ Len(c.cdb) = 0
    BY DEF Takes
  <1>5. ASSUME NEW x \in 1..Len(c.fifo) PROVE c.fifo[x] = <<"cmd", k, Len(c.cdb) + x - 1>>
    <2>1. x + 1 \in 1..Len(s.fifo) /\ x + 1 # 1 /\ (x + 1) - 2 = Len(c.cdb) + x - 1
      BY <1>1, <1>2, <1>3, <1>4
    <2>2. s.fifo[x + 1] = <<"cmd", k, (x + 1) - 2>>
      BY <1>1, <2>1
    <2> QED
      BY <1>3, <2>1, <2>2
  <1>6. c.cdb \in Seq(Sendable(k)) /\ \A y \in 1..Len(c.cdb) : c.cdb[y] = <<"cmd", k, y - 1>>
    BY <1>4
  <1> QED
    BY <1>3, <1>4, <1>5, <1>6 DEF Sent

\* The first byte tells the command, and with it the length.
LEMMA SentOpcode ==
    ASSUME NEW k \in DOMAIN Commands, NEW s, Sent(k, s), s.cdb # <<>>
    PROVE  opcode(s).len = LengthOf(k)
  <1>1. s.cdb \in Seq(Sendable(k)) /\ Len(s.cdb) \in Nat \ {0}
    BY DEF Sent
  <1>2. s.cdb[1] = <<"cmd", k, 0>>
    BY <1>1 DEF Sent
  <1> QED
    BY <1>2 DEF opcode, LengthOf

-----------------------------------------------------------------------------
(* The clock lemmas, as the places use them *)

\* The driver makes a move, the chip a clock.
Clock(at, s, i, b, c, at2) == Typed(s) /\ Moves(at, s, i, at2) /\ c = Cycle(s, i, b)

\* What the sector buffer may see of a clock.
Paced(s, i, c) == BufferStep(s, i, c) \/ (s.phase = "CMD" /\ ExecStep(s, c))

Follows(s, i, c, at2) == Agree(at2, c) /\ Paced(s, i, c)

\* A quiet chip that is given no command.
Steady(s, i, c) ==
    /\ Quiet(c) /\ c.phase = s.phase /\ c.msgin_reject = s.msgin_reject /\ BufferStep(s, i, c)
    /\ IF ReadsIsr(i) THEN Calm(c) ELSE Holds(s, c)

Unmoved(s, i, c) == Steady(s, i, c) /\ c.dest_ok = s.dest_ok /\ c.fifo = s.fifo

LEMMA QuietSteady ==
    ASSUME NEW s, NEW i, NEW b, NEW c, Typed(s), i.io_ack \in BOOLEAN, Quiet(s), Plain(i),
           c = Cycle(s, i, b)
    PROVE  /\ Steady(s, i, c)
           /\ (i.dma = "none" /\ i.op \in {"none", "read"} /\ (i.op = "none" \/ i.rs # "FIFO")) => Unmoved(s, i, c)
           /\ (i.dma = "none" /\ i.op = "write" /\ i.rs = "TC") => Unmoved(s, i, c)
           /\ (i.op = "write" /\ i.rs = "DEST") => c.dest_ok = i.val
           /\ (i.dma = "none" /\ i.op = "write" /\ i.rs = "FIFO" /\ Len(s.fifo) < FIFO)
                 => c.fifo = Append(s.fifo, i.val) /\ c.dest_ok = s.dest_ok
  <1>1. Shape(s)
    BY TypedShape
  <1>2. AfterPlain(s, i, c)
    BY <1>1, QuietPlain
  <1>3. Steady(s, i, c)
    BY <1>2 DEF Steady, AfterPlain
  <1>4. (c.dest_ok = s.dest_ok /\ c.fifo = s.fifo) => Unmoved(s, i, c)
    BY <1>3 DEF Unmoved
  <1> QED
    BY <1>2, <1>3, <1>4 DEF AfterPlain

\* A driver that waits, or reads a register other than the FIFO, leaves the quiet chip as it is.
LEMMA QuietWaits ==
    ASSUME NEW s, NEW i, NEW b, NEW c, Typed(s), i.io_ack \in BOOLEAN, Quiet(s), i.op = "none",
           c = Cycle(s, i, b)
    PROVE  Steady(s, i, c) /\ Holds(s, c) /\ (i.dma = "none" => Unmoved(s, i, c)) /\ Paced(s, i, c)
  <1>1. Plain(i) /\ ~ReadsIsr(i)
    BY DEF Plain, ReadsIsr
  <1>2. Steady(s, i, c) /\ (i.dma = "none" => Unmoved(s, i, c))
    BY <1>1, QuietSteady
  <1> QED
    BY <1>1, <1>2 DEF Steady, Paced

LEMMA StandsStill ==
    ASSUME NEW s, NEW i, NEW c, NEW p, Stands(s, p), Steady(s, i, c)
    PROVE  Stands(c, p)
  BY DEF Stands, Steady, Calm, Holds

\* A command phase without a byte stays so.
LEMMA FreshWaits ==
    ASSUME NEW s, NEW i, NEW b, NEW c, Typed(s), i.io_ack \in BOOLEAN, Fresh(s), i.dma = "none",
           i.op = "none" \/ (i.op = "read" /\ i.rs # "FIFO"), c = Cycle(s, i, b)
    PROVE  /\ Fresh(c) /\ c.phase = s.phase /\ Paced(s, i, c)
           /\ IF ReadsIsr(i) THEN Calm(c) ELSE Holds(s, c)
  <1>1. Shape(s) /\ Collecting(s)
    BY TypedShape DEF Fresh
  <1>2. /\ CmdStep(s, i, c) /\ CdbStep(s, i, c)
        /\ IF ReadsIsr(i) THEN Calm(c) ELSE Holds(s, c)
    BY <1>1, CollectingWait
  <1>3. c.fifo = <<>> /\ c.cdb = <<>> /\ c.skip_cnt = 0
    BY <1>2 DEF CdbStep, Fresh
  <1>4. Collecting(c) /\ BufferStep(s, i, c)
    BY <1>2 DEF CmdStep, Fresh
  <1> QED
    BY <1>1, <1>2, <1>3, <1>4 DEF Fresh, Collecting, Paced

\* A driver with no access under way that is in the middle of its script just waits.
LEMMA MoveKinds ==
    ASSUME NEW at, NEW s, NEW i, NEW at2, Moves(at, s, i, at2)
    PROVE  /\ i.io_ack \in BOOLEAN /\ i.dma = at.dma
           /\ at.step \notin {"beat", "last"} => i.dma = "none"
           /\ at.step \in {"irq", "end", "beat", "last"} => i.op = "none" /\ Waits(at, s, at2)
           /\ at.step \in {"beat", "last"} => Stays(at, s, at2) \/ Advances(at, at2)
           /\ at.step = "irq" => Stays(at, s, at2) \/ Serves(at, s, at2)
           /\ (at.step = "end" /\ at.state = "idle") => Stays(at, s, at2) \/ Picks(at, at2)
           /\ (at.step = "end" /\ at.state = "run") => Stays(at, s, at2) \/ Decides(at, at2)
           /\ (at.step = "end" /\ at.state \in {"finish", "absent"})
                 => Stays(at, s, at2) \/ Finishes(at, at2)
           /\ at.step \in Steps \ {"irq", "end", "beat", "last"}
                 => \/ i.op = "none" /\ Stays(at, s, at2)
                    \/ i.op # "none" /\ Accesses(at, s, i, at2) /\ at.pushed = FALSE
  <1>1. (at.step \in Steps /\ Accesses(at, s, i, at2)) => i.op # "none"
    BY DEF Accesses, Asks, Ask, Steps
  <1> QED
    BY <1>1 DEF Moves, Waits, Advances, Serves, Picks, Decides, Finishes, Accesses

-----------------------------------------------------------------------------
(* The places: each move of the driver leads from one to the next *)

LEMMA FromResting ==
    ASSUME NEW at, NEW s, NEW i, NEW b, NEW c, NEW at2, Clock(at, s, i, b, c, at2), Resting(at, s)
    PROVE  Follows(s, i, c, at2)
  <1>1. Typed(s) /\ Moves(at, s, i, at2) /\ c = Cycle(s, i, b)
    BY DEF Clock
  <1>2. at.state = "idle" /\ at.step = "end" /\ Stands(s, "DOUT") /\ Quiet(s)
    BY DEF Resting, Stands
  <1>3. /\ i.op = "none" /\ i.dma = "none" /\ i.io_ack \in BOOLEAN
        /\ Stays(at, s, at2) \/ Picks(at, at2)
    BY <1>1, <1>2, MoveKinds
  <1>4. Steady(s, i, c) /\ Paced(s, i, c)
    BY <1>1, <1>2, <1>3, QuietWaits
  <1>5. Stands(c, "DOUT")
    BY <1>2, <1>4, StandsStill
  <1>6. CASE Stays(at, s, at2)
    <2>1. Resting(at2, c)
      BY <1>2, <1>5, <1>6 DEF Stays, Stay, Resting
    <2> QED
      BY <1>4, <2>1 DEF Follows, Agree
  <1>7. CASE Picks(at, at2)
    <2>1. Preparing(at2, c)
      BY <1>5, <1>7 DEF Picks, Preparing, Runs
    <2> QED
      BY <1>4, <2>1 DEF Follows, Agree
  <1> QED
    BY <1>3, <1>6, <1>7

\* Nobody answered.
LEMMA FromProbing ==
    ASSUME NEW at, NEW s, NEW i, NEW b, NEW c, NEW at2, Clock(at, s, i, b, c, at2), Probing(at, s)
    PROVE  Follows(s, i, c, at2)
  <1>1. Typed(s) /\ Moves(at, s, i, at2) /\ c = Cycle(s, i, b)
    BY DEF Clock
  <1>2. /\ at.state = "absent" /\ at.doing = "probe" /\ at.k \in DOMAIN Commands
        /\ Stands(s, "DOUT") /\ Quiet(s) /\ at.step \in {"flags", "end"} /\ at.step \in Steps
    BY DEF Probing, Stands, Steps
  <1>3. /\ i.dma = "none" /\ i.io_ack \in BOOLEAN
        /\ at.step = "end" => i.op = "none" /\ (Stays(at, s, at2) \/ Finishes(at, at2))
        /\ at.step = "flags" => \/ i.op = "none" /\ Stays(at, s, at2)
                                \/ Accesses(at, s, i, at2)
    BY <1>1, <1>2, MoveKinds
  <1>4. i.op = "none" \/ (i.op = "read" /\ i.rs = "FLAGS")
    BY <1>2, <1>3 DEF Accesses, Asks
  <1>5. Plain(i) /\ ~ReadsIsr(i)
    BY <1>4 DEF Plain, ReadsIsr
  <1>6. Unmoved(s, i, c)
    BY <1>1, <1>2, <1>3, <1>4, <1>5, QuietSteady
  <1>7. Stands(c, "DOUT") /\ c.fifo = s.fifo /\ Paced(s, i, c)
    BY <1>2, <1>6, StandsStill DEF Unmoved, Steady, Paced
  <1>8. CASE Stays(at, s, at2)
    <2>1. Probing(at2, c)
      BY <1>7, <1>8 DEF Stays, Stay, Probing
    <2> QED
      BY <1>7, <2>1 DEF Follows, Agree
  <1>9. CASE at.step = "flags" /\ Accesses(at, s, i, at2)
    <2>1. Probing(at2, c)
      BY <1>2, <1>7, <1>9 DEF Accesses, Goes, Probing
    <2> QED
      BY <1>7, <2>1 DEF Follows, Agree
  <1>10. CASE at.step = "end" /\ Finishes(at, at2)
    <2>1. Resting(at2, c)
      BY <1>7, <1>10 DEF Finishes, Resting
    <2> QED
      BY <1>7, <2>1 DEF Follows, Agree
  <1> QED
    BY <1>2, <1>3, <1>8, <1>9, <1>10

LEMMA FromTimingOut ==
    ASSUME NEW at, NEW s, NEW i, NEW b, NEW c, NEW at2, Clock(at, s, i, b, c, at2), TimingOut(at, s)
    PROVE  Follows(s, i, c, at2)
  <1>1. Typed(s) /\ Moves(at, s, i, at2) /\ c = Cycle(s, i, b)
    BY DEF Clock
  <1>2. /\ at.state = "run" /\ at.doing = "select" /\ at.k \in DOMAIN Commands
        /\ Quiet(s) /\ s.phase = "DOUT" /\ Len(s.fifo) = LengthOf(at.k) + 1
        /\ at.step \in {"irq", "stat", "isr", "end"} /\ at.step \in Steps
    BY DEF TimingOut, Runs, Steps
  <1>3. /\ i.dma = "none" /\ i.io_ack \in BOOLEAN
        /\ at.step = "irq" => i.op = "none" /\ (Stays(at, s, at2) \/ Serves(at, s, at2))
        /\ at.step = "end" => i.op = "none" /\ (Stays(at, s, at2) \/ Decides(at, at2))
        /\ at.step \in {"stat", "isr"} => \/ i.op = "none" /\ Stays(at, s, at2)
                                          \/ Accesses(at, s, i, at2)
    BY <1>1, <1>2, MoveKinds
  <1>4. \/ i.op = "none"
        \/ at.step = "stat" /\ i.op = "read" /\ i.rs = "STAT"
        \/ at.step = "isr" /\ i.op = "read" /\ i.rs = "ISR"
    BY <1>2, <1>3 DEF Accesses, Asks
  <1>5. Plain(i) /\ (i.op = "none" \/ at.step = "stat" => ~ReadsIsr(i))
    BY <1>4 DEF Plain, ReadsIsr
  <1>6. Unmoved(s, i, c)
    BY <1>1, <1>2, <1>3, <1>4, <1>5, QuietSteady
  <1>7. /\ Quiet(c) /\ c.phase = "DOUT" /\ Len(c.fifo) = LengthOf(at.k) + 1 /\ Paced(s, i, c)
        /\ IF ReadsIsr(i) THEN Calm(c) ELSE Holds(s, c)
    BY <1>2, <1>6 DEF Unmoved, Steady, Paced
  <1>8. CASE Stays(at, s, at2) /\ i.op = "none"
    <2>1. Holds(s, c)
      BY <1>5, <1>7, <1>8
    <2>2. TimingOut(at2, c)
      BY <1>2, <1>7, <1>8, <2>1 DEF Stays, Stay, TimingOut, Runs, Holds, Calm
    <2> QED
      BY <1>7, <2>2 DEF Follows, Agree
  <1>9. CASE at.step = "irq" /\ Serves(at, s, at2)
    <2>1. Holds(s, c)
      BY <1>3, <1>5, <1>7, <1>9
    <2>2. TimingOut(at2, c)
      BY <1>2, <1>7, <1>9, <2>1 DEF Serves, Stay, TimingOut, Runs, Holds, Calm
    <2> QED
      BY <1>7, <2>2 DEF Follows, Agree
  <1>10. CASE at.step = "stat" /\ Accesses(at, s, i, at2)
    <2>1. Holds(s, c)
      BY <1>5, <1>7, <1>10
    <2>2. TimingOut(at2, c)
      BY <1>2, <1>7, <1>10, <2>1 DEF Accesses, Goes, TimingOut, Runs, Holds
    <2> QED
      BY <1>7, <2>2 DEF Follows, Agree
  <1>11. CASE at.step = "isr" /\ Accesses(at, s, i, at2)
    <2>1. Calm(c)
      BY <1>7, <1>11 DEF Accesses, Asks, ReadsIsr
    <2>2. TimingOut(at2, c)
      BY <1>2, <1>7, <1>11, <2>1 DEF Accesses, Goes, TimingOut, Runs
    <2> QED
      BY <1>7, <2>2 DEF Follows, Agree
  <1>12. CASE at.step = "end" /\ Decides(at, at2)
    <2>1. Stands(c, "DOUT") /\ at.phase = "DOUT"
      BY <1>3, <1>5, <1>7, <1>12 DEF TimingOut, Stands, Holds, Calm
    <2>2. Probing(at2, c) \/ Sending(at2, c)
      BY <1>2, <1>7, <1>12, <2>1 DEF Decides, Turns, Probing, Sending, Runs
    <2> QED
      BY <1>7, <2>2 DEF Follows, Agree
  <1> QED
    BY <1>2, <1>3, <1>8, <1>9, <1>10, <1>11, <1>12

\* An interrupt is told, its phase and cause are read.
LEMMA ToldMoves ==
    ASSUME NEW at, NEW s, NEW i, NEW c, NEW at2, Moves(at, s, i, at2), Told(at, s), at.state = "run",
           at.doing \in {"select", "in", "out", "message_out", "accept", "command"},
           ~(at.step = "end" /\ Decides(at, at2)), c.phase = s.phase,
           at.step = "fetch" => at.doing = "in",
           IF ReadsIsr(i) THEN Calm(c) ELSE Holds(s, c)
    PROVE  /\ Told(at2, c) /\ at2.state = at.state /\ at2.doing = at.doing /\ at2.k = at.k
           /\ at2.step = "fetch" => at.doing = "in"
           /\ at2.step = "beat" => at.step = "beat"
  <1>1. at.step \in {"irq", "beat", "stat", "isr", "fetch", "end"} /\ at.step \in Steps
    BY DEF Told, Steps
  <1>2. /\ at.step = "irq" => i.op = "none" /\ (Stays(at, s, at2) \/ Serves(at, s, at2))
        /\ at.step = "beat" => i.op = "none" /\ (Stays(at, s, at2) \/ Advances(at, at2))
        /\ at.step = "end" => i.op = "none" /\ Stays(at, s, at2)
        /\ at.step \in {"stat", "isr", "fetch"} => \/ i.op = "none" /\ Stays(at, s, at2)
                                                   \/ Accesses(at, s, i, at2)
    <2>1. CASE at.step = "irq"
      BY <2>1, MoveKinds
    <2>2. CASE at.step = "beat"
      BY <2>2, MoveKinds
    <2>3. CASE at.step = "end"
      <3>1. i.op = "none" /\ (Stays(at, s, at2) \/ Decides(at, at2))
        BY <2>3, MoveKinds
      <3> QED
        BY <2>3, <3>1
    <2>4. CASE at.step \in {"stat", "isr", "fetch"}
      <3>1. at.step \in Steps \ {"irq", "end", "beat", "last"}
        BY <1>1, <2>4
      <3> QED
        BY <2>4, <3>1, MoveKinds
    <2> QED
      BY <1>1, <2>1, <2>2, <2>3, <2>4
  <1>3. CASE i.op = "none" /\ Stays(at, s, at2)
    BY <1>3 DEF Stays, Stay, Told, ReadsIsr, Holds, Calm
  <1>4. CASE at.step = "irq" /\ i.op = "none" /\ Serves(at, s, at2)
    BY <1>4 DEF Serves, Stay, Told, ReadsIsr, Holds, Calm
  <1>5. CASE at.step = "beat" /\ i.op = "none" /\ Advances(at, at2)
    BY <1>5 DEF Advances, Stay, Told, ReadsIsr, Holds, Calm
  <1>6. CASE at.step = "stat" /\ Accesses(at, s, i, at2)
    <2>1. Holds(s, c)
      BY <1>6 DEF Accesses, Asks, ReadsIsr
    <2> QED
      BY <1>6, <2>1 DEF Accesses, Goes, Told, Holds
  <1>7. CASE at.step = "isr" /\ Accesses(at, s, i, at2)
    <2>1. Calm(c)
      BY <1>7 DEF Accesses, Asks, ReadsIsr
    <2> QED
      BY <1>7, <2>1 DEF Accesses, Goes, Told
  <1>8. CASE at.step = "fetch" /\ Accesses(at, s, i, at2)
    <2>1. Holds(s, c)
      BY <1>8 DEF Accesses, Asks, ReadsIsr
    <2> QED
      BY <1>8, <2>1 DEF Accesses, Goes, Told, Holds, Calm
  <1> QED
    BY <1>1, <1>2, <1>3, <1>4, <1>5, <1>6, <1>7, <1>8

Retold(at, s, c, at2) ==
    /\ Told(at2, c) /\ at2.state = at.state /\ at2.doing = at.doing /\ at2.k = at.k
    /\ at2.step = "fetch" => at.doing = "in"
    /\ at2.step = "beat" => at.step = "beat"
    /\ Quiet(c) /\ c.phase = s.phase /\ c.msgin_reject = s.msgin_reject

\* The chip rests while it is asked, and the driver goes on as the phase says.
LEMMA QuietTold ==
    ASSUME NEW at, NEW s, NEW i, NEW b, NEW c, NEW at2, Clock(at, s, i, b, c, at2), Told(at, s),
           at.state = "run", at.k \in DOMAIN Commands,
           at.doing \in {"select", "in", "out", "message_out", "accept", "command"},
           at.step = "fetch" => at.doing = "in", Quiet(s), s.phase # "CMD",
           s.phase = "MIN" => s.msgin_reject = TRUE
    PROVE  Paced(s, i, c) /\ (Retold(at, s, c, at2) \/ Agree(at2, c))
  <1>1. Typed(s) /\ Moves(at, s, i, at2) /\ c = Cycle(s, i, b)
    BY DEF Clock
  <1>2. at.step \in {"irq", "beat", "stat", "isr", "fetch", "end"} /\ at.step \in Steps
    BY DEF Told, Steps
  <1>3. /\ i.io_ack \in BOOLEAN
        /\ at.step \in {"irq", "beat", "end"} => i.op = "none"
    <2>1. i.io_ack \in BOOLEAN
      BY <1>1, MoveKinds
    <2>2. at.step \in {"irq", "end", "beat", "last"} => i.op = "none"
      BY <1>1, MoveKinds
    <2> QED
      BY <2>1, <2>2
  <1>4. i.op \in {"none", "read"}
    <2>1. CASE at.step \in {"stat", "isr", "fetch"}
      <3>1. i.op = "none" \/ Accesses(at, s, i, at2)
        BY <1>1, <1>2, <2>1, MoveKinds
      <3> QED
        BY <2>1, <3>1 DEF Accesses, Asks
    <2> QED
      BY <1>2, <1>3, <2>1
  <1>5. Plain(i)
    BY <1>4 DEF Plain
  <1>6. Steady(s, i, c)
    BY <1>1, <1>3, <1>5, QuietSteady
  <1>7. /\ Quiet(c) /\ c.phase = s.phase /\ c.msgin_reject = s.msgin_reject /\ Paced(s, i, c)
        /\ IF ReadsIsr(i) THEN Calm(c) ELSE Holds(s, c)
    BY <1>6 DEF Steady, Paced
  <1>8. CASE at.step = "end" /\ Decides(at, at2)
    <2>1. Stands(c, s.phase) /\ at.phase = s.phase /\ "DISC" \notin at.isr
      BY <1>3, <1>7, <1>8 DEF Told, Stands, Calm, Holds, ReadsIsr
    <2>2. \/ Receiving(at2, c) \/ Sending(at2, c) \/ Ending(at2, c)
          \/ Proposing(at2, c) \/ Refused(at2, c)
      <3>1. CASE at.phase = "DIN" /\ Turns(at, at2, "run", "in", {"count", "transfer"})
        BY <2>1, <3>1 DEF Turns, Receiving, Runs
      <3>2. CASE at.phase = "DOUT" /\ Turns(at, at2, "run", "out", {"count", "push", "transfer"})
        BY <2>1, <3>2 DEF Turns, Sending, Runs
      <3>3. CASE at.phase = "STAT" /\ Turns(at, at2, "finish", "status", {"iccs"})
        BY <2>1, <3>3 DEF Turns, Ending
      <3>4. CASE at.phase = "MOUT" /\ Turns(at, at2, "run", "message_out", {"flush"}) /\ at2.left = 1
        BY <2>1, <3>4 DEF Turns, Proposing, Runs
      <3>5. CASE at.phase = "MIN" /\ Turns(at, at2, "run", "message_in", {"transfer"}) /\ at2.left = 0
        BY <1>7, <2>1, <3>5 DEF Turns, Refused, Runs
      <3> QED
        BY <1>8, <2>1, <3>1, <3>2, <3>3, <3>4, <3>5 DEF Decides
    <2> QED
      BY <1>7, <2>2 DEF Agree
  <1>9. CASE ~(at.step = "end" /\ Decides(at, at2))
    <2>1. /\ Told(at2, c) /\ at2.state = at.state /\ at2.doing = at.doing /\ at2.k = at.k
          /\ at2.step = "fetch" => at.doing = "in"
          /\ at2.step = "beat" => at.step = "beat"
      BY <1>1, <1>7, <1>9, ToldMoves
    <2> QED
      BY <1>7, <2>1 DEF Retold
  <1> QED
    BY <1>8, <1>9

LEMMA FromReceiving ==
    ASSUME NEW at, NEW s, NEW i, NEW b, NEW c, NEW at2, Clock(at, s, i, b, c, at2), Receiving(at, s)
    PROVE  Follows(s, i, c, at2)
  <1>1. Typed(s) /\ Moves(at, s, i, at2) /\ c = Cycle(s, i, b) /\ Shape(s)
    BY TypedShape DEF Clock
  <1>2. at.state = "run" /\ at.doing = "in" /\ at.k \in DOMAIN Commands
    BY DEF Receiving, Runs
  <1>3. CASE at.step = "count" /\ Stands(s, "DIN")
    <2>1. /\ i.dma = "none" /\ i.io_ack \in BOOLEAN
          /\ (i.op = "none" /\ Stays(at, s, at2)) \/ Accesses(at, s, i, at2)
      BY <1>1, <1>3, MoveKinds DEF Steps
    <2>2. Plain(i)
      BY <1>3, <2>1 DEF Accesses, Asks, Plain
    <2>3. Steady(s, i, c)
      BY <1>1, <1>3, <2>1, <2>2, QuietSteady DEF Stands
    <2>4. Stands(c, "DIN") /\ Paced(s, i, c)
      BY <1>3, <2>3, StandsStill DEF Steady, Paced
    <2>5. Receiving(at2, c)
      BY <1>2, <1>3, <2>1, <2>4 DEF Receiving, Runs, Stays, Stay, Accesses, Goes
    <2> QED
      BY <2>4, <2>5 DEF Follows, Agree
  <1>4. CASE at.step = "transfer" /\ Stands(s, "DIN")
    <2>1. /\ i.dma = "none" /\ i.io_ack \in BOOLEAN /\ Quiet(s)
          /\ (i.op = "none" /\ Stays(at, s, at2)) \/ Accesses(at, s, i, at2)
      BY <1>1, <1>4, MoveKinds DEF Steps, Stands
    <2>2. CASE i.op = "none" /\ Stays(at, s, at2)
      <3>1. Steady(s, i, c) /\ Paced(s, i, c)
        BY <1>1, <2>1, <2>2, QuietWaits
      <3>2. Stands(c, "DIN")
        BY <1>4, <3>1, StandsStill
      <3>3. Receiving(at2, c)
        BY <1>2, <1>4, <2>2, <3>2 DEF Receiving, Runs, Stays, Stay
      <3> QED
        BY <3>1, <3>3 DEF Follows, Agree
    <2>3. CASE Accesses(at, s, i, at2)
      <3>1. Commanded(s, i, "TI") /\ i.dmabit \in BOOLEAN
        BY <1>1, <1>4, <2>1, <2>3 DEF Accesses, Asks, Ask, Commanded
      <3>2. /\ at2.state = "run" /\ at2.doing = "in" /\ at2.k = at.k /\ at2.step \in {"beat", "irq"}
        BY <1>2, <1>4, <2>3 DEF Accesses, Goes
      <3>3. CASE i.dmabit \/ s.fifo = <<>>
        <4>1. AfterRead(s, i, c)
          BY <1>1, <1>4, <3>1, <3>3, QuietReadDma, QuietReadByte DEF Stands
        <4>2. Receiving(at2, c)
          BY <1>2, <1>4, <3>2, <4>1 DEF AfterRead, Receiving, Runs, Stands, Calm, Holds
        <4> QED
          BY <4>1, <4>2 DEF Follows, Agree, AfterRead, Paced
      <3>4. CASE ~i.dmabit /\ s.fifo # <<>>
        <4>1. AfterByte(s, i, c, {"BUS"})
          BY <1>1, <1>4, <3>1, <3>4, QuietByte DEF Stands
        <4>2. Quiet(c) /\ c.phase = "DIN" /\ c.irq = TRUE /\ "DISC" \notin c.istatus /\ Paced(s, i, c)
          BY <1>4, <4>1 DEF AfterByte, Rings, Stands, Calm, Paced
        <4>3. Receiving(at2, c)
          BY <1>2, <3>2, <4>2 DEF Receiving, Runs, Told
        <4> QED
          BY <4>2, <4>3 DEF Follows, Agree
      <3> QED
        BY <3>1, <3>3, <3>4
    <2> QED
      BY <2>1, <2>2, <2>3
  <1>5. CASE at.step \in {"beat", "irq"} /\ Reading(s) /\ Calm(s)
    <2>1. /\ i.op = "none" /\ i.io_ack \in BOOLEAN
          /\ Stays(at, s, at2) \/ Advances(at, at2) \/ Serves(at, s, at2)
      BY <1>1, <1>5, MoveKinds
    <2>2. at2.state = "run" /\ at2.doing = "in" /\ at2.k = at.k /\ at2.step \in {"beat", "irq"}
      BY <1>2, <1>5, <2>1 DEF Stays, Stay, Advances, Serves, Calm
    <2>3. ReadStep(s, i, c)
      BY <1>1, <1>5, <2>1, ReadingWait
    <2>4. CASE Reading(c) /\ Holds(s, c)
      <3>1. Receiving(at2, c)
        BY <1>2, <1>5, <2>2, <2>4 DEF Receiving, Runs, Calm, Holds
      <3> QED
        BY <2>3, <3>1 DEF Follows, Agree, Paced, ReadStep
    <2>5. CASE Quiet(c) /\ c.phase \in {"DIN", "STAT"} /\ Rings(s, c, {"BUS"})
      <3>1. c.irq = TRUE /\ "DISC" \notin c.istatus
        BY <1>5, <2>5 DEF Rings, Calm
      <3>2. Receiving(at2, c)
        BY <1>2, <2>2, <2>5, <3>1 DEF Receiving, Runs, Told
      <3> QED
        BY <2>3, <3>2 DEF Follows, Agree, Paced, ReadStep
    <2> QED
      BY <2>3, <2>4, <2>5 DEF ReadStep
  <1>6. CASE /\ at.step \in {"beat", "irq", "stat", "isr", "fetch", "end"} /\ Told(at, s)
             /\ Quiet(s) /\ s.phase \in {"DIN", "STAT"}
    <2>1. Paced(s, i, c) /\ (Retold(at, s, c, at2) \/ Agree(at2, c))
      BY <1>2, <1>6, QuietTold
    <2>2. CASE Retold(at, s, c, at2)
      <3>1. Receiving(at2, c)
        BY <1>2, <1>6, <2>2 DEF Retold, Receiving, Runs, Told
      <3> QED
        BY <2>1, <3>1 DEF Follows, Agree
    <2> QED
      BY <2>1, <2>2 DEF Follows
  <1> QED
    BY <1>3, <1>4, <1>5, <1>6 DEF Receiving

LEMMA FromSending ==
    ASSUME NEW at, NEW s, NEW i, NEW b, NEW c, NEW at2, Clock(at, s, i, b, c, at2), Sending(at, s)
    PROVE  Follows(s, i, c, at2)
  <1>1. Typed(s) /\ Moves(at, s, i, at2) /\ c = Cycle(s, i, b) /\ Shape(s)
    BY TypedShape DEF Clock
  <1>2. at.state = "run" /\ at.doing = "out" /\ at.k \in DOMAIN Commands
    BY DEF Sending, Runs
  <1>3. CASE at.step \in {"count", "push"} /\ Stands(s, "DOUT")
    <2>1. /\ i.dma = "none" /\ i.io_ack \in BOOLEAN
          /\ (i.op = "none" /\ Stays(at, s, at2)) \/ Accesses(at, s, i, at2)
      BY <1>1, <1>3, MoveKinds DEF Steps
    <2>2. Plain(i)
      BY <1>3, <2>1 DEF Accesses, Asks, Plain
    <2>3. Steady(s, i, c)
      BY <1>1, <1>3, <2>1, <2>2, QuietSteady DEF Stands
    <2>4. Stands(c, "DOUT") /\ Paced(s, i, c)
      BY <1>3, <2>3, StandsStill DEF Steady, Paced
    <2>5. Sending(at2, c)
      BY <1>2, <1>3, <2>1, <2>4 DEF Sending, Runs, Stays, Stay, Accesses, Goes
    <2> QED
      BY <2>4, <2>5 DEF Follows, Agree
  <1>4. CASE at.step = "transfer" /\ Stands(s, "DOUT")
    <2>1. /\ i.dma = "none" /\ i.io_ack \in BOOLEAN /\ Quiet(s)
          /\ (i.op = "none" /\ Stays(at, s, at2)) \/ Accesses(at, s, i, at2)
      BY <1>1, <1>4, MoveKinds DEF Steps, Stands
    <2>2. CASE i.op = "none" /\ Stays(at, s, at2)
      <3>1. Steady(s, i, c) /\ Paced(s, i, c)
        BY <1>1, <2>1, <2>2, QuietWaits
      <3>2. Stands(c, "DOUT")
        BY <1>4, <3>1, StandsStill
      <3>3. Sending(at2, c)
        BY <1>2, <1>4, <2>2, <3>2 DEF Sending, Runs, Stays, Stay
      <3> QED
        BY <3>1, <3>3 DEF Follows, Agree
    <2>3. CASE Accesses(at, s, i, at2)
      <3>1. Commanded(s, i, "TI") /\ i.dmabit \in BOOLEAN
        BY <1>1, <1>4, <2>1, <2>3 DEF Accesses, Asks, Ask, Commanded
      <3>2. at2.state = "run" /\ at2.doing = "out" /\ at2.k = at.k /\ at2.step \in {"beat", "irq"}
        BY <1>2, <1>4, <2>3 DEF Accesses, Goes
      <3>3. AfterWrite(s, i, c)
        BY <1>1, <1>4, <3>1, QuietWriteDma, QuietWriteBytes DEF Stands
      <3>4. Sending(at2, c)
        BY <1>2, <1>4, <3>2, <3>3 DEF AfterWrite, Sending, Runs, Stands, Calm, Holds
      <3> QED
        BY <3>3, <3>4 DEF Follows, Agree, AfterWrite, Paced
    <2> QED
      BY <2>1, <2>2, <2>3
  <1>5. CASE at.step \in {"beat", "irq"} /\ Writing(s) /\ Calm(s)
    <2>1. /\ i.op = "none" /\ i.io_ack \in BOOLEAN
          /\ Stays(at, s, at2) \/ Advances(at, at2) \/ Serves(at, s, at2)
      BY <1>1, <1>5, MoveKinds
    <2>2. at2.state = "run" /\ at2.doing = "out" /\ at2.k = at.k /\ at2.step \in {"beat", "irq"}
      BY <1>2, <1>5, <2>1 DEF Stays, Stay, Advances, Serves, Calm
    <2>3. WriteStep(s, i, c)
      BY <1>1, <1>5, <2>1, WritingWait
    <2>4. CASE Writing(c) /\ Holds(s, c)
      <3>1. Sending(at2, c)
        BY <1>2, <1>5, <2>2, <2>4 DEF Sending, Runs, Calm, Holds
      <3> QED
        BY <2>3, <3>1 DEF Follows, Agree, Paced, WriteStep
    <2>5. CASE Quiet(c) /\ c.phase \in {"DOUT", "STAT"} /\ Rings(s, c, {"BUS"})
      <3>1. c.irq = TRUE /\ "DISC" \notin c.istatus
        BY <1>5, <2>5 DEF Rings, Calm
      <3>2. Sending(at2, c)
        BY <1>2, <2>2, <2>5, <3>1 DEF Sending, Runs, Told
      <3> QED
        BY <2>3, <3>2 DEF Follows, Agree, Paced, WriteStep
    <2> QED
      BY <2>3, <2>4, <2>5 DEF WriteStep
  <1>6. CASE /\ at.step \in {"beat", "irq", "stat", "isr", "end"} /\ Told(at, s)
             /\ Quiet(s) /\ s.phase \in {"DOUT", "STAT"}
    <2>1. Paced(s, i, c) /\ (Retold(at, s, c, at2) \/ Agree(at2, c))
      BY <1>2, <1>6, QuietTold
    <2>2. CASE Retold(at, s, c, at2)
      <3>1. Sending(at2, c)
        BY <1>2, <1>6, <2>2 DEF Retold, Sending, Runs, Told
      <3> QED
        BY <2>1, <3>1 DEF Follows, Agree
    <2> QED
      BY <2>1, <2>2 DEF Follows
  <1> QED
    BY <1>3, <1>4, <1>5, <1>6 DEF Sending

\* The end of a command.
LEMMA FromEnding ==
    ASSUME NEW at, NEW s, NEW i, NEW b, NEW c, NEW at2, Clock(at, s, i, b, c, at2), Ending(at, s)
    PROVE  Follows(s, i, c, at2)
  <1>1. Typed(s) /\ Moves(at, s, i, at2) /\ c = Cycle(s, i, b) /\ Shape(s)
    BY TypedShape DEF Clock
  <1>2. at.state = "finish" /\ at.doing = "status" /\ at.k \in DOMAIN Commands /\ Quiet(s)
    BY DEF Ending, Stands
  <1>3. at.step \in {"iccs", "irq", "stat", "isr", "fetch", "message", "accept"} /\ at.step \in Steps
    BY DEF Ending, Steps
  <1>4. /\ i.dma = "none" /\ i.io_ack \in BOOLEAN
        /\ at.step = "irq" => i.op = "none" /\ (Stays(at, s, at2) \/ Serves(at, s, at2))
        /\ at.step # "irq" => (i.op = "none" /\ Stays(at, s, at2)) \/ Accesses(at, s, i, at2)
    BY <1>1, <1>3, MoveKinds
  <1>5. CASE i.op = "none"
    <2>1. Steady(s, i, c) /\ Holds(s, c) /\ Paced(s, i, c)
      BY <1>1, <1>2, <1>4, <1>5, QuietWaits
    <2>2. Stays(at, s, at2) \/ Serves(at, s, at2)
      BY <1>3, <1>4, <1>5 DEF Accesses, Asks, Ask
    <2>3. Ending(at2, c)
      BY <1>2, <2>1, <2>2 DEF Ending, Steady, Holds, Calm, Stands, Stays, Serves, Stay
    <2> QED
      BY <2>1, <2>3 DEF Follows, Agree
  <1>6. CASE at.step = "iccs" /\ Accesses(at, s, i, at2)
    <2>1. Commanded(s, i, "ICCS") /\ s.phase = "STAT"
      BY <1>1, <1>2, <1>4, <1>6 DEF Accesses, Asks, Ask, Commanded, Ending, Stands
    <2>2. AfterConclude(s, i, c)
      BY <1>1, <2>1, QuietConclude
    <2>3. Ending(at2, c)
      BY <1>2, <1>6, <2>2 DEF AfterConclude, Ending, Accesses, Goes, Rings
    <2> QED
      BY <2>2, <2>3 DEF Follows, Agree, AfterConclude, Paced
  <1>7. CASE at.step \in {"stat", "isr", "fetch", "message"} /\ Accesses(at, s, i, at2)
    <2>1. Plain(i) /\ (ReadsIsr(i) <=> at.step = "isr")
      BY <1>7 DEF Accesses, Asks, Plain, ReadsIsr
    <2>2. Steady(s, i, c)
      BY <1>1, <1>2, <1>4, <2>1, QuietSteady
    <2>3. s.phase = "MIN" /\ s.msgin_reject = FALSE
      BY <1>7 DEF Ending, Stands
    <2>4. /\ Quiet(c) /\ c.phase = "MIN" /\ c.msgin_reject = FALSE /\ Paced(s, i, c)
          /\ IF at.step = "isr" THEN Calm(c) ELSE Holds(s, c)
      BY <2>1, <2>2, <2>3 DEF Steady, Paced
    <2>5. Ending(at2, c)
      BY <1>2, <1>7, <2>4 DEF Ending, Accesses, Goes, Stands, Calm, Holds
    <2> QED
      BY <2>4, <2>5 DEF Follows, Agree
  <1>8. CASE at.step = "accept" /\ Accesses(at, s, i, at2)
    <2>1. Commanded(s, i, "MSGACC") /\ s.phase = "MIN" /\ ~s.msgin_reject
      BY <1>1, <1>2, <1>4, <1>8 DEF Accesses, Asks, Ask, Commanded, Ending, Stands
    <2>2. AfterPart(s, i, c)
      BY <1>1, <2>1, QuietPart
    <2>3. Parting(at2, c)
      BY <1>2, <1>8, <2>2 DEF AfterPart, Parting, Accesses, Goes, Rings
    <2> QED
      BY <2>2, <2>3 DEF Follows, Agree, AfterPart, Paced
  <1> QED
    BY <1>3, <1>4, <1>5, <1>6, <1>7, <1>8

LEMMA FromParting ==
    ASSUME NEW at, NEW s, NEW i, NEW b, NEW c, NEW at2, Clock(at, s, i, b, c, at2), Parting(at, s)
    PROVE  Follows(s, i, c, at2)
  <1>1. Typed(s) /\ Moves(at, s, i, at2) /\ c = Cycle(s, i, b) /\ Shape(s)
    BY TypedShape DEF Clock
  <1>2. /\ at.state = "finish" /\ at.doing = "accept" /\ at.k \in DOMAIN Commands /\ Quiet(s)
        /\ s.phase = "DOUT" /\ at.step \in {"irq", "stat", "isr", "end"} /\ at.step \in Steps
    BY DEF Parting, Stands, Steps
  <1>3. /\ i.dma = "none" /\ i.io_ack \in BOOLEAN
        /\ at.step = "irq" => i.op = "none" /\ (Stays(at, s, at2) \/ Serves(at, s, at2))
        /\ at.step = "end" => i.op = "none" /\ (Stays(at, s, at2) \/ Finishes(at, at2))
        /\ at.step \in {"stat", "isr"} => \/ i.op = "none" /\ Stays(at, s, at2)
                                          \/ Accesses(at, s, i, at2)
    BY <1>1, <1>2, MoveKinds
  <1>4. CASE i.op = "none"
    <2>1. Steady(s, i, c) /\ Holds(s, c) /\ Paced(s, i, c)
      BY <1>1, <1>2, <1>3, <1>4, QuietWaits
    <2>2. \/ Stays(at, s, at2) \/ Serves(at, s, at2)
          \/ at.step = "end" /\ Finishes(at, at2)
      BY <1>2, <1>3, <1>4 DEF Accesses, Asks
    <2>3. CASE Stays(at, s, at2) \/ Serves(at, s, at2)
      <3>1. Parting(at2, c)
        BY <1>2, <2>1, <2>3 DEF Parting, Steady, Holds, Calm, Stands, Stays, Serves, Stay
      <3> QED
        BY <2>1, <3>1 DEF Follows, Agree
    <2>4. CASE at.step = "end" /\ Finishes(at, at2)
      <3>1. Resting(at2, c)
        BY <2>1, <2>4 DEF Parting, Resting, Steady, Holds, Calm, Stands, Finishes
      <3> QED
        BY <2>1, <3>1 DEF Follows, Agree
    <2> QED
      BY <2>2, <2>3, <2>4
  <1>5. CASE at.step \in {"stat", "isr"} /\ Accesses(at, s, i, at2)
    <2>1. Plain(i) /\ (ReadsIsr(i) <=> at.step = "isr")
      BY <1>5 DEF Accesses, Asks, Plain, ReadsIsr
    <2>2. Steady(s, i, c)
      BY <1>1, <1>2, <1>3, <2>1, QuietSteady
    <2>3. /\ Quiet(c) /\ c.phase = "DOUT" /\ Paced(s, i, c)
          /\ IF at.step = "isr" THEN Calm(c) ELSE Holds(s, c)
      BY <1>2, <2>1, <2>2 DEF Steady, Paced
    <2>4. Parting(at2, c)
      BY <1>2, <1>5, <2>3 DEF Parting, Accesses, Goes, Stands, Calm, Holds
    <2> QED
      BY <2>3, <2>4 DEF Follows, Agree
  <1> QED
    BY <1>2, <1>3, <1>4, <1>5

\* The negotiation is turned down.
LEMMA FromRefused ==
    ASSUME NEW at, NEW s, NEW i, NEW b, NEW c, NEW at2, Clock(at, s, i, b, c, at2), Refused(at, s)
    PROVE  Follows(s, i, c, at2)
  <1>1. Typed(s) /\ Moves(at, s, i, at2) /\ c = Cycle(s, i, b) /\ Shape(s)
    BY TypedShape DEF Clock
  <1>2. /\ at.state = "run" /\ at.doing = "message_in" /\ at.k \in DOMAIN Commands /\ Quiet(s)
        /\ s.phase = "MIN" /\ s.msgin_reject = TRUE
    BY DEF Refused, Runs, Stands
  <1>3. at.step \in {"transfer", "irq", "stat", "isr", "fetch", "accept"} /\ at.step \in Steps
    BY DEF Refused, Steps
  <1>4. /\ i.dma = "none" /\ i.io_ack \in BOOLEAN
        /\ at.step = "irq" => i.op = "none" /\ (Stays(at, s, at2) \/ Serves(at, s, at2))
        /\ at.step # "irq" => (i.op = "none" /\ Stays(at, s, at2)) \/ Accesses(at, s, i, at2)
    BY <1>1, <1>3, MoveKinds
  <1>5. CASE i.op = "none"
    <2>1. Steady(s, i, c) /\ Holds(s, c) /\ Paced(s, i, c)
      BY <1>1, <1>2, <1>4, <1>5, QuietWaits
    <2>2. Stays(at, s, at2) \/ Serves(at, s, at2)
      BY <1>3, <1>4, <1>5 DEF Accesses, Asks, Ask
    <2>3. Refused(at2, c)
      BY <1>2, <2>1, <2>2 DEF Refused, Runs, Steady, Holds, Calm, Stands, Stays, Serves, Stay
    <2> QED
      BY <2>1, <2>3 DEF Follows, Agree
  <1>6. CASE at.step = "transfer" /\ Accesses(at, s, i, at2)
    <2>1. Commanded(s, i, "TI") /\ Calm(s) /\ at.left = 0
      BY <1>1, <1>2, <1>4, <1>6 DEF Accesses, Asks, Ask, Commanded, Refused, Stands
    <2>2. AfterByte(s, i, c, {"FC"})
      BY <1>1, <1>2, <2>1, QuietByte
    <2>3. Refused(at2, c)
      BY <1>2, <1>6, <2>1, <2>2 DEF AfterByte, Refused, Runs, Accesses, Goes, Rings, Calm
    <2> QED
      BY <2>2, <2>3 DEF Follows, Agree, AfterByte, Paced
  <1>7. CASE at.step \in {"stat", "isr", "fetch"} /\ Accesses(at, s, i, at2)
    <2>1. Plain(i) /\ (ReadsIsr(i) <=> at.step = "isr")
      BY <1>7 DEF Accesses, Asks, Plain, ReadsIsr
    <2>2. Steady(s, i, c)
      BY <1>1, <1>2, <1>4, <2>1, QuietSteady
    <2>3. /\ Quiet(c) /\ c.phase = "MIN" /\ c.msgin_reject = TRUE /\ Paced(s, i, c)
          /\ IF at.step = "isr" THEN Calm(c) ELSE Holds(s, c)
      BY <1>2, <2>1, <2>2 DEF Steady, Paced
    <2>4. Refused(at2, c)
      BY <1>2, <1>7, <2>3 DEF Refused, Runs, Accesses, Goes, Stands, Calm, Holds
    <2> QED
      BY <2>3, <2>4 DEF Follows, Agree
  <1>8. CASE at.step = "accept" /\ Accesses(at, s, i, at2)
    <2>1. Commanded(s, i, "MSGACC") /\ Calm(s)
      BY <1>1, <1>2, <1>4, <1>8 DEF Accesses, Asks, Ask, Commanded, Refused, Stands
    <2>2. AfterResume(s, i, c)
      BY <1>1, <1>2, <2>1, QuietResume
    <2>3. Resuming(at2, c)
      BY <1>2, <1>8, <2>1, <2>2 DEF AfterResume, Resuming, Runs, Told, Accesses, Goes, Rings, Calm
    <2> QED
      BY <2>2, <2>3 DEF Follows, Agree, AfterResume, Paced
  <1> QED
    BY <1>3, <1>4, <1>5, <1>6, <1>7, <1>8

\* The command phase without a byte waits for the driver, who learns of it.
RetoldFresh(at, s, c, at2) ==
    /\ Told(at2, c) /\ at2.state = at.state /\ at2.doing = at.doing /\ at2.k = at.k
    /\ at2.step \in {"irq", "stat", "isr", "end"} /\ Fresh(c)

LEMMA FreshTold ==
    ASSUME NEW at, NEW s, NEW i, NEW b, NEW c, NEW at2, Clock(at, s, i, b, c, at2), Told(at, s),
           at.state = "run", at.k \in DOMAIN Commands, at.doing \in {"message_out", "accept"},
           at.step \in {"irq", "stat", "isr", "end"}, Fresh(s)
    PROVE  Paced(s, i, c) /\ (RetoldFresh(at, s, c, at2) \/ Agree(at2, c))
  <1>1. Typed(s) /\ Moves(at, s, i, at2) /\ c = Cycle(s, i, b) /\ at.step \in Steps
    BY DEF Clock, Steps
  <1>2. i.io_ack \in BOOLEAN /\ i.dma = "none"
    BY <1>1, MoveKinds
  <1>3. i.op = "none" \/ (i.op = "read" /\ i.rs # "FIFO")
    <2>1. CASE at.step \in {"stat", "isr"}
      <3>1. i.op = "none" \/ Accesses(at, s, i, at2)
        BY <1>1, <2>1, MoveKinds
      <3> QED
        BY <2>1, <3>1 DEF Accesses, Asks
    <2>2. CASE at.step \in {"irq", "end"}
      <3>1. at.step \in {"irq", "end", "beat", "last"} => i.op = "none"
        BY <1>1, MoveKinds
      <3> QED
        BY <2>2, <3>1
    <2> QED
      BY <2>1, <2>2
  <1>4. /\ Fresh(c) /\ c.phase = s.phase /\ Paced(s, i, c)
        /\ IF ReadsIsr(i) THEN Calm(c) ELSE Holds(s, c)
    BY <1>1, <1>2, <1>3, FreshWaits
  <1>5. CASE at.step = "end" /\ Decides(at, at2)
    <2>1. i.op = "none"
      BY <1>1, <1>5, MoveKinds
    <2>2. Calm(c) /\ at.phase = "CMD" /\ "DISC" \notin at.isr
      BY <1>4, <1>5, <2>1 DEF Told, Calm, Holds, ReadsIsr, Fresh, Collecting
    <2>3. Ordering(at2, c)
      BY <1>4, <1>5, <2>2 DEF Decides, Turns, Ordering, Runs
    <2> QED
      BY <1>4, <2>3 DEF Agree
  <1>6. CASE ~(at.step = "end" /\ Decides(at, at2))
    <2>1. /\ Told(at2, c) /\ at2.state = at.state /\ at2.doing = at.doing /\ at2.k = at.k
          /\ at2.step = "fetch" => at.doing = "in"
          /\ at2.step = "beat" => at.step = "beat"
      BY <1>1, <1>4, <1>6, ToldMoves
    <2> QED
      BY <1>4, <2>1 DEF RetoldFresh, Told
  <1> QED
    BY <1>5, <1>6

LEMMA FromResuming ==
    ASSUME NEW at, NEW s, NEW i, NEW b, NEW c, NEW at2, Clock(at, s, i, b, c, at2), Resuming(at, s)
    PROVE  Follows(s, i, c, at2)
  <1>1. /\ at.state = "run" /\ at.doing = "accept" /\ at.k \in DOMAIN Commands
        /\ at.step \in {"irq", "stat", "isr", "end"} /\ Told(at, s) /\ Fresh(s)
    BY DEF Resuming, Runs
  <1>2. Paced(s, i, c) /\ (RetoldFresh(at, s, c, at2) \/ Agree(at2, c))
    BY <1>1, FreshTold
  <1>3. RetoldFresh(at, s, c, at2) => Resuming(at2, c)
    BY <1>1 DEF RetoldFresh, Resuming, Runs
  <1> QED
    BY <1>2, <1>3 DEF Follows, Agree

LEMMA FromProposing ==
    ASSUME NEW at, NEW s, NEW i, NEW b, NEW c, NEW at2, Clock(at, s, i, b, c, at2), Proposing(at, s)
    PROVE  Follows(s, i, c, at2)
  <1>1. Typed(s) /\ Moves(at, s, i, at2) /\ c = Cycle(s, i, b) /\ Shape(s)
    BY TypedShape DEF Clock
  <1>2. at.state = "run" /\ at.doing = "message_out" /\ at.k \in DOMAIN Commands
    BY DEF Proposing, Runs
  <1>3. CASE /\ Stands(s, "MOUT")
             /\ \/ at.step \in {"flush", "push"} /\ at.left = 1
                \/ at.step = "transfer" /\ at.left = 0
    <2>1. /\ i.dma = "none" /\ i.io_ack \in BOOLEAN /\ Quiet(s)
          /\ (i.op = "none" /\ Stays(at, s, at2)) \/ Accesses(at, s, i, at2)
      BY <1>1, <1>3, MoveKinds DEF Steps, Stands
    <2>2. CASE i.op = "none" /\ Stays(at, s, at2)
      <3>1. Steady(s, i, c) /\ Paced(s, i, c)
        BY <1>1, <2>1, <2>2, QuietWaits
      <3>2. Stands(c, "MOUT")
        BY <1>3, <3>1, StandsStill
      <3>3. Proposing(at2, c)
        BY <1>2, <1>3, <2>2, <3>2 DEF Proposing, Runs, Stays, Stay
      <3> QED
        BY <3>1, <3>3 DEF Follows, Agree
    <2>3. CASE at.step = "flush" /\ Accesses(at, s, i, at2)
      <3>1. Commanded(s, i, "FLUSH")
        BY <1>1, <2>1, <2>3 DEF Accesses, Asks, Ask, Commanded
      <3>2. AfterFlush(s, i, c)
        BY <1>1, <3>1, QuietFlush
      <3>3. Stands(c, "MOUT") /\ Paced(s, i, c)
        BY <1>3, <3>2 DEF AfterFlush, Stands, Holds, Calm, Paced
      <3>4. Proposing(at2, c)
        BY <1>2, <1>3, <2>3, <3>3 DEF Proposing, Runs, Accesses, Goes
      <3> QED
        BY <3>3, <3>4 DEF Follows, Agree
    <2>4. CASE at.step = "push" /\ Accesses(at, s, i, at2)
      <3>1. Plain(i)
        BY <2>4 DEF Accesses, Asks, Plain
      <3>2. Steady(s, i, c)
        BY <1>1, <2>1, <3>1, QuietSteady
      <3>3. Stands(c, "MOUT") /\ Paced(s, i, c)
        BY <1>3, <3>2, StandsStill DEF Steady, Paced
      <3>4. Proposing(at2, c)
        BY <1>2, <1>3, <2>4, <3>3 DEF Proposing, Runs, Accesses, Goes
      <3> QED
        BY <3>3, <3>4 DEF Follows, Agree
    <2>5. CASE at.step = "transfer" /\ Accesses(at, s, i, at2)
      <3>1. Commanded(s, i, "TI") /\ s.phase = "MOUT"
        BY <1>1, <1>3, <2>1, <2>5 DEF Accesses, Asks, Ask, Commanded, Stands
      <3>2. AfterSend(s, i, c)
        BY <1>1, <3>1, QuietSend
      <3>3. Proposing(at2, c)
        BY <1>2, <1>3, <2>5, <3>2 DEF Proposing, Runs, Accesses, Goes, AfterSend, Stands, Holds, Calm
      <3> QED
        BY <3>2, <3>3 DEF Follows, Agree, AfterSend, Paced
    <2> QED
      BY <1>3, <2>1, <2>2, <2>3, <2>4, <2>5
  <1>4. CASE at.step = "irq" /\ Messaging(s) /\ Calm(s)
    <2>1. /\ i.op = "none" /\ i.dma = "none" /\ i.io_ack \in BOOLEAN
          /\ Stays(at, s, at2) \/ Serves(at, s, at2)
      BY <1>1, <1>4, MoveKinds
    <2>2. at2.state = "run" /\ at2.doing = "message_out" /\ at2.k = at.k /\ at2.step = "irq"
      BY <1>2, <1>4, <2>1 DEF Stays, Stay, Serves, Calm
    <2>3. MessageStep(s, i, c)
      BY <1>1, <1>4, <2>1, MessagingWait
    <2>4. Proposing(at2, c)
      <3>1. CASE Messaging(c) /\ Holds(s, c)
        BY <1>2, <1>4, <2>2, <3>1 DEF Proposing, Runs, Calm, Holds
      <3>2. CASE /\ Quiet(c) /\ c.phase = "MIN" /\ c.msgin_reject = TRUE /\ Rings(s, c, {"BUS"})
        BY <1>2, <1>4, <2>2, <3>2 DEF Proposing, Runs, Told, Rings, Calm
      <3>3. CASE Fresh(c) /\ Rings(s, c, {"BUS"})
        BY <1>2, <1>4, <2>2, <3>3 DEF Proposing, Runs, Told, Rings, Calm
      <3> QED
        BY <2>3, <3>1, <3>2, <3>3 DEF MessageStep
    <2> QED
      BY <2>3, <2>4 DEF Follows, Agree, Paced, MessageStep
  <1>5. CASE /\ at.step \in {"irq", "stat", "isr", "end"} /\ Told(at, s)
             /\ Quiet(s) /\ s.phase = "MIN" /\ s.msgin_reject = TRUE
    <2>1. Paced(s, i, c) /\ (Retold(at, s, c, at2) \/ Agree(at2, c))
      BY <1>2, <1>5, QuietTold
    <2>2. Retold(at, s, c, at2) => Proposing(at2, c)
      BY <1>2, <1>5 DEF Retold, Proposing, Runs, Told
    <2> QED
      BY <2>1, <2>2 DEF Follows, Agree
  <1>6. CASE at.step \in {"irq", "stat", "isr", "end"} /\ Told(at, s) /\ Fresh(s)
    <2>1. Paced(s, i, c) /\ (RetoldFresh(at, s, c, at2) \/ Agree(at2, c))
      BY <1>2, <1>6, FreshTold
    <2>2. RetoldFresh(at, s, c, at2) => Proposing(at2, c)
      BY <1>2 DEF RetoldFresh, Proposing, Runs
    <2> QED
      BY <2>1, <2>2 DEF Follows, Agree
  <1> QED
    BY <1>3, <1>4, <1>5, <1>6 DEF Proposing

\* Sums of lengths.
LEMMA Balance ==
    ASSUME NEW p \in Nat, NEW q \in Nat, NEW x, NEW y, x = p + 1, y = q - 1
    PROVE  x + y = p + q
  OBVIOUS

LEMMA Short ==
    ASSUME NEW p \in Nat, NEW q \in Nat, NEW m \in Nat, NEW l \in Nat, p + q = m, m < l
    PROVE  p # l
  OBVIOUS

LEMMA Alone ==
    ASSUME NEW q \in Nat, NEW y, q <= 1, q # 0, y = q - 1
    PROVE  y = 0
  OBVIOUS

\* The target works on the CDB it was sent, or has executed it.
Answers(c) ==
    /\ Quiet(c) /\ c.phase \in {"STAT", "DIN", "DOUT"} /\ c.irq = TRUE /\ "DISC" \notin c.istatus

LEMMA CdbWorks ==
    ASSUME NEW k \in DOMAIN Commands, NEW s, NEW i, NEW b, NEW c, Typed(s), i.io_ack \in BOOLEAN,
           i.op = "none", i.dma = "none", c = Cycle(s, i, b), CdbWork(k, s)
    PROVE  Paced(s, i, c) /\ (CdbWork(k, c) \/ Answers(c))
  <1>1. Shape(s) /\ ~ReadsIsr(i) /\ ~fifo_ext(i) /\ Calm(s)
    BY TypedShape DEF ReadsIsr, fifo_ext, CdbWork
  <1>2. LengthOf(k) \in Nat
    BY LengthRange
  <1>3. ASSUME Collecting(s)
        PROVE  /\ CmdStep(s, i, c) /\ CdbStep(s, i, c) /\ Calm(c) /\ Paced(s, i, c)
               /\ Collecting(c) \/ (Executing(c) /\ s.cdb # <<>> /\ Len(s.cdb) = opcode(s).len)
    <2>1. CmdStep(s, i, c) /\ CdbStep(s, i, c) /\ Holds(s, c)
      BY <1>1, <1>3, CollectingWait
    <2> QED
      BY <1>1, <2>1 DEF CmdStep, Holds, Calm, Paced
  <1>4. CASE Collecting(s) /\ Sent(k, s) /\ Len(s.cdb) + Len(s.fifo) <= LengthOf(k)
    <2>1. /\ Len(s.cdb) \in Nat /\ Len(s.fifo) \in Nat
          /\ s.fifo = <<>> <=> Len(s.fifo) = 0
      BY <1>4, SentTyped
    <2>2. \/ c.fifo = s.fifo /\ c.cdb = s.cdb /\ c.skip_cnt = s.skip_cnt
          \/ s.fifo # <<>> /\ c.fifo = Tail(s.fifo) /\ Takes(s, c, Head(s.fifo))
      BY <1>3, <1>4 DEF CdbStep
    <2>3. CASE Collecting(c)
      <3>1. Sent(k, c) /\ Len(c.cdb) + Len(c.fifo) = Len(s.cdb) + Len(s.fifo)
        <4>1. CASE c.fifo = s.fifo /\ c.cdb = s.cdb /\ c.skip_cnt = s.skip_cnt
          BY <1>4, <4>1, SentSame
        <4>2. CASE s.fifo # <<>> /\ c.fifo = Tail(s.fifo) /\ Takes(s, c, Head(s.fifo))
          <5>1. Sent(k, c) /\ Len(c.cdb) = Len(s.cdb) + 1 /\ Len(c.fifo) = Len(s.fifo) - 1
            BY <1>4, <4>2, SentShift
          <5>2. PICK p \in Nat, q \in Nat : p = Len(s.cdb) /\ q = Len(s.fifo)
            BY <2>1
          <5>6. PICK x, y : x = Len(c.cdb) /\ y = Len(c.fifo)
            OBVIOUS
          <5>7. x = p + 1 /\ y = q - 1
            BY <5>1, <5>2, <5>6
          <5>3. x + y = p + q
            BY <5>7, Balance
          <5> QED
            BY <5>1, <5>2, <5>3, <5>6
        <4> QED
          BY <2>2, <4>1, <4>2
      <3> QED
        BY <1>3, <1>4, <2>3, <3>1 DEF CdbWork
    <2>4. CASE Executing(c) /\ s.cdb # <<>> /\ Len(s.cdb) = opcode(s).len
      <3>1. Len(s.cdb) = LengthOf(k)
        BY <1>4, <2>4, SentOpcode
      <3>2. s.fifo = <<>>
        BY <1>2, <1>4, <2>1, <3>1
      <3>3. Sent(k, c) /\ Len(c.cdb) = Len(s.cdb)
        BY <1>4, <2>2, <3>2, SentSame
      <3> QED
        BY <1>3, <1>4, <2>4, <3>1, <3>3 DEF CdbWork, Whole
    <2> QED
      BY <1>3, <1>4, <2>3, <2>4
  <1>5. CASE Collecting(s) /\ s.skip_cnt = 1 /\ s.cdb = <<>> /\ Loaded(k, s.fifo, LengthOf(k) + 1)
    <2>1. s.fifo # <<>>
      BY <1>2, <1>5 DEF Loaded
    <2>2. Collecting(c) /\ c.fifo = Tail(s.fifo) /\ Takes(s, c, Head(s.fifo))
      BY <1>1, <1>3, <1>5, <2>1 DEF CdbStep
    <2>3. Sent(k, c) /\ Len(c.cdb) = 0 /\ Len(c.fifo) = LengthOf(k)
      BY <1>5, <2>2, SentSkip
    <2> QED
      BY <1>2, <1>3, <1>5, <2>2, <2>3 DEF CdbWork
  <1>6. CASE Executing(s)
    <2>1. AfterExec(s, i, c)
      BY <1>1, <1>6, ExecutingWait
    <2>2. Answers(c)
      BY <1>1, <2>1 DEF AfterExec, Answers, Rings, Calm
    <2> QED
      BY <1>6, <2>1, <2>2 DEF AfterExec, Executing, Paced
  <1> QED
    BY <1>4, <1>5, <1>6 DEF CdbWork

LEMMA FromSelecting ==
    ASSUME NEW at, NEW s, NEW i, NEW b, NEW c, NEW at2, Clock(at, s, i, b, c, at2), Selecting(at, s)
    PROVE  Follows(s, i, c, at2)
  <1>1. Typed(s) /\ Moves(at, s, i, at2) /\ c = Cycle(s, i, b)
    BY DEF Clock
  <1>2. at.state = "run" /\ at.doing = "select" /\ at.k \in DOMAIN Commands
    BY DEF Selecting, Runs
  <1>3. CASE at.step = "irq" /\ CdbWork(at.k, s)
    <2>1. /\ i.op = "none" /\ i.dma = "none" /\ i.io_ack \in BOOLEAN
          /\ Stays(at, s, at2) \/ Serves(at, s, at2)
      BY <1>1, <1>3, MoveKinds
    <2>2. at2.state = "run" /\ at2.doing = "select" /\ at2.k = at.k /\ at2.step = "irq"
      BY <1>2, <1>3, <2>1 DEF Stays, Stay, Serves, CdbWork, Calm
    <2>3. Paced(s, i, c) /\ (CdbWork(at.k, c) \/ Answers(c))
      BY <1>1, <1>2, <1>3, <2>1, CdbWorks
    <2>4. Selecting(at2, c)
      BY <1>2, <2>2, <2>3 DEF Selecting, Runs, Told, Answers
    <2> QED
      BY <2>3, <2>4 DEF Follows, Agree
  <1>4. CASE /\ at.step \in {"irq", "stat", "isr", "end"} /\ Told(at, s)
             /\ Quiet(s) /\ s.phase \in {"DIN", "DOUT", "STAT", "MOUT"}
    <2>1. Paced(s, i, c) /\ (Retold(at, s, c, at2) \/ Agree(at2, c))
      BY <1>2, <1>4, QuietTold
    <2>2. Retold(at, s, c, at2) => Selecting(at2, c)
      BY <1>2, <1>4 DEF Retold, Selecting, Runs, Told
    <2> QED
      BY <2>1, <2>2 DEF Follows, Agree
  <1> QED
    BY <1>3, <1>4 DEF Selecting

\* A byte that waits in the FIFO is taken before the driver goes on.
Fed(k, s, m) ==
    Collecting(s) /\ Calm(s) /\ Sent(k, s) /\ Len(s.cdb) + Len(s.fifo) = m

FedStill(k, s, i, c, m) ==
    Fed(k, c, m) /\ Len(c.fifo) = 0 /\ c.dma_valid = FALSE /\ Paced(s, i, c)

LEMMA FeedWaits ==
    ASSUME NEW k \in DOMAIN Commands, NEW s, NEW i, NEW b, NEW c, NEW m \in Nat, Typed(s),
           i.io_ack \in BOOLEAN, i.op = "none", i.dma = "none", c = Cycle(s, i, b),
           Fed(k, s, m), m < LengthOf(k), Len(s.fifo) \in {0, 1}
    PROVE  FedStill(k, s, i, c, m)
  <1>1. Shape(s) /\ ~ReadsIsr(i) /\ ~fifo_ext(i) /\ Calm(s) /\ Collecting(s) /\ Sent(k, s)
        /\ LengthOf(k) \in Nat
    BY TypedShape, LengthRange DEF ReadsIsr, fifo_ext, Fed
  <1>2. CmdStep(s, i, c) /\ CdbStep(s, i, c) /\ Holds(s, c)
    BY <1>1, CollectingWait
  <1>3. /\ Len(s.cdb) \in Nat /\ Len(s.fifo) \in Nat /\ Len(s.cdb) + Len(s.fifo) = m
        /\ s.fifo = <<>> <=> Len(s.fifo) = 0
    BY <1>1, SentTyped DEF Fed
  <1>4. Collecting(c)
    <2>1. s.cdb # <<>> => opcode(s).len = LengthOf(k)
      BY <1>1, SentOpcode
    <2>2. Len(s.cdb) # LengthOf(k)
      BY <1>1, <1>3, Short
    <2> QED
      BY <1>2, <2>1, <2>2 DEF CmdStep
  <1>5. /\ c.dma_valid = FALSE
        /\ \/ s.fifo = <<>> /\ c.fifo = s.fifo /\ c.cdb = s.cdb /\ c.skip_cnt = s.skip_cnt
           \/ s.fifo # <<>> /\ c.fifo = Tail(s.fifo) /\ Takes(s, c, Head(s.fifo))
    BY <1>1, <1>2 DEF CdbStep
  <1>6. Sent(k, c) /\ Len(c.cdb) + Len(c.fifo) = m /\ Len(c.fifo) = 0
    <2>1. CASE s.fifo = <<>> /\ c.fifo = s.fifo /\ c.cdb = s.cdb /\ c.skip_cnt = s.skip_cnt
      <3>1. Sent(k, c) /\ Len(c.cdb) = Len(s.cdb) /\ Len(c.fifo) = Len(s.fifo)
        BY <1>1, <2>1, SentSame
      <3> QED
        BY <1>3, <2>1, <3>1
    <2>2. CASE s.fifo # <<>> /\ c.fifo = Tail(s.fifo) /\ Takes(s, c, Head(s.fifo))
      <3>1. Sent(k, c) /\ Len(c.cdb) = Len(s.cdb) + 1 /\ Len(c.fifo) = Len(s.fifo) - 1
        BY <1>1, <2>2, SentShift
      <3>2. PICK p \in Nat, q \in Nat : p = Len(s.cdb) /\ q = Len(s.fifo)
        BY <1>3
      <3>6. PICK x, y : x = Len(c.cdb) /\ y = Len(c.fifo)
        OBVIOUS
      <3>7. x = p + 1 /\ y = q - 1
        BY <3>1, <3>2, <3>6
      <3>4. x + y = p + q
        BY <3>7, Balance
      <3>3. Len(c.fifo) = 0
        BY <1>3, <2>2, <3>1, Alone
      <3> QED
        BY <1>3, <3>1, <3>2, <3>3, <3>4, <3>6
    <2> QED
      BY <1>5, <2>1, <2>2
  <1> QED
    BY <1>1, <1>2, <1>4, <1>5, <1>6 DEF Fed, FedStill, CmdStep, Holds, Calm, Paced

\* A byte is pushed, the FIFO empty.
LEMMA FeedPushes ==
    ASSUME NEW k \in DOMAIN Commands, NEW s, NEW i, NEW b, NEW c, NEW m \in Nat, Typed(s),
           i.io_ack \in BOOLEAN, i.dma = "none", c = Cycle(s, i, b), i.op = "write", i.rs = "FIFO",
           i.val = <<"cmd", k, m>>, Fed(k, s, m), m < LengthOf(k), Len(s.fifo) = 0
    PROVE  Fed(k, c, m + 1) /\ Len(c.fifo) = 1 /\ c.dma_valid = FALSE /\ Paced(s, i, c)
  <1>1. Shape(s) /\ Calm(s) /\ Collecting(s) /\ Sent(k, s) /\ LengthOf(k) \in Nat /\ FIFO \in Nat /\ FIFO > 0
    BY TypedShape, LengthRange DEF Fed
  <1>2. /\ Len(s.cdb) \in Nat /\ Len(s.cdb) = m /\ s.fifo = <<>>
    BY <1>1, SentTyped DEF Fed
  <1>3. Feeds(i)
    BY DEF Feeds
  <1>4. CmdStep(s, i, c) /\ FedStep(s, i, c) /\ Holds(s, c)
    BY <1>1, <1>3, CollectingFeed
  <1>5. Collecting(c)
    <2>1. s.cdb # <<>> => opcode(s).len = LengthOf(k)
      BY <1>1, SentOpcode
    <2>2. Len(s.cdb) # LengthOf(k)
      BY <1>1, <1>2
    <2> QED
      BY <1>4, <2>1, <2>2 DEF CmdStep
  <1>6. /\ c.cdb = s.cdb /\ c.skip_cnt = s.skip_cnt /\ c.dma_valid = FALSE
        /\ c.fifo = Append(s.fifo, <<"cmd", k, Len(s.cdb)>>)
    BY <1>1, <1>2, <1>4 DEF FedStep
  <1>7. Sent(k, c) /\ Len(c.cdb) = Len(s.cdb) /\ Len(c.fifo) = 1
    <2>1. Puts(k, s, c)
      BY <1>2, <1>6 DEF Puts
    <2> QED
      BY <1>1, <2>1, SentPush
  <1> QED
    BY <1>1, <1>2, <1>4, <1>5, <1>6, <1>7 DEF Fed, CmdStep, Holds, Calm, Paced

\* The first byte is yet to come.
LEMMA FeedStarts ==
    ASSUME NEW k, NEW s, NEW i, NEW b, NEW c, Typed(s), i.io_ack \in BOOLEAN, i.dma = "none",
           i.op = "write", i.rs = "CMD", i.val \in {"FLUSH", "TI"}, Fresh(s), Calm(s),
           c = Cycle(s, i, b)
    PROVE  Fed(k, c, 0) /\ Len(c.fifo) = 0 /\ Paced(s, i, c)
  <1>1. Shape(s) /\ Collecting(s) /\ Feeds(i) /\ s.cdb = <<>> /\ s.fifo = <<>> /\ s.skip_cnt = 0
    BY TypedShape DEF Fresh, Feeds
  <1>2. CmdStep(s, i, c) /\ FedStep(s, i, c) /\ Holds(s, c)
    BY <1>1, CollectingFeed
  <1>3. Collecting(c) /\ Calm(c) /\ Paced(s, i, c)
    BY <1>1, <1>2 DEF CmdStep, Calm, Holds, Paced
  <1>4. c.cdb = <<>> /\ c.fifo = <<>> /\ c.skip_cnt = 0
    BY <1>1, <1>2 DEF FedStep
  <1>5. Sent(k, c) /\ Len(c.cdb) = 0 /\ Len(c.fifo) = 0
    BY <1>4, SentNone
  <1> QED
    BY <1>3, <1>5 DEF Fed

\* The driver at a push: it waits, or the next byte is in the FIFO.
FedOn(at, s, i, c, at2) ==
    /\ Paced(s, i, c) /\ c.dma_valid = FALSE
    /\ \/ i.op = "none" /\ Stays(at, s, at2) /\ Feeding(at2, c, LengthOf(at.k) - at.left)
       \/ Accesses(at, s, i, at2) /\ Feeding(at2, c, LengthOf(at.k) - at2.left)

LEMMA FeedByte ==
    ASSUME NEW at, NEW s, NEW i, NEW b, NEW c, NEW at2, Clock(at, s, i, b, c, at2),
           at.k \in DOMAIN Commands, at.doing \in {"select", "command"}, at.step = "push",
           at.left \in 1..LengthOf(at.k), Feeding(at, s, LengthOf(at.k) - at.left)
    PROVE  FedOn(at, s, i, c, at2)
  <1>1. Typed(s) /\ Moves(at, s, i, at2) /\ c = Cycle(s, i, b)
    BY DEF Clock
  <1>2. /\ i.dma = "none" /\ i.io_ack \in BOOLEAN /\ at.pushed \in BOOLEAN
        /\ \/ i.op = "none" /\ Stays(at, s, at2)
           \/ Accesses(at, s, i, at2) /\ at.pushed = FALSE
    <2>1. at.pushed \in BOOLEAN
      BY <1>1 DEF Moves
    <2> QED
      BY <1>1, <2>1, MoveKinds DEF Steps
  <1>3. PICK k : k = at.k
    OBVIOUS
  <1>4. PICK l : l = LengthOf(k) /\ l \in Nat /\ l >= 2
    BY <1>3, LengthRange
  <1>5. PICK m : m = l - at.left /\ m \in Nat /\ m < l /\ m + 1 = l - (at.left - 1)
    BY <1>3, <1>4
  <1>6. /\ k \in DOMAIN Commands /\ m < LengthOf(k) /\ Fed(k, s, m)
        /\ Len(s.fifo) = (IF at.pushed THEN 1 ELSE 0)
    BY <1>3, <1>4, <1>5 DEF Feeding, Fed
  <1>7. CASE i.op = "none" /\ Stays(at, s, at2)
    <2>1. FedStill(k, s, i, c, m)
      BY <1>1, <1>2, <1>5, <1>6, <1>7, FeedWaits
    <2>2. Fed(k, c, m) /\ Len(c.fifo) = 0 /\ c.dma_valid = FALSE /\ Paced(s, i, c)
      BY <2>1 DEF FedStill
    <2>3. at2.k = k /\ at2.pushed = FALSE
      BY <1>3, <1>7 DEF Stays, Stay
    <2>4. Feeding(at2, c, LengthOf(at.k) - at.left)
      BY <1>3, <1>4, <1>5, <2>2, <2>3 DEF Feeding, Fed
    <2> QED
      BY <1>7, <2>2, <2>4 DEF FedOn
  <1>8. CASE Accesses(at, s, i, at2) /\ at.pushed = FALSE
    <2>1. Len(s.fifo) = 0
      BY <1>6, <1>8
    <2>2. i.op = "write" /\ i.rs = "FIFO" /\ i.val = CdbByte(at.k, at.left)
      BY <1>8 DEF Accesses, Asks
    <2>3. i.val = <<"cmd", k, m>>
      BY <1>3, <1>4, <1>5, <2>2 DEF CdbByte
    <2>4. Fed(k, c, m + 1) /\ Len(c.fifo) = 1 /\ c.dma_valid = FALSE /\ Paced(s, i, c)
      BY <1>1, <1>2, <1>5, <1>6, <2>1, <2>2, <2>3, FeedPushes
    <2>5. at2.k = k /\ at2.pushed = TRUE /\ at2.left = at.left - 1
      BY <1>3, <1>8 DEF Accesses
    <2>6. Feeding(at2, c, LengthOf(at.k) - at2.left)
      BY <1>3, <1>4, <1>5, <2>4, <2>5 DEF Feeding, Fed
    <2> QED
      BY <1>8, <2>4, <2>6 DEF FedOn
  <1> QED
    BY <1>2, <1>7, <1>8

LEMMA FromOrdering ==
    ASSUME NEW at, NEW s, NEW i, NEW b, NEW c, NEW at2, Clock(at, s, i, b, c, at2), Ordering(at, s)
    PROVE  Follows(s, i, c, at2)
  <1>1. Typed(s) /\ Moves(at, s, i, at2) /\ c = Cycle(s, i, b)
    BY DEF Clock
  <1>2. at.state = "run" /\ at.doing = "command" /\ at.k \in DOMAIN Commands
    BY DEF Ordering, Runs
  <1>3. LengthOf(at.k) \in Nat /\ LengthOf(at.k) >= 2
    BY <1>2, LengthRange
  <1>4. CASE at.step = "flush" /\ at.left = LengthOf(at.k) /\ Fresh(s) /\ Calm(s)
    <2>1. /\ i.dma = "none" /\ i.io_ack \in BOOLEAN
          /\ (i.op = "none" /\ Stays(at, s, at2)) \/ Accesses(at, s, i, at2)
      BY <1>1, <1>4, MoveKinds DEF Steps
    <2>2. CASE i.op = "none" /\ Stays(at, s, at2)
      <3>1. Fresh(c) /\ Paced(s, i, c) /\ Holds(s, c)
        BY <1>1, <1>4, <2>1, <2>2, FreshWaits DEF ReadsIsr
      <3>2. Ordering(at2, c)
        BY <1>2, <1>4, <2>2, <3>1 DEF Ordering, Runs, Stays, Stay, Holds, Calm
      <3> QED
        BY <3>1, <3>2 DEF Follows, Agree
    <2>3. CASE Accesses(at, s, i, at2)
      <3>1. i.op = "write" /\ i.rs = "CMD" /\ i.val = "FLUSH"
        BY <1>4, <2>3 DEF Accesses, Asks, Ask
      <3>2. Fed(at.k, c, 0) /\ Len(c.fifo) = 0 /\ Paced(s, i, c)
        BY <1>1, <1>4, <2>1, <3>1, FeedStarts
      <3>3. /\ at2.state = "run" /\ at2.doing = "command" /\ at2.k = at.k /\ at2.step = "push"
            /\ at2.left = LengthOf(at.k) /\ at2.pushed = FALSE
        <4>1. /\ at2.state = "run" /\ at2.doing = "command" /\ at2.k = at.k /\ at2.step = "push"
              /\ at2.left = at.left - 0 /\ at2.pushed = FALSE
          BY <1>2, <1>4, <2>3 DEF Accesses, Goes
        <4>2. LengthOf(at.k) - 0 = LengthOf(at.k)
          BY <1>3
        <4> QED
          BY <1>4, <4>1, <4>2
      <3>4. LengthOf(at.k) - at2.left = 0 /\ at2.left \in 1..LengthOf(at.k)
        BY <1>3, <3>3
      <3>5. Feeding(at2, c, LengthOf(at.k) - at2.left)
        BY <3>2, <3>3, <3>4 DEF Feeding, Fed
      <3>6. Ordering(at2, c)
        BY <1>2, <3>3, <3>4, <3>5 DEF Ordering, Runs
      <3> QED
        BY <3>2, <3>6 DEF Follows, Agree
    <2> QED
      BY <2>1, <2>2, <2>3
  <1>5. CASE /\ at.step = "push" /\ at.left \in 1..LengthOf(at.k)
             /\ Feeding(at, s, LengthOf(at.k) - at.left)
    <2>1. FedOn(at, s, i, c, at2)
      BY <1>2, <1>5, FeedByte
    <2>2. CASE i.op = "none" /\ Stays(at, s, at2) /\ Feeding(at2, c, LengthOf(at.k) - at.left)
      <3>1. Ordering(at2, c)
        BY <1>2, <1>5, <2>2 DEF Ordering, Runs, Stays, Stay
      <3> QED
        BY <2>1, <3>1 DEF Follows, Agree, FedOn
    <2>3. CASE Accesses(at, s, i, at2) /\ Feeding(at2, c, LengthOf(at.k) - at2.left)
      <3>1. /\ at2.state = "run" /\ at2.doing = "command" /\ at2.k = at.k /\ at2.left = at.left - 1
            /\ at2.step = (IF at.left > 1 THEN "push" ELSE "irq")
        BY <1>2, <1>5, <2>3 DEF Accesses, Goes
      <3>2. CASE at.left > 1
        <4>1. at2.left \in 1..LengthOf(at.k) /\ at2.step = "push"
          BY <1>3, <1>5, <3>1, <3>2
        <4>2. Ordering(at2, c)
          BY <1>2, <2>3, <3>1, <4>1 DEF Ordering, Runs
        <4> QED
          BY <2>1, <4>2 DEF Follows, Agree, FedOn
      <3>3. CASE ~(at.left > 1)
        <4>1. at2.left = 0 /\ at2.step = "irq" /\ LengthOf(at.k) - at2.left = LengthOf(at.k)
          BY <1>3, <1>5, <3>1, <3>3
        <4>2. CdbWork(at.k, c)
          <5>1. /\ Collecting(c) /\ Calm(c) /\ Sent(at.k, c)
                /\ Len(c.cdb) + Len(c.fifo) = LengthOf(at.k)
            BY <2>3, <3>1, <4>1 DEF Feeding
          <5>2. PICK x : x = Len(c.cdb) + Len(c.fifo)
            OBVIOUS
          <5>4. x = LengthOf(at.k)
            BY <5>1, <5>2
          <5>5. PICK l \in Nat : l = LengthOf(at.k)
            BY <1>3
          <5>3. x <= LengthOf(at.k)
            BY <5>4, <5>5
          <5> QED
            BY <5>1, <5>2, <5>3 DEF CdbWork
        <4>3. Ordering(at2, c)
          BY <1>2, <3>1, <4>1, <4>2 DEF Ordering, Runs
        <4> QED
          BY <2>1, <4>3 DEF Follows, Agree, FedOn
      <3> QED
        BY <3>2, <3>3
    <2> QED
      BY <2>1, <2>2, <2>3 DEF FedOn
  <1>6. CASE at.step = "irq" /\ CdbWork(at.k, s)
    <2>1. /\ i.op = "none" /\ i.dma = "none" /\ i.io_ack \in BOOLEAN
          /\ Stays(at, s, at2) \/ Serves(at, s, at2)
      BY <1>1, <1>6, MoveKinds
    <2>2. at2.state = "run" /\ at2.doing = "command" /\ at2.k = at.k /\ at2.step = "irq"
      BY <1>2, <1>6, <2>1 DEF Stays, Stay, Serves, CdbWork, Calm
    <2>3. Paced(s, i, c) /\ (CdbWork(at.k, c) \/ Answers(c))
      BY <1>1, <1>2, <1>6, <2>1, CdbWorks
    <2>4. Ordering(at2, c)
      BY <1>2, <2>2, <2>3 DEF Ordering, Runs, Told, Answers
    <2> QED
      BY <2>3, <2>4 DEF Follows, Agree
  <1>7. CASE /\ at.step \in {"irq", "stat", "isr", "end"} /\ Told(at, s)
             /\ Quiet(s) /\ s.phase \in {"DIN", "DOUT", "STAT"}
    <2>1. Paced(s, i, c) /\ (Retold(at, s, c, at2) \/ Agree(at2, c))
      BY <1>2, <1>7, QuietTold
    <2>2. Retold(at, s, c, at2) => Ordering(at2, c)
      BY <1>2, <1>7 DEF Retold, Ordering, Runs, Told
    <2> QED
      BY <2>1, <2>2 DEF Follows, Agree
  <1> QED
    BY <1>4, <1>5, <1>6, <1>7 DEF Ordering

\* Bytes that were fed are the target's to work on.
LEMMA FedWork ==
    ASSUME NEW k, NEW s, NEW m \in Nat, Fed(k, s, m), LengthOf(k) \in Nat, m <= LengthOf(k)
    PROVE  CdbWork(k, s)
  <1>1. Collecting(s) /\ Calm(s) /\ Sent(k, s) /\ Len(s.cdb) + Len(s.fifo) = m
    BY DEF Fed
  <1>2. PICK x : x = Len(s.cdb) + Len(s.fifo)
    OBVIOUS
  <1>3. x <= LengthOf(k)
    BY <1>1, <1>2
  <1> QED
    BY <1>1, <1>2, <1>3 DEF CdbWork

\* The last byte comes by pseudo-DMA.
LastFed(k, m, i, c) ==
    /\ Len(c.fifo) = 0
    /\ \/ Fed(k, c, m) /\ c.dma_valid = FALSE
       \/ i.dma = "wr" /\ Fed(k, c, m + 1) /\ c.dma_valid = TRUE

LEMMA LastByte ==
    ASSUME NEW k \in DOMAIN Commands, NEW s, NEW i, NEW b, NEW c, NEW m \in Nat, Typed(s),
           i.io_ack \in BOOLEAN, i.op = "none", i.dma \notin {"none", "rd"}, c = Cycle(s, i, b),
           i.dma = "wr" => i.dma_wdata = <<"cmd", k, m>>,
           Fed(k, s, m), m < LengthOf(k), Len(s.fifo) = 0
    PROVE  LastFed(k, m, i, c) /\ Paced(s, i, c)
  <1>1. Shape(s) /\ ~ReadsIsr(i) /\ Calm(s) /\ Collecting(s) /\ Sent(k, s) /\ LengthOf(k) \in Nat
    BY TypedShape, LengthRange DEF ReadsIsr, Fed
  <1>2. CmdStep(s, i, c) /\ CdbStep(s, i, c) /\ Holds(s, c)
    BY <1>1, CollectingWait
  <1>3. Len(s.cdb) \in Nat /\ s.fifo = <<>> /\ Len(s.cdb) + Len(s.fifo) = m
    BY <1>1, SentTyped DEF Fed
  <1>4. Len(s.cdb) = m
    <2>1. PICK x \in Nat : x = Len(s.cdb)
      BY <1>3
    <2>2. x + 0 = m
      BY <1>3, <2>1
    <2> QED
      BY <2>1, <2>2
  <1>5. Collecting(c) /\ Calm(c) /\ Paced(s, i, c)
    <2>1. s.cdb # <<>> => opcode(s).len = LengthOf(k)
      BY <1>1, SentOpcode
    <2>2. Len(s.cdb) # LengthOf(k)
      BY <1>1, <1>4
    <2> QED
      BY <1>1, <1>2, <2>1, <2>2 DEF CmdStep, Holds, Calm, Paced
  <1>6. CASE /\ c.fifo = s.fifo /\ c.cdb = s.cdb /\ c.skip_cnt = s.skip_cnt /\ c.dma_valid = FALSE
    <2>1. Sent(k, c) /\ Len(c.cdb) = Len(s.cdb) /\ Len(c.fifo) = Len(s.fifo)
      BY <1>1, <1>6, SentSame
    <2>2. Fed(k, c, m)
      BY <1>3, <1>5, <2>1 DEF Fed
    <2> QED
      BY <1>5, <1>6, <2>1, <2>2 DEF LastFed
  <1>7. CASE /\ i.dma = "wr" /\ c.dma_valid = TRUE /\ c.fifo = s.fifo /\ Takes(s, c, i.dma_wdata)
    <2>1. Takes(s, c, <<"cmd", k, Len(s.cdb)>>)
      BY <1>4, <1>7
    <2>2. Sent(k, c) /\ Len(c.cdb) = Len(s.cdb) + 1 /\ Len(c.fifo) = 0
      BY <1>1, <1>3, <1>7, <2>1, SentByDma
    <2>3. PICK x, y : x = Len(c.cdb) /\ y = Len(c.fifo)
      OBVIOUS
    <2>4. x = m + 1 /\ y = 0
      BY <1>4, <2>2, <2>3
    <2>5. x + y = m + 1
      BY <2>4
    <2>6. Fed(k, c, m + 1)
      BY <1>5, <2>2, <2>3, <2>5 DEF Fed
    <2> QED
      BY <1>5, <1>7, <2>2, <2>6 DEF LastFed
  <1> QED
    BY <1>2, <1>3, <1>6, <1>7 DEF CdbStep

\* The whole CDB is with the chip.
LEMMA AllFed ==
    ASSUME NEW k \in DOMAIN Commands, NEW s, NEW i, NEW b, NEW c, Typed(s),
           i.io_ack \in BOOLEAN, i.op = "none", i.dma # "rd", c = Cycle(s, i, b), s.dma_valid = TRUE,
           Fed(k, s, LengthOf(k)), Len(s.fifo) = 0
    PROVE  CdbWork(k, c) /\ Paced(s, i, c)
  <1>1. Shape(s) /\ ~ReadsIsr(i) /\ Calm(s) /\ Collecting(s) /\ Sent(k, s) /\ LengthOf(k) \in Nat
    BY TypedShape, LengthRange DEF ReadsIsr, Fed
  <1>2. CmdStep(s, i, c) /\ CdbStep(s, i, c) /\ Holds(s, c)
    BY <1>1, CollectingWait
  <1>3. Len(s.cdb) \in Nat /\ s.fifo = <<>> /\ Len(s.cdb) + Len(s.fifo) = LengthOf(k)
    BY <1>1, SentTyped DEF Fed
  <1>4. Len(s.cdb) = LengthOf(k)
    <2>1. PICK x \in Nat : x = Len(s.cdb)
      BY <1>3
    <2>2. x + 0 = LengthOf(k)
      BY <1>3, <2>1
    <2> QED
      BY <2>1, <2>2
  <1>5. c.fifo = s.fifo /\ c.cdb = s.cdb /\ c.skip_cnt = s.skip_cnt
    BY <1>2, <1>3 DEF CdbStep
  <1>6. Sent(k, c) /\ Len(c.cdb) = Len(s.cdb) /\ Len(c.fifo) = Len(s.fifo)
    BY <1>1, <1>5, SentSame
  <1>7. Calm(c) /\ Paced(s, i, c) /\ (Collecting(c) \/ Executing(c))
    BY <1>1, <1>2 DEF CmdStep, Holds, Calm, Paced
  <1>8. CASE Collecting(c)
    <2>1. Fed(k, c, LengthOf(k))
      BY <1>3, <1>6, <1>7, <1>8 DEF Fed
    <2>2. LengthOf(k) <= LengthOf(k)
      BY <1>1
    <2> QED
      BY <1>1, <1>7, <2>1, <2>2, FedWork
  <1>9. CASE Executing(c)
    BY <1>4, <1>6, <1>7, <1>9 DEF CdbWork, Whole
  <1> QED
    BY <1>7, <1>8, <1>9

LEMMA FromFeedingRom ==
    ASSUME NEW at, NEW s, NEW i, NEW b, NEW c, NEW at2, Clock(at, s, i, b, c, at2), FeedingRom(at, s)
    PROVE  Follows(s, i, c, at2)
  <1>1. Typed(s) /\ Moves(at, s, i, at2) /\ c = Cycle(s, i, b)
    BY DEF Clock
  <1>2. at.state = "run" /\ at.doing = "select" /\ at.k \in DOMAIN Commands /\ ByRom(at.k)
    BY DEF FeedingRom, Runs
  <1>3. PICK l : l = LengthOf(at.k) /\ l \in Nat /\ l >= 2
    BY <1>2, LengthRange
  <1>4. CASE at.step = "transfer" /\ at.left = LengthOf(at.k) /\ Feeding(at, s, 0) /\ at.pushed = FALSE
    <2>1. /\ i.dma = "none" /\ i.io_ack \in BOOLEAN
          /\ (i.op = "none" /\ Stays(at, s, at2)) \/ Accesses(at, s, i, at2)
      BY <1>1, <1>4, MoveKinds DEF Steps
    <2>2. Fed(at.k, s, 0) /\ Len(s.fifo) = 0
      BY <1>4 DEF Feeding, Fed
    <2>3. CASE i.op = "none" /\ Stays(at, s, at2)
      <3>1. PICK m \in Nat : m = 0 /\ m < LengthOf(at.k)
        BY <1>3
      <3>2. FedStill(at.k, s, i, c, m)
        BY <1>1, <1>2, <2>1, <2>2, <2>3, <3>1, FeedWaits
      <3>4. Fed(at.k, c, 0) /\ Len(c.fifo) = 0 /\ Paced(s, i, c)
        BY <3>1, <3>2 DEF FedStill
      <3>3. FeedingRom(at2, c)
        BY <1>2, <1>4, <2>3, <3>4 DEF FeedingRom, Runs, Stays, Stay, Feeding, Fed
      <3> QED
        BY <3>3, <3>4 DEF Follows, Agree
    <2>4. CASE Accesses(at, s, i, at2)
      <3>1. i.op = "write" /\ i.rs = "CMD" /\ i.val = "TI"
        BY <1>4, <2>4 DEF Accesses, Asks, Ask
      <3>2. Fresh(s) /\ Calm(s)
        <4>1. Collecting(s) /\ Calm(s) /\ Sent(at.k, s) /\ Len(s.cdb) + Len(s.fifo) = 0
          BY <2>2 DEF Fed
        <4>2. /\ Len(s.cdb) \in Nat /\ s.cdb = <<>> <=> Len(s.cdb) = 0
              /\ s.fifo = <<>> <=> Len(s.fifo) = 0
          BY <4>1, SentTyped
        <4>3. PICK x \in Nat : x = Len(s.cdb)
          BY <4>2
        <4>4. x + 0 = 0
          BY <2>2, <4>1, <4>3
        <4>5. x = 0
          BY <4>4
        <4> QED
          BY <2>2, <4>1, <4>2, <4>3, <4>5 DEF Fresh, Sent
      <3>3. Fed(at.k, c, 0) /\ Len(c.fifo) = 0 /\ Paced(s, i, c)
        BY <1>1, <2>1, <3>1, <3>2, FeedStarts
      <3>4. /\ at2.state = "run" /\ at2.doing = "select" /\ at2.k = at.k /\ at2.step = "push"
            /\ at2.left = at.left - 0 /\ at2.pushed = FALSE
        BY <1>2, <1>4, <2>4 DEF Accesses, Goes
      <3>5. LengthOf(at.k) - at2.left = 0 /\ at2.left \in 2..LengthOf(at.k)
        BY <1>3, <1>4, <3>4
      <3>6. Feeding(at2, c, LengthOf(at.k) - at2.left)
        BY <3>3, <3>4, <3>5 DEF Feeding, Fed
      <3>7. FeedingRom(at2, c)
        BY <1>2, <3>4, <3>5, <3>6 DEF FeedingRom, Runs
      <3> QED
        BY <3>3, <3>7 DEF Follows, Agree
    <2> QED
      BY <2>1, <2>3, <2>4
  <1>5. CASE /\ at.step = "push" /\ at.left \in 2..LengthOf(at.k)
             /\ Feeding(at, s, LengthOf(at.k) - at.left)
    <2>1. at.left \in 1..LengthOf(at.k)
      BY <1>3, <1>5
    <2>2. FedOn(at, s, i, c, at2)
      BY <1>2, <1>5, <2>1, FeedByte
    <2>3. CASE i.op = "none" /\ Stays(at, s, at2) /\ Feeding(at2, c, LengthOf(at.k) - at.left)
      <3>1. FeedingRom(at2, c)
        BY <1>2, <1>5, <2>3 DEF FeedingRom, Runs, Stays, Stay
      <3> QED
        BY <2>2, <3>1 DEF Follows, Agree, FedOn
    <2>4. CASE Accesses(at, s, i, at2) /\ Feeding(at2, c, LengthOf(at.k) - at2.left)
      <3>1. /\ at2.state = "run" /\ at2.doing = "select" /\ at2.k = at.k /\ at2.left = at.left - 1
            /\ at2.step = (IF at.left = 2 THEN "last" ELSE IF at.left > 1 THEN "push" ELSE "select")
        BY <1>2, <1>5, <2>4 DEF Accesses, Goes
      <3>2. CASE at.left = 2
        <4>1. at2.left = 1 /\ at2.step = "last"
          BY <3>1, <3>2
        <4>2. Feeding(at2, c, LengthOf(at.k) - 1) /\ c.dma_valid = FALSE
          BY <2>2, <2>4, <4>1 DEF FedOn
        <4>3. FeedingRom(at2, c)
          BY <1>2, <3>1, <4>1, <4>2 DEF FeedingRom, Runs
        <4> QED
          BY <2>2, <4>3 DEF Follows, Agree, FedOn
      <3>3. CASE at.left # 2
        <4>1. at2.left \in 2..LengthOf(at.k) /\ at2.step = "push"
          BY <1>3, <1>5, <3>1, <3>3
        <4>2. FeedingRom(at2, c)
          BY <1>2, <2>4, <3>1, <4>1 DEF FeedingRom, Runs
        <4> QED
          BY <2>2, <4>2 DEF Follows, Agree, FedOn
      <3> QED
        BY <3>2, <3>3
    <2> QED
      BY <2>2, <2>3, <2>4 DEF FedOn
  <1>6. CASE /\ at.step = "last" /\ at.left = 1
             /\ s.dma_valid = FALSE /\ Feeding(at, s, LengthOf(at.k) - 1)
    <2>1. PICK m \in Nat : m = LengthOf(at.k) - 1 /\ m < LengthOf(at.k) /\ m + 1 = LengthOf(at.k)
      BY <1>3
    <2>2. /\ Fed(at.k, s, m) /\ Len(s.fifo) = (IF at.pushed THEN 1 ELSE 0)
      BY <1>6, <2>1 DEF Feeding, Fed
    <2>3. /\ i.op = "none" /\ i.io_ack \in BOOLEAN /\ i.dma = at.dma /\ i.dma # "rd"
          /\ Stays(at, s, at2) \/ Advances(at, at2)
          /\ i.dma = "wr" => i.dma_wdata = <<"cmd", at.k, m>>
          /\ at.pushed \in BOOLEAN /\ (at.pushed => i.dma = "none")
      <3>1. /\ i.op = "none" /\ i.io_ack \in BOOLEAN /\ i.dma = at.dma
            /\ Stays(at, s, at2) \/ Advances(at, at2)
        BY <1>1, <1>6, MoveKinds
      <3> QED
        BY <1>1, <1>6, <2>1, <3>1 DEF Moves
    <2>4. LastFed(at.k, m, i, c) /\ Paced(s, i, c)
      <3>1. CASE i.dma = "none"
        <4>1. Len(s.fifo) \in {0, 1}
          BY <2>2
        <4>2. FedStill(at.k, s, i, c, m)
          BY <1>1, <1>2, <2>1, <2>2, <2>3, <3>1, <4>1, FeedWaits
        <4> QED
          BY <4>2 DEF LastFed, FedStill
      <3>2. CASE i.dma # "none"
        <4>1. Len(s.fifo) = 0 /\ i.dma \notin {"none", "rd"}
          BY <2>2, <2>3, <3>2
        <4> QED
          BY <1>1, <1>2, <2>1, <2>2, <2>3, <4>1, LastByte
      <3> QED
        BY <3>1, <3>2
    <2>5. CASE Stays(at, s, at2)
      <3>1. /\ at2.state = "run" /\ at2.doing = "select" /\ at2.k = at.k /\ at2.pushed = FALSE
            /\ at2.step = "last" /\ at2.left = 1 /\ (i.dma = "wr" => at2.dma = "wr")
        BY <1>2, <1>6, <2>3, <2>5 DEF Stays, Stay
      <3>2. FeedingRom(at2, c)
        BY <1>2, <2>1, <2>4, <3>1 DEF FeedingRom, Runs, LastFed, Fed, Feeding
      <3> QED
        BY <2>4, <3>2 DEF Follows, Agree
    <2>6. CASE Advances(at, at2)
      <3>1. at2.state = "run" /\ at2.doing = "select" /\ at2.k = at.k /\ at2.step = "irq"
        BY <1>2, <1>6, <2>6 DEF Advances, Stay
      <3>2. PICK x \in Nat : Fed(at.k, c, x) /\ x <= LengthOf(at.k)
        BY <2>1, <2>4 DEF LastFed
      <3>3. CdbWork(at.k, c)
        BY <1>3, <3>2, FedWork
      <3>4. Selecting(at2, c)
        BY <1>2, <3>1, <3>3 DEF Selecting, Runs
      <3> QED
        BY <2>4, <3>4 DEF Follows, Agree
    <2> QED
      BY <2>3, <2>5, <2>6
  <1>7. CASE /\ at.step = "last" /\ at.left = 1 /\ at.pushed = FALSE
             /\ s.dma_valid = TRUE /\ at.dma = "wr" /\ Feeding(at, s, LengthOf(at.k))
    <2>1. /\ i.op = "none" /\ i.io_ack \in BOOLEAN /\ i.dma = "wr" /\ Advances(at, at2)
      <3>1. /\ i.op = "none" /\ i.io_ack \in BOOLEAN /\ i.dma = at.dma
            /\ Stays(at, s, at2) \/ Advances(at, at2)
        BY <1>1, <1>7, MoveKinds
      <3> QED
        BY <1>7, <3>1 DEF Stays
    <2>2. Fed(at.k, s, LengthOf(at.k)) /\ Len(s.fifo) = 0
      BY <1>7 DEF Feeding, Fed
    <2>3. CdbWork(at.k, c) /\ Paced(s, i, c)
      BY <1>1, <1>2, <1>7, <2>1, <2>2, AllFed
    <2>4. at2.state = "run" /\ at2.doing = "select" /\ at2.k = at.k /\ at2.step = "irq"
      BY <1>2, <1>7, <2>1 DEF Advances, Stay
    <2>5. Selecting(at2, c)
      BY <1>2, <2>3, <2>4 DEF Selecting, Runs
    <2> QED
      BY <2>3, <2>5 DEF Follows, Agree
  <1> QED
    BY <1>4, <1>5, <1>6, <1>7 DEF FeedingRom

\* The driver prepares the select.
Primed(k, left) == left = LengthOf(k) + (IF ByRom(k) THEN 0 ELSE 1)

Prepared(at, s) ==
    \/ at.step = "flush" /\ Primed(at.k, at.left)
    \/ ByRom(at.k) /\ at.step \in {"count", "select"} /\ s.fifo = <<>> /\ at.left = LengthOf(at.k)
    \/ /\ ~ByRom(at.k) /\ at.step = "push" /\ at.left \in 1..(LengthOf(at.k) + 1)
       /\ Loaded(at.k, s.fifo, LengthOf(at.k) + 1 - at.left)
    \/ ~ByRom(at.k) /\ at.step = "select" /\ Loaded(at.k, s.fifo, LengthOf(at.k) + 1)

LEMMA PreparingIs ==
    ASSUME NEW at, NEW s
    PROVE  Preparing(at, s) <=>
              /\ Runs(at, "select") /\ Stands(s, "DOUT")
              /\ \/ at.step = "dest" /\ Primed(at.k, at.left)
                 \/ s.dest_ok = Commands[at.k].present /\ Prepared(at, s)
  BY DEF Preparing, Primed, Prepared

LEMMA PreparesFlush ==
    ASSUME NEW at, NEW s, NEW i, NEW b, NEW c, NEW at2, Typed(s), c = Cycle(s, i, b),
           i.io_ack \in BOOLEAN, i.dma = "none", Accesses(at, s, i, at2), Runs(at, "select"),
           Stands(s, "DOUT"), at.step = "flush", Primed(at.k, at.left), s.dest_ok = Commands[at.k].present
    PROVE  Follows(s, i, c, at2)
  <1>1. Commanded(s, i, "FLUSH")
    BY TypedShape DEF Accesses, Asks, Ask, Commanded, Stands
  <1>2. AfterFlush(s, i, c)
    BY <1>1, QuietFlush
  <1>3. /\ Stands(c, "DOUT") /\ Paced(s, i, c) /\ c.fifo = <<>> /\ c.dest_ok = Commands[at.k].present
    BY <1>2 DEF AfterFlush, Stands, Holds, Calm, Paced
  <1>4. /\ Runs(at2, "select") /\ at2.k = at.k /\ at2.left = at.left - 0
        /\ at2.step = (IF ByRom(at.k) THEN "count" ELSE "push")
    BY DEF Accesses, Goes, Runs
  <1>5. PICK l \in Nat : l = LengthOf(at.k)
    BY LengthRange DEF Runs
  <1>6. CASE ByRom(at.k)
    <2>1. at2.left = LengthOf(at2.k) /\ at2.step = "count" /\ ByRom(at2.k)
      BY <1>4, <1>5, <1>6 DEF Primed
    <2>2. Prepared(at2, c)
      BY <1>3, <2>1 DEF Prepared
    <2>3. Preparing(at2, c)
      BY <1>3, <1>4, <2>2, PreparingIs
    <2> QED
      BY <1>3, <2>3 DEF Follows, Agree
  <1>7. CASE ~ByRom(at.k)
    <2>1. at2.left = l + 1 /\ at2.left \in 1..(l + 1) /\ l + 1 - at2.left = 0
      BY <1>4, <1>5, <1>7 DEF Primed
    <2>2. at2.step = "push" /\ ~ByRom(at2.k) /\ LengthOf(at2.k) = l
      BY <1>4, <1>5, <1>7
    <2>3. Loaded(at2.k, c.fifo, LengthOf(at2.k) + 1 - at2.left)
      BY <1>3, <2>1, <2>2, LoadedNone
    <2>4. Prepared(at2, c)
      BY <2>1, <2>2, <2>3 DEF Prepared
    <2>5. Preparing(at2, c)
      BY <1>3, <1>4, <2>4, PreparingIs
    <2> QED
      BY <1>3, <2>5 DEF Follows, Agree
  <1> QED
    BY <1>6, <1>7

LEMMA PreparesPush ==
    ASSUME NEW at, NEW s, NEW i, NEW b, NEW c, NEW at2, Typed(s), c = Cycle(s, i, b),
           i.io_ack \in BOOLEAN, i.dma = "none", Accesses(at, s, i, at2), Runs(at, "select"),
           Stands(s, "DOUT"), at.step = "push", ~ByRom(at.k), at.left \in 1..(LengthOf(at.k) + 1),
           Loaded(at.k, s.fifo, LengthOf(at.k) + 1 - at.left), s.dest_ok = Commands[at.k].present
    PROVE  Follows(s, i, c, at2)
  <1>1. /\ i.op = "write" /\ i.rs = "FIFO" /\ i.val = CdbByte(at.k, at.left) /\ Plain(i) /\ Quiet(s)
        /\ at.k \in DOMAIN Commands /\ ~ReadsIsr(i)
    BY DEF Accesses, Asks, Plain, Runs, Stands, ReadsIsr
  <1>2. PICK l \in Nat : l = LengthOf(at.k)
    BY <1>1, LengthRange
  <1>3. Loaded(at.k, Append(s.fifo, CdbByte(at.k, at.left)), l + 2 - at.left) /\ Len(s.fifo) < FIFO
    BY <1>1, <1>2, LoadedPush
  <1>4. Steady(s, i, c) /\ c.fifo = Append(s.fifo, i.val) /\ c.dest_ok = s.dest_ok
    BY <1>1, <1>3, QuietSteady
  <1>5. Stands(c, "DOUT") /\ Paced(s, i, c)
    BY <1>4, StandsStill DEF Steady, Paced
  <1>6. Loaded(at.k, c.fifo, l + 2 - at.left)
    BY <1>1, <1>3, <1>4
  <1>7. /\ Runs(at2, "select") /\ at2.k = at.k /\ at2.left = at.left - 1
        /\ at2.step = (IF at.left > 1 THEN "push" ELSE "select")
    BY <1>1 DEF Accesses, Goes, Runs
  <1>8. Prepared(at2, c)
    <2>1. CASE at.left > 1
      <3>1. at2.left \in 1..(l + 1) /\ l + 2 - at.left = l + 1 - at2.left /\ at2.step = "push"
        BY <1>2, <1>7, <2>1
      <3> QED
        BY <1>2, <1>6, <1>7, <3>1 DEF Prepared
    <2>2. CASE ~(at.left > 1)
      <3>1. l + 2 - at.left = l + 1 /\ at2.step = "select"
        BY <1>2, <1>7, <2>2
      <3> QED
        BY <1>2, <1>6, <1>7, <3>1 DEF Prepared
    <2> QED
      BY <2>1, <2>2
  <1>9. Preparing(at2, c)
    BY <1>4, <1>5, <1>7, <1>8, PreparingIs
  <1> QED
    BY <1>5, <1>9 DEF Follows, Agree

LEMMA PreparesSelectRom ==
    ASSUME NEW at, NEW s, NEW i, NEW b, NEW c, NEW at2, Typed(s), c = Cycle(s, i, b),
           i.io_ack \in BOOLEAN, i.dma = "none", Accesses(at, s, i, at2), Runs(at, "select"),
           Stands(s, "DOUT"), at.step = "select", ByRom(at.k), s.fifo = <<>>, at.left = LengthOf(at.k),
           s.dest_ok = Commands[at.k].present
    PROVE  Follows(s, i, c, at2)
  <1>1. at.k \in DOMAIN Commands /\ Quiet(s) /\ s.phase # "DIN" /\ Calm(s)
    BY DEF Runs, Stands
  <1>2. Commanded(s, i, "SELNATN")
    BY <1>1, TypedShape DEF Accesses, Asks, Ask, Commanded, SelectBy
  <1>3. s.dest_ok
    BY <1>1, DriverAssumption DEF ByRom
  <1>4. AfterSelect(s, i, c)
    BY <1>1, <1>2, <1>3, QuietSelect
  <1>5. c.cdb = <<>> /\ c.skip_cnt = 0 /\ c.fifo = <<>> /\ Collecting(c) /\ Calm(c) /\ Paced(s, i, c)
    BY <1>1, <1>2, <1>4 DEF AfterSelect, Holds, Calm, Paced, Commanded
  <1>6. /\ at2.state = "run" /\ at2.doing = "select" /\ at2.k = at.k /\ at2.step = "transfer"
        /\ at2.left = at.left - 0 /\ at2.pushed = FALSE
    BY DEF Accesses, Goes, Runs
  <1>7. PICK l \in Nat : l = LengthOf(at.k)
    BY <1>1, LengthRange
  <1>8. at2.left = LengthOf(at2.k)
    BY <1>6, <1>7
  <1>9. Sent(at2.k, c) /\ Len(c.cdb) = 0 /\ Len(c.fifo) = 0
    BY <1>5, SentNone
  <1>10. Feeding(at2, c, 0)
    BY <1>5, <1>6, <1>9 DEF Feeding
  <1>11. FeedingRom(at2, c)
    BY <1>1, <1>6, <1>8, <1>10 DEF FeedingRom, Runs
  <1> QED
    BY <1>5, <1>11 DEF Follows, Agree

LEMMA PreparesSelect ==
    ASSUME NEW at, NEW s, NEW i, NEW b, NEW c, NEW at2, Typed(s), c = Cycle(s, i, b),
           i.io_ack \in BOOLEAN, i.dma = "none", Accesses(at, s, i, at2), Runs(at, "select"),
           Stands(s, "DOUT"), at.step = "select", ~ByRom(at.k),
           Loaded(at.k, s.fifo, LengthOf(at.k) + 1), s.dest_ok = Commands[at.k].present
    PROVE  Follows(s, i, c, at2)
  <1>1. at.k \in DOMAIN Commands /\ Quiet(s) /\ s.phase = "DOUT" /\ Calm(s) /\ Shape(s)
    BY TypedShape DEF Runs, Stands
  <1>2. at2.state = "run" /\ at2.doing = "select" /\ at2.k = at.k /\ at2.step = "irq"
    BY DEF Accesses, Goes, Runs
  <1>3. CASE Commands[at.k].dialect = "unix"
    <2>1. Commanded(s, i, "SELATN")
      BY <1>1, <1>3 DEF Accesses, Asks, Ask, Commanded, SelectBy
    <2>2. CASE s.dest_ok
      <3>1. AfterSelect(s, i, c)
        BY <1>1, <2>1, <2>2, QuietSelect
      <3>2. /\ c.cdb = <<>> /\ c.skip_cnt = 1 /\ c.fifo = s.fifo /\ Collecting(c) /\ Calm(c)
            /\ Paced(s, i, c)
        BY <1>1, <2>1, <3>1 DEF AfterSelect, Holds, Calm, Paced, Commanded
      <3>3. CdbWork(at.k, c)
        BY <3>2 DEF CdbWork
      <3>4. Selecting(at2, c)
        BY <1>1, <1>2, <3>3 DEF Selecting, Runs
      <3> QED
        BY <3>2, <3>4 DEF Follows, Agree
    <2>3. CASE ~s.dest_ok
      <3>1. AfterTimeout(s, i, c)
        BY <2>1, <2>3, QuietTimeout
      <3>2. Quiet(c) /\ c.phase = "DOUT" /\ c.fifo = s.fifo /\ c.irq = TRUE /\ Paced(s, i, c)
        BY <1>1, <3>1 DEF AfterTimeout, Rings, Paced
      <3>3. Len(c.fifo) = LengthOf(at2.k) + 1
        BY <1>2, <3>2 DEF Loaded
      <3>4. TimingOut(at2, c)
        BY <1>1, <1>2, <3>2, <3>3 DEF TimingOut, Runs
      <3> QED
        BY <3>2, <3>4 DEF Follows, Agree
    <2> QED
      BY <2>2, <2>3
  <1>4. CASE Commands[at.k].dialect # "unix"
    <2>1. Commanded(s, i, "SELATNS")
      BY <1>1, <1>4 DEF Accesses, Asks, Ask, Commanded, SelectBy
    <2>2. s.dest_ok
      BY <1>1, <1>4, DriverAssumption
    <2>3. AfterStop(s, i, c)
      BY <1>1, <2>1, <2>2, QuietStop
    <2>4. /\ Quiet(c) /\ c.phase = "MOUT" /\ c.irq = TRUE /\ "DISC" \notin c.istatus
          /\ Paced(s, i, c)
      BY <1>1, <2>3 DEF AfterStop, Rings, Calm, Paced
    <2>5. Selecting(at2, c)
      BY <1>1, <1>2, <2>4 DEF Selecting, Runs, Told
    <2> QED
      BY <2>4, <2>5 DEF Follows, Agree
  <1> QED
    BY <1>3, <1>4

LEMMA FromPreparing ==
    ASSUME NEW at, NEW s, NEW i, NEW b, NEW c, NEW at2, Clock(at, s, i, b, c, at2), Preparing(at, s)
    PROVE  Follows(s, i, c, at2)
  <1>1. Typed(s) /\ Moves(at, s, i, at2) /\ c = Cycle(s, i, b)
    BY DEF Clock
  <1>2. /\ Runs(at, "select") /\ Stands(s, "DOUT")
        /\ \/ at.step = "dest" /\ Primed(at.k, at.left)
           \/ s.dest_ok = Commands[at.k].present /\ Prepared(at, s)
    BY PreparingIs
  <1>3. /\ i.dma = "none" /\ i.io_ack \in BOOLEAN /\ Quiet(s) /\ at.k \in DOMAIN Commands
        /\ (i.op = "none" /\ Stays(at, s, at2)) \/ Accesses(at, s, i, at2)
    <2>1. at.step \in {"dest", "flush", "count", "push", "select"}
      BY <1>2 DEF Prepared
    <2> QED
      BY <1>1, <1>2, <2>1, MoveKinds DEF Steps, Stands, Runs
  <1>4. CASE i.op = "none" /\ Stays(at, s, at2)
    <2>1. Steady(s, i, c) /\ Unmoved(s, i, c) /\ Paced(s, i, c)
      BY <1>1, <1>3, <1>4, QuietWaits
    <2>2. Stands(c, "DOUT") /\ c.dest_ok = s.dest_ok /\ c.fifo = s.fifo
      BY <1>2, <2>1, StandsStill DEF Unmoved
    <2>3. Runs(at2, "select") /\ at2.k = at.k /\ at2.step = at.step /\ at2.left = at.left
      BY <1>2, <1>4 DEF Stays, Stay, Runs
    <2>4. Prepared(at, s) => Prepared(at2, c)
      BY <2>2, <2>3 DEF Prepared
    <2>5. Preparing(at2, c)
      BY <1>2, <2>2, <2>3, <2>4, PreparingIs
    <2> QED
      BY <2>1, <2>5 DEF Follows, Agree
  <1>5. CASE Accesses(at, s, i, at2) /\ at.step = "dest" /\ Primed(at.k, at.left)
    <2>1. i.op = "write" /\ i.rs = "DEST" /\ i.val = Commands[at.k].present /\ Plain(i)
      BY <1>5 DEF Accesses, Asks, Ask, Plain
    <2>2. Steady(s, i, c) /\ c.dest_ok = i.val
      BY <1>1, <1>3, <2>1, QuietSteady
    <2>3. Stands(c, "DOUT") /\ Paced(s, i, c)
      BY <1>2, <2>2, StandsStill DEF Steady, Paced
    <2>4. Runs(at2, "select") /\ at2.k = at.k /\ at2.step = "flush" /\ at2.left = at.left - 0
      BY <1>2, <1>5 DEF Accesses, Goes, Runs
    <2>5. at2.left = at.left
      BY <1>3, <1>5, <2>4, LengthRange DEF Primed
    <2>6. Prepared(at2, c)
      BY <1>5, <2>4, <2>5 DEF Prepared
    <2>7. Preparing(at2, c)
      BY <2>1, <2>2, <2>3, <2>4, <2>6, PreparingIs
    <2> QED
      BY <2>3, <2>7 DEF Follows, Agree
  <1>6. CASE Accesses(at, s, i, at2) /\ s.dest_ok = Commands[at.k].present /\ Prepared(at, s)
    <2>1. CASE at.step = "flush" /\ Primed(at.k, at.left)
      BY <1>1, <1>2, <1>3, <1>6, <2>1, PreparesFlush
    <2>2. CASE ByRom(at.k) /\ at.step = "count" /\ s.fifo = <<>> /\ at.left = LengthOf(at.k)
      <3>1. i.op = "write" /\ i.rs = "TC" /\ Plain(i)
        BY <1>6, <2>2 DEF Accesses, Asks, Plain
      <3>2. Unmoved(s, i, c) /\ Steady(s, i, c)
        BY <1>1, <1>3, <3>1, QuietSteady
      <3>3. Stands(c, "DOUT") /\ Paced(s, i, c) /\ c.fifo = <<>> /\ c.dest_ok = s.dest_ok
        BY <1>2, <2>2, <3>1, <3>2, StandsStill DEF Steady, Unmoved, Paced
      <3>4. Runs(at2, "select") /\ at2.k = at.k /\ at2.step = "select" /\ at2.left = at.left - 0
        BY <1>2, <1>6, <2>2 DEF Accesses, Goes, Runs
      <3>5. at2.left = at.left
        BY <1>3, <2>2, <3>4, LengthRange
      <3>6. Prepared(at2, c)
        BY <2>2, <3>3, <3>4, <3>5 DEF Prepared
      <3>7. Preparing(at2, c)
        BY <1>6, <3>3, <3>4, <3>6, PreparingIs
      <3> QED
        BY <3>3, <3>7 DEF Follows, Agree
    <2>3. CASE ByRom(at.k) /\ at.step = "select" /\ s.fifo = <<>> /\ at.left = LengthOf(at.k)
      BY <1>1, <1>2, <1>3, <1>6, <2>3, PreparesSelectRom
    <2>4. CASE /\ ~ByRom(at.k) /\ at.step = "push" /\ at.left \in 1..(LengthOf(at.k) + 1)
               /\ Loaded(at.k, s.fifo, LengthOf(at.k) + 1 - at.left)
      BY <1>1, <1>2, <1>3, <1>6, <2>4, PreparesPush
    <2>5. CASE ~ByRom(at.k) /\ at.step = "select" /\ Loaded(at.k, s.fifo, LengthOf(at.k) + 1)
      BY <1>1, <1>2, <1>3, <1>6, <2>5, PreparesSelect
    <2> QED
      BY <1>6, <2>1, <2>2, <2>3, <2>4, <2>5 DEF Prepared
  <1> QED
    BY <1>2, <1>3, <1>4, <1>5, <1>6

\* The driver and the chip go from place to place together.
LEMMA AgreeStep ==
    ASSUME NEW at, NEW s, NEW i, NEW b, NEW c, NEW at2, Clock(at, s, i, b, c, at2), Agree(at, s)
    PROVE  Follows(s, i, c, at2)
  BY FromResting, FromPreparing, FromFeedingRom, FromSelecting, FromTimingOut, FromProbing,
     FromReceiving, FromSending, FromEnding, FromParting, FromProposing, FromRefused, FromResuming,
     FromOrdering DEF Agree

-----------------------------------------------------------------------------
(* The dialogue *)

Patient == \A m \in Menus : ~m.impatient

LEMMA DialogueStep ==
    ASSUME DialogueInv, Patient, plat.ack \in BOOLEAN, Next
    PROVE  DialogueInv' /\ Paced(chip, ChipInput, chip')
  <1>1. PICK at, s, i, b : at = At /\ s = chip /\ i = ChipInput /\ b = sbuf
    OBVIOUS
  <1>2. PICK c, at2 : c = chip' /\ at2 = At'
    OBVIOUS
  <1>3. BusOk' /\ Moves(At, chip, ChipInput, At')
    BY DriverMoves DEF DialogueInv, Patient, Next, Machine
  <1>4. c = Cycle(s, i, b) /\ i.io_ack \in BOOLEAN /\ Typed(s) /\ Agree(at, s)
    BY <1>1, <1>2 DEF Next, Machine, ChipBlock, ChipInput, DialogueInv
  <1>5. Clock(at, s, i, b, c, at2)
    BY <1>1, <1>2, <1>3, <1>4 DEF Clock
  <1>6. Follows(s, i, c, at2)
    BY <1>4, <1>5, AgreeStep
  <1>7. Typed(c)
    BY <1>4, CycleTyped
  <1>8. Typed(chip') /\ Agree(At', chip') /\ Paced(chip, ChipInput, chip')
    BY <1>1, <1>2, <1>6, <1>7 DEF Follows
  <1> QED
    BY <1>3, <1>8 DEF DialogueInv

LEMMA DialogueInit ==
    ASSUME Init
    PROVE  DialogueInv
  <1>1. PICK menu \in Menus : cpu = CpuInit(menu)
    BY DEF Init
  <1>2. chip = ChipInit /\ iosb = IosbInit
    BY DEF Init
  <1>3. Typed(chip)
    BY <1>2 DEF Typed, Control, Flags, Modes, ChipInit
  <1>4. BusOk
    BY <1>1, <1>2 DEF BusOk, CpuInit, IosbInit
  <1>5. At.state = "idle" /\ At.step = "end"
    BY <1>1, <1>2 DEF At, Acked, CpuInit, IosbInit
  <1>6. Stands(chip, "DOUT")
    BY <1>2 DEF Stands, Quiet, NoTransfer, Calm, ChipInit
  <1> QED
    BY <1>3, <1>4, <1>5, <1>6 DEF DialogueInv, Agree, Resting

\* With a driver that waits for its transfers, driver and chip keep step through every
\* dialect and whatever the platform does: at each place of the script the chip is in the
\* one mode (and, where the script has read it, the phase) that the script counts on.
THEOREM DialogueKept ==
    ASSUME Patient
    PROVE  Spec => []DialogueInv
  <1>1. Init => DialogueInv /\ FlushMarked
    <2>1. Init => FlushMarked
      BY DEF Init, ChipInit, PlatInit, FlushMarked, IoShape
    <2> QED
      BY <2>1, DialogueInit
  <1>2. DialogueInv /\ FlushMarked /\ [Next]_vars => (DialogueInv /\ FlushMarked)'
    <2>1. ASSUME DialogueInv, FlushMarked, Next PROVE (DialogueInv /\ FlushMarked)'
      <3>1. DialogueInv'
        BY <2>1, DialogueStep DEF FlushMarked
      <3> QED
        BY <2>1, <3>1, FlushMarkedStep
    <2>2. ASSUME DialogueInv, FlushMarked, UNCHANGED vars PROVE (DialogueInv /\ FlushMarked)'
      <3>1. DialogueInv'
        <4>1. cpu' = cpu /\ iosb' = iosb /\ chip' = chip /\ image' = image
          BY <2>2 DEF vars
        <4>2. Left(cpu.k)' = Left(cpu.k)
          BY <4>1 DEF Left, DataIn
        <4>3. NextStep' = NextStep
          BY <4>1, <4>2 DEF NextStep, Current
        <4>4. Taken' = Taken /\ Acked' = Acked
          BY <4>1 DEF Taken, Acked
        <4>5. At' = At
          BY <4>1, <4>3, <4>4 DEF At
        <4>6. BusOk'
          BY <2>2, <4>1 DEF DialogueInv, BusOk
        <4> QED
          BY <2>2, <4>1, <4>5, <4>6 DEF DialogueInv
      <3> QED
        BY <2>2, <3>1 DEF vars, FlushMarked
    <2> QED
      BY <2>1, <2>2
  <1> QED
    BY <1>1, <1>2, PTL DEF Spec

-----------------------------------------------------------------------------
(* The sector buffer *)

\* A sector is asked for, on its way into the buffer, or about to be published.
Loading ==
    \/ chip.io_rd
    \/ plat.ack /\ plat.load
    \/ chip.io_ack_d /\ ~chip.flush_pending

\* Loads and responses keep out of each other's way, and both inside DATA IN.
LoadInv ==
    /\ Loading => chip.phase = "DIN" /\ chip.synth_len = 0
    /\ chip.synth_len # 0 => chip.phase = "DIN" /\ chip.blocks_left = 0 /\ ~chip.buf_valid

LEMMA LoadStep ==
    ASSUME LoadInv, FlushMarked, Next, Paced(chip, ChipInput, chip')
    PROVE  LoadInv'
  <1>1. PICK i : i = ChipInput
    OBVIOUS
  <1>2. PICK s, c : s = chip /\ c = chip'
    OBVIOUS
  <1>3. i.io_ack = plat.ack /\ plat.ack \in BOOLEAN
    BY <1>1 DEF ChipInput, FlushMarked
  <1>4. c = Cycle(s, i, sbuf)
    BY <1>1, <1>2 DEF Next, Machine, ChipBlock
  <1>5. Handshake(s, i, c)
    BY <1>2, <1>3, <1>4, CycleHandshake DEF FlushMarked
  <1>6. /\ c.io_ack_d = plat.ack
        /\ s.flush_pending /\ plat.ack => c.flush_pending
    BY <1>3, <1>5 DEF Handshake
  <1>7. Paced(s, i, c)
    BY <1>1, <1>2
  <1>8. /\ \/ /\ ~plat.ack /\ (s.io_rd \/ s.io_wr)
              /\ plat'.ack = TRUE /\ plat'.load = s.io_rd
           \/ plat'.ack = plat.ack /\ plat'.load = plat.load
           \/ plat'.ack = FALSE
    BY <1>2, PlatformSteps DEF FlushMarked
  <1>9. (plat.ack /\ ~plat.load) => s.flush_pending
    BY <1>2 DEF FlushMarked
  <1>10. /\ (s.io_rd \/ (plat.ack /\ plat.load) \/ (s.io_ack_d /\ ~s.flush_pending))
               => s.phase = "DIN" /\ s.synth_len = 0
         /\ s.synth_len # 0 => s.phase = "DIN" /\ s.blocks_left = 0 /\ ~s.buf_valid
    BY <1>2 DEF LoadInv, Loading
  <1>11. (plat'.ack /\ plat'.load) \/ (c.io_ack_d /\ ~c.flush_pending)
            => s.io_rd \/ (plat.ack /\ plat.load)
    BY <1>6, <1>8, <1>9
  <1>12. CASE BufferStep(s, i, c)
    <2>1. c.io_rd => s.io_rd \/ (s.phase = "DIN" /\ s.blocks_left # 0)
      BY <1>12 DEF BufferStep
    <2>2. c.synth_len # 0 => /\ s.synth_len # 0
                             /\ s.blocks_left = 0 => c.blocks_left = 0
                             /\ c.buf_valid => \/ s.buf_valid
                                               \/ s.io_ack_d /\ ~i.io_ack /\ ~s.flush_pending
      BY <1>12 DEF BufferStep
    <2>3. (s.phase = "DIN" /\ c.phase # "DIN")
             => /\ ~s.io_rd /\ ~plat.ack /\ s.blocks_left = 0
                /\ s.synth_len = 0 \/ s.buf_valid
      BY <1>3, <1>12 DEF BufferStep, io_busy
    <2>4. (s.io_rd \/ (plat.ack /\ plat.load)) => c.phase = "DIN" /\ c.synth_len = 0
      BY <1>10, <2>2, <2>3
    <2>5. c.io_rd => c.phase = "DIN" /\ c.synth_len = 0
      BY <1>10, <2>1, <2>2, <2>3, <2>4
    <2>6. c.synth_len # 0 => c.phase = "DIN" /\ c.blocks_left = 0 /\ ~c.buf_valid
      BY <1>10, <2>2, <2>3
    <2>7. (c.io_rd \/ (plat'.ack /\ plat'.load) \/ (c.io_ack_d /\ ~c.flush_pending))
             => c.phase = "DIN" /\ c.synth_len = 0
      BY <1>11, <2>4, <2>5
    <2> QED
      BY <1>2, <2>6, <2>7 DEF LoadInv, Loading
  <1>13. CASE s.phase = "CMD" /\ ExecStep(s, c)
    <2>1. ~s.io_rd /\ ~(plat.ack /\ plat.load) /\ s.synth_len = 0
      BY <1>10, <1>13
    <2>2. ~c.io_rd /\ (c.synth_len # 0 => c.phase = "DIN" /\ c.blocks_left = 0 /\ c.buf_valid = FALSE)
      BY <1>13, <2>1 DEF ExecStep
    <2>3. (c.io_rd \/ (plat'.ack /\ plat'.load) \/ (c.io_ack_d /\ ~c.flush_pending))
             => c.phase = "DIN" /\ c.synth_len = 0
      BY <1>11, <2>1, <2>2
    <2> QED
      BY <1>2, <2>2, <2>3 DEF LoadInv, Loading
  <1> QED
    BY <1>7, <1>12, <1>13 DEF Paced

\* What the places say of the chip alone.
LEMMA ModesOf ==
    ASSUME NEW at, NEW s, Agree(at, s)
    PROVE  /\ (s.xfer_out \/ s.xfer_pio_out) => s.phase # "DIN"
           /\ s.exec_pending => Whole(at.k, s) /\ at.k \in DOMAIN Commands
           /\ (at.state = "absent" /\ at.step = "end") => at.flags = LengthOf(at.k) + 1
  <1> USE DEF Quiet, NoTransfer, Stands, Runs, Fresh, Collecting
  <1>1. CASE Resting(at, s) \/ Preparing(at, s) \/ TimingOut(at, s)
    BY <1>1 DEF Resting, Preparing, TimingOut
  <1>2. CASE FeedingRom(at, s)
    BY <1>2 DEF FeedingRom, Feeding
  <1>3. CASE Selecting(at, s)
    BY <1>3 DEF Selecting, CdbWork, Executing
  <1>4. CASE Probing(at, s)
    BY <1>4 DEF Probing
  <1>5. CASE Receiving(at, s)
    BY <1>5 DEF Receiving, Reading
  <1>6. CASE Sending(at, s)
    BY <1>6 DEF Sending, Writing
  <1>7. CASE Ending(at, s) \/ Parting(at, s)
    BY <1>7 DEF Ending, Parting
  <1>8. CASE Proposing(at, s)
    BY <1>8 DEF Proposing, Messaging
  <1>9. CASE Refused(at, s) \/ Resuming(at, s)
    BY <1>9 DEF Refused, Resuming
  <1>10. CASE Ordering(at, s)
    BY <1>10 DEF Ordering, Feeding, CdbWork, Executing
  <1> QED
    BY <1>1, <1>2, <1>3, <1>4, <1>5, <1>6, <1>7, <1>8, <1>9, <1>10 DEF Agree

LEMMA LoadOwner ==
    ASSUME LoadInv, DialogueInv
    PROVE  LoadOwnsBuffer
  <1> SUFFICES ASSUME plat.ack, plat.load PROVE ~we_e(chip, ChipInput)
    BY DEF LoadOwnsBuffer
  <1>1. chip.phase = "DIN" /\ chip.synth_len = 0
    BY DEF LoadInv, Loading
  <1>2. ~chip.xfer_out /\ ~chip.xfer_pio_out
    BY <1>1, ModesOf DEF DialogueInv
  <1>3. PICK i : i = ChipInput
    OBVIOUS
  <1>4. Arm(chip, i) # "drain"
    BY <1>2 DEF Arm, drains
  <1> QED
    BY <1>1, <1>3, <1>4 DEF we_e, synth_on

\* "loads run only during io_rd service of read commands; drain and synth writes only
\* outside them" (ncr53c96.sv:1052-1053): true of every platform, every command table and
\* every driver that waits for its transfers.  It is the reset of an impatient one that
\* breaks it.
THEOREM LoadOwned ==
    ASSUME Patient
    PROVE  Spec => []LoadOwnsBuffer
  <1> DEFINE Kept == FlushMarked /\ LoadInv
  <1>1. Init => Kept
    BY DEF Init, ChipInit, PlatInit, FlushMarked, IoShape, LoadInv, Loading
  <1>2. DialogueInv /\ Kept /\ [Next]_vars => Kept'
    <2>1. ASSUME DialogueInv, Kept, Next PROVE Kept'
      <3>1. Paced(chip, ChipInput, chip')
        BY <2>1, DialogueStep, Patient DEF FlushMarked
      <3>2. LoadInv'
        BY <2>1, <3>1, LoadStep
      <3> QED
        BY <2>1, <3>2, FlushMarkedStep
    <2>2. ASSUME Kept, UNCHANGED vars PROVE Kept'
      BY <2>2 DEF vars, FlushMarked, LoadInv, Loading
    <2> QED
      BY <2>1, <2>2
  <1>3. DialogueInv /\ Kept => LoadOwnsBuffer
    BY LoadOwner
  <1>4. Spec => []DialogueInv
    BY DialogueKept, Patient
  <1> QED
    BY <1>1, <1>2, <1>3, <1>4, PTL DEF Spec

\* A sequence of the bytes of a CDB is the CDB.
LEMMA WholeCdb ==
    ASSUME NEW k \in DOMAIN Commands, NEW s, Whole(k, s)
    PROVE  SubSeq(s.cdb, 1, Commands[k].len) = CdbBytes(k)
  <1>1. PICK q : q = s.cdb
    OBVIOUS
  <1>2. PICK l \in Nat : l = Commands[k].len
    BY LengthRange DEF LengthOf
  <1>3. /\ q \in Seq(Sendable(k)) /\ Len(q) = l
        /\ \A y \in 1..l : q[y] = <<"cmd", k, y - 1>>
    BY <1>1, <1>2 DEF Whole, Sent, LengthOf
  <1>4. SubSeq(q, 1, l) = [j \in 1..l |-> q[j]]
    BY <1>3
  <1>5. [j \in 1..l |-> q[j]] = [j \in 1..l |-> <<"cmd", k, j - 1>>]
    BY <1>3
  <1> QED
    BY <1>1, <1>2, <1>4, <1>5 DEF CdbBytes

\* The target runs the CDB the driver sent: whatever the dialect, the length, the bytes
\* still in the FIFO and the beat of the last one, none is lost or overtaken.
THEOREM CdbKept ==
    ASSUME Patient
    PROVE  Spec => []CdbIntact
  <1>1. DialogueInv => CdbIntact
    <2> SUFFICES ASSUME DialogueInv, chip.exec_pending
                 PROVE  SubSeq(chip.cdb, 1, Commands[cpu.k].len) = CdbBytes(cpu.k)
      BY DEF CdbIntact
    <2>1. At.k = cpu.k
      BY DEF At
    <2>2. Whole(cpu.k, chip) /\ cpu.k \in DOMAIN Commands
      BY <2>1, ModesOf DEF DialogueInv
    <2> QED
      BY <2>2, WholeCdb
  <1>2. Spec => []DialogueInv
    BY DialogueKept, Patient
  <1> QED
    BY <1>1, <1>2, PTL

\* A driver that probes an empty ID finds its whole preload in the FIFO.
THEOREM TimeoutKept ==
    ASSUME Patient
    PROVE  Spec => []TimeoutKeepsFifo
  <1>1. DialogueInv => TimeoutKeepsFifo
    <2> SUFFICES ASSUME DialogueInv, cpu.state = "absent", cpu.step = "end"
                 PROVE  cpu.flags = Commands[cpu.k].len + 1
      BY DEF TimeoutKeepsFifo
    <2>1. ~Acked
      BY DEF DialogueInv, BusOk, Acked
    <2>2. /\ At.state = "absent" /\ At.step = "end" /\ At.flags = cpu.flags /\ At.k = cpu.k
      BY <2>1 DEF At
    <2> QED
      BY <2>2, ModesOf DEF DialogueInv, LengthOf
  <1>2. Spec => []DialogueInv
    BY DialogueKept, Patient
  <1> QED
    BY <1>1, <1>2, PTL


=============================================================================
