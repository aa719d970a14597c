--------------------------- MODULE BlkDeviceProofs --------------------------
(***************************************************************************)
(* The simulated block device implements the contract of the block port,    *)
(* for every latency, sector length, mount delay and number of disks.       *)
(***************************************************************************)
EXTENDS BlkDevice, TLAPS

-----------------------------------------------------------------------------
(* The inductive invariant *)

\* A word of the disk or of the buffer: who wrote it, for which sector, and where.
Datum == ({"power-up", "disk"} \cup Fillings) \X LBAs \X Sector

DevSet ==
    [current_disk : {-1, Unit}, ack_delay : Nat, reading : BOOLEAN, writing : BOOLEAN,
     bytecnt : 0..WORDS, mountQueue : SUBSET {Unit}, img_mounted : SUBSET {Unit},
     sd_ack : SUBSET {Unit}, sd_buff_wr : BOOLEAN, sd_buff_addr : Sector, sd_buff_dout : Datum,
     at : LBAs, disk : [LBAs -> [Sector -> Datum]]]

ChipSet ==
    [io_rd : BOOLEAN, io_wr : BOOLEAN, io_ack_d : BOOLEAN, io_lba : LBAs, op : {"rd", "wr"},
     mounted : BOOLEAN, sbuf : [Sector -> Datum], q_s : Datum]

BlkTypes == dev \in DevSet /\ chip \in ChipSet /\ cycles \in Nat /\ latency \in Latencies

\* Nothing is asked for before the mount is over, and no mount is left then.
Mounting ==
    /\ chip.mounted \/ dev.img_mounted # {} => dev.mountQueue = {} /\ cycles >= BOOT
    /\ InTransfer => chip.mounted /\ dev.img_mounted = {}

\* Between transfers the device drives nothing and works for no disk.
Idle ==
    ~InTransfer => dev.current_disk = -1 /\ ~dev.reading /\ ~dev.writing /\ ~dev.sd_buff_wr

\* In a transfer the device works for the wired disk, on the sector and in the direction
\* that the chip asked for.
Agreed ==
    InTransfer =>
        /\ dev.current_disk = Unit /\ dev.at = chip.io_lba
        /\ dev.reading <=> chip.op = "rd"
        /\ dev.writing <=> chip.op = "wr"
        /\ chip.io_rd => dev.reading
        /\ chip.io_wr => dev.writing

\* The delay runs before the acknowledge and stands at one with it.
Delayed ==
    InTransfer =>
        IF Unit \in dev.sd_ack THEN dev.ack_delay = 1
        ELSE dev.ack_delay > 0 /\ dev.bytecnt = 0 /\ ~dev.sd_buff_wr

\* A load's word is on the port with its own address while its strobe is up; a flush
\* shows the address of the word it takes next.
Position ==
    InTransfer =>
        /\ dev.reading => IF dev.sd_buff_wr
                          THEN /\ dev.bytecnt > 0 /\ dev.sd_buff_addr = dev.bytecnt - 1
                               /\ dev.sd_buff_dout = dev.disk[dev.at][dev.bytecnt - 1]
                          ELSE dev.bytecnt < WORDS
        /\ dev.writing => /\ ~dev.sd_buff_wr
                          /\ dev.sd_buff_addr = IF dev.bytecnt = WORDS THEN 0 ELSE dev.bytecnt

BlkInv == BlkTypes /\ Mounting /\ Idle /\ Agreed /\ Delayed /\ Position
-----------------------------------------------------------------------------
(* The stages of BeforeEval, each for itself *)

\* Words that name their place are data: Filled.
LEMMA FilledType ==
    ASSUME NEW tag \in {"power-up", "disk"} \cup Fillings, NEW l \in LBAs
    PROVE  Filled(tag, l) \in [Sector -> Datum]
  BY DEF Filled, Datum

\* The data part of SendData keeps the types: LoadWord, FlushWord and LoadPause.
LEMMA SendDataType ==
    ASSUME NEW s \in DevSet, NEW c \in ChipSet
    PROVE  SendData(s, c) \in DevSet
  <1> USE BlkAssumption
  <1>1. ASSUME s.bytecnt < WORDS
        PROVE  LoadWord(s) \in DevSet
    <2>1. s.bytecnt \in Sector /\ s.bytecnt + 1 \in 0..WORDS
      BY <1>1 DEF DevSet, Sector
    <2>2. s.disk[s.at][s.bytecnt] \in Datum
      BY <2>1 DEF DevSet
    <2> QED
      BY <2>1, <2>2 DEF DevSet, LoadWord
  <1>2. ASSUME s.bytecnt < WORDS
        PROVE  FlushWord(s, c) \in DevSet
    <2>1. s.bytecnt \in Sector /\ s.bytecnt + 1 \in 0..WORDS
      BY <1>2 DEF DevSet, Sector
    <2>2. (s.bytecnt + 1) % WORDS \in Sector
      BY <2>1 DEF Sector
    <2>3. c.q_s \in Datum
      BY DEF ChipSet
    <2>4. [s.disk EXCEPT ![s.at][s.bytecnt] = c.q_s] \in [LBAs -> [Sector -> Datum]]
      BY <2>1, <2>3 DEF DevSet
    <2> QED
      BY <2>1, <2>2, <2>4 DEF DevSet, FlushWord
  <1>3. LoadPause(s) \in DevSet
    BY DEF DevSet, LoadPause
  <1>4. [s EXCEPT !.sd_buff_wr = FALSE] \in DevSet
    BY DEF DevSet
  <1>5. [s EXCEPT !.sd_buff_addr = 0, !.writing = FALSE] \in DevSet
    <2>1. 0 \in Sector
      BY DEF Sector
    <2> QED
      BY <2>1 DEF DevSet
  <1> QED
    BY <1>1, <1>2, <1>3, <1>4, <1>5 DEF SendData

\* The stages that count delays keep the types: MountStep, Accept, Acknowledge and the
\* passes of the other disks.
LEMMA DelayTypes ==
    ASSUME NEW s \in DevSet, NEW c \in ChipSet, latency \in Latencies
    PROVE  /\ MountStep(s) \in DevSet
           /\ Accept(s, c) \in DevSet
           /\ Acknowledge(s) \in DevSet
           /\ OtherPasses(s) \in DevSet
  <1> USE BlkAssumption
  <1>1. MountStep(s) \in DevSet
    <2>1. [s EXCEPT !.mountQueue = @ \ {Unit}, !.img_mounted = @ \cup {Unit}, !.ack_delay = MOUNT] \in DevSet
      <3>1. /\ s.mountQueue \ {Unit} \in SUBSET {Unit} /\ s.img_mounted \cup {Unit} \in SUBSET {Unit}
            /\ MOUNT \in Nat
        BY DEF DevSet
      <3> QED
        BY <3>1 DEF DevSet
    <2>2. [s EXCEPT !.img_mounted = @ \ {Unit}] \in DevSet
      BY DEF DevSet
    <2>3. ASSUME s.ack_delay > 0
          PROVE  [s EXCEPT !.ack_delay = @ - 1] \in DevSet
      BY <2>3 DEF DevSet
    <2> QED
      BY <2>1, <2>2, <2>3 DEF MountStep
  <1>2. Accept(s, c) \in DevSet
    <2>1. Unit \in {-1, Unit} /\ latency \in Nat /\ c.io_lba \in LBAs /\ 0 \in Sector /\ 0 \in 0..WORDS
      BY DEF ChipSet, Sector
    <2>2. (s.reading \/ c.io_rd) \in BOOLEAN /\ (s.writing \/ c.io_wr) \in BOOLEAN
      OBVIOUS
    <2>3. [s EXCEPT !.current_disk = Unit] \in DevSet
      BY <2>1 DEF DevSet
    <2>4. [s EXCEPT !.current_disk = Unit, !.reading = @ \/ c.io_rd, !.writing = @ \/ c.io_wr,
                    !.at = c.io_lba, !.bytecnt = 0, !.sd_buff_addr = 0, !.ack_delay = latency] \in DevSet
      BY <2>1, <2>2 DEF DevSet
    <2> QED
      BY <2>3, <2>4 DEF Accept
  <1>3. Acknowledge(s) \in DevSet
    <2> DEFINE delay == IF s.ack_delay > 1 \/ (s.ack_delay = 1 /\ ~Busy(s)) THEN s.ack_delay - 1
                        ELSE s.ack_delay
               up == IF s.ack_delay = 1 THEN s.sd_ack \cup {Unit} ELSE s.sd_ack \ {Unit}
               disk == IF delay = 0 /\ ~Busy(s) THEN -1 ELSE s.current_disk
    <2>1. delay \in Nat /\ up \in SUBSET {Unit}
      BY DEF DevSet
    <2>2. disk \in {-1, Unit}
      BY DEF DevSet
    <2>3. Acknowledge(s) = IF s.current_disk # Unit THEN s
                           ELSE [s EXCEPT !.sd_ack = up, !.ack_delay = delay, !.current_disk = disk]
      BY DEF Acknowledge
    <2> HIDE DEF delay, up, disk
    <2> QED
      BY <2>1, <2>2, <2>3 DEF DevSet
  <1>4. OtherPasses(s) \in DevSet
    BY DEF DevSet, OtherPasses
  <1> QED
    BY <1>1, <1>2, <1>3, <1>4

\* The fields that only SendData, and a request that starts, change.
SameData(s, t) ==
    /\ t.reading = s.reading /\ t.writing = s.writing /\ t.bytecnt = s.bytecnt
    /\ t.sd_buff_wr = s.sd_buff_wr /\ t.sd_buff_addr = s.sd_buff_addr
    /\ t.sd_buff_dout = s.sd_buff_dout /\ t.at = s.at /\ t.disk = s.disk

\* What BeforeEval does after SendData.
Rest(s, c) == OtherPasses(Acknowledge(Accept(MountStep(s), c)))

\* In a transfer the rest of the pass counts the delay down to one and raises the
\* acknowledge when it is there; a strobe that is still up changes nothing.
LEMMA RestBusy ==
    ASSUME NEW s \in DevSet, NEW c \in ChipSet, latency \in Latencies,
           Busy(s), s.current_disk = Unit, s.mountQueue = {}, s.img_mounted = {}, s.ack_delay > 0
    PROVE  LET t == Rest(s, c)
           IN  /\ SameData(s, t) /\ t.current_disk = Unit /\ t.mountQueue = {} /\ t.img_mounted = {}
               /\ t.ack_delay = IF s.ack_delay = 1 THEN 1 ELSE s.ack_delay - 1
               /\ t.sd_ack = IF s.ack_delay = 1 THEN {Unit} ELSE {}
  <1> DEFINE a == Accept(s, c)
             k == Acknowledge(a)
  <1>1. MountStep(s) = s
    BY DEF MountStep
  <1>2. a \in DevSet /\ k \in DevSet
    BY DelayTypes
  <1>3. SameData(s, a) /\ a.current_disk = Unit /\ a.mountQueue = {} /\ a.img_mounted = {}
        /\ a.ack_delay = s.ack_delay /\ a.sd_ack = s.sd_ack
    BY DEF Accept, SameData, DevSet
  <1> HIDE DEF a
  <1>4. Busy(a)
    BY <1>3 DEF Busy, SameData
  <1>5. SameData(a, k) /\ k.mountQueue = a.mountQueue /\ k.img_mounted = a.img_mounted
    BY <1>2, <1>3, <1>4 DEF Acknowledge, SameData, DevSet
  <1>6. k.ack_delay = IF s.ack_delay = 1 THEN 1 ELSE s.ack_delay - 1
    BY <1>2, <1>3, <1>4 DEF Acknowledge, DevSet
  <1>7. k.sd_ack = IF s.ack_delay = 1 THEN {Unit} ELSE {}
    BY <1>2, <1>3, <1>4 DEF Acknowledge, DevSet
  <1>8. k.current_disk = Unit
    BY <1>2, <1>3, <1>4 DEF Acknowledge, DevSet
  <1> HIDE DEF k
  <1>9. Busy(k) /\ OtherPasses(k) = k
    BY <1>4, <1>5 DEF Busy, SameData, OtherPasses
  <1>10. Rest(s, c) = k
    BY <1>1, <1>9 DEF Rest, k, a
  <1> QED
    BY <1>3, <1>5, <1>6, <1>7, <1>8, <1>10 DEF SameData

\* When SendData has ended a transfer, the same pass drops the acknowledge and frees the
\* device.
LEMMA RestEnds ==
    ASSUME NEW s \in DevSet, NEW c \in ChipSet, latency \in Latencies,
           ~Busy(s), s.current_disk = Unit, s.mountQueue = {}, s.img_mounted = {}, s.ack_delay = 1,
           ~c.io_rd, ~c.io_wr
    PROVE  LET t == Rest(s, c)
           IN  /\ SameData(s, t) /\ t.current_disk = -1 /\ t.mountQueue = {} /\ t.img_mounted = {}
               /\ t.ack_delay = 0 /\ t.sd_ack = {}
  <1> DEFINE m == MountStep(s)
             k == Acknowledge(m)
  <1>1. m \in DevSet /\ k \in DevSet
    BY DelayTypes
  <1>2. SameData(s, m) /\ m.current_disk = Unit /\ m.mountQueue = {} /\ m.img_mounted = {}
        /\ m.ack_delay = 0 /\ m.sd_ack = s.sd_ack
    BY DEF MountStep, SameData, DevSet
  <1>3. Accept(m, c) = m
    BY DEF Accept
  <1> HIDE DEF m
  <1>4. ~Busy(m)
    BY <1>2 DEF Busy, SameData
  <1>5. SameData(m, k) /\ k.mountQueue = m.mountQueue /\ k.img_mounted = m.img_mounted
        /\ k.current_disk = -1
    BY <1>1, <1>2, <1>4 DEF Acknowledge, SameData, DevSet
  <1>6. k.ack_delay = 0 /\ k.sd_ack = {}
    BY <1>1, <1>2, <1>4 DEF Acknowledge, DevSet
  <1> HIDE DEF k
  <1>7. ~Busy(k)
    BY <1>4, <1>5 DEF Busy, SameData
  <1> DEFINE t == OtherPasses(k)
  <1>8. SameData(k, t) /\ t.mountQueue = k.mountQueue /\ t.img_mounted = k.img_mounted
        /\ t.current_disk = k.current_disk /\ t.sd_ack = k.sd_ack
    BY <1>1, <1>7 DEF OtherPasses, SameData, DevSet
  <1>9. t.ack_delay = 0
    BY <1>1, <1>6, <1>7, BlkAssumption DEF OtherPasses, DevSet
  <1> HIDE DEF t
  <1>10. Rest(s, c) = t
    BY <1>3 DEF Rest, k, m, t
  <1> QED
    BY <1>2, <1>5, <1>6, <1>8, <1>9, <1>10 DEF SameData

\* A request at an idle device starts a transfer of its sector in the same pass.
LEMMA RestAsks ==
    ASSUME NEW s \in DevSet, NEW c \in ChipSet, latency \in Latencies,
           ~Busy(s), s.current_disk = -1, s.mountQueue = {}, s.img_mounted = {}, s.ack_delay = 0,
           c.io_rd \/ c.io_wr
    PROVE  LET t == Rest(s, c)
           IN  /\ t.reading = c.io_rd /\ t.writing = c.io_wr /\ t.at = c.io_lba
               /\ t.bytecnt = 0 /\ t.sd_buff_addr = 0
               /\ t.sd_buff_wr = s.sd_buff_wr /\ t.disk = s.disk
               /\ t.current_disk = Unit /\ t.mountQueue = {} /\ t.img_mounted = {}
               /\ t.ack_delay > 0
               /\ t.sd_ack \in {{}, {Unit}}
               /\ Unit \in t.sd_ack => t.ack_delay = 1
  <1> DEFINE a == Accept(s, c)
             k == Acknowledge(a)
  <1>0. latency \in Nat /\ latency > 0
    BY BlkAssumption
  <1>1. MountStep(s) = s
    BY DEF MountStep
  <1>2. a \in DevSet /\ k \in DevSet
    BY DelayTypes
  <1>3. /\ a.at = c.io_lba /\ a.bytecnt = 0 /\ a.sd_buff_addr = 0
        /\ a.sd_buff_wr = s.sd_buff_wr /\ a.disk = s.disk
        /\ a.current_disk = Unit /\ a.mountQueue = {} /\ a.img_mounted = {}
        /\ a.ack_delay = latency
    BY DEF Accept, DevSet
  <1>4. a.reading = c.io_rd /\ a.writing = c.io_wr
    <2>1. a.reading = (s.reading \/ c.io_rd) /\ a.writing = (s.writing \/ c.io_wr)
      BY DEF Accept, DevSet
    <2>2. s.reading = FALSE /\ s.writing = FALSE
      BY DEF Busy, DevSet
    <2>3. c.io_rd \in BOOLEAN /\ c.io_wr \in BOOLEAN
      BY DEF ChipSet
    <2> HIDE DEF a
    <2> QED
      BY <2>1, <2>2, <2>3
  <1> HIDE DEF a
  <1>5. Busy(a)
    BY <1>4 DEF Busy
  <1>6. SameData(a, k) /\ k.mountQueue = a.mountQueue /\ k.img_mounted = a.img_mounted
        /\ k.current_disk = Unit
    BY <1>0, <1>2, <1>3, <1>5 DEF Acknowledge, SameData, DevSet
  <1>7. k.ack_delay = IF latency = 1 THEN 1 ELSE latency - 1
    BY <1>0, <1>2, <1>3, <1>5 DEF Acknowledge, DevSet
  <1>8. k.sd_ack = IF latency = 1 THEN {Unit} ELSE {}
    BY <1>0, <1>2, <1>3, <1>5 DEF Acknowledge, DevSet
  <1> HIDE DEF k
  <1>9. Busy(k) /\ OtherPasses(k) = k
    BY <1>5, <1>6 DEF Busy, SameData, OtherPasses
  <1>10. Rest(s, c) = k
    BY <1>1, <1>9 DEF Rest, k, a
  <1>11. k.ack_delay > 0 /\ k.sd_ack \in {{}, {Unit}} /\ (Unit \in k.sd_ack => k.ack_delay = 1)
    BY <1>0, <1>7, <1>8
  <1> QED
    BY <1>3, <1>4, <1>6, <1>10, <1>11 DEF SameData

\* Without a request the rest of the pass only works on a mount: one that is over does
\* not come back.
LEMMA RestIdle ==
    ASSUME NEW s \in DevSet, NEW c \in ChipSet, latency \in Latencies,
           ~Busy(s), s.current_disk = -1, ~c.io_rd, ~c.io_wr
    PROVE  LET t == Rest(s, c)
           IN  /\ SameData(s, t) /\ t.current_disk = -1 /\ t.sd_ack = s.sd_ack
               /\ s.mountQueue = {} => t.mountQueue = {}
               /\ s.mountQueue = {} /\ s.img_mounted = {} => t.img_mounted = {}
               /\ t.img_mounted # {} => t.mountQueue = {} \/ s.img_mounted # {}
  <1> DEFINE m == MountStep(s)
  <1>1. m \in DevSet
    BY DelayTypes
  <1>2. SameData(s, m) /\ m.current_disk = -1 /\ m.sd_ack = s.sd_ack
    BY DEF MountStep, SameData, DevSet
  <1>3. m.mountQueue \subseteq s.mountQueue
    BY DEF MountStep, DevSet
  <1>4. s.mountQueue = {} => m.img_mounted \subseteq s.img_mounted
    BY DEF MountStep, DevSet
  <1>5. m.img_mounted # {} => m.mountQueue = {} \/ s.img_mounted # {}
    BY DEF MountStep, DevSet
  <1>6. Accept(m, c) = m
    BY DEF Accept
  <1> HIDE DEF m
  <1>7. Acknowledge(m) = m
    BY <1>2 DEF Acknowledge, Unit
  <1> DEFINE t == OtherPasses(m)
  <1>8. SameData(m, t) /\ t.mountQueue = m.mountQueue /\ t.img_mounted = m.img_mounted
        /\ t.current_disk = m.current_disk /\ t.sd_ack = m.sd_ack
    BY <1>1 DEF OtherPasses, SameData, DevSet
  <1> HIDE DEF t
  <1>9. Rest(s, c) = t
    BY <1>6, <1>7 DEF Rest, m, t
  <1> QED
    BY <1>2, <1>3, <1>4, <1>5, <1>8, <1>9 DEF SameData

-----------------------------------------------------------------------------
(* The chip's edge and the step as a whole *)

\* The chip's edge, field by field.
LEMMA EdgeFields ==
    ASSUME BlkTypes
    PROVE  /\ Edge \in ChipSet
           /\ Edge.io_rd = (chip.io_rd /\ Unit \notin dev.sd_ack)
           /\ Edge.io_wr = (chip.io_wr /\ Unit \notin dev.sd_ack)
           /\ Edge.io_lba = chip.io_lba /\ Edge.op = chip.op
           /\ Edge.mounted = (chip.mounted \/ Unit \in dev.img_mounted)
           /\ Edge.sbuf = IF dev.sd_buff_wr
                          THEN [chip.sbuf EXCEPT ![dev.sd_buff_addr] = dev.sd_buff_dout] ELSE chip.sbuf
           /\ Edge.q_s = chip.sbuf[dev.sd_buff_addr]
  <1> DEFINE rd == chip.io_rd /\ Unit \notin dev.sd_ack
             wr == chip.io_wr /\ Unit \notin dev.sd_ack
             ackd == Unit \in dev.sd_ack
             mnt == chip.mounted \/ Unit \in dev.img_mounted
             buf == IF dev.sd_buff_wr THEN [chip.sbuf EXCEPT ![dev.sd_buff_addr] = dev.sd_buff_dout]
                    ELSE chip.sbuf
             q == chip.sbuf[dev.sd_buff_addr]
  <1>1. chip \in ChipSet /\ dev \in DevSet
    BY DEF BlkTypes
  <1>2. rd \in BOOLEAN /\ wr \in BOOLEAN /\ ackd \in BOOLEAN /\ mnt \in BOOLEAN
    OBVIOUS
  <1>3. buf \in [Sector -> Datum] /\ q \in Datum
    BY <1>1 DEF ChipSet, DevSet
  <1>4. Edge = [chip EXCEPT !.io_rd = rd, !.io_wr = wr, !.io_ack_d = ackd, !.mounted = mnt,
                            !.sbuf = buf, !.q_s = q]
    BY DEF Edge
  <1> HIDE DEF rd, wr, ackd, mnt, buf, q
  <1>5. Edge \in ChipSet
    BY <1>1, <1>2, <1>3, <1>4 DEF ChipSet
  <1>6. Edge.io_rd = rd /\ Edge.io_wr = wr /\ Edge.io_lba = chip.io_lba /\ Edge.op = chip.op
        /\ Edge.mounted = mnt /\ Edge.sbuf = buf /\ Edge.q_s = q
    BY <1>1, <1>4 DEF ChipSet
  <1> QED
    BY <1>5, <1>6 DEF rd, wr, ackd, mnt, buf, q

\* The invariant holds when the simulation starts: Init.
LEMMA BlkInvInit == Init => BlkInv
  <1> SUFFICES ASSUME Init PROVE BlkInv
    OBVIOUS
  <1> USE BlkAssumption
  <1>1. 0 \in LBAs /\ 0 \in Sector /\ 0 \in 0..WORDS /\ <<"power-up", 0, 0>> \in Datum
    BY DEF Sector, Datum
  <1>2. \A l \in LBAs : Filled("disk", l) \in [Sector -> Datum]
    BY FilledType
  <1>3. [l \in LBAs |-> Filled("disk", l)] \in [LBAs -> [Sector -> Datum]]
    BY <1>2
  <1>4. Filled("power-up", 0) \in [Sector -> Datum]
    BY <1>1, FilledType
  <1>5. DevInit \in DevSet
    BY <1>1, <1>3 DEF DevInit, DevSet
  <1>6. ChipInit \in ChipSet
    BY <1>1, <1>4 DEF ChipInit, ChipSet
  <1>7. BlkTypes
    BY <1>5, <1>6 DEF BlkTypes, Init
  <1>8. ~InTransfer /\ ~chip.mounted /\ dev.img_mounted = {}
    BY DEF InTransfer, Init, DevInit, ChipInit
  <1>9. Idle
    BY DEF Idle, Init, DevInit
  <1> QED
    BY <1>7, <1>8, <1>9 DEF BlkInv, Mounting, Agreed, Delayed, Position

\* After the boot a step is the chip's new state and both halves of BeforeEval on it.
LEMMA DeviceIs ==
    ASSUME BlkTypes, NEW c \in ChipSet, Device(c)
    PROVE  /\ chip' = c /\ latency' = latency /\ cycles' \in Nat /\ cycles' >= cycles
           /\ cycles >= BOOT => dev' = Rest(SendData(dev, c), c) /\ cycles' = cycles
           /\ cycles < BOOT => dev' = dev
           /\ SendData(dev, c) \in DevSet
           /\ BlkTypes'
  <1>1. dev \in DevSet /\ latency \in Latencies /\ cycles \in Nat /\ BOOT \in Nat
    BY BlkAssumption DEF BlkTypes
  <1>2. SendData(dev, c) \in DevSet
    BY <1>1, SendDataType
  <1>3. Rest(SendData(dev, c), c) \in DevSet
    BY <1>1, <1>2, DelayTypes DEF Rest
  <1>4. chip' = c /\ latency' = latency /\ cycles' = IF cycles < BOOT THEN cycles + 1 ELSE cycles
    BY DEF Device
  <1>5. cycles' \in Nat /\ cycles' >= cycles /\ (cycles >= BOOT => cycles' = cycles)
    BY <1>1, <1>4
  <1>6. dev' = IF cycles < BOOT THEN dev ELSE Rest(SendData(dev, c), c)
    BY DEF Device, BeforeEval, Rest
  <1>7. BlkTypes'
    BY <1>1, <1>3, <1>4, <1>5, <1>6 DEF BlkTypes
  <1> QED
    BY <1>1, <1>2, <1>4, <1>5, <1>6, <1>7

-----------------------------------------------------------------------------
(* Each phase of the handshake *)

\* A load's word counts as moved when its strobe has fallen: WordsMoved.
LEMMA Counted ==
    ASSUME NEW d \in DevSet
    PROVE  /\ d.sd_buff_wr => d.bytecnt - (IF d.sd_buff_wr THEN 1 ELSE 0) = d.bytecnt - 1
           /\ ~d.sd_buff_wr => d.bytecnt - (IF d.sd_buff_wr THEN 1 ELSE 0) = d.bytecnt
  BY BlkAssumption DEF DevSet

\* A load or a flush that the chip asks for begins a transfer, and the port sees the
\* request alone: Load and Flush.
LEMMA AskStep ==
    ASSUME BlkInv, Free, NEW c \in ChipSet, Device(c), c.mounted,
           \/ c.op = "rd" /\ c.io_rd /\ ~c.io_wr
           \/ c.op = "wr" /\ c.io_wr /\ ~c.io_rd
    PROVE  /\ BlkInv' /\ ~InTransfer /\ InTransfer' /\ WordsMoved = 0 /\ WordsMoved' = 0
           /\ dev'.disk = dev.disk
  <1>1. BlkTypes /\ dev \in DevSet /\ latency \in Latencies /\ BlkTypes'
    BY DeviceIs DEF BlkInv, BlkTypes
  <1>2. ~InTransfer
    BY DEF Free, io_busy, InTransfer
  <1>3. dev.current_disk = -1 /\ ~Busy(dev) /\ ~dev.sd_buff_wr
    BY <1>2 DEF BlkInv, Idle, Busy
  <1>4. dev.mountQueue = {} /\ dev.img_mounted = {} /\ dev.ack_delay = 0 /\ cycles >= BOOT
    BY DEF Free, BlkInv, Mounting
  <1>5. SendData(dev, c) = dev
    BY <1>3 DEF SendData, Unit
  <1>6. dev' = Rest(dev, c) /\ chip' = c /\ cycles' = cycles
    BY <1>1, <1>4, <1>5, DeviceIs
  <1>7. /\ dev'.reading = c.io_rd /\ dev'.writing = c.io_wr /\ dev'.at = c.io_lba
        /\ dev'.bytecnt = 0 /\ dev'.sd_buff_addr = 0
        /\ dev'.sd_buff_wr = dev.sd_buff_wr /\ dev'.disk = dev.disk
        /\ dev'.current_disk = Unit /\ dev'.mountQueue = {} /\ dev'.img_mounted = {}
        /\ dev'.ack_delay > 0
        /\ Unit \in dev'.sd_ack => dev'.ack_delay = 1
    BY <1>1, <1>3, <1>4, <1>6, RestAsks
  <1>8. InTransfer'
    BY <1>6 DEF InTransfer
  <1>9. Mounting' /\ Idle'
    BY <1>4, <1>6, <1>7, <1>8 DEF Mounting, Idle
  <1>10. Agreed'
    BY <1>6, <1>7 DEF Agreed
  <1>11. Delayed'
    BY <1>3, <1>6, <1>7 DEF Delayed
  <1>12. Position'
    BY <1>3, <1>6, <1>7, BlkAssumption DEF Position
  <1>13. WordsMoved = 0 /\ WordsMoved' = 0
    <2>1. ~dev'.sd_buff_wr /\ ~dev.reading /\ ~dev.writing
      BY <1>3, <1>7 DEF Busy
    <2>2. WordsMoved = 0
      BY <2>1 DEF WordsMoved
    <2>3. dev'.bytecnt - (IF dev'.sd_buff_wr THEN 1 ELSE 0) = 0
      BY <2>1, <1>1, <1>7, Counted DEF BlkTypes
    <2>4. WordsMoved' = 0
      BY <2>3, <1>7 DEF WordsMoved
    <2> QED
      BY <2>2, <2>4
  <1> QED
    BY <1>1, <1>2, <1>7, <1>8, <1>9, <1>10, <1>11, <1>12, <1>13 DEF BlkInv

\* Between transfers a clock changes nothing that the port shows: Tick.
LEMMA IdleStep ==
    ASSUME BlkInv, Tick, ~InTransfer
    PROVE  /\ BlkInv' /\ ~InTransfer' /\ WordsMoved = 0 /\ WordsMoved' = 0
           /\ dev'.disk = dev.disk /\ chip'.sbuf = chip.sbuf /\ chip'.io_lba = chip.io_lba
  <1>1. BlkTypes /\ dev \in DevSet /\ latency \in Latencies /\ Device(Edge) /\ Edge \in ChipSet
    BY EdgeFields DEF BlkInv, BlkTypes, Tick
  <1>2. dev.current_disk = -1 /\ ~Busy(dev) /\ ~dev.sd_buff_wr /\ dev.sd_ack = {}
    BY <1>1 DEF BlkInv, Idle, Busy, InTransfer, DevSet
  <1>3. ~Edge.io_rd /\ ~Edge.io_wr /\ Edge.sbuf = chip.sbuf /\ Edge.io_lba = chip.io_lba
        /\ Edge.mounted = (chip.mounted \/ Unit \in dev.img_mounted)
    BY <1>1, <1>2, EdgeFields DEF InTransfer
  <1>4. SendData(dev, Edge) = dev
    BY <1>2 DEF SendData, Unit
  <1>5. chip' = Edge /\ cycles' >= cycles /\ BlkTypes' /\ cycles' \in Nat /\ cycles \in Nat
    BY <1>1, DeviceIs DEF BlkTypes
  <1>6. cycles < BOOT \/ cycles >= BOOT
    BY <1>5, BlkAssumption
  <1>7. dev' = dev \/ (cycles >= BOOT /\ dev' = Rest(dev, Edge))
    BY <1>1, <1>4, <1>6, DeviceIs
  <1>8. /\ SameData(dev, dev') /\ dev'.current_disk = -1 /\ dev'.sd_ack = dev.sd_ack
        /\ dev.mountQueue = {} => dev'.mountQueue = {}
        /\ dev'.img_mounted # {} => dev'.mountQueue = {} \/ dev.img_mounted # {}
    BY <1>1, <1>2, <1>3, <1>7, RestIdle DEF SameData
  <1>9. ~InTransfer'
    BY <1>2, <1>3, <1>5, <1>8 DEF InTransfer
  <1>10. chip'.mounted \/ dev'.img_mounted # {} => dev'.mountQueue = {} /\ cycles' >= BOOT
    <2>1. chip.mounted \/ dev.img_mounted # {} => dev.mountQueue = {} /\ cycles >= BOOT
      BY DEF BlkInv, Mounting
    <2>2. ASSUME chip.mounted \/ dev.img_mounted # {}
          PROVE  dev'.mountQueue = {} /\ cycles' >= BOOT
      BY <2>1, <2>2, <1>5, <1>8, BlkAssumption
    <2>3. ASSUME ~chip.mounted, dev.img_mounted = {}, chip'.mounted \/ dev'.img_mounted # {}
          PROVE  dev'.mountQueue = {} /\ cycles' >= BOOT
      <3>1. ~chip'.mounted
        BY <2>3, <1>3, <1>5
      <3>2. dev'.img_mounted # {} /\ dev'.mountQueue = {} /\ dev' # dev
        BY <2>3, <3>1, <1>8
      <3> QED
        BY <3>2, <1>5, <1>7, BlkAssumption
    <2> QED
      BY <2>2, <2>3
  <1>11. Idle'
    BY <1>2, <1>8 DEF Idle, Busy, SameData
  <1>12. WordsMoved = 0 /\ WordsMoved' = 0
    BY <1>2, <1>8, <1>9 DEF WordsMoved, Busy, SameData
  <1>13. BlkInv'
    BY <1>5, <1>9, <1>10, <1>11 DEF BlkInv, Mounting, Agreed, Delayed, Position
  <1> QED
    BY <1>3, <1>5, <1>8, <1>9, <1>12, <1>13 DEF SameData

\* What every clock of a transfer starts from.
LEMMA TransferStarts ==
    ASSUME BlkInv, Tick, InTransfer
    PROVE  /\ BlkTypes /\ BlkTypes' /\ dev \in DevSet /\ dev' \in DevSet /\ latency \in Latencies
           /\ Edge \in ChipSet /\ SendData(dev, Edge) \in DevSet
           /\ dev' = Rest(SendData(dev, Edge), Edge) /\ chip' = Edge /\ cycles' >= BOOT
           /\ dev.current_disk = Unit /\ dev.mountQueue = {} /\ dev.img_mounted = {}
           /\ chip.mounted /\ Edge.mounted
           /\ dev.at = chip.io_lba /\ Edge.io_lba = chip.io_lba /\ Edge.op = chip.op
           /\ dev.bytecnt \in 0..WORDS /\ dev.ack_delay \in Nat /\ dev.ack_delay > 0
           /\ Busy(dev)
  <1>1. BlkTypes /\ dev \in DevSet /\ latency \in Latencies /\ Device(Edge) /\ chip \in ChipSet
    BY DEF BlkInv, BlkTypes, Tick
  <1>2. chip.mounted /\ dev.img_mounted = {} /\ dev.mountQueue = {} /\ cycles >= BOOT
    BY DEF BlkInv, Mounting
  <1>3. Edge \in ChipSet /\ Edge.mounted /\ Edge.io_lba = chip.io_lba /\ Edge.op = chip.op
    BY <1>1, <1>2, EdgeFields
  <1>4. /\ BlkTypes' /\ SendData(dev, Edge) \in DevSet
        /\ dev' = Rest(SendData(dev, Edge), Edge) /\ chip' = Edge /\ cycles' = cycles
    BY <1>1, <1>2, <1>3, DeviceIs
  <1>5. dev.current_disk = Unit /\ dev.at = chip.io_lba
    BY DEF BlkInv, Agreed
  <1>6. Busy(dev)
    BY <1>1 DEF BlkInv, Agreed, Busy, ChipSet
  <1>7. dev.ack_delay > 0
    BY DEF BlkInv, Delayed
  <1>8. dev.bytecnt \in 0..WORDS /\ dev.ack_delay \in Nat
    BY <1>1 DEF DevSet
  <1> QED
    BY <1>1, <1>2, <1>3, <1>4, <1>5, <1>6, <1>7, <1>8 DEF BlkTypes

\* While the delay runs nothing moves: ack_delay above one.
LEMMA WaitStep ==
    ASSUME BlkInv, Tick, InTransfer, dev.ack_delay # 1
    PROVE  /\ BlkInv' /\ InTransfer' /\ WordsMoved' = WordsMoved
           /\ Unit \notin dev.sd_ack /\ Unit \notin dev'.sd_ack
           /\ dev'.disk = dev.disk /\ chip'.sbuf = chip.sbuf
  <1> DEFINE s == SendData(dev, Edge)
  <1> USE TransferStarts
  <1>1. Unit \notin dev.sd_ack /\ dev.bytecnt = 0 /\ ~dev.sd_buff_wr
    BY DEF BlkInv, Delayed
  <1>2. s = [dev EXCEPT !.sd_buff_wr = FALSE]
    BY DEF SendData
  <1>3. SameData(dev, s)
    BY <1>1, <1>2 DEF SameData, DevSet
  <1>4. s.current_disk = Unit /\ s.mountQueue = {} /\ s.img_mounted = {} /\ s.ack_delay = dev.ack_delay
    BY <1>2 DEF DevSet
  <1> HIDE DEF s
  <1>5. Busy(s)
    BY <1>3 DEF Busy, SameData
  <1>6. /\ SameData(s, dev') /\ dev'.current_disk = Unit /\ dev'.mountQueue = {} /\ dev'.img_mounted = {}
        /\ dev'.ack_delay = s.ack_delay - 1 /\ dev'.sd_ack = {}
    BY <1>4, <1>5, RestBusy DEF s
  <1>7. SameData(dev, dev')
    BY <1>3, <1>6 DEF SameData
  <1>8. chip'.io_rd = chip.io_rd /\ chip'.io_wr = chip.io_wr /\ chip'.sbuf = chip.sbuf
    <2>1. chip.io_rd \in BOOLEAN /\ chip.io_wr \in BOOLEAN
      BY DEF BlkTypes, ChipSet
    <2>2. Edge.io_rd = chip.io_rd /\ Edge.io_wr = chip.io_wr /\ Edge.sbuf = chip.sbuf
      BY <1>1, <2>1, EdgeFields
    <2> QED
      BY <2>2
  <1>9. InTransfer'
    BY <1>1, <1>8 DEF InTransfer
  <1>10. dev'.ack_delay > 0 /\ Unit \notin dev'.sd_ack
    BY <1>4, <1>6
  <1>11. Mounting' /\ Idle'
    BY <1>6, <1>9 DEF Mounting, Idle
  <1>12. Agreed'
    BY <1>6, <1>7, <1>8 DEF Agreed, BlkInv, SameData
  <1>13. Delayed'
    BY <1>1, <1>7, <1>10 DEF Delayed, SameData
  <1>14. Position'
    BY <1>7, <1>9 DEF Position, BlkInv, SameData
  <1>15. WordsMoved' = WordsMoved
    BY <1>7, <1>9 DEF WordsMoved, SameData
  <1> QED
    BY <1>1, <1>7, <1>8, <1>9, <1>10, <1>11, <1>12, <1>13, <1>14, <1>15 DEF BlkInv, SameData

\* The device puts a load's next word on the port, with the acknowledge: LoadWord.
LEMMA LoadWordStep ==
    ASSUME BlkInv, Tick, InTransfer, dev.ack_delay = 1, dev.reading, ~dev.sd_buff_wr
    PROVE  /\ BlkInv' /\ InTransfer' /\ WordsMoved' = WordsMoved /\ Unit \in dev'.sd_ack
           /\ dev'.disk = dev.disk /\ chip'.sbuf = chip.sbuf
           /\ WordsMoved \in 0..WORDS
  <1> DEFINE s == SendData(dev, Edge)
  <1> USE TransferStarts
  <1>1. dev.bytecnt < WORDS /\ chip.op = "rd" /\ ~dev.writing
    BY DEF BlkInv, Position, Agreed
  <1>2. s = LoadWord(dev)
    BY <1>1 DEF SendData
  <1>3. /\ s.reading = dev.reading /\ s.writing = dev.writing /\ s.bytecnt = dev.bytecnt + 1
        /\ s.sd_buff_wr = TRUE /\ s.sd_buff_addr = dev.bytecnt
        /\ s.sd_buff_dout = dev.disk[dev.at][dev.bytecnt] /\ s.at = dev.at /\ s.disk = dev.disk
    BY <1>2 DEF LoadWord, DevSet
  <1>4. s.current_disk = Unit /\ s.mountQueue = {} /\ s.img_mounted = {} /\ s.ack_delay = 1
    BY <1>2 DEF LoadWord, DevSet
  <1> HIDE DEF s
  <1>5. Busy(s)
    BY <1>3 DEF Busy
  <1>6. /\ SameData(s, dev') /\ dev'.current_disk = Unit /\ dev'.mountQueue = {} /\ dev'.img_mounted = {}
        /\ dev'.ack_delay = 1 /\ dev'.sd_ack = {Unit}
    BY <1>4, <1>5, RestBusy DEF s
  <1>7. chip'.sbuf = chip.sbuf /\ (chip'.io_rd => chip.io_rd) /\ (chip'.io_wr => chip.io_wr)
    BY EdgeFields
  <1>8. InTransfer' /\ Unit \in dev'.sd_ack
    BY <1>6 DEF InTransfer
  <1>9. Mounting' /\ Idle'
    BY <1>6, <1>8 DEF Mounting, Idle
  <1>10. Agreed'
    BY <1>1, <1>3, <1>6, <1>7 DEF Agreed, BlkInv, SameData
  <1>11. Delayed'
    BY <1>6, <1>8 DEF Delayed
  <1>12. dev'.bytecnt = dev.bytecnt + 1 /\ dev'.sd_buff_wr /\ dev'.reading /\ ~dev'.writing
    BY <1>1, <1>3, <1>6 DEF SameData
  <1>13. dev'.bytecnt > 0 /\ dev'.bytecnt - 1 = dev.bytecnt
    BY <1>12
  <1>14. Position'
    BY <1>3, <1>6, <1>12, <1>13 DEF Position, SameData
  <1>15. WordsMoved = dev.bytecnt
    BY Counted DEF WordsMoved
  <1>16. WordsMoved' = dev.bytecnt
    BY <1>8, <1>12, <1>13, Counted DEF WordsMoved
  <1> QED
    BY <1>3, <1>6, <1>7, <1>8, <1>9, <1>10, <1>11, <1>14, <1>15, <1>16 DEF BlkInv, SameData

\* The chip stores the word that the port shows, and the device pauses: LoadPause before
\* the last word.
LEMMA LoadPauseStep ==
    ASSUME BlkInv, Tick, InTransfer, dev.reading, dev.sd_buff_wr, dev.bytecnt < WORDS
    PROVE  /\ BlkInv' /\ InTransfer' /\ WordsMoved' = WordsMoved + 1
           /\ Unit \in dev.sd_ack /\ Unit \in dev'.sd_ack
           /\ dev'.disk = dev.disk
           /\ chip'.sbuf = [chip.sbuf EXCEPT ![WordsMoved] = dev.disk[chip.io_lba][WordsMoved]]
           /\ WordsMoved \in 0..WORDS /\ WordsMoved + 1 <= WORDS
  <1> DEFINE s == SendData(dev, Edge)
  <1> USE TransferStarts
  <1>1. Unit \in dev.sd_ack /\ dev.ack_delay = 1
    BY DEF BlkInv, Delayed
  <1>2. /\ chip.op = "rd" /\ ~dev.writing
        /\ dev.bytecnt > 0 /\ dev.sd_buff_addr = dev.bytecnt - 1
        /\ dev.sd_buff_dout = dev.disk[dev.at][dev.bytecnt - 1]
    BY DEF BlkInv, Position, Agreed
  <1>3. s = LoadPause(dev)
    BY <1>1, <1>2 DEF SendData
  <1>4. /\ s.writing = dev.writing /\ s.bytecnt = dev.bytecnt /\ s.sd_buff_wr = FALSE
        /\ s.at = dev.at /\ s.disk = dev.disk
    BY <1>3 DEF LoadPause, DevSet
  <1>5. s.reading = TRUE
    BY <1>3 DEF LoadPause, DevSet
  <1>6. s.current_disk = Unit /\ s.mountQueue = {} /\ s.img_mounted = {} /\ s.ack_delay = 1
    BY <1>1, <1>3 DEF LoadPause, DevSet
  <1> HIDE DEF s
  <1>7. Busy(s)
    BY <1>5 DEF Busy
  <1>8. /\ SameData(s, dev') /\ dev'.current_disk = Unit /\ dev'.mountQueue = {} /\ dev'.img_mounted = {}
        /\ dev'.ack_delay = 1 /\ dev'.sd_ack = {Unit}
    BY <1>6, <1>7, RestBusy DEF s
  <1>9. ~chip'.io_rd /\ ~chip'.io_wr
        /\ chip'.sbuf = [chip.sbuf EXCEPT ![dev.sd_buff_addr] = dev.sd_buff_dout]
    BY <1>1, EdgeFields
  <1>10. InTransfer' /\ Unit \in dev'.sd_ack
    BY <1>8 DEF InTransfer
  <1>11. Mounting' /\ Idle'
    BY <1>8, <1>10 DEF Mounting, Idle
  <1>12. dev'.bytecnt = dev.bytecnt /\ ~dev'.sd_buff_wr /\ dev'.reading /\ ~dev'.writing
    BY <1>2, <1>4, <1>5, <1>8 DEF SameData
  <1>13. Agreed'
    BY <1>2, <1>4, <1>8, <1>9, <1>12 DEF Agreed, SameData
  <1>14. Delayed'
    BY <1>8, <1>10 DEF Delayed
  <1>15. Position'
    BY <1>12 DEF Position
  <1>16. WordsMoved = dev.bytecnt - 1
    BY Counted DEF WordsMoved
  <1>17. WordsMoved' = dev.bytecnt
    BY <1>10, <1>12, Counted DEF WordsMoved
  <1>18. WordsMoved' = WordsMoved + 1 /\ WordsMoved \in 0..WORDS /\ WordsMoved + 1 <= WORDS
    BY <1>2, <1>16, <1>17, BlkAssumption
  <1> QED
    BY <1>1, <1>2, <1>4, <1>8, <1>9, <1>10, <1>11, <1>13, <1>14, <1>15, <1>16, <1>18 DEF BlkInv, SameData

\* The clock on which the chip stores a load's last word is the one on which the device
\* drops the acknowledge: LoadPause after the last word.
LEMMA LoadEndStep ==
    ASSUME BlkInv, Tick, InTransfer, dev.reading, dev.sd_buff_wr, dev.bytecnt = WORDS
    PROVE  /\ BlkInv' /\ ~InTransfer' /\ WordsMoved + 1 = WORDS /\ WordsMoved' = 0
           /\ Unit \in dev.sd_ack /\ Unit \notin dev'.sd_ack
           /\ dev'.disk = dev.disk
           /\ chip'.sbuf = [chip.sbuf EXCEPT ![WordsMoved] = dev.disk[chip.io_lba][WordsMoved]]
  <1> DEFINE s == SendData(dev, Edge)
  <1> USE TransferStarts
  <1>1. Unit \in dev.sd_ack /\ dev.ack_delay = 1
    BY DEF BlkInv, Delayed
  <1>2. /\ chip.op = "rd" /\ ~dev.writing
        /\ dev.bytecnt > 0 /\ dev.sd_buff_addr = dev.bytecnt - 1
        /\ dev.sd_buff_dout = dev.disk[dev.at][dev.bytecnt - 1]
    BY DEF BlkInv, Position, Agreed
  <1>3. s = LoadPause(dev)
    BY <1>1, <1>2 DEF SendData
  <1>4. s.writing = dev.writing /\ s.sd_buff_wr = FALSE /\ s.disk = dev.disk
    BY <1>3 DEF LoadPause, DevSet
  <1>5. ~s.reading
    <2>1. s.reading = (dev.reading /\ dev.bytecnt < WORDS)
      BY <1>3 DEF LoadPause, DevSet
    <2>2. ~(dev.bytecnt < WORDS)
      BY BlkAssumption
    <2> HIDE DEF s
    <2> QED
      BY <2>1, <2>2
  <1>6. s.current_disk = Unit /\ s.mountQueue = {} /\ s.img_mounted = {} /\ s.ack_delay = 1
    BY <1>1, <1>3 DEF LoadPause, DevSet
  <1> HIDE DEF s
  <1>7. ~Busy(s)
    BY <1>2, <1>4, <1>5 DEF Busy
  <1>8. ~Edge.io_rd /\ ~Edge.io_wr
        /\ Edge.sbuf = [chip.sbuf EXCEPT ![dev.sd_buff_addr] = dev.sd_buff_dout]
    BY <1>1, EdgeFields
  <1>9. /\ SameData(s, dev') /\ dev'.current_disk = -1 /\ dev'.mountQueue = {} /\ dev'.img_mounted = {}
        /\ dev'.sd_ack = {}
    BY <1>6, <1>7, <1>8, RestEnds DEF s
  <1>10. ~InTransfer' /\ Unit \notin dev'.sd_ack
    BY <1>8, <1>9 DEF InTransfer
  <1>11. ~dev'.reading /\ ~dev'.writing /\ ~dev'.sd_buff_wr
    BY <1>2, <1>4, <1>5, <1>9 DEF SameData
  <1>12. Mounting' /\ Idle'
    BY <1>9, <1>10, <1>11 DEF Mounting, Idle
  <1>13. Agreed' /\ Delayed' /\ Position'
    BY <1>10 DEF Agreed, Delayed, Position
  <1>14. WordsMoved = dev.bytecnt - 1 /\ WordsMoved' = 0
    BY <1>11, Counted DEF WordsMoved
  <1>15. WordsMoved + 1 = WORDS
    BY <1>14, BlkAssumption
  <1> QED
    BY <1>1, <1>2, <1>4, <1>8, <1>9, <1>10, <1>12, <1>13, <1>14, <1>15 DEF BlkInv, SameData

\* The device takes the word that the chip's read port shows, whose address it drove a
\* clock before: FlushWord.
LEMMA FlushWordStep ==
    ASSUME BlkInv, Tick, InTransfer, dev.ack_delay = 1, dev.writing, dev.bytecnt < WORDS
    PROVE  /\ BlkInv' /\ InTransfer' /\ WordsMoved' = WordsMoved + 1 /\ Unit \in dev'.sd_ack
           /\ dev'.disk = [dev.disk EXCEPT ![chip.io_lba][WordsMoved] = chip.sbuf[WordsMoved]]
           /\ chip'.sbuf = chip.sbuf
           /\ WordsMoved \in 0..WORDS /\ WordsMoved + 1 <= WORDS
  <1> DEFINE s == SendData(dev, Edge)
  <1> USE TransferStarts
  <1>1. /\ chip.op = "wr" /\ ~dev.reading /\ ~dev.sd_buff_wr /\ dev.sd_buff_addr = dev.bytecnt
    BY BlkAssumption DEF BlkInv, Position, Agreed
  <1>2. s = FlushWord(dev, Edge)
    BY <1>1 DEF SendData
  <1>3. Edge.q_s = chip.sbuf[dev.bytecnt] /\ Edge.sbuf = chip.sbuf
        /\ (Edge.io_rd => chip.io_rd) /\ (Edge.io_wr => chip.io_wr)
    BY <1>1, EdgeFields
  <1>4. /\ s.reading = dev.reading /\ s.writing = dev.writing /\ s.bytecnt = dev.bytecnt + 1
        /\ s.sd_buff_wr = dev.sd_buff_wr /\ s.at = dev.at
        /\ s.sd_buff_addr = (dev.bytecnt + 1) % WORDS
    BY <1>2 DEF FlushWord, DevSet
  <1>5. s.disk = [dev.disk EXCEPT ![dev.at][dev.bytecnt] = Edge.q_s]
    BY <1>2 DEF FlushWord, DevSet
  <1>6. s.current_disk = Unit /\ s.mountQueue = {} /\ s.img_mounted = {} /\ s.ack_delay = 1
    BY <1>2 DEF FlushWord, DevSet
  <1> HIDE DEF s
  <1>7. Busy(s)
    BY <1>4 DEF Busy
  <1>8. /\ SameData(s, dev') /\ dev'.current_disk = Unit /\ dev'.mountQueue = {} /\ dev'.img_mounted = {}
        /\ dev'.ack_delay = 1 /\ dev'.sd_ack = {Unit}
    BY <1>6, <1>7, RestBusy DEF s
  <1>9. InTransfer' /\ Unit \in dev'.sd_ack
    BY <1>8 DEF InTransfer
  <1>10. Mounting' /\ Idle'
    BY <1>8, <1>9 DEF Mounting, Idle
  <1>11. dev'.bytecnt = dev.bytecnt + 1 /\ ~dev'.sd_buff_wr /\ ~dev'.reading /\ dev'.writing
    BY <1>1, <1>4, <1>8 DEF SameData
  <1>12. Agreed'
    BY <1>1, <1>3, <1>4, <1>8, <1>11 DEF Agreed, BlkInv, SameData
  <1>13. Delayed'
    BY <1>8, <1>9 DEF Delayed
  <1>14. (dev.bytecnt + 1) % WORDS = IF dev.bytecnt + 1 = WORDS THEN 0 ELSE dev.bytecnt + 1
    BY BlkAssumption
  <1>15. dev'.sd_buff_addr = IF dev'.bytecnt = WORDS THEN 0 ELSE dev'.bytecnt
    BY <1>4, <1>8, <1>11, <1>14 DEF SameData
  <1>16. Position'
    BY <1>11, <1>15 DEF Position
  <1>17. WordsMoved = dev.bytecnt /\ WordsMoved' = dev.bytecnt + 1
    BY <1>1, <1>11 DEF WordsMoved
  <1>18. WordsMoved' = WordsMoved + 1 /\ WordsMoved \in 0..WORDS /\ WordsMoved + 1 <= WORDS
    BY <1>17, BlkAssumption
  <1> QED
    BY <1>3, <1>5, <1>8, <1>9, <1>10, <1>12, <1>13, <1>16, <1>17, <1>18 DEF BlkInv, SameData

\* The clock after a flush's last word is in the file drops the acknowledge.
LEMMA FlushEndStep ==
    ASSUME BlkInv, Tick, InTransfer, dev.writing, dev.bytecnt = WORDS
    PROVE  /\ BlkInv' /\ ~InTransfer' /\ WordsMoved = WORDS /\ WordsMoved' = 0
           /\ Unit \in dev.sd_ack /\ Unit \notin dev'.sd_ack
           /\ dev'.disk = dev.disk /\ chip'.sbuf = chip.sbuf
  <1> DEFINE s == SendData(dev, Edge)
  <1> USE TransferStarts
  <1>1. Unit \in dev.sd_ack /\ dev.ack_delay = 1
    BY BlkAssumption DEF BlkInv, Delayed
  <1>2. ~dev.reading /\ ~dev.sd_buff_wr /\ ~(dev.bytecnt < WORDS)
    BY BlkAssumption DEF BlkInv, Position, Agreed
  <1>3. s = [dev EXCEPT !.sd_buff_addr = 0, !.writing = FALSE]
    BY <1>1, <1>2 DEF SendData
  <1>4. /\ s.reading = dev.reading /\ s.writing = FALSE /\ s.sd_buff_wr = dev.sd_buff_wr
        /\ s.disk = dev.disk
    BY <1>3 DEF DevSet
  <1>5. s.current_disk = Unit /\ s.mountQueue = {} /\ s.img_mounted = {} /\ s.ack_delay = 1
    BY <1>1, <1>3 DEF DevSet
  <1> HIDE DEF s
  <1>6. ~Busy(s)
    BY <1>2, <1>4 DEF Busy
  <1>7. ~Edge.io_rd /\ ~Edge.io_wr /\ Edge.sbuf = chip.sbuf
    BY <1>1, <1>2, EdgeFields
  <1>8. /\ SameData(s, dev') /\ dev'.current_disk = -1 /\ dev'.mountQueue = {} /\ dev'.img_mounted = {}
        /\ dev'.sd_ack = {}
    BY <1>5, <1>6, <1>7, RestEnds DEF s
  <1>9. ~InTransfer' /\ Unit \notin dev'.sd_ack
    BY <1>7, <1>8 DEF InTransfer
  <1>10. ~dev'.reading /\ ~dev'.writing /\ ~dev'.sd_buff_wr
    BY <1>2, <1>4, <1>8 DEF SameData
  <1>11. Mounting' /\ Idle'
    BY <1>8, <1>9, <1>10 DEF Mounting, Idle
  <1>12. Agreed' /\ Delayed' /\ Position'
    BY <1>9 DEF Agreed, Delayed, Position
  <1>13. WordsMoved = WORDS /\ WordsMoved' = 0
    BY <1>2, <1>10 DEF WordsMoved
  <1> QED
    BY <1>1, <1>4, <1>7, <1>8, <1>9, <1>11, <1>12, <1>13 DEF BlkInv, SameData

-----------------------------------------------------------------------------
(* The refinement *)

\* The first state of the simulation is a first state of the port: BlockPort!Init.
LEMMA PortInit == Init => Port!Init
  BY BlkAssumption
  DEF Init, DevInit, ChipInit, InTransfer, WordsMoved, Port!Init, Filled, Port!Filled, Sector, Port!Sector

\* A request of the chip is a request at the port.
LEMMA PortAsks ==
    ASSUME BlkInv, Load \/ Flush
    PROVE  BlkInv' /\ (Port!AskRead \/ Port!AskWrite)
  <1>0. BlkTypes /\ Free /\ chip.mounted
    BY DEF BlkInv, Load, Flush, Free
  <1>1. CASE Load
    <2>1. PICK l \in LBAs : Device([Edge EXCEPT !.io_rd = TRUE, !.io_lba = l, !.op = "rd"])
      BY <1>1 DEF Load
    <2> DEFINE c == [Edge EXCEPT !.io_rd = TRUE, !.io_lba = l, !.op = "rd"]
    <2>2. ~chip.io_wr /\ ~dev.sd_buff_wr
      BY <1>0 DEF BlkInv, Idle, InTransfer, Free, io_busy
    <2>3. Edge \in ChipSet /\ ~Edge.io_wr /\ Edge.mounted /\ Edge.sbuf = chip.sbuf
      BY <1>0, <2>2, EdgeFields
    <2>4. c \in ChipSet
      BY <2>3 DEF ChipSet
    <2>5. c.io_rd = TRUE /\ c.io_wr = Edge.io_wr /\ c.io_lba = l /\ c.op = "rd"
          /\ c.mounted = Edge.mounted /\ c.sbuf = Edge.sbuf
      BY <2>3 DEF ChipSet
    <2> HIDE DEF c
    <2>6. Device(c)
      BY <2>1 DEF c
    <2>7. c.io_rd /\ ~c.io_wr /\ c.mounted /\ c.sbuf = chip.sbuf
      BY <2>3, <2>5
    <2>8. /\ BlkInv' /\ ~InTransfer /\ InTransfer' /\ WordsMoved = 0 /\ WordsMoved' = 0
          /\ dev'.disk = dev.disk
      BY <1>0, <2>4, <2>5, <2>6, <2>7, AskStep
    <2>9. chip' = c
      BY <1>0, <2>4, <2>6, DeviceIs
    <2> QED
      BY <2>5, <2>7, <2>8, <2>9 DEF Port!AskRead
  <1>2. CASE Flush
    <2>1. PICK l \in LBAs, tag \in Fillings :
             Device([Edge EXCEPT !.io_wr = TRUE, !.io_lba = l, !.op = "wr", !.sbuf = Filled(tag, 0)])
      BY <1>2 DEF Flush
    <2> DEFINE c == [Edge EXCEPT !.io_wr = TRUE, !.io_lba = l, !.op = "wr", !.sbuf = Filled(tag, 0)]
    <2>2. ~chip.io_rd
      BY <1>0 DEF Free, io_busy
    <2>3. Edge \in ChipSet /\ ~Edge.io_rd /\ Edge.mounted /\ Filled(tag, 0) \in [Sector -> Datum]
      BY <1>0, <2>2, EdgeFields, FilledType, BlkAssumption
    <2>4. c \in ChipSet
      BY <2>3 DEF ChipSet
    <2>5. c.io_wr = TRUE /\ c.io_rd = Edge.io_rd /\ c.io_lba = l /\ c.op = "wr"
          /\ c.mounted = Edge.mounted /\ c.sbuf = Filled(tag, 0)
      BY <2>3 DEF ChipSet
    <2> HIDE DEF c
    <2>6. Device(c)
      BY <2>1 DEF c
    <2>7. c.io_wr /\ ~c.io_rd /\ c.mounted
      BY <2>3, <2>5
    <2>8. /\ BlkInv' /\ ~InTransfer /\ InTransfer' /\ WordsMoved = 0 /\ WordsMoved' = 0
          /\ dev'.disk = dev.disk
      BY <1>0, <2>4, <2>5, <2>6, <2>7, AskStep
    <2>9. chip' = c
      BY <1>0, <2>4, <2>6, DeviceIs
    <2>10. Filled(tag, 0) = Port!Filled(tag, 0)
      BY DEF Filled, Port!Filled, Sector, Port!Sector
    <2> QED
      BY <2>5, <2>8, <2>9, <2>10 DEF Port!AskWrite
  <1> QED
    BY <1>1, <1>2

\* A clock of the device serves the port's transfer, or changes nothing the port shows.
LEMMA PortServes ==
    ASSUME BlkInv, Tick
    PROVE  BlkInv' /\ [Port!Next]_(Port!vars)
  <1>0. BlkTypes /\ WORDS \in Nat
    BY BlkAssumption DEF BlkInv
  <1>1. CASE ~InTransfer
    <2>1. /\ BlkInv' /\ ~InTransfer' /\ WordsMoved = 0 /\ WordsMoved' = 0
          /\ dev'.disk = dev.disk /\ chip'.sbuf = chip.sbuf /\ chip'.io_lba = chip.io_lba
      BY <1>1, IdleStep
    <2>2. (Unit \in dev.sd_ack)' = (Unit \in dev.sd_ack)
      BY <1>1, <2>1 DEF InTransfer
    <2> QED
      BY <1>1, <2>1, <2>2 DEF Port!vars
  <1>2. CASE InTransfer
    <2>0. chip.op \in {"rd", "wr"} /\ chip'.io_lba = chip.io_lba /\ chip'.op = chip.op
      BY <1>0, <1>2, TransferStarts DEF BlkTypes, ChipSet
    <2>1. CASE dev.ack_delay # 1
      <3>1. /\ BlkInv' /\ InTransfer' /\ WordsMoved' = WordsMoved
            /\ Unit \notin dev.sd_ack /\ Unit \notin dev'.sd_ack
            /\ dev'.disk = dev.disk /\ chip'.sbuf = chip.sbuf
        BY <1>2, <2>1, WaitStep
      <3>2. (Unit \in dev.sd_ack)' = (Unit \in dev.sd_ack)
        BY <3>1
      <3> QED
        BY <1>2, <2>0, <3>1, <3>2 DEF Port!vars
    <2>2. CASE dev.ack_delay = 1 /\ dev.reading /\ ~dev.sd_buff_wr
      <3>1. /\ BlkInv' /\ InTransfer' /\ WordsMoved' = WordsMoved /\ Unit \in dev'.sd_ack
            /\ dev'.disk = dev.disk /\ chip'.sbuf = chip.sbuf /\ WordsMoved \in 0..WORDS
        BY <1>2, <2>2, LoadWordStep
      <3>2. WordsMoved + 0 = WordsMoved /\ WordsMoved + 0 <= WORDS
        BY <1>0, <3>1
      <3>3. Port!Moved(0)
        BY <3>1, <3>2 DEF Port!Moved
      <3>4. Port!Serve
        BY <1>2, <2>0, <3>1, <3>2, <3>3 DEF Port!Serve
      <3> QED
        BY <3>1, <3>4 DEF Port!Next
    <2>3. CASE dev.reading /\ dev.sd_buff_wr /\ dev.bytecnt < WORDS
      <3>1. /\ BlkInv' /\ InTransfer' /\ WordsMoved' = WordsMoved + 1
            /\ Unit \in dev.sd_ack /\ Unit \in dev'.sd_ack /\ dev'.disk = dev.disk
            /\ chip'.sbuf = [chip.sbuf EXCEPT ![WordsMoved] = dev.disk[chip.io_lba][WordsMoved]]
            /\ WordsMoved + 1 <= WORDS
        BY <1>2, <2>3, LoadPauseStep
      <3>2. chip.op = "rd"
        BY <1>2, <2>3 DEF BlkInv, Agreed
      <3>3. Port!Moved(1)
        BY <1>2, <3>1, <3>2 DEF Port!Moved
      <3>4. Port!Serve
        BY <1>2, <2>0, <3>1, <3>3 DEF Port!Serve
      <3> QED
        BY <3>1, <3>4 DEF Port!Next
    <2>4. CASE dev.reading /\ dev.sd_buff_wr /\ dev.bytecnt = WORDS
      <3>1. /\ BlkInv' /\ ~InTransfer' /\ WordsMoved + 1 = WORDS /\ WordsMoved' = 0
            /\ Unit \in dev.sd_ack /\ Unit \notin dev'.sd_ack /\ dev'.disk = dev.disk
            /\ chip'.sbuf = [chip.sbuf EXCEPT ![WordsMoved] = dev.disk[chip.io_lba][WordsMoved]]
        BY <1>2, <2>4, LoadEndStep
      <3>2. chip.op = "rd" /\ WordsMoved + 1 <= WORDS
        BY <1>0, <1>2, <2>4, <3>1 DEF BlkInv, Agreed
      <3>3. Port!Moved(1)
        BY <1>2, <3>1, <3>2 DEF Port!Moved
      <3>4. Port!Serve
        BY <1>2, <2>0, <3>1, <3>3 DEF Port!Serve
      <3> QED
        BY <3>1, <3>4 DEF Port!Next
    <2>5. CASE dev.ack_delay = 1 /\ dev.writing /\ dev.bytecnt < WORDS
      <3>1. /\ BlkInv' /\ InTransfer' /\ WordsMoved' = WordsMoved + 1 /\ Unit \in dev'.sd_ack
            /\ dev'.disk = [dev.disk EXCEPT ![chip.io_lba][WordsMoved] = chip.sbuf[WordsMoved]]
            /\ chip'.sbuf = chip.sbuf
            /\ WordsMoved + 1 <= WORDS
        BY <1>2, <2>5, FlushWordStep
      <3>2. chip.op = "wr"
        BY <1>2, <2>5 DEF BlkInv, Agreed
      <3>3. Port!Moved(1)
        BY <1>2, <3>1, <3>2 DEF Port!Moved
      <3>4. Port!Serve
        BY <1>2, <2>0, <3>1, <3>3 DEF Port!Serve
      <3> QED
        BY <3>1, <3>4 DEF Port!Next
    <2>6. CASE dev.writing /\ dev.bytecnt = WORDS
      <3>1. /\ BlkInv' /\ ~InTransfer' /\ WordsMoved = WORDS /\ WordsMoved' = 0
            /\ Unit \in dev.sd_ack /\ Unit \notin dev'.sd_ack
            /\ dev'.disk = dev.disk /\ chip'.sbuf = chip.sbuf
        BY <1>2, <2>6, FlushEndStep
      <3>2. WordsMoved + 0 = WORDS /\ WordsMoved + 0 <= WORDS
        BY <1>0, <3>1
      <3>3. Port!Moved(0)
        BY <3>1, <3>2 DEF Port!Moved
      <3>4. Port!Serve
        BY <1>2, <2>0, <3>1, <3>2, <3>3 DEF Port!Serve
      <3> QED
        BY <3>1, <3>4 DEF Port!Next
    <2>7. Busy(dev) /\ dev.bytecnt \in 0..WORDS
      BY <1>2, TransferStarts
    <2>8. dev.bytecnt < WORDS \/ dev.bytecnt = WORDS
      BY <1>0, <2>7
    <2> QED
      BY <2>1, <2>2, <2>3, <2>4, <2>5, <2>6, <2>7, <2>8 DEF Busy
  <1> QED
    BY <1>1, <1>2

\* The phases of the handshake as the device and the chip agree on them (BlkInv): who
\* works for whom, where the delay stands, and which word is on the port
\* (sim_blkdevice.cpp:95-191, ncr53c96.sv's io handshake).
THEOREM BlkInvariant == Spec => []BlkInv
  <1>1. Init => BlkInv
    BY BlkInvInit
  <1>2. BlkInv /\ [Next]_vars => BlkInv'
    <2> SUFFICES ASSUME BlkInv, [Next]_vars
                 PROVE  BlkInv'
      OBVIOUS
    <2>1. CASE Next
      BY <2>1, PortAsks, PortServes DEF Next
    <2>2. CASE UNCHANGED vars
      BY <2>2 DEF vars, BlkInv, BlkTypes, Mounting, Idle, Agreed, Delayed, Position, InTransfer
    <2> QED
      BY <2>1, <2>2
  <1> QED
    BY <1>1, <1>2, PTL DEF Spec

\* The simulated block device implements the contract of the block port (ImplementsPort),
\* for every latency, block length, mount delay and number of disks: each word of a
\* sector moves once and in order, a load's last word is in the buffer and a flush's in the
\* file when the acknowledge falls (sim_blkdevice.cpp:95-137, 155-191).
THEOREM PortImplemented == Spec => ImplementsPort
  <1>1. Init => Port!Init
    BY PortInit
  <1>2. BlkInv /\ [Next]_vars => [Port!Next]_(Port!vars)
    <2> SUFFICES ASSUME BlkInv, [Next]_vars
                 PROVE  [Port!Next]_(Port!vars)
      OBVIOUS
    <2>1. CASE Load \/ Flush
      BY <2>1, PortAsks DEF Port!Next
    <2>2. CASE Tick
      BY <2>2, PortServes
    <2>3. CASE UNCHANGED vars
      BY <2>3 DEF vars, Port!vars, InTransfer, WordsMoved
    <2> QED
      BY <2>1, <2>2, <2>3 DEF Next
  <1> QED
    BY <1>1, <1>2, BlkInvariant, PTL DEF Spec, ImplementsPort, Port!Spec


=============================================================================
