-------------------------- MODULE Quadra800Proofs ---------------------------
(***************************************************************************)
(* Proofs about the beat service and the bus splitter, for every address    *)
(* map and every set of loads.  The splitter, the service, the masters and  *)
(* the targets all move in every step, so the invariant ties each register  *)
(* of one side to the registers of the other it depends on.                 *)
(***************************************************************************)
EXTENDS Quadra800, TLAPS

Bit == {0, 1}

HoldsWord(a) == [p \in Pos |-> Holds(a, p)]

BusTypes ==
    /\ t_req \in Bit /\ t_write \in Bit /\ t_ack \in Bit /\ b_req \in Bit /\ b_write \in Bit
    /\ b_ack \in Bit /\ cpu_berr \in Bit /\ active \in Bit /\ second \in Bit
    /\ t_size \in Sizes /\ t_addr \in Words \X Pos /\ t_wdata = OperandBytes
    /\ f_end > 4 => t_addr[1] + 1 \in Words
    /\ b_addr \in Words

SvcStates == {"IDLE", "MEM", "IOSB", "DAFB", "OPEN", "BERR"}

SvcTypes ==
    /\ load \in Loads
    /\ svc \in SvcStates /\ svc_walker \in Bit /\ svc_addr \in Words /\ overlay \in Bit
    /\ walker_req \in Bit /\ walker_we \in Bit /\ walker_addr \in Words
    /\ walker_armed \in Bit /\ walker_ack \in Bit /\ walker_berr \in Bit
    /\ shadowed \subseteq Words /\ beats \in Nat /\ walks \in Nat

\* The splitter holds a beat exactly while a transaction is in flight, and the beat
\* is the one its registers say: the first longword's or the tail's.
Splitter ==
    /\ b_req = active
    /\ second = 1 => active = 1 /\ f_end > 4
    /\ active = 1 =>
          /\ t_req = 1 /\ t_ack = 0 /\ b_write = t_write
          /\ r_off = t_addr[2] /\ r_bytes = t_size /\ r_end = f_end /\ r_wsh = f_wsh
          /\ b_addr = t_addr[1] + second
          /\ b_be = IF second = 1 THEN lanes(0, f_end - 4) ELSE lanes(t_addr[2], f_n0)
          /\ b_wdata = IF second = 1 THEN Shl(f_wsh, 4 - t_addr[2]) ELSE Shr(f_wsh, t_addr[2])

\* Acks and faults are pulses that meet their transaction, the service idle again.
Outcome ==
    /\ b_ack = 1 \/ cpu_berr = 1 => active = 1 /\ svc = "IDLE"
    /\ ~(b_ack = 1 /\ cpu_berr = 1)
    /\ t_ack = 1 => t_req = 1 /\ active = 0

\* What the service is at is the beat its owner holds; open bus is told by the map.
Selected ==
    /\ mem_req = (IF svc = "MEM" THEN 1 ELSE 0)
    /\ iosb_sel = (IF svc = "IOSB" THEN 1 ELSE 0)
    /\ dafb_sel = (IF svc = "DAFB" THEN 1 ELSE 0)
    /\ svc # "IDLE" => /\ (svc = "OPEN") = (Region[svc_addr] = "open")
                        /\ (svc = "DAFB") = (Region[svc_addr] = "dafb")
    /\ svc \in {"MEM", "IOSB", "DAFB"} => port.addr = svc_addr

CpuBeat ==
    (svc # "IDLE" /\ svc_walker = 0)
        => /\ active = 1 /\ svc_addr = b_addr
           /\ svc \in {"MEM", "IOSB", "DAFB"}
                 => /\ port.write = b_write /\ port.wdata = b_wdata
                    /\ port.be = IF Region[b_addr] = "dafb" THEN Pos ELSE b_be

\* The beat is not kept by its target.
Discarded == svc = "OPEN" \/ (svc = "MEM" /\ port.memsel = "rom")

\* The overlay counts as it was when the beat was taken.  Only beats that were taken are
\* in shadowed, so that the next one's fate is open.
Fate ==
    /\ (svc \notin {"IDLE", "BERR"} /\ svc_walker = 0) => (Writable(svc_addr) <=> ~Discarded)
    /\ \A w \in shadowed :
          \/ w < t_addr[1] + beats
          \/ svc # "IDLE" /\ svc_walker = 0 /\ w = svc_addr
          \/ cpu_berr = 1

\* walker_armed is up until the request is taken; from then on it is answered, or
\* about to be.
WalkerBeat ==
    /\ (svc # "IDLE" /\ svc_walker = 1)
          => walker_req = 1 /\ walker_armed = 0 /\ walks = 0 /\ svc_addr = walker_addr
    /\ walker_req = 1 /\ walker_armed = 1 => walks = 0
    /\ walks <= 1
    /\ walker_ack = 1 => walker_req = 1 /\ walker_data = HoldsWord(walker_addr)

\* The bytes on their way back to the CPU.
Returned ==
    /\ b_ack = 1 => b_rdata = HoldsWord(b_addr)
    /\ second = 1 => r_stream = Shl(HoldsWord(t_addr[1]), t_addr[2])

\* Beats and stored bytes keep step with the splitter: what is stored is the part of
\* the operand in the longwords done so far.
Progress ==
    /\ active = 0 /\ t_ack = 0 => beats = 0
    /\ active = 1 => beats = second + b_ack
    /\ t_ack = 1 => beats = BeatsNeeded
    /\ stored = IF t_write = 1 THEN Written(beats) ELSE [n \in {} |-> 0]

BusInv ==
    /\ BusTypes /\ SvcTypes
    /\ Splitter /\ Outcome /\ Selected /\ CpuBeat /\ WalkerBeat /\ Fate
    /\ Returned /\ Progress /\ ReadExact

-----------------------------------------------------------------------------
(* Types and the initial state *)

LEMMA InvInit == Init => BusInv
<1> SUFFICES ASSUME Init PROVE BusInv
  OBVIOUS
<1>1. BusTypes /\ SvcTypes
  BY MapAssumption DEF Init, BusInit, BusTypes, SvcTypes, Bit, SvcStates, Words, Pos, Sizes, f_end
<1>2. Splitter /\ Outcome /\ Selected /\ CpuBeat
  BY DEF Init, BusInit, Splitter, Outcome, Selected, CpuBeat
<1>3. WalkerBeat /\ Returned /\ ReadExact
  BY DEF Init, BusInit, WalkerBeat, Returned, ReadExact
<1>4. Progress /\ Fate
  BY DEF Init, BusInit, Progress, Fate
<1>5. QED
  BY <1>1, <1>2, <1>3, <1>4 DEF BusInv

LEMMA TypesStep ==
    ASSUME BusTypes, SvcTypes, Splitter, Next
    PROVE  BusTypes' /\ SvcTypes'
<1> USE DEF Next, Bit
<1>1. load' \in Loads
  BY DEF SvcTypes
<1>2. /\ t_req' \in Bit /\ t_write' \in Bit /\ t_size' \in Sizes /\ t_addr' \in Words \X Pos
      /\ t_wdata' = OperandBytes
      /\ f_end' > 4 => t_addr'[1] + 1 \in Words
  <2>1. CASE CpuRaise
    <3> PICK a \in load.words, sh \in load.shapes :
                /\ sh[1] + sh[2] > 4 => a + 1 \in Words
                /\ t_addr' = <<a, sh[1]>>
                /\ t_size' = sh[2]
      BY <2>1 DEF CpuRaise
    <3>1. a \in Words /\ sh \in Pos \X Sizes
      BY MapAssumption DEF SvcTypes
    <3>2. QED
      BY <2>1, <3>1 DEF CpuRaise, f_end
  <2>2. CASE CpuDone \/ CpuHold
    BY <2>2 DEF CpuDone, CpuHold, tVars, BusTypes, f_end
  <2>3. QED
    BY <2>1, <2>2 DEF CpuBlock
<1>3. /\ t_ack' \in Bit /\ b_req' \in Bit /\ b_write' \in Bit /\ active' \in Bit
      /\ second' \in Bit
  BY DEF BusTypes, BusBlock, Abort, Accept, TailBeat, TailBy, Finish, BusWait, beatVars
<1>4. b_addr' \in Words
  <2>1. CASE TailBeat
    BY <2>1, MapAssumption DEF TailBeat, TailBy, Splitter, BusTypes, Words
  <2>2. CASE Accept
    BY <2>2 DEF Accept, BusTypes
  <2>3. CASE Abort \/ Finish \/ BusWait
    BY <2>3 DEF Abort, Finish, BusWait, BusTypes, beatVars
  <2>4. QED
    BY <2>1, <2>2, <2>3 DEF BusBlock
<1>5. /\ b_ack' \in Bit /\ cpu_berr' \in Bit /\ walker_ack' \in Bit /\ walker_berr' \in Bit
      /\ svc_walker' \in Bit /\ walker_armed' \in Bit /\ overlay' \in Bit
  BY DEF ServiceBlock, Dispatch, Begin, Disarm, Rearm, Quiet, Answer, Fault, ServeMem, ServeIosb,
         ServeDafb, ServeBerr, ServeOpen, SvcWait, SvcTypes, BusTypes
<1>6. svc_addr' \in Words
  BY DEF ServiceBlock, Dispatch, Begin, ServeMem, ServeIosb,
         ServeDafb, ServeBerr, ServeOpen, SvcWait, SvcTypes, BusTypes
<1>7. svc' \in SvcStates
  <2>1. CASE Dispatch
    <3> DEFINE a == IF walker_pend THEN walker_addr ELSE b_addr
    <3>1. a \in Words
      BY DEF SvcTypes, BusTypes
    <3>2. decode(a) \in {"rom", "ram", "berr", "open", "vram", "dafb", "iosb"}
      BY <3>1, MapAssumption DEF decode, Regions, SvcTypes
    <3>3. QED
      BY <2>1, <3>2 DEF Dispatch, Begin, SvcStates
  <2>2. CASE SvcWait
    BY <2>2 DEF SvcWait, SvcTypes
  <2>3. QED
    BY <2>1, <2>2 DEF ServiceBlock, Answer, Fault, ServeMem, ServeIosb, ServeDafb, ServeBerr,
                      ServeOpen, SvcStates
<1>8. walker_req' \in Bit /\ walker_we' \in Bit /\ walker_addr' \in Words
  <2>1. load.walks \subseteq Words
    BY MapAssumption DEF SvcTypes
  <2>2. QED
    BY <2>1 DEF WalkerBlock, WalkerRaise, WalkerDrop, WalkerHold, walkerVars, SvcTypes
<1>9. beats' \in Nat /\ walks' \in Nat
  <2>1. beats' = IF t_req' # t_req THEN 0 ELSE beats + b_ack'
    BY DEF History
  <2>2. walks' = IF walker_req' = 1 /\ walker_req = 0 THEN 0 ELSE walks + walker_ack' + walker_berr'
    BY DEF History
  <2>3. beats \in Nat /\ walks \in Nat
    BY DEF SvcTypes
  <2>4. QED
    <3>1. /\ b_ack' = 0 \/ b_ack' = 1
          /\ walker_ack' = 0 \/ walker_ack' = 1
          /\ walker_berr' = 0 \/ walker_berr' = 1
      BY <1>5
    <3>2. QED
      BY <2>1, <2>2, <2>3, <3>1
<1>10. shadowed' \subseteq Words
  BY <1>6 DEF History, SvcTypes
<1>11. QED
  BY <1>1, <1>2, <1>3, <1>4, <1>5, <1>6, <1>7, <1>8, <1>9, <1>10 DEF BusTypes, SvcTypes

-----------------------------------------------------------------------------
(* Control: the two sides of the beat port agree *)

\* The CPU holds its operands still while its transaction is in flight and not
\* faulted, and lets go only with an ack or a fault.
LEMMA CpuFrame ==
    ASSUME BusTypes, Splitter, Outcome, Next
    PROVE  /\ (active = 1 /\ cpu_berr = 0) => UNCHANGED tVars
           /\ active = 1 => UNCHANGED <<t_write, t_size, t_addr, t_wdata>>
           /\ (active = 0 /\ t_req = 1) => UNCHANGED <<t_write, t_size, t_addr, t_wdata>>
           /\ (active = 0 /\ t_req = 1 /\ t_ack = 0) => t_req' = 1
           /\ (active = 1 /\ cpu_berr = 1) => t_req' = 0
           /\ t_ack = 1 => t_req' = 0
BY DEF Next, CpuBlock, CpuRaise, CpuDone, CpuHold, tVars, BusTypes, Splitter, Outcome, Bit

\* What the service does to its outputs, by what it is at.
LEMMA ServiceFrame ==
    ASSUME SvcTypes, Next
    PROVE  /\ svc = "IDLE" => Quiet /\ UNCHANGED <<b_rdata, walker_data>>
           /\ svc # "IDLE" => \/ svc' = svc /\ Quiet
                              \/ /\ svc' = "IDLE" /\ svc_walker = 1 /\ b_ack' = 0 /\ cpu_berr' = 0
                                 /\ walker_ack' = 1 - walker_berr'
                              \/ /\ svc' = "IDLE" /\ svc_walker = 0 /\ b_ack' = 1 - cpu_berr'
                                 /\ walker_ack' = 0 /\ walker_berr' = 0
           /\ svc # "IDLE" => UNCHANGED <<svc_walker, svc_addr, port, overlay>> /\ Rearm
BY DEF Next, ServiceBlock, Dispatch, Begin, Disarm, Rearm, Quiet, Answer, Fault, ServeMem,
       ServeIosb, ServeDafb, ServeBerr, ServeOpen, SvcWait, SvcTypes, SvcStates, Bit

LEMMA SplitterStep ==
    ASSUME BusTypes, SvcTypes, Splitter, Outcome, Next
    PROVE  Splitter'
<1> UNCHANGED <<t_write, t_size, t_addr, t_wdata>>
    => /\ f_wsh' = f_wsh /\ f_end' = f_end /\ f_n0' = f_n0
  BY DEF f_wsh, f_end, f_n0
<1>1. CASE Abort
  BY <1>1 DEF Abort, Splitter
<1>2. CASE Accept
  BY <1>2, CpuFrame DEF Accept, Splitter, BusTypes, Bit, Words
<1>3. CASE TailBeat
  BY <1>3, CpuFrame
     DEF TailBeat, TailBy, Splitter, BusTypes, Bit, Words, rVars, tVars, r_n0
<1>4. CASE Finish
  BY <1>4 DEF Finish, Splitter
<1>5. CASE BusWait
  BY <1>5, CpuFrame DEF BusWait, Splitter, BusTypes, Bit, rVars, beatVars, tVars
<1>6. QED
  BY <1>1, <1>2, <1>3, <1>4, <1>5 DEF Next, BusBlock

\* The bus of a transaction that is neither acked nor faulted waits.
LEMMA BusFrame ==
    ASSUME BusTypes, Splitter, Outcome, Next
    PROVE  /\ (active = 1 /\ b_ack = 0 /\ cpu_berr = 0) => BusWait
           /\ (active = 1 /\ cpu_berr = 1) => Abort
           /\ (active = 1 /\ b_ack = 1) => TailBeat \/ Finish
           /\ (active = 0 /\ t_req = 0) => BusWait
           /\ t_ack = 1 => BusWait
           /\ (active = 0 /\ t_req = 1 /\ t_ack = 0) => Accept
BY DEF Next, BusBlock, Abort, Accept, TailBeat, TailBy, Finish, BusWait, BusTypes, Splitter,
       Outcome, Bit

LEMMA OutcomeStep ==
    ASSUME BusTypes, SvcTypes, Splitter, Outcome, CpuBeat, Next
    PROVE  Outcome'
<1>1. (b_ack' = 1 \/ cpu_berr' = 1) => svc # "IDLE" /\ svc_walker = 0 /\ svc' = "IDLE"
  BY ServiceFrame DEF Quiet, SvcTypes, Bit
<1>2. ~(b_ack' = 1 /\ cpu_berr' = 1)
  BY ServiceFrame DEF Quiet, SvcTypes, Bit
<1>3. (svc # "IDLE" /\ svc_walker = 0) => active' = 1
  BY BusFrame DEF CpuBeat, Outcome, BusTypes, Bit, BusWait
<1>4. t_ack' = 1 => t_req' = 1 /\ active' = 0
  BY CpuFrame DEF Next, BusBlock, Abort, Accept, TailBeat, TailBy, Finish, BusWait, BusTypes,
                  Splitter, tVars
<1>5. QED
  BY <1>1, <1>2, <1>3, <1>4 DEF Outcome

LEMMA SelectedStep ==
    ASSUME BusTypes, SvcTypes, Selected, Next
    PROVE  Selected'
<1>1. CASE Dispatch
  <2> DEFINE a == IF walker_pend THEN walker_addr ELSE b_addr
  <2>1. a \in Words
    BY DEF SvcTypes, BusTypes
  <2>2. /\ decode(a) \in {"rom", "ram", "berr", "open", "vram", "dafb", "iosb"}
        /\ (decode(a) = "open") = (Region[a] = "open")
        /\ (decode(a) = "dafb") = (Region[a] = "dafb")
    BY <2>1, MapAssumption DEF decode, Regions, SvcTypes
  <2>3. QED
    BY <1>1, <2>2 DEF Dispatch, Begin, Selected
<1>2. CASE ~Dispatch
  BY <1>2 DEF Next, ServiceBlock, Answer, Fault, ServeMem, ServeIosb, ServeDafb, ServeBerr,
              ServeOpen, SvcWait, Selected
<1>3. QED
  BY <1>1, <1>2

\* A beat that the service takes or keeps for the CPU belongs to a transaction that
\* is neither answered nor faulted, so that the CPU holds still.
LEMMA CpuHeld ==
    ASSUME BusTypes, SvcTypes, Splitter, Outcome, CpuBeat, Next, svc' # "IDLE", svc_walker' = 0
    PROVE  active = 1 /\ b_ack = 0 /\ cpu_berr = 0 /\ UNCHANGED tVars
<1>1. active = 1 /\ b_ack = 0 /\ cpu_berr = 0
  <2>1. CASE svc = "IDLE"
    BY <2>1 DEF Next, ServiceBlock, Dispatch, Begin, ServeMem, ServeIosb, ServeDafb,
                ServeBerr, ServeOpen, SvcWait, Splitter, BusTypes, Bit
  <2>2. CASE svc # "IDLE"
    BY <2>2, ServiceFrame DEF CpuBeat, Outcome, BusTypes, Bit
  <2>3. QED
    BY <2>1, <2>2
<1>2. QED
  BY <1>1, CpuFrame

LEMMA CpuBeatStep ==
    ASSUME BusTypes, SvcTypes, Splitter, Outcome, CpuBeat, Next
    PROVE  CpuBeat'
<1> SUFFICES ASSUME svc' # "IDLE", svc_walker' = 0
             PROVE  /\ active' = 1 /\ svc_addr' = b_addr'
                    /\ svc' \in {"MEM", "IOSB", "DAFB"}
                          => /\ port'.write = b_write' /\ port'.wdata = b_wdata'
                             /\ port'.be = IF Region[b_addr'] = "dafb" THEN Pos ELSE b_be'
  BY DEF CpuBeat
<1>1. active = 1 /\ b_ack = 0 /\ cpu_berr = 0
  BY CpuHeld
<1>2. BusWait
  BY <1>1, BusFrame
<1>3. active' = 1 /\ UNCHANGED beatVars
  BY <1>1, <1>2 DEF BusWait
<1>4. CASE svc # "IDLE"
  BY <1>3, <1>4, ServiceFrame DEF CpuBeat, beatVars
<1>5. CASE svc = "IDLE"
  <2>1. Dispatch
    BY <1>5 DEF Next, ServiceBlock, ServeMem, ServeIosb, ServeDafb, ServeBerr, ServeOpen, SvcWait
  <2>2. /\ b_addr \in Words
        /\ (decode(b_addr) = "dafb") = (Region[b_addr] = "dafb")
    BY MapAssumption DEF BusTypes, SvcTypes, decode, Regions
  <2>3. QED
    BY <1>3, <2>1, <2>2 DEF Dispatch, Begin, beatVars
<1>6. QED
  BY <1>4, <1>5

-----------------------------------------------------------------------------
(* Data: what comes back, and what is stored *)

\* An answer carries what memory holds at the address of the beat.
LEMMA AnswerExact ==
    ASSUME SvcTypes, Selected, Next
    PROVE  /\ b_ack' = 1 => /\ svc # "IDLE" /\ svc_walker = 0
                            /\ b_rdata' = HoldsWord(svc_addr)
           /\ walker_ack' = 1 => /\ svc # "IDLE" /\ svc_walker = 1
                                 /\ walker_data' = HoldsWord(svc_addr)
<1>1. svc \in {"MEM", "IOSB", "DAFB"} => CellsOf(port.addr) = HoldsWord(svc_addr)
  BY DEF Selected, CellsOf, HoldsWord, Holds
<1>2. svc = "OPEN" => Zeros = HoldsWord(svc_addr)
  BY DEF Selected, Zeros, HoldsWord, Holds
<1>3. QED
  BY <1>1, <1>2
     DEF Next, ServiceBlock, Dispatch, Begin, Quiet, Answer, Fault, ServeMem,
         ServeIosb, ServeDafb, ServeBerr, ServeOpen, SvcWait, SvcTypes, SvcStates, Bit

\* A walker whose request is taken keeps it up until the answer.
LEMMA WalkerStep ==
    ASSUME BusTypes, SvcTypes, Selected, WalkerBeat, Next
    PROVE  WalkerBeat'
<1>1. /\ walks' = IF walker_req' = 1 /\ walker_req = 0 THEN 0
                  ELSE walks + walker_ack' + walker_berr'
      /\ WalkerBlock /\ ServiceBlock
  BY DEF Next, History
<1>2. walks \in Nat
  BY DEF SvcTypes
<1>3. CASE svc # "IDLE" /\ svc_walker = 1
  <2>1. WalkerHold
    BY <1>1, <1>3 DEF WalkerBlock, WalkerRaise, WalkerDrop, WalkerBeat
  <2>2. \/ svc' = svc /\ walker_ack' = 0 /\ walker_berr' = 0
        \/ svc' = "IDLE" /\ walker_ack' = 0 /\ walker_berr' = 1
        \/ svc' = "IDLE" /\ walker_ack' = 1 /\ walker_berr' = 0
    BY <1>3 DEF Next, ServiceBlock, Dispatch, Begin, Quiet, Answer, Fault, ServeMem, ServeIosb,
                ServeDafb, ServeBerr, ServeOpen, SvcWait
  <2>3. walker_armed' = 0 /\ svc_walker' = 1 /\ svc_addr' = svc_addr
    BY <1>3, ServiceFrame DEF Rearm, WalkerBeat
  <2>4. walks = 0 /\ walker_req = 1 /\ svc_addr = walker_addr
    BY <1>3 DEF WalkerBeat
  <2>5. walker_req' = 1 /\ walker_addr' = walker_addr
    BY <2>1, <2>4 DEF WalkerHold, walkerVars
  <2>6. /\ walks' = 0 \/ walks' = 1
        /\ svc' # "IDLE" => walks' = 0
    BY <1>1, <2>2, <2>4, <2>5
  <2>7. walker_ack' = 1 => walker_data' = HoldsWord(walker_addr')
    BY <2>4, <2>5, AnswerExact
  <2>8. QED
    BY <2>3, <2>4, <2>5, <2>6, <2>7 DEF WalkerBeat
<1>4. CASE svc # "IDLE" /\ svc_walker = 0
  <2>1. /\ walker_ack' = 0 /\ walker_berr' = 0 /\ Rearm
        /\ svc' = "IDLE" \/ svc_walker' = 0
    BY <1>4, ServiceFrame DEF Quiet
  <2>2. QED
    BY <1>1, <1>2, <2>1
       DEF WalkerBeat, Rearm, WalkerBlock, WalkerRaise, WalkerDrop, WalkerHold, walkerVars,
           SvcTypes, Bit
<1>5. CASE svc = "IDLE"
  <2>1. walker_ack' = 0 /\ walker_berr' = 0
    BY <1>5, ServiceFrame DEF Quiet
  <2>2. \/ svc' = "IDLE" /\ Rearm
        \/ svc_walker' = 0 /\ ~walker_pend /\ Rearm
        \/ /\ svc_walker' = 1 /\ walker_pend /\ walker_armed' = 0
           /\ svc_addr' = walker_addr
    BY <1>5 DEF Next, ServiceBlock, Dispatch, Begin, Disarm, Rearm, ServeMem, ServeIosb,
                ServeDafb, ServeBerr, ServeOpen, SvcWait
  <2>3. QED
    BY <1>1, <1>2, <2>1, <2>2
       DEF WalkerBeat, Rearm, WalkerBlock, WalkerRaise, WalkerDrop, WalkerHold, walkerVars,
           SvcTypes, Bit, walker_pend
<1>6. QED
  BY <1>3, <1>4, <1>5 DEF SvcTypes, Bit

\* The lanes of a beat are count byte positions from start on.
LEMMA LanesAre ==
    ASSUME NEW start \in Pos, NEW count \in 0..4
    PROVE  lanes(start, count) = {p \in Pos : start <= p /\ p < start + count}
BY DEF lanes, ShrMask, ShlMask, Pos

\* Byte i of an operand at offset o is in its first or its second longword.
LEMMA ByteAt ==
    ASSUME NEW o \in Pos, NEW z \in Sizes
    PROVE  \A i \in 0..(z - 1) :
              /\ i \in Pos
              /\ (o + i) \div 4 = (IF o + i < 4 THEN 0 ELSE 1)
              /\ (o + i) % 4 = (IF o + i < 4 THEN o + i ELSE o + i - 4)
BY DEF Pos, Sizes

\* The splitter's shifts and merge give the operand's bytes, right-aligned.
LEMMA ReadMerge ==
    ASSUME NEW w \in Nat, NEW o \in Pos, NEW z \in Sizes
    PROVE  Shr(IF o + z > 4 THEN Or(Shl(HoldsWord(w), o), Shr(HoldsWord(w + 1), 4 - o))
               ELSE Shl(HoldsWord(w), o), 4 - z)
           = [p \in Pos |-> IF p < 4 - z THEN 0
                            ELSE Holds(w + (o + (p - (4 - z))) \div 4, (o + (p - (4 - z))) % 4)]
<1> DEFINE merged == IF o + z > 4 THEN Or(Shl(HoldsWord(w), o), Shr(HoldsWord(w + 1), 4 - o))
                     ELSE Shl(HoldsWord(w), o)
<1>1. \A q \in 0..(z - 1) : merged[q] = Holds(w + (o + q) \div 4, (o + q) % 4)
  <2> SUFFICES ASSUME NEW q \in 0..(z - 1)
               PROVE  merged[q] = Holds(w + (o + q) \div 4, (o + q) % 4)
    OBVIOUS
  <2>1. q \in Pos
    BY ByteAt
  <2>2. /\ (o + q) \div 4 = (IF o + q < 4 THEN 0 ELSE 1)
        /\ (o + q) % 4 = (IF o + q < 4 THEN o + q ELSE o + q - 4)
    BY ByteAt
  <2>3. Shl(HoldsWord(w), o)[q] = IF o + q < 4 THEN Holds(w, o + q) ELSE 0
    BY <2>1 DEF Shl, HoldsWord, Pos
  <2>4. Shr(HoldsWord(w + 1), 4 - o)[q] = IF o + q < 4 THEN 0 ELSE Holds(w + 1, o + q - 4)
    BY <2>1 DEF Shr, HoldsWord, Pos
  <2>5. CASE o + z > 4
    <3>1. merged[q] = IF Shl(HoldsWord(w), o)[q] = 0 THEN Shr(HoldsWord(w + 1), 4 - o)[q]
                      ELSE Shl(HoldsWord(w), o)[q]
      BY <2>1, <2>5 DEF Or
    <3>2. QED
      BY <2>1, <2>2, <2>3, <2>4, <3>1
  <2>6. CASE ~(o + z > 4)
    <3>1. o + q < 4
      BY <2>6 DEF Sizes, Pos
    <3>2. QED
      BY <2>2, <2>3, <2>6, <3>1
  <2>7. QED
    BY <2>5, <2>6
<1> HIDE DEF merged
<1>2. Shr(merged, 4 - z) = [p \in Pos |-> IF p < 4 - z THEN 0 ELSE merged[p - (4 - z)]]
  BY DEF Shr, Pos, Sizes
<1>3. \A p \in Pos : ~(p < 4 - z) => p - (4 - z) \in 0..(z - 1)
  BY DEF Pos, Sizes
<1>4. Shr(merged, 4 - z)
         = [p \in Pos |-> IF p < 4 - z THEN 0
                          ELSE Holds(w + (o + (p - (4 - z))) \div 4, (o + (p - (4 - z))) % 4)]
  BY <1>1, <1>2, <1>3
<1>5. QED
  BY <1>4 DEF merged

\* The lanes and the data of the beat for longword k of the operand.
BeatLanes(o, z, k) ==
    IF k = 1 THEN lanes(0, o + z - 4) ELSE lanes(o, IF o + z > 4 THEN 4 - o ELSE z)

BeatData(o, z, k) ==
    LET wsh == Shl(OperandBytes, 4 - z) IN IF k = 1 THEN Shl(wsh, 4 - o) ELSE Shr(wsh, o)

LEMMA BeatLanesAre ==
    ASSUME NEW o \in Pos, NEW z \in Sizes, NEW k \in {0, 1}, k = 1 => o + z > 4
    PROVE  BeatLanes(o, z, k) = {p \in Pos : p + 4 * k - o \in 0..(z - 1)}
<1>1. CASE k = 1
  <2>1. o + z - 4 \in 0..4 /\ 0 \in Pos
    BY <1>1 DEF Pos, Sizes
  <2>2. BeatLanes(o, z, k) = {p \in Pos : 0 <= p /\ p < 0 + (o + z - 4)}
    BY <1>1, <2>1, LanesAre DEF BeatLanes
  <2>3. QED
    BY <1>1, <2>2 DEF Pos, Sizes
<1>2. CASE k = 0
  <2> DEFINE c == IF o + z > 4 THEN 4 - o ELSE z
  <2>1. c \in 0..4
    BY DEF Pos, Sizes
  <2>2. BeatLanes(o, z, k) = lanes(o, c)
    BY <1>2 DEF BeatLanes
  <2>3. lanes(o, c) = {p \in Pos : o <= p /\ p < o + c}
    <3> HIDE DEF c
    <3> QED  BY <2>1, LanesAre
  <2>4. QED
    BY <1>2, <2>2, <2>3 DEF Pos, Sizes
<1>3. QED
  BY <1>1, <1>2

\* The lanes of a beat carry the operand's bytes for their cells, the others zeroes.
LEMMA LaneData ==
    ASSUME NEW o \in Pos, NEW z \in Sizes, NEW k \in {0, 1}, k = 1 => o + z > 4, NEW p \in Pos
    PROVE  BeatData(o, z, k)[p] = IF p + 4 * k - o \in 0..(z - 1)
                                  THEN OperandBytes[(4 - z) + (p + 4 * k - o)] ELSE 0
<1> DEFINE wsh == Shl(OperandBytes, 4 - z)
<1>1. \A q \in Pos : wsh[q] = IF q \in 0..(z - 1) THEN OperandBytes[q + (4 - z)] ELSE 0
  <2>1. \A q \in Pos : q + (4 - z) \in Pos <=> q \in 0..(z - 1)
    BY DEF Pos, Sizes
  <2>2. QED
    BY <2>1 DEF Shl
<1>2. \A q \in Int : q + (4 - z) = (4 - z) + q
  BY DEF Sizes
<1>3. CASE k = 1
  <2>1. BeatData(o, z, k)[p] = IF p + (4 - o) \in Pos THEN wsh[p + (4 - o)] ELSE 0
    BY <1>3 DEF BeatData, Shl
  <2>2. /\ p + (4 - o) = p + 4 * k - o /\ p + (4 - o) \in Int
        /\ p + (4 - o) \in 0..(z - 1) => p + (4 - o) \in Pos
    BY <1>3 DEF Pos, Sizes
  <2> HIDE DEF wsh
  <2>3. QED
    BY <1>1, <1>2, <2>1, <2>2
<1>4. CASE k = 0
  <2>1. BeatData(o, z, k)[p] = IF p - o \in Pos THEN wsh[p - o] ELSE 0
    BY <1>4 DEF BeatData, Shr
  <2>2. /\ p - o = p + 4 * k - o /\ p - o \in Int
        /\ p - o \in 0..(z - 1) => p - o \in Pos
    BY <1>4 DEF Pos, Sizes
  <2> HIDE DEF wsh
  <2>3. QED
    BY <1>1, <1>2, <2>1, <2>2
<1>5. QED
  BY <1>3, <1>4

\* Whether longword a keeps a write when the longwords S are shadowed.
WritableIn(a, S) ==
    Region[a] \in {"ram", "vram", "iosb", "dafb"} \/ (Region[a] = "low" /\ a \notin S)

\* Cell n belongs to the operand of size z at offset o of longword w, and what a write
\* stores there.
OfOperand(w, o, z, n) == n \in Cell(w, o)..(Cell(w, o) + z - 1)

ValueAt(w, o, z, n) ==
    IF OfOperand(w, o, z, n) THEN OperandBytes[(4 - z) + (n - Cell(w, o))] ELSE 0

\* The cells that a write changes in the first k longwords.
Part(w, o, z, k, S) ==
    {n \in (4 * w + 1)..(4 * (w + k)) :
        WritableIn(LongOf(n), S) /\ (OfOperand(w, o, z, n) \/ Region[LongOf(n)] = "dafb")}

LEMMA WrittenIs ==
    ASSUME NEW k
    PROVE  Written(k) = [n \in Part(t_addr[1], t_addr[2], t_size, k, shadowed) |->
                            ValueAt(t_addr[1], t_addr[2], t_size, n)]
BY DEF Written, Part, ValueAt, OfOperand, Operand, FirstCell, Writable, WritableIn

LEMMA WrittenIsNext ==
    ASSUME NEW k
    PROVE  Written(k)' = [n \in Part(t_addr[1]', t_addr[2]', t_size', k', shadowed') |->
                             ValueAt(t_addr[1]', t_addr[2]', t_size', n)]
BY DEF Written, Part, ValueAt, OfOperand, Operand, FirstCell, Writable, WritableIn, LongOf, Cell

LEMMA CellLane ==
    ASSUME NEW a \in Nat, NEW p \in Pos
    PROVE  Cell(a, p) \in Nat /\ (Cell(a, p) - 1) % 4 = p /\ LongOf(Cell(a, p)) = a
BY DEF Cell, Pos, LongOf

LEMMA OperandLane ==
    ASSUME NEW w \in Nat, NEW o \in Pos, NEW z \in Sizes, NEW k \in {0, 1}, NEW p \in Pos
    PROVE  OfOperand(w, o, z, Cell(w + k, p)) <=> p + 4 * k - o \in 0..(z - 1)
BY DEF OfOperand, Cell, Pos, Sizes

LEMMA PartZero ==
    ASSUME NEW w \in Nat, NEW o, NEW z, NEW S
    PROVE  Part(w, o, z, 0, S) = {}
BY DEF Part

\* A cell in the first k longwords is in a longword below w + k.
LEMMA CellBelow ==
    ASSUME NEW w \in Nat, NEW k \in {0, 1}, NEW n \in (4 * w + 1)..(4 * (w + k))
    PROVE  LongOf(n) < w + k
BY DEF LongOf

LEMMA PartSame ==
    ASSUME NEW w \in Nat, NEW o, NEW z, NEW k \in {0, 1}, NEW S, NEW T,
           \A a \in T \ S : ~(a < w + k), S \subseteq T
    PROVE  Part(w, o, z, k, S) = Part(w, o, z, k, T)
BY CellBelow DEF Part, WritableIn

LEMMA PartNext ==
    ASSUME NEW w \in Nat, NEW o \in Pos, NEW z \in Sizes, NEW k \in {0, 1}, NEW S,
           k = 1 => o + z > 4
    PROVE  Part(w, o, z, k + 1, S)
           = Part(w, o, z, k, S) \cup
             (IF WritableIn(w + k, S)
              THEN {Cell(w + k, p) :
                       p \in IF Region[w + k] = "dafb" THEN Pos ELSE BeatLanes(o, z, k)}
              ELSE {})
<1> DEFINE Here == (4 * (w + k) + 1)..(4 * (w + k) + 4)
<1>1. (4 * w + 1)..(4 * (w + (k + 1))) = ((4 * w + 1)..(4 * (w + k))) \cup Here
  OBVIOUS
<1>2. \A n \in Here : \E p \in Pos : n = Cell(w + k, p)
  <2> SUFFICES ASSUME NEW n \in Here PROVE \E p \in Pos : n = Cell(w + k, p)
    OBVIOUS
  <2>1. n - (4 * (w + k) + 1) \in Pos /\ n = Cell(w + k, n - (4 * (w + k) + 1))
    BY DEF Cell, Pos
  <2>2. QED
    BY <2>1
<1>3. \A p \in Pos : /\ Cell(w + k, p) \in Here /\ LongOf(Cell(w + k, p)) = w + k
                     /\ OfOperand(w, o, z, Cell(w + k, p)) <=> p \in BeatLanes(o, z, k)
  <2> SUFFICES ASSUME NEW p \in Pos
               PROVE  /\ Cell(w + k, p) \in Here /\ LongOf(Cell(w + k, p)) = w + k
                      /\ OfOperand(w, o, z, Cell(w + k, p)) <=> p \in BeatLanes(o, z, k)
    OBVIOUS
  <2>1. w + k \in Nat
    OBVIOUS
  <2>2. LongOf(Cell(w + k, p)) = w + k
    BY <2>1, CellLane
  <2>3. Cell(w + k, p) \in Here
    BY DEF Cell, Pos
  <2>4. OfOperand(w, o, z, Cell(w + k, p)) <=> p + 4 * k - o \in 0..(z - 1)
    BY OperandLane
  <2>5. QED
    BY <2>2, <2>3, <2>4, BeatLanesAre
<1>4. BeatLanes(o, z, k) \subseteq Pos
  BY BeatLanesAre
<1> HIDE DEF Here
<1>5. Part(w, o, z, k + 1, S)
        = Part(w, o, z, k, S) \cup
          {n \in Here : WritableIn(LongOf(n), S)
                          /\ (OfOperand(w, o, z, n) \/ Region[LongOf(n)] = "dafb")}
  BY <1>1 DEF Part
<1>6. {n \in Here : WritableIn(LongOf(n), S)
                      /\ (OfOperand(w, o, z, n) \/ Region[LongOf(n)] = "dafb")}
        = IF WritableIn(w + k, S)
          THEN {Cell(w + k, p) : p \in IF Region[w + k] = "dafb" THEN Pos ELSE BeatLanes(o, z, k)}
          ELSE {}
  BY <1>2, <1>3, <1>4
<1>7. QED
  BY <1>5, <1>6

LEMMA ReturnedStep ==
    ASSUME BusTypes, SvcTypes, Splitter, Outcome, Selected, CpuBeat, Returned, Next
    PROVE  Returned'
<1>1. b_ack' = 1 => b_rdata' = HoldsWord(b_addr)'
  <2> SUFFICES ASSUME b_ack' = 1 PROVE b_rdata' = HoldsWord(b_addr)'
    OBVIOUS
  <2>1. svc # "IDLE" /\ svc_walker = 0 /\ b_rdata' = HoldsWord(svc_addr)
    BY AnswerExact
  <2>2. active = 1 /\ svc_addr = b_addr /\ b_ack = 0 /\ cpu_berr = 0
    BY <2>1 DEF CpuBeat, Outcome, BusTypes, Bit
  <2>3. b_addr' = b_addr
    BY <2>2, BusFrame DEF BusWait, beatVars
  <2>4. QED
    BY <2>1, <2>2, <2>3 DEF HoldsWord, Holds, Cell
<1>2. second' = 1 => r_stream' = Shl(HoldsWord(t_addr'[1]), t_addr'[2])
  <2> SUFFICES ASSUME second' = 1
               PROVE  r_stream' = Shl(HoldsWord(t_addr'[1]), t_addr'[2])
    OBVIOUS
  <2>1. active = 1 /\ cpu_berr = 0
    BY DEF Next, BusBlock, Abort, Accept, TailBeat, TailBy, Finish, BusWait, Splitter, BusTypes, Bit
  <2>2. t_addr' = t_addr
    BY <2>1, CpuFrame
  <2>3. CASE b_ack = 1
    <3>1. TailBeat
      BY <2>1, <2>3, BusFrame DEF Finish
    <3>2. /\ r_stream' = Shl(b_rdata, r_off) /\ second = 0
      BY <3>1 DEF TailBeat, TailBy, rd_stream0
    <3>3. b_addr = t_addr[1] /\ r_off = t_addr[2]
      BY <2>1, <3>2 DEF Splitter, BusTypes, Words
    <3>4. QED
      BY <2>2, <2>3, <3>2, <3>3 DEF Returned
  <2>4. CASE b_ack = 0
    <3>1. second = 1 /\ r_stream' = r_stream
      BY <2>1, <2>4, BusFrame DEF BusWait
    <3>2. QED
      BY <2>2, <3>1 DEF Returned
  <2>5. QED
    BY <2>3, <2>4 DEF BusTypes, Bit
<1>3. (Shl(HoldsWord(t_addr[1]), t_addr[2]))' = Shl(HoldsWord(t_addr'[1]), t_addr'[2])
  BY DEF Shl, HoldsWord, Holds, Cell
<1>4. QED
  BY <1>1, <1>2, <1>3 DEF Returned

LEMMA BeatsStep ==
    ASSUME BusTypes, SvcTypes, Splitter, Outcome, CpuBeat, Selected, Progress, Next
    PROVE  /\ beats' = IF t_req' # t_req THEN 0 ELSE beats + b_ack'
           /\ (active' = 0 /\ t_ack' = 0) => beats' = 0
           /\ active' = 1 => beats' = second' + b_ack'
           /\ t_ack' = 1 => beats' = BeatsNeeded'
           /\ b_ack' = 1 => active = 1 /\ beats = second
<1>1. beats' = IF t_req' # t_req THEN 0 ELSE beats + b_ack'
  BY DEF Next, History
<1>2. b_ack' = 1 => active = 1 /\ b_ack = 0 /\ cpu_berr = 0
  BY AnswerExact DEF CpuBeat, Outcome, BusTypes, Bit
<1>3. b_ack' = 0 \/ b_ack' = 1
  BY TypesStep DEF BusTypes, Bit
<1>4. CASE active = 1 /\ b_ack = 0 /\ cpu_berr = 0
  <2>1. active' = 1 /\ second' = second /\ t_ack' = 0 /\ t_req' = t_req /\ beats = second
    BY <1>4, BusFrame, CpuFrame DEF BusWait, tVars, Progress, BusTypes, Bit
  <2>2. QED
    BY <1>1, <1>4, <2>1
<1>5. CASE active = 1 /\ b_ack = 1
  <2>1. b_ack' = 0 /\ UNCHANGED tVars /\ beats = second + 1
    BY <1>2, <1>3, <1>5, CpuFrame DEF Outcome, BusTypes, Bit, Progress
  <2>2. /\ t_req' = t_req /\ t_size' = t_size /\ t_addr' = t_addr
    BY <2>1 DEF tVars
  <2>3. beats' = second + 1
    BY <1>1, <2>1, <2>2 DEF BusTypes, Bit
  <2>4. CASE TailBeat
    BY <1>1, <1>5, <2>1, <2>3, <2>4 DEF TailBeat, TailBy
  <2>5. CASE Finish
    <3>1. active' = 0 /\ t_ack' = 1 /\ r_end = f_end /\ (second = 1 \/ r_end <= 4)
      BY <1>5, <2>5 DEF Finish, Splitter
    <3>2. second + 1 = BeatsNeeded
      BY <3>1 DEF BeatsNeeded, Splitter, f_end, BusTypes, Bit, Pos, Sizes
    <3>3. BeatsNeeded' = BeatsNeeded
      BY <2>2 DEF BeatsNeeded
    <3>4. QED
      BY <1>1, <1>2, <1>5, <2>3, <3>1, <3>2, <3>3
  <2>6. QED
    BY <1>5, <2>4, <2>5, BusFrame
<1>6. CASE active = 1 /\ cpu_berr = 1
  BY <1>1, <1>2, <1>6, BusFrame, CpuFrame DEF Abort, Splitter
<1>7. CASE t_ack = 1
  BY <1>1, <1>2, <1>7, BusFrame, CpuFrame DEF BusWait, Outcome
<1>8. CASE active = 0 /\ t_ack = 0
  <2>1. beats = 0 /\ b_ack' = 0 /\ t_ack' = 0
    BY <1>2, <1>3, <1>8, BusFrame DEF Progress, Accept, BusWait, BusTypes, Bit
  <2>2. active' = 1 => second' = 0
    BY <1>8, BusFrame DEF Accept, BusWait, BusTypes, Bit
  <2>3. QED
    BY <1>1, <1>8, <2>1, <2>2
<1>9. QED
  BY <1>4, <1>5, <1>6, <1>7, <1>8 DEF BusTypes, Bit

\* Every longword in shadowed is done, or is the beat in service.
LEMMA ShadowStep ==
    ASSUME BusTypes, SvcTypes, Splitter, Outcome, CpuBeat, Selected, Progress, Fate, Next
    PROVE  /\ t_req' = t_req => UNCHANGED <<t_write, t_size, t_addr>>
           /\ (t_req' = t_req /\ ~(svc = "IDLE" /\ svc' # "IDLE" /\ svc_walker' = 0))
                 => shadowed' = shadowed
           /\ (svc = "IDLE" /\ svc' # "IDLE" /\ svc_walker' = 0)
                 => /\ t_req' = t_req /\ beats' = beats
                    /\ svc_addr' = b_addr /\ b_addr = t_addr[1] + beats /\ b_addr \notin shadowed
                    /\ shadowed' = IF overlay = 1 THEN shadowed \cup {b_addr} ELSE shadowed
<1>1. t_req' = t_req => UNCHANGED <<t_write, t_size, t_addr>>
  BY DEF Next, CpuBlock, CpuRaise, CpuDone, CpuHold, tVars
<1>2. (t_req' = t_req /\ ~(svc = "IDLE" /\ svc' # "IDLE" /\ svc_walker' = 0))
         => shadowed' = shadowed
  BY DEF Next, History
<1>3. ASSUME svc = "IDLE", svc' # "IDLE", svc_walker' = 0
      PROVE  /\ t_req' = t_req /\ beats' = beats
             /\ svc_addr' = b_addr /\ b_addr = t_addr[1] + beats /\ b_addr \notin shadowed
             /\ shadowed' = IF overlay = 1 THEN shadowed \cup {b_addr} ELSE shadowed
  <2>1. active = 1 /\ b_ack = 0 /\ cpu_berr = 0 /\ t_req' = t_req
    BY <1>3, CpuHeld DEF tVars
  <2>2. svc_addr' = b_addr
    BY <1>3 DEF Next, ServiceBlock, Dispatch, Begin, ServeMem, ServeIosb, ServeDafb, ServeBerr,
                ServeOpen, SvcWait
  <2>3. b_ack' = 0
    BY <1>3, ServiceFrame DEF Quiet
  <2>4. beats' = beats
    BY <2>1, <2>3, BeatsStep DEF SvcTypes
  <2>5. b_addr = t_addr[1] + beats
    BY <2>1 DEF Splitter, Progress, BusTypes, Bit
  <2>6. t_addr[1] + beats \in Nat
    BY DEF BusTypes, SvcTypes, Words
  <2>7. b_addr \notin shadowed
    BY <1>3, <2>1, <2>5, <2>6 DEF Fate
  <2>8. shadowed' = IF overlay = 1 THEN shadowed \cup {b_addr} ELSE shadowed
    BY <1>3, <2>1, <2>2 DEF Next, History
  <2>9. QED
    BY <2>1, <2>2, <2>4, <2>5, <2>7, <2>8
<1>4. QED
  BY <1>1, <1>2, <1>3

LEMMA FateStep ==
    ASSUME BusTypes, SvcTypes, Splitter, Outcome, CpuBeat, Selected, Progress, Fate, Next
    PROVE  Fate'
<1>1. ASSUME svc' \notin {"IDLE", "BERR"}, svc_walker' = 0
      PROVE  (Writable(svc_addr) <=> ~Discarded)'
  <2>1. CASE svc = "IDLE"
    <3>1. /\ svc_addr' = b_addr /\ b_addr \notin shadowed
          /\ shadowed' = IF overlay = 1 THEN shadowed \cup {b_addr} ELSE shadowed
      BY <1>1, <2>1, ShadowStep
    <3>2. /\ svc' = IF decode(b_addr) \in {"ram", "rom", "vram"} THEN "MEM"
                    ELSE IF decode(b_addr) = "iosb" THEN "IOSB"
                    ELSE IF decode(b_addr) = "dafb" THEN "DAFB"
                    ELSE IF decode(b_addr) = "open" THEN "OPEN" ELSE "BERR"
          /\ svc' \in {"MEM", "IOSB", "DAFB"} => port'.memsel = decode(b_addr)
      BY <1>1, <2>1 DEF Next, ServiceBlock, Dispatch, Begin, ServeMem, ServeIosb, ServeDafb,
                        ServeBerr, ServeOpen, SvcWait
    <3>3. Region[b_addr] \in Regions /\ overlay \in {0, 1}
      BY MapAssumption DEF BusTypes, SvcTypes, Bit
    <3>4. QED
      BY <1>1, <3>1, <3>2, <3>3 DEF Writable, Discarded, decode, Regions
  <2>2. CASE svc # "IDLE"
    <3>1. UNCHANGED <<svc, svc_walker, svc_addr, port>>
      BY <1>1, <2>2, ServiceFrame
    <3>2. shadowed' = shadowed
      BY <1>1, <2>2, CpuHeld, ShadowStep DEF tVars
    <3>3. QED
      BY <1>1, <2>2, <3>1, <3>2 DEF Fate, Writable, Discarded
  <2>3. QED
    BY <2>1, <2>2
<1>2. ASSUME NEW w \in shadowed'
      PROVE  \/ w < t_addr'[1] + beats'
             \/ svc' # "IDLE" /\ svc_walker' = 0 /\ w = svc_addr'
             \/ cpu_berr' = 1
  <2>1. t_req' = t_req /\ t_addr' = t_addr
    BY <1>2, ShadowStep DEF Next, History
  <2>2. cpu_berr # 1
    BY <2>1, CpuFrame DEF Outcome, Splitter
  <2>3. CASE svc = "IDLE" /\ svc' # "IDLE" /\ svc_walker' = 0
    BY <1>2, <2>1, <2>2, <2>3, ShadowStep DEF Fate
  <2>4. CASE ~(svc = "IDLE" /\ svc' # "IDLE" /\ svc_walker' = 0)
    <3>1. w \in shadowed
      BY <1>2, <2>1, <2>4, ShadowStep
    <3>2. beats' = beats + b_ack' /\ (b_ack' = 0 \/ b_ack' = 1) /\ beats \in Nat
      BY <2>1, BeatsStep, TypesStep DEF BusTypes, SvcTypes, Bit
    <3>3. t_addr[1] \in Nat
      BY DEF BusTypes, Words
    <3>4. CASE svc # "IDLE" /\ svc_walker = 0 /\ w = svc_addr
      <4>1. \/ svc' # "IDLE" /\ svc_walker' = 0 /\ svc_addr' = svc_addr
            \/ b_ack' = 1
            \/ cpu_berr' = 1
        <5>1. b_ack' \in {0, 1} /\ cpu_berr' \in {0, 1}
          BY TypesStep DEF BusTypes, Bit
        <5>2. cpu_berr' = 0 => 1 - cpu_berr' = 1
          OBVIOUS
        <5>3. svc_walker' = svc_walker /\ svc_addr' = svc_addr
          BY <3>4, ServiceFrame
        <5>4. svc' = svc \/ b_ack' = 1 - cpu_berr'
          BY <3>4, ServiceFrame
        <5>5. QED
          BY <3>4, <5>1, <5>2, <5>3, <5>4
      <4>2. CASE b_ack' = 1
        <5>1. w = t_addr[1] + beats
          BY <3>4, <4>2, BeatsStep DEF CpuBeat, Splitter
        <5>2. QED
          BY <2>1, <3>2, <3>3, <4>2, <5>1
      <4>3. QED
        BY <3>4, <4>1, <4>2
    <3>5. CASE w < t_addr[1] + beats
      <4>1. \A x : x \in Int => (x < t_addr[1] + beats => x < t_addr[1] + beats')
        BY <3>2, <3>3
      <4>2. w \in Int
        BY <3>1 DEF SvcTypes, Words
      <4>3. QED
        BY <2>1, <3>5, <4>1, <4>2
    <3>6. QED
      BY <2>2, <3>1, <3>4, <3>5 DEF Fate
  <2>5. QED
    BY <2>3, <2>4
<1>3. QED
  BY <1>1, <1>2 DEF Fate

\* A write's bytes reach memory with the ack of their beat, unless the target
\* discards them; nothing else is stored.
LEMMA StoredStep ==
    ASSUME BusTypes, SvcTypes, Splitter, Outcome, CpuBeat, Selected, Progress, Fate, Next
    PROVE  (stored = IF t_write = 1 THEN Written(beats) ELSE [n \in {} |-> 0])'
<1> DEFINE Image(k, S) == [n \in Part(t_addr[1], t_addr[2], t_size, k, S) |->
                              ValueAt(t_addr[1], t_addr[2], t_size, n)]
<1>1. stored = IF t_write = 1 THEN Image(beats, shadowed) ELSE [n \in {} |-> 0]
  BY WrittenIs DEF Progress
<1>2. t_addr[1] \in Nat /\ t_addr[2] \in Pos /\ t_size \in Sizes
  BY DEF BusTypes, Words
<1>3. CASE t_req' # t_req
  <2>1. beats' = 0 /\ stored' = [n \in {} |-> 0]
    BY <1>3 DEF Next, History
  <2>2. t_addr'[1] \in Nat
    BY TypesStep DEF BusTypes, Words
  <2>3. Part(t_addr'[1], t_addr'[2], t_size', 0, shadowed') = {}
    BY <2>2, PartZero
  <2>4. Written(beats)' = [n \in {} |-> 0]
    BY <2>1, <2>3, WrittenIsNext
  <2>5. QED
    BY <2>1, <2>4
<1>4. CASE t_req' = t_req
  <2> DEFINE cells == IF b_ack' = 1 /\ port.write = 1 /\ ~Discarded
                      THEN {Cell(port.addr, p) : p \in port.be} ELSE {}
  <2>1. stored' = [n \in DOMAIN stored \cup cells |->
                      IF n \in cells THEN port.wdata[(n - 1) % 4] ELSE stored[n]]
    BY <1>4 DEF Next, History, Discarded
  <2>2. UNCHANGED <<t_write, t_size, t_addr>>
    BY <1>4, ShadowStep
  <2>3. Written(beats)' = Image(beats', shadowed')
    BY <2>2, WrittenIsNext
  <2>4. CASE b_ack' # 1
    <3>1. beats' = beats
      BY <1>4, <2>4, BeatsStep, TypesStep DEF BusTypes, SvcTypes, Bit
    <3>2. stored' = stored
      BY <1>1, <2>1, <2>4
    <3>3. Image(beats, shadowed') = Image(beats, shadowed)
      <4>1. CASE svc = "IDLE" /\ svc' # "IDLE" /\ svc_walker' = 0
        <5>1. active = 1 /\ b_ack = 0
          BY <4>1, CpuHeld
        <5>2. beats \in {0, 1}
          BY <5>1 DEF Progress, BusTypes, Bit
        <5>3. shadowed \subseteq shadowed' /\ \A a \in shadowed' \ shadowed : a = t_addr[1] + beats
          BY <4>1, ShadowStep
        <5>4. \A a \in shadowed' \ shadowed : ~(a < t_addr[1] + beats)
          BY <1>2, <5>2, <5>3
        <5>5. QED
          BY <1>2, <5>2, <5>3, <5>4, PartSame
      <4>2. CASE ~(svc = "IDLE" /\ svc' # "IDLE" /\ svc_walker' = 0)
        BY <1>4, <4>2, ShadowStep
      <4>3. QED
        BY <4>1, <4>2
    <3>4. QED
      BY <1>1, <2>2, <2>3, <3>1, <3>2, <3>3
  <2>5. CASE b_ack' = 1
    <3>1. active = 1 /\ beats = second /\ beats' = second + 1
      BY <1>4, <2>5, BeatsStep DEF BusTypes, Bit
    <3>2. svc # "IDLE" /\ svc_walker = 0 /\ svc_addr = b_addr
      BY <2>5, AnswerExact DEF CpuBeat
    <3>3. /\ b_write = t_write /\ b_addr = t_addr[1] + second
          /\ second = 1 => t_addr[2] + t_size > 4
          /\ b_be = BeatLanes(t_addr[2], t_size, second)
          /\ b_wdata = BeatData(t_addr[2], t_size, second)
      <4>1. b_write = t_write /\ b_addr = t_addr[1] + second
        BY <3>1 DEF Splitter
      <4>2. second = 1 => t_addr[2] + t_size > 4
        BY <3>1 DEF Splitter, f_end
      <4>3. b_be = BeatLanes(t_addr[2], t_size, second)
        <5>1. /\ f_end - 4 = t_addr[2] + t_size - 4
              /\ f_n0 = IF t_addr[2] + t_size > 4 THEN 4 - t_addr[2] ELSE t_size
          BY <1>2 DEF f_end, f_n0, Pos, Sizes
        <5>2. QED
          BY <3>1, <5>1 DEF Splitter, BeatLanes
      <4>4. f_wsh = Shl(OperandBytes, 4 - t_size)
        BY DEF f_wsh, BusTypes
      <4>5. b_wdata = BeatData(t_addr[2], t_size, second)
        BY <3>1, <4>4 DEF Splitter, BeatData
      <4>6. QED
        BY <4>1, <4>2, <4>3, <4>5
    <3>4. svc # "BERR"
      BY <2>5 DEF Next, ServiceBlock, Dispatch, Begin, Quiet, Answer, Fault, ServeMem,
                  ServeIosb, ServeDafb, ServeBerr, ServeOpen, SvcWait
    <3> DEFINE w == t_addr[1] + second
               at == IF Region[w] = "dafb" THEN Pos ELSE BeatLanes(t_addr[2], t_size, second)
    <3>5. svc # "OPEN" => /\ port.addr = w /\ port.write = t_write /\ port.be = at
                          /\ port.wdata = BeatData(t_addr[2], t_size, second)
      <4>1. svc # "OPEN" => svc \in {"MEM", "IOSB", "DAFB"}
        BY <3>2, <3>4 DEF SvcTypes, SvcStates
      <4>2. QED
        BY <3>2, <3>3, <4>1 DEF CpuBeat, Selected
    <3>6. WritableIn(w, shadowed) <=> ~Discarded
      BY <3>2, <3>3, <3>4 DEF Fate, Writable, WritableIn
    <3>7. shadowed' = shadowed
      BY <1>4, <3>2, ShadowStep
    <3>8. CASE t_write = 0
      <4>1. cells = {}
        BY <3>5, <3>8 DEF Discarded
      <4>2. QED
        BY <1>1, <2>1, <2>2, <3>8, <4>1
    <3>9. CASE t_write = 1
      <4>1. cells = IF WritableIn(w, shadowed) THEN {Cell(w, p) : p \in at} ELSE {}
        BY <2>5, <3>5, <3>6, <3>9 DEF Discarded
      <4>2. Part(t_addr[1], t_addr[2], t_size, second + 1, shadowed)
              = Part(t_addr[1], t_addr[2], t_size, second, shadowed) \cup cells
        <5>1. second \in {0, 1}
          BY DEF BusTypes, Bit
        <5>2. Part(t_addr[1], t_addr[2], t_size, second + 1, shadowed)
                = Part(t_addr[1], t_addr[2], t_size, second, shadowed) \cup
                  (IF WritableIn(w, shadowed) THEN {Cell(w, p) : p \in at} ELSE {})
          BY <1>2, <3>3, <5>1, PartNext
        <5>3. QED
          BY <4>1, <5>2
      <4>3. ASSUME NEW n \in cells
            PROVE  port.wdata[(n - 1) % 4] = ValueAt(t_addr[1], t_addr[2], t_size, n)
        <5>1. PICK p \in at : n = Cell(w, p)
          BY <4>1, <4>3
        <5>2. second \in {0, 1}
          BY DEF BusTypes, Bit
        <5>3. p \in Pos
          <6>1. BeatLanes(t_addr[2], t_size, second) \subseteq Pos
            BY <1>2, <3>3, <5>2, BeatLanesAre
          <6>2. QED
            BY <6>1
        <5>4. BeatData(t_addr[2], t_size, second)[p] = ValueAt(t_addr[1], t_addr[2], t_size, n)
          <6>1. BeatData(t_addr[2], t_size, second)[p]
                  = IF p + 4 * second - t_addr[2] \in 0..(t_size - 1)
                    THEN OperandBytes[(4 - t_size) + (p + 4 * second - t_addr[2])] ELSE 0
            BY <1>2, <3>3, <5>2, <5>3, LaneData
          <6>2. n - Cell(t_addr[1], t_addr[2]) = p + 4 * second - t_addr[2]
            BY <1>2, <5>1, <5>2, <5>3 DEF Cell, Pos
          <6>3. OfOperand(t_addr[1], t_addr[2], t_size, n)
                  <=> p + 4 * second - t_addr[2] \in 0..(t_size - 1)
            BY <1>2, <5>1, <5>2, <5>3, OperandLane
          <6>4. QED
            BY <6>1, <6>2, <6>3 DEF ValueAt
        <5>5. (n - 1) % 4 = p
          <6>1. w \in Nat
            BY <1>2, <5>2
          <6>2. QED
            BY <5>1, <5>3, <6>1, CellLane
        <5>6. port.wdata = BeatData(t_addr[2], t_size, second)
          BY <3>5, <4>3 DEF Discarded
        <5>7. QED
          BY <5>4, <5>5, <5>6
      <4> HIDE DEF cells
      <4>4. DOMAIN stored = Part(t_addr[1], t_addr[2], t_size, second, shadowed)
        BY <1>1, <3>1, <3>9
      <4>5. \A n \in DOMAIN stored : stored[n] = ValueAt(t_addr[1], t_addr[2], t_size, n)
        BY <1>1, <3>1, <3>9
      <4>6. stored' = Image(second + 1, shadowed)
        BY <2>1, <4>2, <4>3, <4>4, <4>5
      <4>7. QED
        BY <2>2, <2>3, <3>1, <3>7, <3>9, <4>6
    <3>10. QED
      BY <3>8, <3>9 DEF BusTypes, Bit
  <2>6. QED
    BY <2>4, <2>5
<1>5. QED
  BY <1>3, <1>4

LEMMA ReadStep ==
    ASSUME BusTypes, SvcTypes, Splitter, Outcome, CpuBeat, Selected, Returned, Progress, Next
    PROVE  ReadExact'
<1> SUFFICES ASSUME t_ack' = 1, t_write' = 0
             PROVE  /\ t_rdata' = [p \in Pos |->
                          IF p < 4 - t_size' THEN 0
                          ELSE Holds(t_addr'[1] + (t_addr'[2] + (p - (4 - t_size'))) \div 4,
                                     (t_addr'[2] + (p - (4 - t_size'))) % 4)]
                    /\ beats' = BeatsNeeded'
  BY DEF ReadExact, WordOf, PosOf, Holds, Cell
<1>1. Finish
  BY DEF Next, BusBlock, Abort, Accept, TailBeat, TailBy, BusWait
<1>2. active = 1 /\ b_ack = 1 /\ cpu_berr = 0 /\ (second = 1 \/ r_end <= 4)
  BY <1>1 DEF Finish
<1>3. UNCHANGED <<t_size, t_addr>>
  BY <1>2, CpuFrame
<1>4. t_addr[1] \in Nat /\ t_addr[2] \in Pos /\ t_size \in Sizes
  BY DEF BusTypes, Words
<1>5. /\ r_off = t_addr[2] /\ r_bytes = t_size /\ r_end = t_addr[2] + t_size
      /\ b_rdata = HoldsWord(t_addr[1] + second)
      /\ second = 1 => r_stream = Shl(HoldsWord(t_addr[1]), t_addr[2])
      /\ second = 1 => t_addr[2] + t_size > 4
  BY <1>2 DEF Splitter, Returned, f_end
<1>6. second \in {0, 1} /\ ((second = 1) = (t_addr[2] + t_size > 4))
  BY <1>2, <1>4, <1>5 DEF BusTypes, Bit, Pos, Sizes
<1>7. t_rdata' = Shr(IF t_addr[2] + t_size > 4
                     THEN Or(Shl(HoldsWord(t_addr[1]), t_addr[2]),
                             Shr(HoldsWord(t_addr[1] + 1), 4 - t_addr[2]))
                     ELSE Shl(HoldsWord(t_addr[1]), t_addr[2]), 4 - t_size)
  <2>1. t_rdata' = Shr(IF second = 1 THEN Or(r_stream, Shr(b_rdata, 4 - r_off))
                       ELSE Shl(b_rdata, r_off), 4 - r_bytes)
    BY <1>1 DEF Finish, rd_stream0, r_n0
  <2>2. CASE second = 1
    BY <1>5, <1>6, <2>1, <2>2
  <2>3. CASE second = 0
    <3>1. t_addr[1] + second = t_addr[1]
      BY <1>4, <2>3
    <3>2. QED
      BY <1>5, <1>6, <2>1, <2>3, <3>1
  <2>4. QED
    BY <1>6, <2>2, <2>3
<1>8. QED
  BY <1>3, <1>4, <1>7, ReadMerge, BeatsStep

-----------------------------------------------------------------------------
(* The invariant and what follows from it *)

LEMMA InvStep == BusInv /\ [Next]_vars => BusInv'
<1> SUFFICES ASSUME BusInv, [Next]_vars PROVE BusInv'
  OBVIOUS
<1> USE DEF BusInv
<1>1. CASE Next
  <2>1. BusTypes' /\ SvcTypes'
    BY <1>1, TypesStep
  <2>2. Splitter' /\ Outcome' /\ Selected' /\ CpuBeat'
    BY <1>1, SplitterStep, OutcomeStep, SelectedStep, CpuBeatStep
  <2>3. WalkerBeat' /\ Returned' /\ ReadExact'
    BY <1>1, WalkerStep, ReturnedStep, ReadStep
  <2>4. Progress' /\ Fate'
    BY <1>1, BeatsStep, StoredStep, FateStep DEF Progress
  <2>5. QED
    BY <2>1, <2>2, <2>3, <2>4
<1>2. CASE UNCHANGED vars
  <2>1. BusTypes' /\ SvcTypes'
    BY <1>2 DEF vars, tVars, busVars, beatVars, rVars, svcVars, walkerVars, BusTypes, SvcTypes,
                f_end
  <2>2. Splitter' /\ Outcome' /\ Selected' /\ CpuBeat'
    BY <1>2 DEF vars, tVars, busVars, beatVars, rVars, svcVars, Splitter, Outcome, Selected,
                CpuBeat, f_wsh, f_end, f_n0
  <2>3. WalkerBeat' /\ Returned'
    BY <1>2 DEF vars, tVars, busVars, beatVars, rVars, svcVars, walkerVars, WalkerBeat, Returned,
                HoldsWord, Holds, Cell
  <2>4. Progress' /\ ReadExact'
    <3>1. Written(beats)' = Written(beats)
      BY <1>2, WrittenIs, WrittenIsNext DEF vars, tVars
    <3>2. QED
      BY <1>2, <3>1 DEF vars, tVars, busVars, svcVars, Progress, WordOf, PosOf, Cell,
                        BeatsNeeded, ReadExact, Holds
  <2>5. Fate'
    BY <1>2 DEF vars, tVars, busVars, svcVars, Fate, Writable, Discarded
  <2>6. QED
    BY <2>1, <2>2, <2>3, <2>4, <2>5
<1>3. QED
  BY <1>1, <1>2

\* The invariant that ties the splitter, the service, the walker and the histories
\* together holds in every reachable state, for every address map.
THEOREM BusInvariant == Spec => []BusInv
<1>1. Init => BusInv
  BY InvInit
<1>2. BusInv /\ [Next]_vars => BusInv'
  BY InvStep
<1>3. QED
  BY <1>1, <1>2, PTL DEF Spec

\* The service works for the CPU only on the beat that the splitter holds, also across
\* the tail of a split and the abort of a fault, and selects its one target.
THEOREM BeatsOwned == Spec => []NoOrphanBeat
<1>1. BusInv => NoOrphanBeat
  BY DEF BusInv, NoOrphanBeat, CpuBeat, Splitter, Selected, BusTypes, Bit
<1>2. QED
  BY <1>1, BusInvariant, PTL

\* A CPU transaction ends in an ack or in a bus error, never in both, and neither
\* arrives when it is over.
THEOREM OutcomeUnique == Spec => []OneOutcome
<1>1. BusInv => OneOutcome
  BY DEF BusInv, OneOutcome, Outcome, Splitter, BusTypes, Bit
<1>2. QED
  BY <1>1, BusInvariant, PTL

\* However long the walker holds its request up, it is answered once and with the
\* descriptor at its address.
THEOREM WalkerExact == Spec => []WalkerOnce
<1>1. BusInv => WalkerOnce
  BY DEF BusInv, WalkerOnce, WalkerBeat, HoldsWord
<1>2. QED
  BY <1>1, BusInvariant, PTL

\* Every read returns exactly the operand's bytes, for every offset, size and address
\* map, in the beats it needs.
THEOREM ReadsExact == Spec => []ReadExact
<1>1. BusInv => ReadExact
  BY DEF BusInv
<1>2. QED
  BY <1>1, BusInvariant, PTL

\* Every acked write has stored the operand's bytes where its longwords keep them,
\* together with the zeroes around them in the DAFB's registers, and not a byte more: for
\* every offset, size and address map, and wherever the overlay ends.
THEOREM WritesExact == Spec => []WriteExact
<1>1. BusInv => WriteExact
  BY DEF BusInv, Progress, WriteExact
<1>2. QED
  BY <1>1, BusInvariant, PTL

=============================================================================
