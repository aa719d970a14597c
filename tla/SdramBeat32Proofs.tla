------------------------- MODULE SdramBeat32Proofs --------------------------
(***************************************************************************)
(* Proofs about the SDRAM bridge, for every set of addresses and bytes,     *)
(* every clock ratio, refresh period and power-up time.                     *)
(***************************************************************************)
EXTENDS SdramBeat32, TLAPS

LEMMA TypeInit == Init => TypeOK
BY PortAssumption, ClockAssumption
   DEF Init, TypeOK, MasterInit, MasterType, DataWord, Word, Stray, CtlState, CAS_LATENCY,
       BURST_LENGTH, Lane

LEMMA RamTypes ==
    ASSUME TypeOK, RamClock
    PROVE  /\ req_seen' \in {0, 1} /\ ack_tgl' \in {0, 1} /\ busy_r' \in {0, 1}
           /\ acc' \in {0, 1} /\ rd2' \in {0, 1} /\ ready' \in {0, 1} /\ ready_d' \in {0, 1}
           /\ refresh' \in {0, 1} /\ refresh_old' \in {0, 1}
           /\ req_sync' \in {0, 1} \X {0, 1}
           /\ hold' \in DataWord
           /\ refcnt' \in 0..(REFRESH_PERIOD - 1)
           /\ state' \in CtlState
           /\ startup' \in 0..STARTUP_CYCLES
           /\ data_ready_delay' \in 0..(CAS_LATENCY + 1)
           /\ saved' \in [wr : {0, 1}, addr : Addr, half : {0, 1}, din : WriteData, bs : WriteBE]
           /\ chip' \in [Addr -> Word]
           /\ burst' \in 0..(CAS_LATENCY + BURST_LENGTH)
           /\ dout' \in [{0, 1} -> Byte \cup {X}]
<1>1. /\ req_seen' \in {0, 1} /\ ack_tgl' \in {0, 1} /\ busy_r' \in {0, 1}
      /\ acc' \in {0, 1} /\ rd2' \in {0, 1} /\ ready_d' \in {0, 1}
      /\ req_sync' \in {0, 1} \X {0, 1}
  BY DEF TypeOK, RamClock, RamBlock, BurstWord1, StartAccess, BurstWord0, WriteHigh,
         WriteLow, RamWait
<1>2. hold' \in DataWord
  <2>1. \A h \in {0, 1} : SetHalf(hold, h, dout) \in DataWord
    BY DEF TypeOK, SetHalf, DataWord, HalfLanes, HighLanes, LowLanes, Lane
  <2>2. QED
    BY <2>1 DEF TypeOK, RamClock, RamBlock, BurstWord1, StartAccess, BurstWord0, WriteHigh,
         WriteLow, RamWait
<1>3. /\ refresh' \in {0, 1} /\ refcnt' \in 0..(REFRESH_PERIOD - 1)
  BY ClockAssumption DEF TypeOK, RamClock, RefreshBlock
<1>4. /\ ready' \in {0, 1} /\ refresh_old' \in {0, 1}
      /\ startup' \in 0..STARTUP_CYCLES
      /\ data_ready_delay' \in 0..(CAS_LATENCY + 1)
  BY ClockAssumption
     DEF TypeOK, RamClock, CtlBlock, CtlStartup, CtlStarted, CtlWalk, CtlRefresh, CtlActivate,
         CtlIdle, CtlWrite, CtlRead, Shifted, DelayedReady, CAS_LATENCY
<1>5. state' \in CtlState
  BY DEF TypeOK, RamClock, CtlBlock, CtlStartup, CtlStarted, CtlWalk, CtlRefresh, CtlActivate,
         CtlIdle, CtlWrite, CtlRead, Walk, CtlState
<1>6. saved' \in [wr : {0, 1}, addr : Addr, half : {0, 1}, din : WriteData, bs : WriteBE]
  BY DEF TypeOK, RamClock, CtlBlock, CtlStartup, CtlStarted, CtlWalk, CtlRefresh, CtlActivate,
         CtlIdle, CtlWrite, CtlRead, Operands
<1>7. burst' \in 0..(CAS_LATENCY + BURST_LENGTH)
  BY DEF TypeOK, RamClock, ChipBlock, ChipWrite, ChipRead, ChipBurst, CAS_LATENCY, BURST_LENGTH
<1>8. chip' \in [Addr -> Word]
  <2>1. \A s \in SUBSET Lane :
           Store(chip, saved.addr, saved.din, s) \in [Addr -> Word]
    BY PortAssumption DEF TypeOK, Store, Merge, Word
  <2>2. saved.bs \cap HalfLanes(saved.half) \in SUBSET Lane
    BY PortAssumption DEF TypeOK
  <2>3. QED
    BY <2>1, <2>2 DEF TypeOK, RamClock, ChipBlock, ChipWrite, ChipRead, ChipBurst
<1>9. dout' \in [{0, 1} -> Byte \cup {X}]
  <2>1. \A n \in {0, 1} : BurstWord(n) \in [{0, 1} -> Byte \cup {X}]
    BY DEF TypeOK, BurstWord, HalfOf, Stray, Word, Lane
  <2>2. Stray \in [{0, 1} -> Byte \cup {X}]
    BY DEF Stray
  <2>3. QED
    BY <2>1, <2>2 DEF TypeOK, RamClock, ChipBlock, CAS_LATENCY
<1>10. QED
  BY <1>1, <1>2, <1>3, <1>4, <1>5, <1>6, <1>7, <1>8, <1>9

LEMMA TypeStep == TypeOK /\ [Next]_vars => TypeOK'
<1> SUFFICES ASSUME TypeOK, [Next]_vars PROVE TypeOK'
  OBVIOUS
<1>1. CASE RamEdge
  <2>1. phase' \in 0..(RATIO - 1)
    BY <1>1, ClockAssumption DEF RamEdge, TypeOK
  <2>2. QED
    BY <1>1, <2>1, RamTypes DEF RamEdge, TypeOK, MasterType, sysVars, masterVars
<1>2. CASE BothEdges
  <2>1. phase' \in 0..(RATIO - 1)
    BY <1>2, ClockAssumption DEF BothEdges, TypeOK
  <2>2. MasterType'
    BY <1>2 DEF BothEdges, MachineBlock, MasterRaise, MasterDrop, MasterHold, masterVars,
                TypeOK, MasterType
  <2>3. /\ busy' \in {0, 1} /\ posted' \in {0, 1} /\ ack' \in {0, 1} /\ r_we' \in {0, 1}
        /\ req_tgl' \in {0, 1} /\ ack_seen' \in {0, 1} /\ ack_sync' \in {0, 1} \X {0, 1}
        /\ r_addr' \in Addr /\ r_be' \in WriteBE /\ r_wdata' \in WriteData
        /\ rdata' \in DataWord
    BY <1>2 DEF BothEdges, SysBlock, Capture, Complete, SysWait, TypeOK, MasterType
  <2>4. QED
    BY <1>2, <2>1, <2>2, <2>3, RamTypes DEF BothEdges, TypeOK
<1>3. CASE UNCHANGED vars
  BY <1>3 DEF vars, masterVars, sysVars, ramVars, ctlVars, chipVars, TypeOK, MasterType
<1>4. QED
  BY <1>1, <1>2, <1>3 DEF Next

\* Type correctness: every register of the bridge, the controller and the chip
\* keeps its type; in particular no byte of the chip's array ever becomes undefined.
THEOREM TypeCorrect == Spec => []TypeOK
<1>1. Init => TypeOK
  BY TypeInit
<1>2. TypeOK /\ [Next]_vars => TypeOK'
  BY TypeStep
<1>3. QED
  BY <1>1, <1>2, PTL DEF Spec

-----------------------------------------------------------------------------
(* The inductive invariant *)

LEMMA InvInit == Init => BeatInv
<1> SUFFICES ASSUME Init PROVE BeatInv
  OBVIOUS
<1>1. TypeOK
  BY TypeInit
<1>2. Handshake /\ BeatOwner /\ AtPowerUp
  BY DEF Init, Handshake, NoBeat, ReqQuiet, AckQuiet, BeatOwner, AtPowerUp, MasterInit
<1>3. Progress
  BY DEF Init, Progress, AtWritten, AtWord1, Returning
<1>4. QED
  BY <1>1, <1>2, <1>3 DEF BeatInv, Controller

\* Only the last edge of an access ends the clk_ram side's work, and it flips the
\* ack toggle; only a new request toggle starts it.
LEMMA RamHandshake ==
    ASSUME TypeOK, Handshake, Controller, RamBlock
    PROVE  /\ req_sync' = <<req_tgl, req_sync[1]>>
           /\ NoBeat => /\ busy_r' = 0 /\ rd2' = 0 /\ req_seen' = req_seen
                        /\ ack_tgl' = ack_tgl
           /\ Crossing => /\ rd2' = 0 /\ ack_tgl' = ack_tgl
                          /\ \/ req_sync[2] = req_tgl /\ busy_r' = 1 /\ req_seen' = req_tgl
                             \/ req_sync[2] # req_tgl /\ busy_r' = 0 /\ req_seen' = req_seen
           /\ Working => /\ req_seen' = req_seen
                         /\ \/ busy_r' = 1 /\ ack_tgl' = ack_tgl
                            \/ busy_r' = 0 /\ rd2' = 0 /\ ack_tgl' = 1 - ack_tgl
           /\ Returning => /\ busy_r' = 0 /\ rd2' = 0 /\ req_seen' = req_seen
                           /\ ack_tgl' = ack_tgl
BY DEF TypeOK, Handshake, NoBeat, Crossing, Working, Returning, ReqQuiet, AckQuiet,
       RamBlock, BurstWord1, StartAccess, BurstWord0, WriteHigh, WriteLow, RamWait

LEMMA HandshakeStep ==
    ASSUME TypeOK, Handshake, Controller, Next
    PROVE  Handshake'
<1> RamBlock
  BY DEF Next, RamEdge, BothEdges, RamClock
<1>1. CASE RamEdge
  BY <1>1, RamHandshake
     DEF RamEdge, sysVars, TypeOK, Handshake, NoBeat, Crossing, Working, Returning, ReqQuiet,
         AckQuiet
<1>2. CASE BothEdges
  <2>1. CASE NoBeat
    BY <1>2, <2>1, RamHandshake
       DEF BothEdges, SysBlock, Capture, Complete, SysWait, TypeOK, Handshake, NoBeat,
           Crossing, ReqQuiet, AckQuiet
  <2>2. CASE Crossing
    BY <1>2, <2>2, RamHandshake
       DEF BothEdges, SysBlock, Capture, Complete, SysWait, TypeOK, Handshake, Working,
           Crossing, ReqQuiet, AckQuiet
  <2>3. CASE Working
    BY <1>2, <2>3, RamHandshake
       DEF BothEdges, SysBlock, Capture, Complete, SysWait, TypeOK, Handshake, Working,
           Returning, ReqQuiet, AckQuiet
  <2>4. CASE Returning
    BY <1>2, <2>4, RamHandshake
       DEF BothEdges, SysBlock, Capture, Complete, SysWait, TypeOK, Handshake, NoBeat,
           Returning, ReqQuiet, AckQuiet
  <2>5. QED
    BY <2>1, <2>2, <2>3, <2>4 DEF Handshake
<1>3. QED
  BY <1>1, <1>2 DEF Next

LEMMA OwnerStep ==
    ASSUME TypeOK, BeatOwner, Next
    PROVE  BeatOwner'
<1>1. CASE RamEdge
  BY <1>1 DEF RamEdge, sysVars, masterVars, BeatOwner
<1>2. CASE BothEdges
  BY <1>2 DEF BothEdges, SysBlock, Capture, Complete, SysWait, MachineBlock, MasterRaise,
              MasterDrop, MasterHold, masterVars, BeatOwner, TypeOK, MasterType
<1>3. QED
  BY <1>1, <1>2 DEF Next

\* A beat in flight keeps its operands.
LEMMA OperandsKept ==
    ASSUME TypeOK, busy = 1, Next
    PROVE  UNCHANGED <<r_we, r_addr, r_be, r_wdata>>
BY DEF Next, RamEdge, BothEdges, sysVars, SysBlock, Capture, Complete, SysWait, TypeOK

\* While the machine is held in reset nothing is captured.
LEMMA PowerUpHeld ==
    ASSUME EarlyBeats = FALSE, TypeOK, Handshake, AtPowerUp, Next
    PROVE  busy' = 0 /\ req' = 0 /\ busy_r' = 0 /\ rd2' = 0
<1>1. NoBeat
  BY DEF Handshake, AtPowerUp, Crossing, Working, Returning
<1>2. busy' = 0 /\ req' = 0
  BY <1>1 DEF NoBeat, AtPowerUp, Next, RamEdge, BothEdges, sysVars, masterVars, SysBlock,
         Capture, Complete, SysWait, MachineBlock, MasterRaise, MasterDrop, MasterHold, TypeOK
<1>3. busy_r' = 0 /\ rd2' = 0
  BY <1>1, RamHandshake DEF Controller, Next, RamEdge, BothEdges, RamClock
<1>4. QED
  BY <1>2, <1>3

LEMMA ControllerStep ==
    ASSUME EarlyBeats = FALSE, TypeOK, TypeOK', Handshake, Controller, Next
    PROVE  Controller'
<1> USE DEF CAS_LATENCY
<1>r. RamClock /\ RamBlock /\ CtlBlock /\ ChipBlock
  BY DEF Next, RamEdge, BothEdges, RamClock
<1>w. ASSUME busy_r = 1
      PROVE  Working /\ UNCHANGED <<r_we, r_addr, r_be, r_wdata>>
  BY <1>w, OperandsKept DEF Handshake, NoBeat, Crossing, Working, Returning
<1>1. CASE AtPowerUp
  <2>1. busy' = 0 /\ req' = 0 /\ busy_r' = 0 /\ rd2' = 0
    BY <1>1, PowerUpHeld
  <2>2. data_ready_delay' = 0 /\ ready_d' = ready
    BY <1>1, <1>r DEF AtPowerUp, RamBlock, CtlBlock, CtlStartup, CtlStarted, CtlWalk, Walk,
              CtlRefresh, CtlActivate, CtlIdle, CtlWrite, CtlRead, Shifted
  <2>3. CASE CtlStartup
    BY <1>1, <2>1, <2>2, <2>3 DEF AtPowerUp, CtlStartup, Controller
  <2>4. CASE CtlStarted
    BY <1>1, <2>1, <2>2, <2>4 DEF CtlStarted, Controller, AtFirstIdle, AtRest, TypeOK
  <2>5. QED
    BY <1>1, <1>r, <2>3, <2>4 DEF AtPowerUp, CtlBlock, CtlWalk, Walk, CtlRefresh,
              CtlActivate, CtlIdle, CtlWrite, CtlRead
<1>2. CASE AtFirstIdle
  <2>1. NoBeat
    BY <1>2 DEF Handshake, AtFirstIdle, Crossing, Working, Returning
  <2>2. busy_r' = 0 /\ rd2' = 0
    BY <2>1, <1>r, RamHandshake
  <2>3. ready_d' = 1
    BY <1>2, <1>r DEF AtFirstIdle, RamBlock
  <2>4. /\ ready' = 1 /\ data_ready_delay' = 0
        /\ state' \in {"IDLE", "RFSH"}
    BY <1>2, <1>r, <2>1 DEF AtFirstIdle, NoBeat, CtlBlock, CtlStartup, CtlStarted, CtlWalk,
              Walk, CtlRefresh, CtlActivate, CtlIdle, CtlWrite, CtlRead, Shifted,
              DelayedReady, rd, wr
  <2>5. AtRest'
    BY <2>2, <2>3, <2>4 DEF AtRest
  <2>6. QED
    BY <2>5 DEF Controller
<1>3. CASE AtRest
  <2>1. ready_d' = 1 /\ rd2' = 0
    BY <1>3, <1>r DEF AtRest, RamBlock, BurstWord1, StartAccess, BurstWord0, WriteHigh,
              WriteLow, RamWait, ReadyEdge
  <2>2. (busy_r' = 1 /\ r_we' = 0) => acc' = 0
    BY <1>3, <1>r, <1>w DEF AtRest, RamBlock, BurstWord1, StartAccess, BurstWord0, WriteHigh,
              WriteLow, RamWait, ReadyEdge, TypeOK
  <2>3. CASE CtlActivate
    <3>1. busy_r = 1 /\ busy_r' = 1 /\ acc' = acc
      BY <1>3, <1>r, <2>3 DEF AtRest, CtlActivate, rd, wr, RamBlock, BurstWord1, StartAccess,
              BurstWord0, WriteHigh, WriteLow, RamWait, ReadyEdge
    <3>2. AtRow'
      BY <1>3, <1>w, <2>1, <2>2, <2>3, <3>1
         DEF AtRest, AtRow, InAccess, Operands, CtlActivate, Shifted
    <3>3. QED
      BY <3>2 DEF Controller
  <2>4. CASE ~CtlActivate
    <3>1. /\ ready' = 1 /\ data_ready_delay' = 0
          /\ state' \in {"IDLE", "RFSH", "IDLE_1", "IDLE_2", "IDLE_3", "IDLE_4", "IDLE_5"}
      BY <1>3, <1>r, <2>4 DEF AtRest, CtlBlock, CtlStartup, CtlStarted, CtlWalk, Walk,
              CtlRefresh, CtlIdle, CtlWrite, CtlRead, Shifted, DelayedReady
    <3>2. AtRest'
      BY <2>1, <2>2, <3>1 DEF AtRest
    <3>3. QED
      BY <3>2 DEF Controller
  <2>5. QED
    BY <2>3, <2>4
<1>4. CASE AtRow
  <2>1. /\ busy_r' = 1 /\ rd2' = 0 /\ acc' = acc /\ ready_d' = 0
    BY <1>4, <1>r DEF AtRow, InAccess, RamBlock, BurstWord1, StartAccess, BurstWord0,
              WriteHigh, WriteLow, RamWait, ReadyEdge
  <2>2. saved' = saved
    BY <1>4, <1>r DEF AtRow, CtlBlock, CtlStartup, CtlStarted, CtlWalk, Walk, CtlRefresh,
              CtlActivate, CtlIdle, CtlWrite, CtlRead
  <2>3. InAccess'
    BY <1>4, <1>w, <2>1, <2>2 DEF AtRow, InAccess, Operands
  <2>4. CASE state = "WAIT"
    <3>1. state' = "RW" /\ ready' = 0 /\ data_ready_delay' = 0
      BY <1>4, <1>r, <2>4 DEF AtRow, CtlBlock, CtlStartup, CtlStarted, CtlWalk, Walk,
              CtlRefresh, CtlActivate, CtlIdle, CtlWrite, CtlRead, Shifted, DelayedReady
    <3>2. QED
      BY <2>1, <2>3, <3>1 DEF AtRow, Controller
  <2>5. CASE state = "RW" /\ r_we = 1
    <3>1. state' = "IDLE_4" /\ ready' = 1 /\ data_ready_delay' = 0
      BY <1>4, <1>r, <2>5 DEF AtRow, InAccess, Operands, CtlBlock, CtlStartup, CtlStarted,
              CtlWalk, Walk, CtlRefresh, CtlActivate, CtlIdle, CtlWrite, CtlRead, Shifted
    <3>2. AtWritten'
      BY <1>4, <1>w, <2>1, <2>3, <2>5, <3>1 DEF AtRow, InAccess, AtWritten
    <3>3. QED
      BY <3>2 DEF Controller
  <2>6. CASE state = "RW" /\ r_we = 0
    <3>1. state' = "IDLE_4" /\ ready' = 0 /\ data_ready_delay' = 3
      BY <1>4, <1>r, <2>6 DEF AtRow, InAccess, Operands, CtlBlock, CtlStartup, CtlStarted,
              CtlWalk, Walk, CtlRefresh, CtlActivate, CtlIdle, CtlWrite, CtlRead,
              DelayedReady
    <3>2. burst' = 1
      BY <1>4, <1>r, <2>6 DEF AtRow, InAccess, Operands, ChipBlock, ChipWrite, ChipRead,
              ChipBurst
    <3>3. AtLatency'
      BY <1>4, <1>w, <2>1, <2>3, <2>6, <3>1, <3>2 DEF AtRow, InAccess, AtLatency
    <3>4. QED
      BY <3>3 DEF Controller
  <2>7. QED
    BY <1>4, <2>4, <2>5, <2>6 DEF AtRow, TypeOK
<1>5. CASE AtWritten
  <2>1. rd2' = 0 /\ ready_d' = 1
    BY <1>5, <1>r DEF AtWritten, InAccess, RamBlock, BurstWord1, StartAccess, BurstWord0,
              WriteHigh, WriteLow, RamWait, ReadyEdge
  <2>2. state' = "IDLE_3" /\ ready' = 1 /\ data_ready_delay' = 0
    BY <1>5, <1>r DEF AtWritten, CtlBlock, CtlStartup, CtlStarted, CtlWalk, Walk, CtlRefresh,
              CtlActivate, CtlIdle, CtlWrite, CtlRead, Shifted, DelayedReady
  <2>3. r_we' = 1
    BY <1>5, <1>w DEF AtWritten, InAccess
  <2>4. AtRest'
    BY <2>1, <2>2, <2>3 DEF AtRest
  <2>5. QED
    BY <2>4 DEF Controller
<1>6. CASE AtLatency
  <2>1. /\ busy_r' = 1 /\ rd2' = 0 /\ acc' = acc /\ ready_d' = 0
    BY <1>6, <1>r DEF AtLatency, InAccess, RamBlock, BurstWord1, StartAccess, BurstWord0,
              WriteHigh, WriteLow, RamWait, ReadyEdge
  <2>2. /\ saved' = saved
        /\ \/ state = "IDLE_4" /\ state' = "IDLE_3" /\ data_ready_delay' = 2 /\ ready' = 0
           \/ state = "IDLE_3" /\ state' = "IDLE_2" /\ data_ready_delay' = 1 /\ ready' = 0
           \/ state = "IDLE_2" /\ state' = "IDLE_1" /\ data_ready_delay' = 0 /\ ready' = 1
    BY <1>6, <1>r DEF AtLatency, CtlBlock, CtlStartup, CtlStarted, CtlWalk, Walk, CtlRefresh,
              CtlActivate, CtlIdle, CtlWrite, CtlRead, Shifted, DelayedReady
  <2>3. InAccess'
    BY <1>6, <1>w, <2>1, <2>2 DEF AtLatency, InAccess, Operands
  <2>4. burst' = burst + 1 /\ chip' = chip
    BY <1>6, <1>r DEF AtLatency, ChipBlock, ChipWrite, ChipRead, ChipBurst, BURST_LENGTH
  <2>5. CASE state # "IDLE_2"
    BY <1>6, <1>w, <2>1, <2>2, <2>3, <2>4, <2>5 DEF AtLatency, InAccess, Controller
  <2>6. CASE state = "IDLE_2"
    <3>1. burst = 3 /\ saved.half = 0 /\ saved.addr = r_addr
      BY <1>6, <2>6 DEF AtLatency, InAccess, Operands
    <3>2. dout' = HalfOf(chip[r_addr], 0)
      BY <1>r, <3>1 DEF ChipBlock, BurstWord
    <3>3. AtWord0'
      BY <1>6, <1>w, <2>1, <2>2, <2>3, <2>4, <2>6, <3>1, <3>2
         DEF AtLatency, InAccess, AtWord0, HalfOf
    <3>4. QED
      BY <3>3 DEF Controller
  <2>7. QED
    BY <2>5, <2>6
<1>7. CASE AtWord0
  <2>1. busy_r' = 1 /\ rd2' = 1 /\ ready_d' = 1
    BY <1>7, <1>r DEF AtWord0, InAccess, RamBlock, BurstWord1, StartAccess, BurstWord0,
              WriteHigh, WriteLow, RamWait, ReadyEdge
  <2>2. state' = "IDLE" /\ ready' = 1 /\ data_ready_delay' = 0
    BY <1>7, <1>r DEF AtWord0, CtlBlock, CtlStartup, CtlStarted, CtlWalk, Walk, CtlRefresh,
              CtlActivate, CtlIdle, CtlWrite, CtlRead, Shifted, DelayedReady
  <2>3. burst = 4 /\ saved.half = 0 /\ saved.addr = r_addr
    BY <1>7 DEF AtWord0, InAccess, Operands
  <2>4. dout' = HalfOf(chip[r_addr], 1) /\ chip' = chip
    BY <1>7, <1>r, <2>3 DEF AtWord0, ChipBlock, ChipWrite, ChipRead, ChipBurst, BurstWord
  <2>5. AtWord1'
    BY <1>7, <1>w, <2>1, <2>2, <2>4 DEF AtWord0, InAccess, AtWord1, HalfOf
  <2>6. QED
    BY <2>5 DEF Controller
<1>8. CASE AtWord1
  <2>1. busy_r' = 0 /\ rd2' = 0 /\ ready_d' = 1
    BY <1>8, <1>r DEF AtWord1, RamBlock, BurstWord1, StartAccess, BurstWord0,
              WriteHigh, WriteLow, RamWait
  <2>2. state' \in {"IDLE", "RFSH"} /\ ready' = 1 /\ data_ready_delay' = 0
    BY <1>8, <1>r DEF AtWord1, CtlBlock, CtlStartup, CtlStarted, CtlWalk, Walk, CtlRefresh,
              CtlActivate, CtlIdle, CtlWrite, CtlRead, Shifted, DelayedReady, rd, wr
  <2>3. AtRest'
    BY <2>1, <2>2 DEF AtRest
  <2>4. QED
    BY <2>3 DEF Controller
<1>9. QED
  BY <1>1, <1>2, <1>3, <1>4, <1>5, <1>6, <1>7, <1>8 DEF Controller

\* Lemmas about the data operators.
LEMMA StoreLanes ==
    ASSUME NEW m \in [Addr -> Word], NEW a \in Addr, NEW d \in Word, NEW s \in SUBSET Lane
    PROVE  /\ Store(m, a, d, s) \in [Addr -> Word]
           /\ \A b \in Addr, l \in Lane :
                 Store(m, a, d, s)[b][l] = IF b = a /\ l \in s THEN d[l] ELSE m[b][l]
BY DEF Store, Merge, Word

\* A write in flight only ever adds its own lanes to the chip; anything else
\* leaves the chip alone.
LEMMA ChipStep ==
    ASSUME TypeOK, Controller, RamClock
    PROVE  \/ /\ AtRow /\ state = "RW" /\ r_we = 1
              /\ chip' = Store(chip, r_addr, r_wdata, r_be \cap HalfLanes(acc))
           \/ chip' = chip
<1>1. ChipBlock
  BY DEF RamClock
<1>2. CASE ChipWrite
  <2>1. AtRow
    BY <1>2 DEF ChipWrite, Controller, AtPowerUp, AtFirstIdle, AtRest, AtWritten, AtLatency,
                AtWord0, AtWord1
  <2>2. saved = Operands
    BY <2>1 DEF AtRow, InAccess
  <2>3. QED
    BY <1>2, <2>1, <2>2 DEF ChipWrite, Operands
<1>3. QED
  BY <1>1, <1>2 DEF ChipBlock, ChipRead, ChipBurst

LEMMA ProgressStep ==
    ASSUME TypeOK, TypeOK', Handshake, Handshake', Controller, Progress, Next
    PROVE  Progress'
<1>r. RamClock /\ RamBlock
  BY DEF Next, RamEdge, BothEdges, RamClock
<1>d. /\ chip \in [Addr -> Word] /\ r_wdata \in Word /\ r_addr \in Addr
      /\ r_be \in SUBSET Lane /\ r_be \cap HalfLanes(acc) \in SUBSET Lane
  BY PortAssumption DEF TypeOK
<1>w. ASSUME busy_r = 1
      PROVE  Working /\ UNCHANGED <<r_we, r_addr, r_be, r_wdata>>
  BY <1>w, OperandsKept DEF Handshake, NoBeat, Crossing, Working, Returning
<1>a. ASSUME Returning'
      PROVE  \/ Working /\ busy_r = 1 /\ busy_r' = 0
             \/ Returning /\ UNCHANGED <<r_we, r_addr, r_be, r_wdata>>
  <2>1. ~NoBeat
    BY <1>a, <1>r, RamHandshake DEF NoBeat, AckQuiet, Returning, Next, RamEdge,
       BothEdges, sysVars, SysBlock, Capture, Complete, SysWait, TypeOK, ReqQuiet
  <2>2. ~Crossing
    BY <1>a, <1>r, RamHandshake DEF Crossing, AckQuiet, Returning, ReqQuiet, Next, RamEdge,
       BothEdges, sysVars, SysBlock, Capture, Complete, SysWait, TypeOK
  <2>3. QED
    BY <1>a, <2>1, <2>2, OperandsKept DEF Handshake, Working, Returning
<1>0. UNCHANGED <<r_addr, r_be, r_wdata>> =>
          \A s \in SUBSET Lane : Stored(s) => Stored(s)'
  BY <1>r, <1>d, ChipStep, StoreLanes DEF Stored
<1>1. (busy_r' = 1 /\ r_we' = 1 /\ acc' = 1) => Stored(HighLanes)'
  <2> SUFFICES ASSUME busy_r' = 1, r_we' = 1, acc' = 1 PROVE Stored(HighLanes)'
    OBVIOUS
  <2>1. busy_r = 1
    BY <1>r DEF RamBlock, BurstWord1, StartAccess, BurstWord0, WriteHigh, WriteLow, RamWait,
             TypeOK
  <2>2. r_we = 1 /\ UNCHANGED <<r_addr, r_be, r_wdata>>
    BY <2>1, <1>w
  <2>3. CASE acc = 1
    BY <2>1, <2>2, <2>3, <1>0 DEF Progress, HighLanes, Lane
  <2>4. CASE acc = 0
    <3>1. ReadyEdge
      BY <1>r, <2>1, <2>4 DEF RamBlock, BurstWord1, StartAccess, BurstWord0, WriteHigh,
               WriteLow, RamWait, TypeOK
    <3>2. AtWritten
      BY <2>1, <2>2, <3>1 DEF ReadyEdge, Controller, AtPowerUp, AtFirstIdle, AtRest, AtRow,
               AtWritten, AtLatency, AtWord0, AtWord1, InAccess, Handshake, Working, NoBeat,
               Crossing, Returning
    <3>3. Stored(HighLanes)
      BY <2>4, <3>2 DEF Progress, HalfLanes
    <3>4. QED
      BY <2>2, <3>3, <1>0 DEF HighLanes, Lane
  <2>5. QED
    BY <2>3, <2>4 DEF TypeOK
<1>2. AtWritten' => Stored(HalfLanes(acc))'
  <2> SUFFICES ASSUME AtWritten' PROVE Stored(HalfLanes(acc))'
    OBVIOUS
  <2>1. busy_r = 1 /\ state = "RW" /\ r_we = 1
    BY <1>r, <1>w DEF AtWritten, InAccess, Controller, AtPowerUp, AtFirstIdle, AtRest, AtRow,
         AtLatency, AtWord0, AtWord1, RamClock, RamBlock, CtlBlock, CtlStartup, CtlStarted,
         CtlWalk, Walk, CtlRefresh, CtlActivate, CtlIdle, CtlWrite, CtlRead, DelayedReady,
         BurstWord1, StartAccess, BurstWord0, WriteHigh, WriteLow, RamWait, ReadyEdge, TypeOK
  <2>2. AtRow
    BY <2>1 DEF Controller, AtPowerUp, AtFirstIdle, AtRest, AtWritten, AtLatency, AtWord0,
                AtWord1
  <2>3. acc' = acc /\ UNCHANGED <<r_addr, r_be, r_wdata>>
    BY <2>1, <2>2, <1>r, <1>w DEF AtRow, InAccess, RamBlock, BurstWord1, StartAccess,
         BurstWord0, WriteHigh, WriteLow, RamWait, ReadyEdge
  <2>4. chip' = Store(chip, r_addr, r_wdata, r_be \cap HalfLanes(acc))
    BY <1>r, <2>1, <2>2 DEF RamClock, ChipBlock, ChipWrite, ChipRead, ChipBurst, AtRow,
         InAccess, Operands
  <2>5. HalfLanes(acc) \in SUBSET Lane
    BY DEF HalfLanes, HighLanes, LowLanes, Lane
  <2>6. \A l \in HalfLanes(acc) \cap r_be : chip'[r_addr][l] = r_wdata[l]
    BY <1>d, <2>4, <2>5, StoreLanes
  <2>7. QED
    BY <2>3, <2>6 DEF Stored
<1>3. (Returning' /\ r_we' = 1) => Stored(Lane)'
  <2> SUFFICES ASSUME Returning', r_we' = 1 PROVE Stored(Lane)'
    OBVIOUS
  <2>1. CASE Returning /\ UNCHANGED <<r_we, r_addr, r_be, r_wdata>>
    BY <2>1, <1>0 DEF Progress
  <2>2. CASE Working /\ busy_r = 1 /\ busy_r' = 0
    <3>1. r_we = 1 /\ UNCHANGED <<r_addr, r_be, r_wdata>>
      BY <2>2, <1>w
    <3>2. rd2 = 0
      BY <3>1, <2>2 DEF Controller, AtPowerUp, AtFirstIdle, AtRest, AtRow, AtWritten,
             AtLatency, AtWord0, AtWord1, InAccess, Working
    <3>3. ReadyEdge /\ acc = 1
      BY <1>r, <2>2, <3>2 DEF RamBlock, BurstWord1, StartAccess, BurstWord0, WriteHigh,
               WriteLow, RamWait, TypeOK
    <3>4. AtWritten
      BY <2>2, <3>1, <3>3 DEF ReadyEdge, Controller, AtPowerUp, AtFirstIdle, AtRest, AtRow,
               AtWritten, AtLatency, AtWord0, AtWord1, InAccess, Working
    <3>5. Stored(HighLanes) /\ Stored(LowLanes)
      BY <2>2, <3>1, <3>3, <3>4 DEF Progress, HalfLanes
    <3>6. Stored(Lane)
      BY <3>5 DEF Stored, HighLanes, LowLanes, Lane
    <3>7. QED
      BY <3>1, <3>6, <1>0
  <2>3. QED
    BY <1>a, <2>1, <2>2
<1>4. AtWord1' => (\A l \in HighLanes : hold[l] = chip[r_addr][l])'
  <2> SUFFICES ASSUME AtWord1' PROVE (\A l \in HighLanes : hold[l] = chip[r_addr][l])'
    OBVIOUS
  <2>1. rd2' = 1
    BY DEF AtWord1
  <2>2. rd2 = 0 /\ busy_r = 1 /\ ReadyEdge /\ r_we = 0 /\ hold' = SetHalf(hold, 0, dout)
    BY <1>r, <2>1 DEF RamBlock, BurstWord1, StartAccess, BurstWord0, WriteHigh, WriteLow,
             RamWait, TypeOK
  <2>3. AtWord0
    BY <2>2 DEF ReadyEdge, Controller, AtPowerUp, AtFirstIdle, AtRest, AtRow, AtWritten,
               AtLatency, AtWord0, AtWord1, InAccess, Handshake, Working, NoBeat, Crossing,
               Returning
  <2>4. dout = HalfOf(chip[r_addr], 0)
    BY <2>3 DEF AtWord0
  <2>5. chip' = chip /\ r_addr' = r_addr
    BY <2>2, <2>3, <1>w, <1>r, ChipStep DEF AtWord0, AtRow
  <2>6. \A l \in HighLanes : hold'[l] = chip[r_addr][l]
    BY <2>2, <2>4 DEF SetHalf, HalfOf, HalfLanes, HighLanes, Lane
  <2>7. QED
    BY <2>5, <2>6
<1>5. (Returning' /\ r_we' = 0) => hold' = chip'[r_addr']
  <2> SUFFICES ASSUME Returning', r_we' = 0 PROVE hold' = chip'[r_addr']
    OBVIOUS
  <2>1. CASE Returning /\ UNCHANGED <<r_we, r_addr, r_be, r_wdata>>
    <3>1. hold' = hold
      BY <2>1, <1>r DEF Returning, RamBlock, BurstWord1, StartAccess, BurstWord0, WriteHigh,
             WriteLow, RamWait
    <3>2. chip' = chip
      BY <2>1, <1>r, ChipStep
    <3>3. QED
      BY <2>1, <3>1, <3>2 DEF Progress
  <2>2. CASE Working /\ busy_r = 1 /\ busy_r' = 0
    <3>1. r_we = 0 /\ UNCHANGED <<r_addr, r_be, r_wdata>>
      BY <2>2, <1>w
    <3>2. rd2 = 1 /\ hold' = SetHalf(hold, 1, dout)
      BY <1>r, <2>2, <3>1 DEF RamBlock, BurstWord1, StartAccess, BurstWord0, WriteHigh,
             WriteLow, RamWait, TypeOK
    <3>3. AtWord1
      BY <3>2, <2>2 DEF Controller, AtPowerUp, AtFirstIdle, AtRest, AtRow, AtWritten,
             AtLatency, AtWord0, InAccess, Working
    <3>4. /\ dout = HalfOf(chip[r_addr], 1)
          /\ \A l \in HighLanes : hold[l] = chip[r_addr][l]
      BY <3>3 DEF AtWord1, Progress
    <3>5. chip' = chip
      BY <3>1, <1>r, ChipStep
    <3>6. chip[r_addr] \in [Lane -> Byte]
      BY <1>d DEF Word
    <3>7. hold' = chip[r_addr]
      BY <3>2, <3>4, <3>6 DEF SetHalf, HalfOf, HalfLanes, HighLanes, LowLanes, Lane
    <3>8. QED
      BY <3>1, <3>5, <3>7
  <2>3. QED
    BY <1>a, <2>1, <2>2
<1>6. QED
  BY <1>1, <1>2, <1>3, <1>4, <1>5 DEF Progress

LEMMA InvStutter ==
    ASSUME BeatInv, UNCHANGED vars
    PROVE  BeatInv'
BY DEF BeatInv, vars, masterVars, sysVars, ramVars, ctlVars, chipVars, TypeOK, MasterType,
       Handshake, NoBeat, Crossing, Working, Returning, ReqQuiet, AckQuiet, BeatOwner,
       Controller, AtPowerUp, AtFirstIdle, AtRest, AtRow, AtWritten, AtLatency, AtWord0,
       AtWord1, InAccess, Operands, Progress, Stored

\* For a machine held in reset until the controller has powered up, every beat is
\* in exactly one place of the handshake and the controller, and what it has done
\* for the beat so far is in the chip or in hold: the invariant the other theorems
\* rest on.
THEOREM BeatInvariant ==
    ASSUME EarlyBeats = FALSE
    PROVE  Spec => []BeatInv
<1>1. Init => BeatInv
  BY InvInit
<1>2. BeatInv /\ [Next]_vars => BeatInv'
  <2>1. ASSUME BeatInv, Next PROVE BeatInv'
    <3>1. TypeOK'
      BY <2>1, TypeStep DEF BeatInv
    <3>2. Handshake'
      BY <2>1, HandshakeStep DEF BeatInv
    <3>3. BeatOwner'
      BY <2>1, OwnerStep DEF BeatInv
    <3>4. Controller'
      BY <2>1, <3>1, ControllerStep DEF BeatInv
    <3>5. Progress'
      BY <2>1, <3>1, <3>2, ProgressStep DEF BeatInv
    <3>6. QED
      BY <3>1, <3>2, <3>3, <3>4, <3>5 DEF BeatInv
  <2>2. QED
    BY <2>1, InvStutter
<1>3. QED
  BY <1>1, <1>2, PTL DEF Spec

-----------------------------------------------------------------------------
(* What follows from it *)

\* The bridge takes a rising ready as the end of an access only when the
\* controller has run that access for this beat and this half.
THEOREM NoFalseTriggerCorrect ==
    ASSUME EarlyBeats = FALSE
    PROVE  Spec => []NoFalseTrigger
<1>1. BeatInv => NoFalseTrigger
  BY DEF BeatInv, NoFalseTrigger, ReadyEdge, TypeOK, Handshake, NoBeat, Crossing, Working,
         Returning, Controller, AtPowerUp, AtFirstIdle, AtRest, AtRow, AtWritten, AtLatency,
         AtWord0, AtWord1, InAccess
<1>2. QED
  BY <1>1, BeatInvariant, PTL

\* No row is opened for a beat that is over, so no access is run twice.
THEOREM NoSpareAccessCorrect ==
    ASSUME EarlyBeats = FALSE
    PROVE  Spec => []NoSpareAccess
<1>1. BeatInv => NoSpareAccess
  BY DEF BeatInv, NoSpareAccess, Controller, AtPowerUp, AtFirstIdle, AtRest, AtRow,
         AtWritten, AtLatency, AtWord0, AtWord1, InAccess
<1>2. QED
  BY <1>1, BeatInvariant, PTL

\* The initial states are initial states of the abstract memory.
LEMMA MemoryInit == Init => Memory!Init
BY DEF Init, MasterInit, Memory!Init, Memory!MasterInit, MachineMem, Job

\* The chip's own steps are invisible: a write in flight is already applied in
\* MachineMem, and applying a half of it first makes no difference.
LEMMA MemoryHidden ==
    ASSUME BeatInv, RamClock, busy' = busy, r_we' = r_we, r_addr' = r_addr,
           r_be' = r_be, r_wdata' = r_wdata
    PROVE  MachineMem' = MachineMem
<1>1. CASE chip' = chip
  BY <1>1 DEF MachineMem, Store, Merge
<1>2. CASE /\ AtRow /\ r_we = 1
           /\ chip' = Store(chip, r_addr, r_wdata, r_be \cap HalfLanes(acc))
  <2>1. busy = 1
    BY <1>2 DEF AtRow, InAccess, BeatInv, Handshake, NoBeat, Crossing, Working, Returning
  <2>2. /\ chip \in [Addr -> Word] /\ r_wdata \in Word /\ r_addr \in Addr
        /\ r_be \in SUBSET Lane
    BY PortAssumption DEF BeatInv, TypeOK
  <2>3. Store(chip', r_addr, r_wdata, r_be) = Store(chip, r_addr, r_wdata, r_be)
    BY <1>2, <2>2 DEF Store, Merge, Word
  <2>4. QED
    BY <1>2, <2>1, <2>3 DEF MachineMem, Store, Merge
<1>3. QED
  BY <1>1, <1>2, ChipStep DEF BeatInv

LEMMA MemoryStep ==
    ASSUME BeatInv, [Next]_vars
    PROVE  [Memory!Next]_(Memory!vars)
<1>1. CASE RamEdge
  <2>1. UNCHANGED <<masterVars, sysVars>> /\ RamClock
    BY <1>1 DEF RamEdge
  <2>2. MachineMem' = MachineMem
    BY <2>1, MemoryHidden DEF sysVars
  <2>3. QED
    BY <2>1, <2>2 DEF Memory!vars, masterVars, sysVars, Job
<1>2. CASE BothEdges
  <2>1. Memory!MasterStep
    BY <1>2 DEF BothEdges, MachineBlock, Memory!MasterStep, MasterRaise, MasterDrop,
                MasterHold, masterVars, Memory!MasterRaise, Memory!MasterDrop,
                Memory!MasterHold, Memory!masterVars
  <2>2. RamClock /\ SysBlock
    BY <1>2 DEF BothEdges
  <2>3. CASE Capture
    <3>1. NoBeat
      BY <2>3 DEF Capture, BeatInv, Handshake, Crossing, Working, Returning
    <3>2. chip' = chip
      BY <2>2, <3>1, ChipStep DEF BeatInv, AtRow, InAccess, NoBeat
    <3>3. Job = "none" /\ MachineMem = chip
      BY <3>1 DEF NoBeat, Job, MachineMem
    <3>4. CASE we = 1
      <4>1. MachineMem' = Store(chip, addr, wdata, be)
        BY <2>3, <3>2, <3>4 DEF Capture, MachineMem, Store, Merge
      <4>2. Job' = "drain"
        BY <2>3, <3>4 DEF Capture, Job
      <4>3. Memory!AcceptWrite
        BY <2>3, <3>3, <3>4, <4>1, <4>2
           DEF Capture, Memory!AcceptWrite, Memory!Requested, Memory!Store, Memory!Merge,
               Store, Merge, Memory!Lane, Lane
      <4>4. QED
        BY <2>1, <4>3 DEF Memory!Next, Memory!MemoryStep
    <3>5. CASE we = 0
      <4>1. MachineMem' = chip /\ Job' = "read"
        BY <2>3, <3>2, <3>5 DEF Capture, MachineMem, Job
      <4>2. Memory!AcceptRead
        BY <2>3, <3>3, <3>5, <4>1 DEF Capture, Memory!AcceptRead, Memory!Requested
      <4>3. QED
        BY <2>1, <4>2 DEF Memory!Next, Memory!MemoryStep
    <3>6. QED
      BY <3>4, <3>5 DEF BeatInv, TypeOK, MasterType
  <2>4. CASE Complete
    <3>1. Returning
      BY <2>4 DEF Complete, BeatInv, Handshake, NoBeat, Crossing, Working, AckQuiet
    <3>2. chip' = chip
      BY <2>2, <3>1, ChipStep DEF BeatInv, AtRow, InAccess, Returning
    <3>3. MachineMem' = chip
      BY <2>4, <3>2 DEF Complete, MachineMem
    <3>4. CASE r_we = 1
      <4>1. Stored(Lane)
        BY <3>1, <3>4 DEF BeatInv, Progress
      <4>2. /\ chip \in [Addr -> Word] /\ r_wdata \in Word /\ r_addr \in Addr
            /\ r_be \in SUBSET Lane
        BY PortAssumption DEF BeatInv, TypeOK
      <4>3. Merge(chip[r_addr], r_wdata, r_be) = chip[r_addr]
        BY <4>1, <4>2 DEF Stored, Merge, Word
      <4>4. Store(chip, r_addr, r_wdata, r_be) = chip
        BY <4>2, <4>3 DEF Store
      <4>5. MachineMem = chip
        BY <4>4 DEF MachineMem
      <4>6. posted = 1 /\ busy = 1
        BY <2>4, <3>4 DEF Complete, BeatInv, BeatOwner
      <4>7. Memory!Drained
        BY <2>4, <3>3, <4>5, <4>6 DEF Complete, Memory!Drained, Job
      <4>8. QED
        BY <2>1, <4>7 DEF Memory!Next, Memory!MemoryStep
    <3>5. CASE r_we = 0
      <4>1. posted = 0 /\ busy = 1 /\ addr = r_addr
        BY <2>4, <3>5 DEF Complete, BeatInv, BeatOwner
      <4>2. hold = chip[r_addr]
        BY <3>1, <3>5 DEF BeatInv, Progress
      <4>3. MachineMem = chip
        BY <3>5 DEF MachineMem
      <4>4. Memory!AnswerRead
        BY <2>4, <3>3, <4>1, <4>2, <4>3 DEF Complete, Memory!AnswerRead, Job
      <4>5. QED
        BY <2>1, <4>4 DEF Memory!Next, Memory!MemoryStep
    <3>6. QED
      BY <3>4, <3>5 DEF BeatInv, TypeOK
  <2>5. CASE SysWait
    <3>1. MachineMem' = MachineMem
      BY <2>2, <2>5, MemoryHidden DEF SysWait
    <3>2. Job' = Job
      BY <2>5 DEF SysWait, Job
    <3>3. Memory!Wait
      BY <2>5, <3>1, <3>2 DEF SysWait, Memory!Wait, Memory!Requested, Job, BeatInv, TypeOK,
                              MasterType
    <3>4. QED
      BY <2>1, <3>3 DEF Memory!Next, Memory!MemoryStep
  <2>6. QED
    BY <2>2, <2>3, <2>4, <2>5 DEF SysBlock
<1>3. CASE UNCHANGED vars
  BY <1>3 DEF vars, masterVars, sysVars, chipVars, Memory!vars, MachineMem, Job, Store, Merge
<1>4. QED
  BY <1>1, <1>2, <1>3 DEF Next

\* The bridge, the controller and the chip implement the memory of the beat
\* contract: posting the writes, splitting them in two, reading in bursts and
\* refreshing cannot be told from one atomic array, for any traffic.
THEOREM MemoryCorrect ==
    ASSUME EarlyBeats = FALSE
    PROVE  Spec => ImplementsMemory
<1>1. Init => Memory!Init
  BY MemoryInit
<1>2. BeatInv /\ [Next]_vars => [Memory!Next]_(Memory!vars)
  BY MemoryStep
<1>3. Spec => []BeatInv
  BY BeatInvariant
<1>4. QED
  BY <1>1, <1>2, <1>3, PTL DEF Spec, ImplementsMemory, Memory!Spec

\* What one clock domain samples from the other does not move meanwhile.
THEOREM StableCorrect ==
    ASSUME EarlyBeats = FALSE
    PROVE  Spec => StableAcrossDomains
<1>1. ASSUME BeatInv, Next
      PROVE  /\ (busy = 1 => UNCHANGED <<r_we, r_addr, r_be, r_wdata>>)
             /\ (ack_tgl # ack_seen => UNCHANGED hold)
  <2>1. busy = 1 => UNCHANGED <<r_we, r_addr, r_be, r_wdata>>
    BY <1>1, OperandsKept DEF BeatInv
  <2>2. ASSUME ack_tgl # ack_seen PROVE UNCHANGED hold
    <3>1. Returning
      BY <1>1, <2>2 DEF BeatInv, Handshake, NoBeat, Crossing, Working, AckQuiet
    <3>2. RamBlock
      BY <1>1 DEF Next, RamEdge, BothEdges, RamClock
    <3>3. QED
      BY <3>1, <3>2 DEF Returning, RamBlock, BurstWord1, StartAccess, BurstWord0, WriteHigh,
             WriteLow, RamWait
  <2>3. QED
    BY <2>1, <2>2
<1>2. BeatInv /\ [Next]_vars
        => [/\ (busy = 1 => UNCHANGED <<r_we, r_addr, r_be, r_wdata>>)
            /\ (ack_tgl # ack_seen => UNCHANGED hold)]_vars
  BY <1>1
<1>3. QED
  BY <1>2, BeatInvariant, PTL DEF Spec, StableAcrossDomains

-----------------------------------------------------------------------------
(* The refresh timer *)

\* Edges until the controller is idle again.
ToIdle ==
    IF state = "IDLE" THEN 0 ELSE IF state = "IDLE_1" THEN 1 ELSE IF state = "IDLE_2" THEN 2
    ELSE IF state = "IDLE_3" THEN 3 ELSE IF state = "IDLE_4" THEN 4
    ELSE IF state \in {"IDLE_5", "RW"} THEN 5 ELSE 6

\* The timer has run since power-up began.
TimerAge ==
    state = "STARTUP" =>
        \E q \in Nat : STARTUP_CYCLES - startup = q * REFRESH_PERIOD + refcnt

\* A refresh that is due is taken before the controller is six edges older.  The one
\* that is due when power-up ends is as old as the timer says, and is taken at once.
RefreshDue ==
    (state # "STARTUP" /\ refresh # refresh_old)
        => refcnt + ToIdle <= 6 \/ (state = "IDLE" /\ refcnt # REFRESH_PERIOD - 1)

\* One edge of the timer and of the controller keeps the age of the refresh that is due.
LEMMA RefreshStep ==
    ASSUME REFRESH_PERIOD > 7,
           \A q \in Nat : STARTUP_CYCLES # q * REFRESH_PERIOD + (REFRESH_PERIOD - 2),
           TypeOK, TimerAge, RefreshDue, RefreshBlock, CtlBlock
    PROVE  TimerAge' /\ RefreshDue'
<1> USE ClockAssumption
<1>0. /\ refcnt \in Nat /\ refcnt < REFRESH_PERIOD /\ startup \in Nat /\ startup <= STARTUP_CYCLES
      /\ REFRESH_PERIOD \in Nat /\ STARTUP_CYCLES \in Nat /\ state \in CtlState
      /\ refresh \in {0, 1} /\ refresh_old \in {0, 1}
  BY DEF TypeOK
<1>1. CASE state = "STARTUP"
  <2>1. PICK q \in Nat : STARTUP_CYCLES - startup = q * REFRESH_PERIOD + refcnt
    BY <1>1 DEF TimerAge
  <2>2. CASE CtlStartup
    <3>1. startup' = startup - 1 /\ state' = "STARTUP" /\ startup > 0
      BY <2>2, <1>1 DEF CtlStartup
    <3>2. STARTUP_CYCLES - startup' = q * REFRESH_PERIOD + refcnt + 1
      BY <1>0, <2>1, <3>1
    <3>3. ASSUME refcnt = REFRESH_PERIOD - 1, refcnt' = 0 PROVE TimerAge'
      <4>1. (q + 1) * REFRESH_PERIOD + 0 = q * REFRESH_PERIOD + refcnt + 1
        BY <1>0, <3>3
      <4>2. STARTUP_CYCLES - startup' = (q + 1) * REFRESH_PERIOD + refcnt'
        BY <3>2, <3>3, <4>1
      <4>3. q + 1 \in Nat
        OBVIOUS
      <4>4. QED
        BY <4>2, <4>3 DEF TimerAge
    <3>4. ASSUME refcnt' = refcnt + 1 PROVE TimerAge'
      <4>1. STARTUP_CYCLES - startup' = q * REFRESH_PERIOD + refcnt'
        BY <1>0, <3>2, <3>4
      <4>2. QED
        BY <4>1 DEF TimerAge
    <3>5. QED
      BY <3>1, <3>3, <3>4 DEF RefreshBlock, RefreshDue
  <2>3. CASE CtlStarted
    <3>1. startup = 0 /\ state' = "IDLE"
      BY <2>3 DEF CtlStarted
    <3>2. refcnt # REFRESH_PERIOD - 2
      BY <1>0, <2>1, <3>1
    <3>3. refcnt' # REFRESH_PERIOD - 1
      BY <1>0, <3>2 DEF RefreshBlock
    <3>4. QED
      BY <3>1, <3>3 DEF TimerAge, RefreshDue
  <2>4. QED
    BY <1>1, <2>2, <2>3 DEF CtlBlock, CtlWalk, Walk, CtlRefresh, CtlActivate, CtlIdle, CtlWrite, CtlRead
<1>2. CASE state # "STARTUP"
  <2>1. state' # "STARTUP" /\ ToIdle' \in 0..6
    BY <1>2 DEF ToIdle, CtlBlock, CtlStartup, CtlStarted, CtlWalk, Walk, CtlRefresh, CtlActivate,
                CtlIdle, CtlWrite, CtlRead
  <2>2. CASE refresh = refresh_old
    <3>1. refresh_old' = refresh_old
      BY <1>2, <2>2 DEF CtlBlock, CtlStartup, CtlStarted, CtlWalk, CtlRefresh, CtlActivate,
                CtlIdle, CtlWrite, CtlRead
    <3>2. refresh' = refresh \/ refcnt' = 0
      BY DEF RefreshBlock
    <3>3. QED
      BY <2>1, <2>2, <3>1, <3>2 DEF TimerAge, RefreshDue
  <2>3. CASE refresh # refresh_old /\ state = "IDLE"
    <3>1. refcnt # REFRESH_PERIOD - 1
      BY <1>0, <1>2, <2>3 DEF RefreshDue, ToIdle
    <3>2. refresh' = refresh
      BY <3>1 DEF RefreshBlock
    <3>3. refresh_old' = refresh
      BY <2>3 DEF CtlBlock, CtlStartup, CtlStarted, CtlWalk, Walk, CtlRefresh, CtlActivate,
                  CtlIdle, CtlWrite, CtlRead
    <3>4. QED
      BY <2>1, <3>2, <3>3 DEF TimerAge, RefreshDue
  <2>4. CASE refresh # refresh_old /\ state # "IDLE"
    <3>1. refcnt + ToIdle <= 6 /\ ToIdle \in Nat /\ ToIdle > 0
      BY <1>0, <1>2, <2>4 DEF RefreshDue, ToIdle
    <3>2. refcnt < REFRESH_PERIOD - 1
      BY <1>0, <3>1
    <3>3. refcnt' = refcnt + 1
      BY <1>0, <3>2 DEF RefreshBlock
    <3>4. ToIdle' = ToIdle - 1
      BY <1>2, <2>4 DEF ToIdle, CtlBlock, CtlStartup, CtlStarted, CtlWalk, Walk, CtlRefresh,
                        CtlActivate, CtlIdle, CtlWrite, CtlRead
    <3>5. refcnt' + ToIdle' <= 6
      BY <1>0, <3>1, <3>3, <3>4
    <3>6. QED
      BY <2>1, <3>5 DEF TimerAge, RefreshDue
  <2>5. QED
    BY <2>2, <2>3, <2>4
<1>3. QED
  BY <1>1, <1>2

\* No refresh is lost to any stream of beats (RefreshNotLost), for every period of more
\* than seven edges: the controller is never more than six edges from idle, where it
\* prefers the refresh (sdram.sv:221-226).  The refresh that is due when power-up ends
\* has no such bound: it is kept when power-up does not end on the very edge before the
\* next request, as 12100 edges and a period of 772 do not (sdram_beat32.sv:72-81).
THEOREM RefreshKept ==
    ASSUME REFRESH_PERIOD > 7,
           \A q \in Nat : STARTUP_CYCLES # q * REFRESH_PERIOD + (REFRESH_PERIOD - 2)
    PROVE  Spec => []RefreshNotLost
<1>1. Init => TimerAge /\ RefreshDue
  <2>1. ASSUME Init PROVE TimerAge
    <3>1. STARTUP_CYCLES - startup = 0 * REFRESH_PERIOD + refcnt
      BY <2>1, ClockAssumption DEF Init
    <3>2. QED
      BY <3>1 DEF TimerAge
  <2>2. QED
    BY <2>1 DEF Init, RefreshDue
<1>2. TypeOK /\ TimerAge /\ RefreshDue /\ [Next]_vars => (TimerAge /\ RefreshDue)'
  <2>1. ASSUME TypeOK, TimerAge, RefreshDue, Next PROVE (TimerAge /\ RefreshDue)'
    BY <2>1, RefreshStep DEF Next, RamEdge, BothEdges, RamClock
  <2>2. ASSUME TimerAge, RefreshDue, UNCHANGED vars PROVE (TimerAge /\ RefreshDue)'
    BY <2>2 DEF vars, ctlVars, TimerAge, RefreshDue, ToIdle
  <2>3. QED
    BY <2>1, <2>2
<1>3. TypeOK /\ RefreshDue => RefreshNotLost
  BY ClockAssumption DEF TypeOK, RefreshDue, RefreshNotLost, ToIdle, CtlState
<1>4. QED
  BY <1>1, <1>2, <1>3, TypeCorrect, PTL DEF Spec

=============================================================================
