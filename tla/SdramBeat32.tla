---------------------------- MODULE SdramBeat32 -----------------------------
(***************************************************************************)
(* rtl/sdram_beat32.sv and the controller it wraps, rtl/sdram.sv, with the  *)
(* SDRAM chip behind them.                                                  *)
(*                                                                          *)
(* A step is one rising edge of clk_ram.  clk_ram runs at RATIO times       *)
(* clk_sys, from the same PLL and phase aligned, so every RATIO-th edge is  *)
(* an edge of clk_sys too; all the registers clocked by an edge read the    *)
(* values from before it.  Each always block is a disjunction of its cases  *)
(* and an edge is the conjunction of the blocks it clocks.                  *)
(***************************************************************************)
EXTENDS BeatPort

CONSTANTS
    RATIO,           \* clk_ram edges per clk_sys edge (3)
    REFRESH_PERIOD,  \* clk_ram edges between two refresh requests (772)
    STARTUP_CYCLES,  \* clk_ram edges of the power-up sequence (12100)
    X,               \* a byte of undefined value
    EarlyBeats       \* may the machine raise a beat before power-up ends?

ASSUME ClockAssumption ==
    /\ RATIO \in Nat \ {0}
    /\ REFRESH_PERIOD \in Nat \ {0}
    /\ STARTUP_CYCLES \in Nat \ {0}
    /\ X \notin Byte
    /\ EarlyBeats \in BOOLEAN

\* Half h of a word: 0 is the high half, 1 the low one.  A half word has the
\* two byte positions 1 (upper) and 0.
HalfLanes(h) == IF h = 0 THEN HighLanes ELSE LowLanes

HalfOf(w, h) == [i \in {0, 1} |-> w[IF h = 0 THEN i + 2 ELSE i]]

\* The word w with half h replaced by the half word d.
SetHalf(w, h, d) ==
    [l \in Lane |-> IF l \in HalfLanes(h) THEN d[IF h = 0 THEN l - 2 ELSE l] ELSE w[l]]

\* What is on DQ when it is not a word of this beat.
Stray == [i \in {0, 1} |-> X]

VARIABLES
    phase,                                   \* position within a clk_sys cycle
    busy, posted, r_we, r_addr, r_be, r_wdata,            \* clk_sys registers
    req_tgl, ack_seen, ack_sync,
    req_seen, req_sync, busy_r, acc, rd2, ready_d,        \* clk_ram registers
    hold, ack_tgl,
    refcnt, refresh,                                      \* refresh timer
    state, ready, data_ready_delay, saved, refresh_old,   \* rtl/sdram.sv
    startup, dout,
    chip, burst                                           \* the SDRAM chip

sysVars == <<busy, posted, r_we, r_addr, r_be, r_wdata, req_tgl,
             ack_seen, ack_sync, ack, rdata>>

ramVars == <<req_seen, req_sync, busy_r, acc, rd2, ready_d, hold, ack_tgl>>

ctlVars == <<state, ready, data_ready_delay, saved, refresh_old, startup>>

chipVars == <<chip, burst, dout>>

vars == <<phase, refcnt, refresh, masterVars, sysVars, ramVars, ctlVars, chipVars>>

CtlState == {"STARTUP", "IDLE", "WAIT", "RW", "RFSH", "IDLE_1", "IDLE_2",
             "IDLE_3", "IDLE_4", "IDLE_5"}

-----------------------------------------------------------------------------
(* The clk_sys side of the bridge *)

\* Faulty variant of Capture: takes a beat while one is in flight.
CaptureOverBusy ==
    /\ req = 1 /\ ack = 0
    /\ r_we' = we /\ r_addr' = addr /\ r_be' = be /\ r_wdata' = wdata
    /\ req_tgl' = 1 - req_tgl
    /\ busy' = 1 /\ posted' = we /\ ack' = we
    /\ UNCHANGED <<ack_seen, rdata>>

\* req && !busy && !ack: hand one beat over; a write is acked here.
Capture ==
    /\ req = 1 /\ busy = 0 /\ ack = 0
    /\ r_we' = we /\ r_addr' = addr /\ r_be' = be /\ r_wdata' = wdata
    /\ req_tgl' = 1 - req_tgl
    /\ busy' = 1
    /\ posted' = we
    /\ ack' = we
    /\ UNCHANGED <<ack_seen, rdata>>

\* The ack toggle arrived: the beat in flight is done; a read is acked here.
Complete ==
    /\ busy = 1 /\ ack_sync[2] # ack_seen
    /\ ack_seen' = ack_sync[2]
    /\ busy' = 0
    /\ posted' = 0
    /\ \/ posted = 0 /\ ack' = 1 /\ rdata' = hold
       \/ posted = 1 /\ ack' = 0 /\ UNCHANGED rdata
    /\ UNCHANGED <<r_we, r_addr, r_be, r_wdata, req_tgl>>

SysWait ==
    /\ IF busy = 0 THEN req = 0 \/ ack = 1 ELSE ack_sync[2] = ack_seen
    /\ ack' = 0
    /\ UNCHANGED <<busy, posted, r_we, r_addr, r_be, r_wdata, req_tgl, ack_seen, rdata>>

SysBlock ==
    /\ Capture \/ Complete \/ SysWait
    /\ ack_sync' = <<ack_tgl, ack_sync[1]>>

-----------------------------------------------------------------------------
(* The clk_ram side of the bridge *)

\* Faulty variants of rd and ReadyEdge: rd stays up for the second burst word;
\* the level of ready counts.
rdUntilDone == busy_r = 1 /\ r_we = 0

rd == busy_r = 1 /\ r_we = 0 /\ rd2 = 0

wr == busy_r = 1 /\ r_we = 1

ReadyLevel == ready = 1

ReadyEdge == ready = 1 /\ ready_d = 0

\* Faulty variant of BurstWord1: the ack toggle is forgotten.
BurstWord1Silent ==
    /\ rd2 = 1
    /\ rd2' = 0
    /\ hold' = SetHalf(hold, 1, dout)
    /\ busy_r' = 0
    /\ UNCHANGED <<req_seen, acc, ack_tgl>>

\* Burst word 1 is on dout: the read is done.
BurstWord1 ==
    /\ rd2 = 1
    /\ rd2' = 0
    /\ hold' = SetHalf(hold, 1, dout)
    /\ busy_r' = 0
    /\ ack_tgl' = 1 - ack_tgl
    /\ UNCHANGED <<req_seen, acc>>

\* A new request toggle: start the access.
StartAccess ==
    /\ rd2 = 0 /\ busy_r = 0 /\ req_sync[2] # req_seen
    /\ req_seen' = req_sync[2]
    /\ acc' = 0
    /\ busy_r' = 1
    /\ UNCHANGED <<rd2, hold, ack_tgl>>

\* ready rose during a read: burst word 0 is on dout.
BurstWord0 ==
    /\ rd2 = 0 /\ busy_r = 1 /\ ReadyEdge /\ r_we = 0
    /\ hold' = SetHalf(hold, 0, dout)
    /\ rd2' = 1
    /\ UNCHANGED <<req_seen, acc, busy_r, ack_tgl>>

\* Faulty variant of WriteHigh: the write ends after one half.
WriteHighOnly ==
    /\ rd2 = 0 /\ busy_r = 1 /\ ReadyEdge /\ r_we = 1 /\ acc = 0
    /\ busy_r' = 0
    /\ ack_tgl' = 1 - ack_tgl
    /\ UNCHANGED <<req_seen, acc, rd2, hold>>

\* ready rose for the high half of a write: go on with the low half.
WriteHigh ==
    /\ rd2 = 0 /\ busy_r = 1 /\ ReadyEdge /\ r_we = 1 /\ acc = 0
    /\ acc' = 1
    /\ UNCHANGED <<req_seen, busy_r, rd2, hold, ack_tgl>>

\* ready rose for the low half: the write is done.
WriteLow ==
    /\ rd2 = 0 /\ busy_r = 1 /\ ReadyEdge /\ r_we = 1 /\ acc = 1
    /\ busy_r' = 0
    /\ ack_tgl' = 1 - ack_tgl
    /\ UNCHANGED <<req_seen, acc, rd2, hold>>

RamWait ==
    /\ rd2 = 0
    /\ IF busy_r = 0 THEN req_sync[2] = req_seen ELSE ~ReadyEdge
    /\ UNCHANGED <<req_seen, acc, busy_r, rd2, hold, ack_tgl>>

RamBlock ==
    /\ BurstWord1 \/ StartAccess \/ BurstWord0 \/ WriteHigh \/ WriteLow \/ RamWait
    /\ req_sync' = <<req_tgl, req_sync[1]>>
    /\ ready_d' = ready

\* Faulty variant of RefreshBlock: one edge late.
RefreshBlockLate ==
    \/ refcnt = REFRESH_PERIOD /\ refcnt' = 0 /\ refresh' = 1 - refresh
    \/ refcnt < REFRESH_PERIOD /\ refcnt' = refcnt + 1 /\ UNCHANGED refresh

\* The refresh timer toggles refresh every REFRESH_PERIOD edges.
RefreshBlock ==
    \/ /\ refcnt = REFRESH_PERIOD - 1
       /\ refcnt' = 0
       /\ refresh' = 1 - refresh
    \/ /\ refcnt < REFRESH_PERIOD - 1
       /\ refcnt' = refcnt + 1
       /\ UNCHANGED refresh

-----------------------------------------------------------------------------
(* The controller, rtl/sdram.sv, with CAS_LATENCY = 2.  data_ready_delay is  *)
(* the number of edges until ready is set after a READ, 0 when none is due:  *)
(* the shift register of the code holds at most one bit.  The copy port is   *)
(* tied off in sdram_beat32.                                                 *)

CAS_LATENCY == 2

Shifted == IF data_ready_delay = 0 THEN 0 ELSE data_ready_delay - 1

\* ready is left alone unless the delay of a READ runs out.
DelayedReady == ready' = IF data_ready_delay = 1 THEN 1 ELSE ready

CtlStartup ==
    /\ state = "STARTUP" /\ startup > 0
    /\ startup' = startup - 1
    /\ DelayedReady
    /\ data_ready_delay' = Shifted
    /\ UNCHANGED <<state, saved, refresh_old>>

CtlStarted ==
    /\ state = "STARTUP" /\ startup = 0
    /\ state' = "IDLE"
    /\ ready' = 1
    /\ data_ready_delay' = Shifted
    /\ UNCHANGED <<startup, saved, refresh_old>>

Walk == {<<"RFSH", "IDLE_5">>, <<"IDLE_5", "IDLE_4">>, <<"IDLE_4", "IDLE_3">>,
         <<"IDLE_3", "IDLE_2">>, <<"IDLE_2", "IDLE_1">>, <<"IDLE_1", "IDLE">>,
         <<"WAIT", "RW">>}

CtlWalk ==
    /\ \E step \in Walk : state = step[1] /\ state' = step[2]
    /\ DelayedReady
    /\ data_ready_delay' = Shifted
    /\ UNCHANGED <<saved, refresh_old, startup>>

\* Faulty variant of CtlRefresh: the request is not remembered as taken.
CtlRefreshForgets ==
    /\ state = "IDLE" /\ refresh # refresh_old
    /\ state' = "RFSH"
    /\ DelayedReady
    /\ data_ready_delay' = Shifted
    /\ UNCHANGED <<saved, refresh_old, startup>>

CtlRefresh ==
    /\ state = "IDLE" /\ refresh # refresh_old
    /\ state' = "RFSH"
    /\ refresh_old' = refresh
    /\ DelayedReady
    /\ data_ready_delay' = Shifted
    /\ UNCHANGED <<saved, startup>>

\* The controller's inputs: addr is {r_addr, acc}, din and bs the half acc selects.
Operands == [wr |-> r_we, addr |-> r_addr, half |-> acc, din |-> r_wdata, bs |-> r_be]

\* Open the row.
CtlActivate ==
    /\ state = "IDLE" /\ refresh = refresh_old /\ (rd \/ wr)
    /\ saved' = Operands
    /\ state' = "WAIT"
    /\ ready' = 0
    /\ data_ready_delay' = Shifted
    /\ UNCHANGED <<refresh_old, startup>>

CtlIdle ==
    /\ state = "IDLE" /\ refresh = refresh_old /\ ~(rd \/ wr)
    /\ DelayedReady
    /\ data_ready_delay' = Shifted
    /\ UNCHANGED <<state, saved, refresh_old, startup>>

CtlWrite ==
    /\ state = "RW" /\ saved.wr = 1
    /\ state' = "IDLE_4"
    /\ ready' = 1
    /\ data_ready_delay' = Shifted
    /\ UNCHANGED <<saved, refresh_old, startup>>

CtlRead ==
    /\ state = "RW" /\ saved.wr = 0
    /\ state' = "IDLE_4"
    /\ data_ready_delay' = CAS_LATENCY + 1
    /\ DelayedReady
    /\ UNCHANGED <<saved, refresh_old, startup>>

CtlBlock == CtlStartup \/ CtlStarted \/ CtlWalk \/ CtlRefresh \/ CtlActivate \/ CtlIdle
            \/ CtlWrite \/ CtlRead

-----------------------------------------------------------------------------
(* The chip.  SDRAM_CLK is clk_ram inverted, so the chip acts on a command   *)
(* between the edge that registers it and the next one: its effect is part   *)
(* of the registering step.  burst is the number of edges since a READ, 0    *)
(* when no burst is running; word n of it is sampled into dout on edge       *)
(* CAS_LATENCY + 1 + n.                                                      *)

BURST_LENGTH == 4

ChipWrite ==
    /\ state = "RW" /\ saved.wr = 1
    /\ chip' = Store(chip, saved.addr, saved.din, saved.bs \cap HalfLanes(saved.half))
    /\ UNCHANGED burst

ChipRead ==
    /\ state = "RW" /\ saved.wr = 0
    /\ burst' = 1
    /\ UNCHANGED chip

ChipBurst ==
    /\ state # "RW"
    /\ burst' = IF burst \in 1..(CAS_LATENCY + BURST_LENGTH - 1) THEN burst + 1 ELSE 0
    /\ UNCHANGED chip

\* The pair read is 4-byte aligned: the burst starts at the half addressed and
\* goes on to the next word, which is this beat's only after half 0.
BurstWord(n) ==
    IF saved.half + n \in {0, 1} THEN HalfOf(chip[saved.addr], saved.half + n) ELSE Stray

ChipBlock ==
    /\ ChipWrite \/ ChipRead \/ ChipBurst
    /\ dout' = IF burst \in {CAS_LATENCY + 1, CAS_LATENCY + 2}
               THEN BurstWord(burst - CAS_LATENCY - 1)
               ELSE Stray

-----------------------------------------------------------------------------
(* The machine raises a beat when it is out of reset.  The top level holds   *)
(* it in reset until boot.rom is loaded, long after the power-up sequence,   *)
(* unless EarlyBeats.                                                        *)

MachineBlock ==
    \/ MasterRaise /\ (EarlyBeats \/ state # "STARTUP")
    \/ MasterDrop
    \/ MasterHold

Init ==
    /\ MasterInit
    /\ phase = 0
    /\ busy = 0 /\ posted = 0 /\ ack = 0 /\ rdata = ZeroWord
    /\ r_we = 0 /\ r_addr = addr /\ r_be = be /\ r_wdata = wdata
    /\ req_tgl = 0 /\ ack_seen = 0 /\ ack_sync = <<0, 0>>
    /\ req_seen = 0 /\ req_sync = <<0, 0>>
    /\ busy_r = 0 /\ acc = 0 /\ rd2 = 0 /\ ready_d = 0
    /\ hold = ZeroWord /\ ack_tgl = 0
    /\ refcnt = 0 /\ refresh = 0
    /\ state = "STARTUP" /\ startup = STARTUP_CYCLES
    /\ ready \in {0, 1} /\ data_ready_delay = 0 /\ refresh_old = 0
    /\ saved = [wr |-> 0, addr |-> addr, half |-> 0, din |-> wdata, bs |-> be]
    /\ chip \in [Addr -> PowerUp]
    /\ burst = 0 /\ dout = Stray

RamClock == RamBlock /\ RefreshBlock /\ CtlBlock /\ ChipBlock

\* An edge of clk_ram alone.
RamEdge ==
    /\ phase # 0
    /\ phase' = (phase + 1) % RATIO
    /\ RamClock
    /\ UNCHANGED <<masterVars, sysVars>>

\* An edge of both clocks.
BothEdges ==
    /\ phase = 0
    /\ phase' = 1 % RATIO
    /\ RamClock
    /\ SysBlock
    /\ MachineBlock

Next == RamEdge \/ BothEdges

Spec == Init /\ [][Next]_vars

\* The clocks run.
FairSpec == Spec /\ WF_vars(Next)

-----------------------------------------------------------------------------
(* Properties *)

DataWord == [Lane -> Byte \cup {X}]

TypeOK ==
    /\ MasterType
    /\ phase \in 0..(RATIO - 1)
    /\ busy \in {0, 1} /\ posted \in {0, 1} /\ ack \in {0, 1} /\ r_we \in {0, 1}
    /\ req_tgl \in {0, 1} /\ ack_seen \in {0, 1} /\ ack_sync \in {0, 1} \X {0, 1}
    /\ req_seen \in {0, 1} /\ ack_tgl \in {0, 1} /\ req_sync \in {0, 1} \X {0, 1}
    /\ busy_r \in {0, 1} /\ acc \in {0, 1} /\ rd2 \in {0, 1}
    /\ ready \in {0, 1} /\ ready_d \in {0, 1}
    /\ refresh \in {0, 1} /\ refresh_old \in {0, 1}
    /\ r_addr \in Addr /\ r_be \in WriteBE /\ r_wdata \in WriteData
    /\ rdata \in DataWord /\ hold \in DataWord
    /\ refcnt \in 0..(REFRESH_PERIOD - 1)
    /\ state \in CtlState
    /\ startup \in 0..STARTUP_CYCLES
    /\ data_ready_delay \in 0..(CAS_LATENCY + 1)
    /\ saved \in [wr : {0, 1}, addr : Addr, half : {0, 1}, din : WriteData, bs : WriteBE]
    /\ chip \in [Addr -> Word]
    /\ burst \in 0..(CAS_LATENCY + BURST_LENGTH)
    /\ dout \in [{0, 1} -> Byte \cup {X}]

(* The inductive invariant: where a beat is, and what has been done for it.  *)

ReqQuiet == req_sync[1] = req_tgl /\ req_sync[2] = req_tgl /\ req_seen = req_tgl

AckQuiet == ack_sync[1] = ack_tgl /\ ack_sync[2] = ack_tgl /\ ack_seen = ack_tgl

\* No beat in flight.
NoBeat == busy = 0 /\ posted = 0 /\ busy_r = 0 /\ rd2 = 0 /\ ReqQuiet /\ AckQuiet

\* The request toggle is on its way to clk_ram.
Crossing ==
    /\ busy = 1 /\ busy_r = 0 /\ rd2 = 0 /\ AckQuiet
    /\ req_tgl # req_seen
    /\ req_sync[2] = req_tgl => req_sync[1] = req_tgl

\* The clk_ram side runs the accesses.
Working == busy = 1 /\ busy_r = 1 /\ ReqQuiet /\ AckQuiet

\* The ack toggle is on its way back to clk_sys.
Returning ==
    /\ busy = 1 /\ busy_r = 0 /\ rd2 = 0 /\ ReqQuiet
    /\ ack_tgl # ack_seen
    /\ ack_sync[2] = ack_tgl => ack_sync[1] = ack_tgl

Handshake == NoBeat \/ Crossing \/ Working \/ Returning

\* A read in flight is the one the machine is waiting for.
BeatOwner ==
    /\ busy = 1 => posted = r_we
    /\ (busy = 1 /\ r_we = 0) => req = 1 /\ ack = 0 /\ we = 0 /\ addr = r_addr

\* Where the controller is, relative to the access of the beat in flight.
AtPowerUp == state = "STARTUP" /\ data_ready_delay = 0 /\ busy = 0 /\ req = 0

AtFirstIdle ==
    /\ state = "IDLE" /\ ready = 1 /\ ready_d = 0 /\ data_ready_delay = 0
    /\ busy = 0 /\ req = 0

AtRest ==
    /\ state \in {"IDLE", "RFSH", "IDLE_1", "IDLE_2", "IDLE_3", "IDLE_4", "IDLE_5"}
    /\ ready = 1 /\ ready_d = 1 /\ data_ready_delay = 0 /\ rd2 = 0
    /\ (busy_r = 1 /\ r_we = 0) => acc = 0

InAccess == busy_r = 1 /\ rd2 = 0 /\ saved = Operands /\ (r_we = 0 => acc = 0)

AtRow ==
    /\ state \in {"WAIT", "RW"} /\ InAccess
    /\ ready = 0 /\ data_ready_delay = 0
    /\ state = "RW" => ready_d = 0

AtWritten ==
    /\ state = "IDLE_4" /\ InAccess /\ r_we = 1
    /\ ready = 1 /\ ready_d = 0 /\ data_ready_delay = 0

AtLatency ==
    /\ InAccess /\ r_we = 0
    /\ ready = 0 /\ ready_d = 0
    /\ \/ state = "IDLE_4" /\ data_ready_delay = 3 /\ burst = 1
       \/ state = "IDLE_3" /\ data_ready_delay = 2 /\ burst = 2
       \/ state = "IDLE_2" /\ data_ready_delay = 1 /\ burst = 3

AtWord0 ==
    /\ state = "IDLE_1" /\ InAccess /\ r_we = 0
    /\ ready = 1 /\ ready_d = 0 /\ data_ready_delay = 0
    /\ burst = 4 /\ dout = HalfOf(chip[r_addr], 0)

AtWord1 ==
    /\ state = "IDLE" /\ busy_r = 1 /\ rd2 = 1 /\ r_we = 0
    /\ ready = 1 /\ ready_d = 1 /\ data_ready_delay = 0
    /\ dout = HalfOf(chip[r_addr], 1)

Controller == AtPowerUp \/ AtFirstIdle \/ AtRest \/ AtRow \/ AtWritten \/ AtLatency
              \/ AtWord0 \/ AtWord1

\* The lanes s of the write in flight are in the chip.
Stored(s) == \A l \in s \cap r_be : chip[r_addr][l] = r_wdata[l]

\* What has been done for the beat in flight.
Progress ==
    /\ (busy_r = 1 /\ r_we = 1 /\ acc = 1) => Stored(HighLanes)
    /\ AtWritten => Stored(HalfLanes(acc))
    /\ (Returning /\ r_we = 1) => Stored(Lane)
    /\ AtWord1 => \A l \in HighLanes : hold[l] = chip[r_addr][l]
    /\ (Returning /\ r_we = 0) => hold = chip[r_addr]

\* The whole of it, for a machine that raises no beat before power-up ends.
BeatInv == TypeOK /\ Handshake /\ BeatOwner /\ Controller /\ Progress

\* The memory as the machine sees it: the chip with the posted write applied.
MachineMem == IF busy = 1 /\ r_we = 1 THEN Store(chip, r_addr, r_wdata, r_be) ELSE chip

Job == IF busy = 0 THEN "none" ELSE IF posted = 1 THEN "drain" ELSE "read"

Memory == INSTANCE BeatMemory WITH mem <- MachineMem, job <- Job

\* The bridge, the controller and the chip together are the memory the beat
\* contract promises: a read returns what the last accepted write left, although
\* that write was acked before either of its halves reached the chip.
ImplementsMemory == Memory!Spec

\* "waiting on the edge cannot false-trigger" (sdram_beat32.sv:132-136): when the
\* bridge takes a rising ready as the end of its access, the controller has run
\* that access, for this beat and this half.
NoFalseTrigger ==
    (busy_r = 1 /\ rd2 = 0 /\ ReadyEdge)
        => /\ state = IF r_we = 1 THEN "IDLE_4" ELSE "IDLE_1"
           /\ saved = Operands

\* The controller never works for a beat that is over: rd2 drops rd before the
\* controller is idle again (sdram_beat32.sv:138-142), and wr falls while it is
\* still walking back, so no row is opened twice for one access.
NoSpareAccess == state \in {"WAIT", "RW"} => busy_r = 1 /\ rd2 = 0

\* The operands of a beat and the word it read do not change while the other
\* clock domain may still sample them: r_* hold from the request toggle until the
\* ack toggle is seen, hold from the ack toggle until then.
StableAcrossDomains ==
    [][/\ (busy = 1 => UNCHANGED <<r_we, r_addr, r_be, r_wdata>>)
       /\ (ack_tgl # ack_seen => UNCHANGED hold)]_vars

\* A refresh request is taken before the timer makes the next one, which would
\* toggle refresh back and cancel it (sdram_beat32.sv:72-81, sdram.sv:221-226):
\* under any stream of beats the controller reaches IDLE and prefers the refresh.
RefreshNotLost ==
    (state # "STARTUP" /\ refcnt = REFRESH_PERIOD - 1) => refresh = refresh_old

\* Every beat is acknowledged.
EveryBeatAcked == (req = 1) ~> (ack = 1)

=============================================================================
