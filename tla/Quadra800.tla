----------------------------- MODULE Quadra800 ------------------------------
(***************************************************************************)
(* The beat service of rtl/quadra800.sv: it arbitrates the CPU's beats      *)
(* (from rtl/wombat_bus32.sv) against the MMU's table walker, decodes the   *)
(* address and hands the beat to one target.  A step is one edge of the     *)
(* machine clock; every block reads the values from before the edge.        *)
(*                                                                          *)
(* The CPU core, its cache and MMU are external: they hold a request until  *)
(* it is acknowledged or faulted.  So are the targets: each answers a beat  *)
(* with a single-cycle ack some time after it is selected.                  *)
(*                                                                          *)
(* What memory holds is told apart by address alone: the byte at longword a *)
(* and position p is Cell(a, p), and stored records which bytes a CPU       *)
(* transaction made the targets write, so that the properties can say which *)
(* bytes moved.  Writes with memsel = ROM are discarded (quadra800.sv:22).  *)
(***************************************************************************)
EXTENDS WombatBus32

CONSTANTS
    LastWord,    \* the longwords are 0..LastWord
    Region,      \* which part of the map each longword is in
    Loads        \* what the masters do: words and shapes, the longwords and the
                 \* <<byte offset, size>> pairs the CPU uses, and walks, the
                 \* longwords the walker visits

Regions == {"low", "ram", "open", "romwin", "vram", "dafb", "iosb", "none"}

Words == 0..LastWord

ASSUME MapAssumption ==
    /\ LastWord \in Nat
    /\ Region \in [Words -> Regions]
    /\ \A l \in Loads : /\ l.words \subseteq Words /\ l.walks \subseteq Words
                        /\ l.shapes \subseteq Pos \X Sizes

VARIABLES
    load,        \* one of Loads, never changed
    svc, svc_walker, svc_addr, overlay,
    walker_req, walker_we, walker_addr, walker_armed,
    walker_ack, walker_data, walker_berr,
    port,        \* the beat on the target side: write, addr, be, wdata, memsel
    mem_req, iosb_sel, dafb_sel,
    mem_ack, iosb_ack, iosb_fault, dafb_ack,
    stored,      \* history: bytes the CPU transaction in flight has written
    shadowed,    \* history: longwords of it whose beat was taken under the overlay
    beats,       \* history: beats served for the CPU transaction in flight
    walks        \* history: answers given to the walker's request

svcVars == <<svc, svc_walker, svc_addr, overlay, walker_armed, walker_ack, walker_data,
             walker_berr, port, mem_req, iosb_sel, dafb_sel, b_ack, b_rdata, cpu_berr>>

walkerVars == <<walker_req, walker_we, walker_addr>>

targetVars == <<mem_ack, iosb_ack, iosb_fault, dafb_ack>>

vars == <<load, tVars, busVars, svcVars, walkerVars, targetVars, stored, shadowed, beats, walks>>

Cell(a, p) == 4 * a + p + 1

CellsOf(a) == [p \in Pos |-> Cell(a, p)]

\* Operand bytes of a CPU write, told apart from the cells and by position.
OperandBytes == [p \in Pos |-> -(p + 1)]

\* The address map.  The reset overlay puts ROM in the low region.
decode(a) ==
    IF Region[a] = "romwin" THEN "rom"
    ELSE IF Region[a] = "low" THEN (IF overlay = 1 THEN "rom" ELSE "ram")
    ELSE IF Region[a] = "none" THEN "berr"
    ELSE Region[a]

walker_pend == walker_req = 1 /\ walker_armed = 1

-----------------------------------------------------------------------------
(* The service *)

Quiet == walker_ack' = 0 /\ walker_berr' = 0 /\ b_ack' = 0 /\ cpu_berr' = 0

\* Faulty variant of Rearm: an answered walker stays disarmed.
RearmNever == UNCHANGED walker_armed

Rearm == walker_armed' = IF walker_req = 0 THEN 1 ELSE walker_armed

\* The walker's beat, else the CPU's, goes to the target its address decodes to.  The
\* DAFB port has no byte enables: a write there is a write of all four bytes.
Begin ==
    LET a   == IF walker_pend THEN walker_addr ELSE b_addr
        wr  == IF walker_pend THEN walker_we ELSE b_write
        tgt == decode(a)
    IN  /\ svc_walker' = IF walker_pend THEN 1 ELSE 0
        /\ svc_addr' = a
        /\ overlay' = IF Region[a] = "romwin" /\ wr = 0 THEN 0 ELSE overlay
        /\ svc' = IF tgt \in {"ram", "rom", "vram"} THEN "MEM"
                  ELSE IF tgt = "iosb" THEN "IOSB"
                  ELSE IF tgt = "dafb" THEN "DAFB"
                  ELSE IF tgt = "open" THEN "OPEN" ELSE "BERR"
        /\ mem_req' = IF svc' = "MEM" THEN 1 ELSE 0
        /\ iosb_sel' = IF svc' = "IOSB" THEN 1 ELSE 0
        /\ dafb_sel' = IF svc' = "DAFB" THEN 1 ELSE 0
        /\ port' = IF svc' \in {"MEM", "IOSB", "DAFB"}
                   THEN [write |-> wr, addr |-> a, memsel |-> tgt,
                         be    |-> IF walker_pend \/ tgt = "dafb" THEN Pos ELSE b_be,
                         wdata |-> IF walker_pend THEN Zeros ELSE b_wdata]
                   ELSE port
        /\ Quiet
        /\ UNCHANGED <<walker_data, b_rdata>>

Disarm == walker_armed' = IF walker_pend THEN 0 ELSE IF walker_req = 0 THEN 1 ELSE walker_armed

\* Faulty variants of Dispatch: it takes the beat it just answered; it does not
\* disarm the walker.
DispatchTwice == svc = "IDLE" /\ (walker_pend \/ b_req = 1) /\ Begin /\ Disarm

DispatchArmed ==
    /\ svc = "IDLE"
    /\ walker_pend \/ (b_req = 1 /\ b_ack = 0 /\ cpu_berr = 0)
    /\ Begin
    /\ Rearm

\* S_IDLE: take a beat.  One just acked or faulted is not taken again.
Dispatch ==
    /\ svc = "IDLE"
    /\ walker_pend \/ (b_req = 1 /\ b_ack = 0 /\ cpu_berr = 0)
    /\ Begin
    /\ Disarm

\* The owner of the beat gets its data, or a bus error.
Answer(data) ==
    /\ svc' = "IDLE"
    /\ IF svc_walker = 1
       THEN /\ walker_ack' = 1 /\ walker_data' = data
            /\ b_ack' = 0 /\ UNCHANGED b_rdata
       ELSE /\ b_ack' = 1 /\ b_rdata' = data
            /\ walker_ack' = 0 /\ UNCHANGED walker_data
    /\ walker_berr' = 0 /\ cpu_berr' = 0

Fault ==
    /\ svc' = "IDLE"
    /\ walker_berr' = svc_walker /\ cpu_berr' = 1 - svc_walker
    /\ walker_ack' = 0 /\ b_ack' = 0
    /\ UNCHANGED <<walker_data, b_rdata>>

ServeMem ==
    /\ svc = "MEM" /\ mem_ack = 1
    /\ mem_req' = 0
    /\ Answer(CellsOf(port.addr))
    /\ Rearm
    /\ UNCHANGED <<svc_walker, svc_addr, overlay, port, iosb_sel, dafb_sel>>

\* iosb_fault rides with the ack that releases a timed-out pseudo-DMA beat.
ServeIosb ==
    /\ svc = "IOSB" /\ iosb_ack = 1
    /\ iosb_sel' = 0
    /\ IF iosb_fault = 1 THEN Fault ELSE Answer(CellsOf(port.addr))
    /\ Rearm
    /\ UNCHANGED <<svc_walker, svc_addr, overlay, port, mem_req, dafb_sel>>

ServeDafb ==
    /\ svc = "DAFB" /\ dafb_ack = 1
    /\ dafb_sel' = 0
    /\ Answer(CellsOf(port.addr))
    /\ Rearm
    /\ UNCHANGED <<svc_walker, svc_addr, overlay, port, mem_req, iosb_sel>>

ServeBerr ==
    /\ svc = "BERR"
    /\ Fault
    /\ Rearm
    /\ UNCHANGED <<svc_walker, svc_addr, overlay, port, mem_req, iosb_sel, dafb_sel>>

\* Open bus reads as zeroes.
ServeOpen ==
    /\ svc = "OPEN"
    /\ Answer(Zeros)
    /\ Rearm
    /\ UNCHANGED <<svc_walker, svc_addr, overlay, port, mem_req, iosb_sel, dafb_sel>>

SvcWait ==
    /\ \/ svc = "IDLE" /\ ~walker_pend /\ (b_req = 0 \/ b_ack = 1 \/ cpu_berr = 1)
       \/ svc = "MEM" /\ mem_ack = 0
       \/ svc = "IOSB" /\ iosb_ack = 0
       \/ svc = "DAFB" /\ dafb_ack = 0
    /\ Quiet
    /\ Rearm
    /\ UNCHANGED <<svc, svc_walker, svc_addr, overlay, walker_data, port, mem_req, iosb_sel,
                   dafb_sel, b_rdata>>

ServiceBlock == Dispatch \/ ServeMem \/ ServeIosb \/ ServeDafb \/ ServeBerr \/ ServeOpen
                \/ SvcWait

-----------------------------------------------------------------------------
(* External: the CPU side, the walker and the targets *)

CpuRaise ==
    /\ t_req = 0
    /\ t_req' = 1
    /\ t_write' \in {0, 1}
    /\ \E a \in load.words, sh \in load.shapes :
          /\ sh[1] + sh[2] > 4 => a + 1 \in Words
          /\ t_addr' = <<a, sh[1]>>
          /\ t_size' = sh[2]
    /\ t_wdata' = OperandBytes

CpuDone ==
    /\ t_req = 1
    /\ t_ack = 1 \/ cpu_berr = 1
    /\ t_req' = 0
    /\ UNCHANGED <<t_write, t_size, t_addr, t_wdata>>

CpuHold ==
    /\ t_req = 1 => t_ack = 0 /\ cpu_berr = 0
    /\ UNCHANGED tVars

\* The walker may keep its request up for a while after the answer.
WalkerRaise ==
    /\ walker_req = 0
    /\ walker_req' = 1
    /\ walker_we' \in {0, 1}
    /\ walker_addr' \in load.walks

WalkerDrop ==
    /\ walker_req = 1 /\ walker_armed = 0
    /\ svc = "IDLE" \/ svc_walker = 0
    /\ walker_req' = 0
    /\ UNCHANGED <<walker_we, walker_addr>>

WalkerHold == UNCHANGED walkerVars

\* A selected target answers once, after any delay; only the IOSB can fault.
MemTarget ==
    \/ mem_req = 1 /\ mem_ack = 0 /\ mem_ack' = 1
    \/ mem_ack' = 0

DafbTarget ==
    \/ dafb_sel = 1 /\ dafb_ack = 0 /\ dafb_ack' = 1
    \/ dafb_ack' = 0

IosbTarget ==
    \/ iosb_sel = 1 /\ iosb_ack = 0 /\ iosb_ack' = 1 /\ iosb_fault' \in {0, 1}
    \/ iosb_ack' = 0 /\ iosb_fault' = 0

-----------------------------------------------------------------------------
History ==
    /\ IF t_req' # t_req
       THEN stored' = [n \in {} |-> 0] /\ shadowed' = {} /\ beats' = 0
       ELSE /\ beats' = beats + b_ack'
            /\ shadowed' = IF svc = "IDLE" /\ svc' # "IDLE" /\ svc_walker' = 0 /\ overlay = 1
                           THEN shadowed \cup {svc_addr'} ELSE shadowed
            /\ LET cells == IF /\ b_ack' = 1 /\ port.write = 1
                               /\ svc # "OPEN" /\ ~(svc = "MEM" /\ port.memsel = "rom")
                            THEN {Cell(port.addr, p) : p \in port.be} ELSE {}
               IN  stored' = [n \in DOMAIN stored \cup cells |->
                                IF n \in cells THEN port.wdata[(n - 1) % 4] ELSE stored[n]]
    /\ walks' = IF walker_req' = 1 /\ walker_req = 0 THEN 0
                ELSE walks + walker_ack' + walker_berr'

Init ==
    /\ load \in Loads
    /\ t_req = 0 /\ t_write = 0 /\ t_size = 1 /\ t_addr = <<0, 0>> /\ t_wdata = OperandBytes
    /\ BusInit
    /\ b_ack = 0 /\ b_rdata = Zeros /\ cpu_berr = 0
    /\ svc = "IDLE" /\ svc_walker = 0 /\ svc_addr = 0 /\ overlay = 1
    /\ walker_req = 0 /\ walker_we = 0 /\ walker_addr = 0 /\ walker_armed = 1
    /\ walker_ack = 0 /\ walker_data = Zeros /\ walker_berr = 0
    /\ port = [write |-> 0, addr |-> 0, memsel |-> "ram", be |-> {}, wdata |-> Zeros]
    /\ mem_req = 0 /\ iosb_sel = 0 /\ dafb_sel = 0
    /\ mem_ack = 0 /\ iosb_ack = 0 /\ iosb_fault = 0 /\ dafb_ack = 0
    /\ stored = [n \in {} |-> 0] /\ shadowed = {} /\ beats = 0 /\ walks = 0

CpuBlock == CpuRaise \/ CpuDone \/ CpuHold

WalkerBlock == WalkerRaise \/ WalkerDrop \/ WalkerHold

TargetBlock == MemTarget /\ DafbTarget /\ IosbTarget

Next == BusBlock /\ ServiceBlock /\ CpuBlock /\ WalkerBlock /\ TargetBlock /\ History
        /\ UNCHANGED load

Spec == Init /\ [][Next]_vars

MemAnswers == mem_ack' = 1 /\ Next

IosbAnswers == iosb_ack' = 1 /\ Next

DafbAnswers == dafb_ack' = 1 /\ Next

\* The clock runs and every selected target answers in the end.
FairSpec == Spec /\ WF_vars(Next) /\ WF_vars(MemAnswers) /\ WF_vars(IosbAnswers)
                 /\ WF_vars(DafbAnswers)

-----------------------------------------------------------------------------
(* Properties *)

\* The byte i of the operand: its longword, its position and what it holds.
WordOf(i) == t_addr[1] + (t_addr[2] + i) \div 4

PosOf(i) == (t_addr[2] + i) % 4

Holds(a, p) == IF Region[a] = "open" THEN 0 ELSE Cell(a, p)

BeatsNeeded == IF t_addr[2] + t_size > 4 THEN 2 ELSE 1

\* An acked read returns the operand's bytes, in order and right-aligned, whatever
\* its alignment, and took no more beats than it needed: split, shifts and merge of
\* wombat_bus32.sv, the lanes of the beats and the service agree.
ReadExact ==
    (t_ack = 1 /\ t_write = 0)
        => /\ t_rdata = [p \in Pos |-> IF p < 4 - t_size THEN 0
                                       ELSE Holds(WordOf(p - (4 - t_size)), PosOf(p - (4 - t_size)))]
           /\ beats = BeatsNeeded

\* The operand's bytes as cells, and the longword of a cell.
FirstCell == Cell(t_addr[1], t_addr[2])

Operand == FirstCell..(FirstCell + t_size - 1)

LongOf(n) == (n - 1) \div 4

\* Where a write is kept: not in the ROM window, on open bus, or in the low region
\* while the overlay shows ROM there.
Writable(a) ==
    \/ Region[a] \in {"ram", "vram", "iosb", "dafb"}
    \/ Region[a] = "low" /\ a \notin shadowed

\* What a write does to the first k longwords of its operand.
Written(k) ==
    [n \in {m \in (4 * t_addr[1] + 1)..(4 * (t_addr[1] + k)) :
               Writable(LongOf(m)) /\ (m \in Operand \/ Region[LongOf(m)] = "dafb")} |->
        IF n \in Operand THEN OperandBytes[(4 - t_size) + (n - FirstCell)] ELSE 0]

\* An acked write has stored the operand's bytes at its addresses, one beat per
\* longword, and no other byte: except in the DAFB, where the register is overwritten
\* whole, with zeroes beside the operand, because no byte enables go there
\* (quadra800.sv:436-442).  Writes to ROM, also under the boot overlay, which may end
\* between the two beats of a split, are acked and leave no byte behind.
WriteExact ==
    (t_ack = 1 /\ t_write = 1) => stored = Written(BeatsNeeded) /\ beats = BeatsNeeded

\* The service works for the CPU only on the beat that wombat_bus32 holds on the
\* bus, also across the tail of a split and the abort of a fault; exactly the
\* target of the state is selected (quadra800.sv:366-511).
NoOrphanBeat ==
    /\ (svc # "IDLE" /\ svc_walker = 0) => active = 1 /\ b_req = 1 /\ svc_addr = b_addr
    /\ mem_req = (IF svc = "MEM" THEN 1 ELSE 0)
    /\ iosb_sel = (IF svc = "IOSB" THEN 1 ELSE 0)
    /\ dafb_sel = (IF svc = "DAFB" THEN 1 ELSE 0)

\* A bus error reaches the CPU only while its transaction is in flight, never
\* together with an ack, so the transaction ends in exactly one of the two ways.
OneOutcome ==
    /\ b_ack = 1 \/ cpu_berr = 1 => active = 1 /\ t_req = 1
    /\ ~(b_ack = 1 /\ cpu_berr = 1)
    /\ t_ack = 1 => t_req = 1 /\ active = 0 /\ cpu_berr = 0

\* A walker request is answered once, with the descriptor it asked for, however
\* long the walker holds the request up (walker_armed).
WalkerOnce ==
    /\ walks <= 1
    /\ (walker_ack = 1 /\ walker_req = 1)
          => walker_data = [p \in Pos |-> Holds(walker_addr, p)]

\* "walker first: it only runs mid-translation, never starves the CPU"
\* (quadra800.sv:404-405): each CPU transaction ends, whatever the walker does.
CpuServed == (t_req = 1) ~> (t_ack = 1 \/ cpu_berr = 1)

\* Each walker request is answered, the next one too: walker_armed comes back.
WalkerServed == (walker_req = 1 /\ walks = 0) ~> (walks = 1)

=============================================================================
