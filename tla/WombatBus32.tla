---------------------------- MODULE WombatBus32 -----------------------------
(***************************************************************************)
(* rtl/wombat_bus32.sv: splits a CPU transaction of any alignment into      *)
(* aligned longword beats with byte enables.                                *)
(*                                                                          *)
(* A 32-bit register is a function on the byte positions 0..3, position 0   *)
(* being the most significant byte: the byte at the longword's address + 0  *)
(* (byte enable bit 3).  A byte is a natural number, 0 the byte of zeroes   *)
(* that shifts bring in; be is the set of enabled positions.                *)
(***************************************************************************)
EXTENDS Integers

Pos == 0..3

Zeros == [p \in Pos |-> 0]

\* v << 8n and v >> 8n, and the same shifts of a byte-enable mask.
Shl(v, n) == [p \in Pos |-> IF p + n \in Pos THEN v[p + n] ELSE 0]

Shr(v, n) == [p \in Pos |-> IF p - n \in Pos THEN v[p - n] ELSE 0]

\* v | w of two registers no byte of which is set in both.
Or(v, w) == [p \in Pos |-> IF v[p] = 0 THEN w[p] ELSE v[p]]

ShlMask(s, n) == {p \in Pos : p + n \in s}

ShrMask(s, n) == {p \in Pos : p - n \in s}

lanes(start, count) == ShrMask(ShlMask(Pos, 4 - count), start)

VARIABLES
    t_req, t_write, t_size, t_addr, t_wdata,   \* the CPU side: t_addr is the pair
                                               \* <<longword, byte offset>>
    t_ack, t_rdata,
    b_req, b_write, b_addr, b_be, b_wdata,     \* the beat side
    b_ack, b_rdata, cpu_berr,                  \* driven by rtl/quadra800.sv
    active, second, r_off, r_bytes, r_end, r_wsh, r_stream

tVars == <<t_req, t_write, t_size, t_addr, t_wdata>>

beatVars == <<b_req, b_write, b_addr, b_be, b_wdata>>

rVars == <<r_off, r_bytes, r_end, r_wsh>>

busVars == <<beatVars, rVars, t_ack, t_rdata, active, second, r_stream>>

Sizes == {1, 2, 4}      \* t_size, in bytes (f_bytes)

f_wsh == Shl(t_wdata, 4 - t_size)

f_end == t_addr[2] + t_size

f_n0 == IF f_end > 4 THEN 4 - t_addr[2] ELSE t_size

\* Faulty variant of rd_stream0: shifted the wrong way.
rd_streamRight == Shr(b_rdata, r_off)

rd_stream0 == Shl(b_rdata, r_off)

r_n0 == 4 - r_off

BusInit ==
    /\ t_ack = 0 /\ t_rdata = Zeros
    /\ b_req = 0 /\ b_write = 0 /\ b_addr = 0 /\ b_be = {} /\ b_wdata = Zeros
    /\ active = 0 /\ second = 0
    /\ r_off = 0 /\ r_bytes = 0 /\ r_end = 0 /\ r_wsh = Zeros /\ r_stream = Zeros

\* Faulty variant of Abort: the beat stays requested.
AbortKeepsBeat ==
    /\ active = 1 /\ cpu_berr = 1
    /\ active' = 0 /\ second' = 0
    /\ t_ack' = 0
    /\ UNCHANGED <<rVars, b_req, b_write, b_addr, b_be, b_wdata, t_rdata, r_stream>>

\* Faulty variant of Abort: the splitter goes on waiting for the beat it dropped.
AbortStuck ==
    /\ active = 1 /\ cpu_berr = 1
    /\ b_req' = 0
    /\ t_ack' = 0
    /\ UNCHANGED <<rVars, active, second, b_write, b_addr, b_be, b_wdata, t_rdata, r_stream>>

\* A bus error aborts the transaction in flight: no ack, request dropped.
Abort ==
    /\ active = 1 /\ cpu_berr = 1
    /\ active' = 0 /\ second' = 0 /\ b_req' = 0
    /\ t_ack' = 0
    /\ UNCHANGED <<rVars, b_write, b_addr, b_be, b_wdata, t_rdata, r_stream>>

\* A new transaction: issue its first beat.
Accept ==
    /\ active = 0 /\ t_req = 1 /\ t_ack = 0
    /\ active' = 1 /\ second' = 0
    /\ r_off' = t_addr[2] /\ r_bytes' = t_size /\ r_end' = f_end /\ r_wsh' = f_wsh
    /\ b_req' = 1 /\ b_write' = t_write /\ b_addr' = t_addr[1]
    /\ b_be' = lanes(t_addr[2], f_n0)
    /\ b_wdata' = Shr(f_wsh, t_addr[2])
    /\ t_ack' = 0
    /\ UNCHANGED <<t_rdata, r_stream>>

\* The first beat of a split is done: issue the tail, n longwords further.
TailBy(n) ==
    /\ active = 1 /\ cpu_berr = 0 /\ b_ack = 1
    /\ second = 0 /\ r_end > 4
    /\ second' = 1
    /\ r_stream' = rd_stream0
    /\ b_addr' = b_addr + n
    /\ b_be' = lanes(0, r_end - 4)
    /\ b_wdata' = Shl(r_wsh, r_n0)
    /\ t_ack' = 0
    /\ UNCHANGED <<rVars, b_req, b_write, t_rdata, active>>

\* Faulty variants of TailBeat: at the first longword; four longwords further.
TailBeatSame == TailBy(0)

TailBeat == TailBy(1)

\* The last beat is done: ack the transaction.
Finish ==
    /\ active = 1 /\ cpu_berr = 0 /\ b_ack = 1
    /\ second = 1 \/ r_end <= 4
    /\ active' = 0 /\ second' = 0 /\ b_req' = 0
    /\ t_ack' = 1
    /\ t_rdata' = Shr(IF second = 1 THEN Or(r_stream, Shr(b_rdata, r_n0)) ELSE rd_stream0,
                      4 - r_bytes)
    /\ UNCHANGED <<rVars, b_write, b_addr, b_be, b_wdata, r_stream>>

BusWait ==
    /\ IF active = 1 THEN cpu_berr = 0 /\ b_ack = 0 ELSE t_req = 0 \/ t_ack = 1
    /\ t_ack' = 0
    /\ UNCHANGED <<rVars, beatVars, t_rdata, active, second, r_stream>>

BusBlock == Abort \/ Accept \/ TailBeat \/ Finish \/ BusWait

=============================================================================
