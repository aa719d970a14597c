----------------------------- MODULE BeatMemory -----------------------------
(***************************************************************************)
(* What the memory behind the beat port promises (the "Beat contract" of    *)
(* rtl/sdram_beat32.sv): it behaves as one array of words in which a write  *)
(* takes effect as a whole when it is accepted, a read returns the word as  *)
(* the last accepted write left it, and every request is acknowledged once. *)
(*                                                                          *)
(* A step of this specification is one clk_sys edge.  The refresh, the two  *)
(* 16-bit halves, the burst and both clock-domain crossings of the          *)
(* implementation are invisible here.                                       *)
(***************************************************************************)
EXTENDS BeatPort

VARIABLES
    mem,    \* the array, as the machine sees it
    job     \* what the memory is doing: "none", "read" or "drain"

vars == <<req, we, addr, be, wdata, ack, rdata, mem, job>>

Init ==
    /\ MasterInit
    /\ ack = 0
    /\ rdata = ZeroWord
    /\ mem \in [Addr -> PowerUp]
    /\ job = "none"

Requested == req = 1 /\ ack = 0

\* A write is accepted and acknowledged at once.
AcceptWrite ==
    /\ job = "none"
    /\ Requested
    /\ we = 1
    /\ mem' = Store(mem, addr, wdata, be)
    /\ job' = "drain"
    /\ ack' = 1
    /\ UNCHANGED rdata

\* A read is accepted; the machine waits.
AcceptRead ==
    /\ job = "none"
    /\ Requested
    /\ we = 0
    /\ job' = "read"
    /\ ack' = 0
    /\ UNCHANGED <<rdata, mem>>

\* The read is answered with the word at the requested address.
AnswerRead ==
    /\ job = "read"
    /\ job' = "none"
    /\ ack' = 1
    /\ rdata' = mem[addr]
    /\ UNCHANGED mem

\* The write has left the bridge: the next beat may be accepted.
Drained ==
    /\ job = "drain"
    /\ job' = "none"
    /\ ack' = 0
    /\ UNCHANGED <<rdata, mem>>

\* Nothing to accept, or the work in hand is not finished.
Wait ==
    /\ job # "none" \/ ~Requested
    /\ ack' = 0
    /\ UNCHANGED <<rdata, mem, job>>

MemoryStep == AcceptWrite \/ AcceptRead \/ AnswerRead \/ Drained \/ Wait

MasterStep == MasterRaise \/ MasterDrop \/ MasterHold

Next == MasterStep /\ MemoryStep

Spec == Init /\ [][Next]_vars

=============================================================================
