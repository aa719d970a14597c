------------------------------ MODULE BeatPort ------------------------------
(***************************************************************************)
(* The beat port between the machine (rtl/quadra800.sv, state S_MEM) and    *)
(* the memory behind it (rtl/sdram_beat32.sv): its data types and the       *)
(* master that drives it.                                                   *)
(*                                                                          *)
(* A beat moves one 32-bit word, four byte lanes.  Lane 3 is the byte at    *)
(* addr+0 (wdata[31:24]); lanes 3 and 2 are the high half word, lanes 1     *)
(* and 0 the low one.  be is the set of lanes a write may change.           *)
(***************************************************************************)
EXTENDS Integers

CONSTANTS
    Addr,       \* word addresses of the beat port
    Byte,       \* the values of one byte lane
    ZeroWord,   \* the word of zeroes the data registers power up with
    PowerUp,    \* the words the memory may hold at power-up
    WriteData,  \* the words the machine puts on wdata
    WriteBE     \* the byte-enable sets the machine uses

Lane == 0..3

Word == [Lane -> Byte]

HighLanes == {2, 3}

LowLanes == {0, 1}

ASSUME PortAssumption ==
    /\ Addr # {}
    /\ ZeroWord \in Word
    /\ PowerUp \subseteq Word /\ PowerUp # {}
    /\ WriteData \subseteq Word /\ WriteData # {}
    /\ WriteBE \subseteq SUBSET Lane /\ WriteBE # {}

\* The word old with the lanes of be taken from new.
Merge(old, new, be) == [l \in Lane |-> IF l \in be THEN new[l] ELSE old[l]]

\* The memory m after a write of data to a under the byte enables be.
Store(m, a, data, be) == [m EXCEPT ![a] = Merge(@, data, be)]

VARIABLES
    req, we, addr, be, wdata,   \* driven by the machine, level-held
    ack, rdata                  \* driven by the memory, ack is one pulse

masterVars == <<req, we, addr, be, wdata>>

MasterType ==
    /\ req \in {0, 1}
    /\ we \in {0, 1}
    /\ addr \in Addr
    /\ be \in WriteBE
    /\ wdata \in WriteData

MasterInit ==
    /\ req = 0
    /\ we = 0
    /\ addr \in Addr
    /\ be \in WriteBE
    /\ wdata \in WriteData

\* S_IDLE dispatches a RAM beat: raise the request with its operands.  A read
\* carries byte enables and data too; the memory ignores them.
MasterRaise ==
    /\ req = 0
    /\ req' = 1
    /\ we' \in {0, 1}
    /\ addr' \in Addr
    /\ be' \in WriteBE
    /\ wdata' \in WriteData

\* S_MEM drops the request in the cycle after it sees the ack.
MasterDrop ==
    /\ req = 1
    /\ ack = 1
    /\ req' = 0
    /\ UNCHANGED <<we, addr, be, wdata>>

\* S_MEM waits for the ack, or the machine is doing something else.
MasterHold ==
    /\ req = 0 \/ ack = 0
    /\ UNCHANGED masterVars

=============================================================================
