-------------------------------- MODULE Easc --------------------------------
(***************************************************************************)
(* rtl/easc.sv in FIFO mode: two FIFOs of samples, A and B, that the CPU    *)
(* fills by longwords and the sample tick empties, and the interrupt that   *)
(* asks for a refill.  The wavetable mixer, the volume and the registers    *)
(* that are only stored are left out.                                        *)
(*                                                                          *)
(* An access a of this clock has an op: "push" (data: the samples of its    *)
(* enabled lanes in memory order, ch: the FIFO), "status", "mode" (val),    *)
(* "clear" (fifomode bit 7) or "none".                                      *)
(***************************************************************************)
EXTENDS Integers, Sequences

CONSTANTS
    SIZE,        \* samples in a FIFO (1024)
    LANES,       \* samples in a longword, of a write and of a RAM word (4)
    SAMPLE_DIV,  \* clocks between two sample ticks (1483)
    Stereo       \* control bit 1, CONTROL_STEREO

ASSUME EascAssumption ==
    /\ LANES \in Nat \ {0}
    /\ SIZE \in Nat /\ SIZE >= 4 /\ SIZE % 2 = 0 /\ SIZE % LANES = 0
    /\ SAMPLE_DIV \in Nat /\ SAMPLE_DIV >= 2
    /\ Stereo \in BOOLEAN

Channels == {"A", "B"}

HALF == SIZE \div 2

\* The sample of a RAM cell nobody wrote, and what a port reads that is undefined.
Silence == -1

EascInit ==
    [mode |-> "hold",
     wrptr |-> [c \in Channels |-> 0], rdptr |-> [c \in Channels |-> 0],
     cap |-> [c \in Channels |-> 0],
     mem |-> [c \in Channels |-> [j \in 0..(SIZE - 1) |-> Silence]],
     q_b |-> [c \in Channels |-> Silence],
     push |-> <<>>, push_to |-> "A",
     sdiv |-> 0, irq_r |-> FALSE]

fifo_mode(e) == e.mode = "fifo"

\* Faulty variant of half_empty and full: an empty FIFO reports full as well.
fifo_stat_empty(e) ==
    [half |-> {c \in Channels : e.cap[c] < HALF},
     full |-> {c \in Channels : e.cap[c] = 0 \/ e.cap[c] >= SIZE - 1}]

\* The status register, a live view of the levels.
fifo_stat(e) ==
    [half |-> {c \in Channels : e.cap[c] < HALF},
     full |-> {c \in Channels : e.cap[c] >= SIZE - 1}]

fifo_full(e) == e.cap[e.push_to] >= SIZE

push_do(e) == e.push # <<>> /\ ~fifo_full(e)

tick(e) == e.sdiv = SAMPLE_DIV - 1

pop(e, c) == tick(e) /\ fifo_mode(e) /\ e.cap[c] # 0

psh(e, c) == push_do(e) /\ e.push_to = c

\* The pop that goes through the half-way mark, and the push that fills.
half_cross(e, c) == pop(e, c) /\ e.cap[c] = HALF - 1

fill(e, c) == psh(e, c) /\ e.cap[c] >= SIZE - 2

\* A mode change, or fifomode bit 7, empties both FIFOs.
fifo_clear(e, a) == a.op = "clear" \/ (a.op = "mode" /\ a.val # e.mode)

\* Faulty variant of irq_next: a level, raised as long as a FIFO is under half.
irq_level(e, a) ==
    /\ a.op # "status"
    /\ e.irq_r \/ (fifo_mode(e) /\ \E c \in Channels : e.cap[c] < HALF)

\* Edges latch, a status read clears and wins.
irq_next(e, a) ==
    /\ a.op # "status"
    /\ e.irq_r \/ (\E c \in Channels : half_cross(e, c) \/ fill(e, c))

\* One lane drains per clock; a new write replaces what is left of the last one,
\* and a full FIFO drops the rest.
push_next(e, a) ==
    IF fifo_clear(e, a) THEN <<>>
    ELSE IF a.op = "push" /\ fifo_mode(e) THEN a.data
    ELSE IF push_do(e) THEN Tail(e.push)
    ELSE <<>>

\* A push into the longword that the read pointer is in.
crowds(e, c) == psh(e, c) /\ e.wrptr[c] \div LANES = e.rdptr[c] \div LANES

\* Port B free-runs at the read pointer.  A push into its longword in the same clock
\* is a mixed-port read-during-write, DONT_CARE in the block RAM: race says whether
\* what is read is undefined, or the old word.
q_next(e, c, race) ==
    IF ~fifo_mode(e) \/ (crowds(e, c) /\ race) THEN Silence ELSE e.mem[c][e.rdptr[c]]

\* The FIFO whose sample a tick puts on the left and on the right speaker; with a dry
\* FIFO the output keeps its last sample.
out_l(e) == {c \in {"A"} : pop(e, c)}

out_r(e) == {c \in {IF Stereo THEN "B" ELSE "A"} : pop(e, c)}

\* Faulty variant of cap_next: the push hides the pop of the same clock.
cap_next_push(e, c) ==
    IF psh(e, c) THEN e.cap[c] + 1 ELSE IF pop(e, c) THEN e.cap[c] - 1 ELSE e.cap[c]

cap_next(e, c) ==
    e.cap[c] + (IF psh(e, c) THEN 1 ELSE 0) - (IF pop(e, c) THEN 1 ELSE 0)

EascCycle(e, a, race) ==
    LET clr == fifo_clear(e, a)
        advance(p, on) == IF clr THEN 0 ELSE IF on THEN (p + 1) % SIZE ELSE p
    IN  [mode |-> IF a.op = "mode" THEN a.val ELSE e.mode,
         wrptr |-> [c \in Channels |-> advance(e.wrptr[c], psh(e, c))],
         rdptr |-> [c \in Channels |-> advance(e.rdptr[c], pop(e, c))],
         cap |-> [c \in Channels |-> IF clr THEN 0 ELSE cap_next(e, c)],
         mem |-> [c \in Channels |->
                    IF psh(e, c) THEN [e.mem[c] EXCEPT ![e.wrptr[c]] = Head(e.push)]
                    ELSE e.mem[c]],
         q_b |-> [c \in Channels |-> q_next(e, c, race)],
         push |-> push_next(e, a),
         push_to |-> IF a.op = "push" /\ fifo_mode(e) THEN a.ch ELSE e.push_to,
         sdiv |-> IF tick(e) THEN 0 ELSE e.sdiv + 1,
         irq_r |-> irq_next(e, a)]

=============================================================================
