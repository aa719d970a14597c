----------------------------- MODULE PseudoVia ------------------------------
(***************************************************************************)
(* rtl/iosb.sv: VIA2, the pseudo-VIA that latches the interrupt lines of    *)
(* the SCSI chip, the video and the sound chip, and the three-level scheme  *)
(* of the CPU's interrupt inputs.  A flag set holds the names of its lines. *)
(*                                                                          *)
(* An access a has an op: "ifr_wr", "ier_set" or "ier_clr" (bits: the lines *)
(* it names), or another one, which changes nothing here.                   *)
(***************************************************************************)
EXTENDS Integers

\* IFR bits 0, 1, 3 and 4.
Lines == {"drq", "slot", "scsi", "asc"}

PviaInit == [via2_ifr |-> {}, via2_ier |-> {}, d |-> {}]

\* Every line but the sound chip's drags its flag along both ways.
Mirrored == Lines \ {"asc"}

rises(p, lines) == lines \ p.d

falls(p, lines) == p.d \ lines

\* Faulty variant of EdgeLatch: one chain of else-ifs, the sound chip's line first.
EdgeLatchChain(p, lines) ==
    IF "asc" \in rises(p, lines) THEN p.via2_ifr \cup {"asc"}
    ELSE (p.via2_ifr \ (falls(p, lines) \cap Mirrored)) \cup rises(p, lines)

EdgeLatch(p, lines) ==
    (p.via2_ifr \ (falls(p, lines) \cap Mirrored)) \cup rises(p, lines)

\* The write of the flags is the later assignment: it starts from the old flags
\* and replaces what the edges of this clock would have latched.
via2_ifr_next(p, lines, a) ==
    IF a.op = "ifr_wr" THEN p.via2_ifr \ a.bits ELSE EdgeLatch(p, lines)

via2_ier_next(p, a) ==
    IF a.op = "ier_set" THEN p.via2_ier \cup a.bits
    ELSE IF a.op = "ier_clr" THEN p.via2_ier \ a.bits
    ELSE p.via2_ier

PviaCycle(p, lines, a) ==
    [via2_ifr |-> via2_ifr_next(p, lines, a), via2_ier |-> via2_ier_next(p, a), d |-> lines]

via2_active(p) == p.via2_ifr \cap p.via2_ier # {}

\* What a read of the flags returns: the request line is shown live.
via2_ifr_r(p, lines) == (p.via2_ifr \ {"drq"}) \cup (lines \cap {"drq"})

\* Three-level autovector scheme: SCC=4, VIA2=2, VIA1=1.
ipl(scc_irq, via2, via1_irq) == IF scc_irq THEN 4 ELSE IF via2 THEN 2 ELSE IF via1_irq THEN 1 ELSE 0

=============================================================================
