----------------------------- MODULE Via1Timers -----------------------------
(***************************************************************************)
(* rtl/via6522.sv as iosb.sv wires it for VIA1: the two timers, the CA1 and *)
(* CA2 edge detectors and the interrupt flags and mask.  The shift register *)
(* and its flag are in Via6522.  An access a is sampled in the clock of the *)
(* falling E edge, which is also the timers' tick; it is "none" in all      *)
(* other clocks.  A counter is two bytes of BYTE values each.  CB1 and CB2  *)
(* are tied low, PB6 and the output on PB7 are not wired, and the shift     *)
(* modes that would reload timer B's low byte are not used on this machine. *)
(***************************************************************************)
EXTENDS Integers

CONSTANTS
    BYTE,               \* the values of half a counter (256)
    latch_reset_pattern \* both latches and counters after a reset

ASSUME TimersAssumption == BYTE \in Nat \ {0} /\ latch_reset_pattern \in 0..(BYTE * BYTE - 1)

Counts == 0..(BYTE * BYTE - 1)

Lo(n) == n % BYTE
Hi(n) == n \div BYTE
Join(h, l) == h * BYTE + l
Down(n) == (n - 1) % (BYTE * BYTE)

\* The flags kept here: timer A, timer B, the 60 Hz tick and the second.
Flags == {"T1", "T2", "CA1", "CA2"}

NoAccess == [op |-> "none", addr |-> "", val |-> 0]

writes(a, addr) == a.op = "write" /\ a.addr = addr
reads(a, addr) == a.op = "read" /\ a.addr = addr

AcrReset == [freerun |-> FALSE, count_mode |-> FALSE]
PcrReset == [ca1_rising |-> FALSE, ca2_rising |-> FALSE, ca2_no_irq_clr |-> FALSE]

ViaInit ==
    [irq_flags |-> {}, irq_mask |-> {}, acr |-> AcrReset, pcr |-> PcrReset,
     ca1_c |-> FALSE, ca1_d |-> FALSE, ca2_c |-> FALSE, ca2_d |-> FALSE,
     a |-> [latch |-> latch_reset_pattern, count |-> latch_reset_pattern,
            reload |-> FALSE, may_interrupt |-> FALSE],
     b |-> [latch |-> Lo(latch_reset_pattern), count |-> latch_reset_pattern,
            oneshot_trig |-> FALSE, timeout |-> FALSE]]

irq_out(v) == v.irq_flags \cap v.irq_mask # {}

timer_a_event(v, falling) == falling /\ v.a.reload /\ v.a.may_interrupt

timer_b_event(v, falling) == falling /\ v.b.timeout

\* A line's edge is seen two clocks after it, in the direction that PCR selects.
EdgeOf(c, d, rising) == c # d /\ c = rising

irq_events(v, falling) ==
    {f \in Flags :
        \/ f = "T1" /\ timer_a_event(v, falling)
        \/ f = "T2" /\ timer_b_event(v, falling)
        \/ f = "CA1" /\ EdgeOf(v.ca1_c, v.ca1_d, v.pcr.ca1_rising)
        \/ f = "CA2" /\ EdgeOf(v.ca2_c, v.ca2_d, v.pcr.ca2_rising)}

\* The flags that an access clears.
Cleared(v, a) ==
    {f \in Flags :
        \/ f = "T1" /\ (writes(a, "T1CH") \/ writes(a, "T1LH") \/ reads(a, "T1CL"))
        \/ f = "T2" /\ (writes(a, "T2CH") \/ reads(a, "T2CL"))
        \/ f = "CA1" /\ (writes(a, "ORA") \/ reads(a, "ORA") \/ reads(a, "ORA_NH"))
        \/ /\ f = "CA2" /\ ~v.pcr.ca2_no_irq_clr
           /\ writes(a, "ORA") \/ reads(a, "ORA") \/ reads(a, "ORA_NH")
        \/ writes(a, "IFR") /\ f \in a.val}

\* Events set flags and accesses clear them; a write of the flags starts from the old ones.
NextFlags(v, falling, a) ==
    IF writes(a, "IFR") THEN v.irq_flags \ a.val
    ELSE (v.irq_flags \cup irq_events(v, falling)) \ Cleared(v, a)

\* Faulty variant of NextMask: the mask is replaced instead of added to.
NextMaskReplaced(v, a) ==
    IF ~writes(a, "IER") THEN v.irq_mask ELSE IF a.val.set THEN a.val.bits ELSE {}

NextMask(v, a) ==
    IF ~writes(a, "IER") THEN v.irq_mask
    ELSE IF a.val.set THEN v.irq_mask \cup a.val.bits ELSE v.irq_mask \ a.val.bits

ALatch(v, a) ==
    IF writes(a, "T1CL") \/ writes(a, "T1LL") THEN Join(Hi(v.a.latch), a.val)
    ELSE IF writes(a, "T1CH") \/ writes(a, "T1LH") THEN Join(a.val, Lo(v.a.latch))
    ELSE v.a.latch

\* What the counter is reloaded with: a low byte written in this very tick counts.
AReload(v, a) ==
    IF writes(a, "T1CL") \/ writes(a, "T1LL") THEN Join(Hi(v.a.latch), a.val) ELSE v.a.latch

ACount(v, falling, a) ==
    IF writes(a, "T1CH") THEN Join(a.val, Lo(v.a.latch))
    ELSE IF ~falling THEN v.a.count
    ELSE IF v.a.reload THEN AReload(v, a) ELSE Down(v.a.count)

\* Faulty variant of TimerA: starting the counter keeps a reload that is due.
TimerAKeeps(v, falling, a) ==
    [latch |-> ALatch(v, a), count |-> ACount(v, falling, a),
     reload |-> IF falling THEN ~v.a.reload /\ v.a.count = 0 ELSE v.a.reload,
     may_interrupt |-> writes(a, "T1CH")
                         \/ (v.a.may_interrupt /\ (falling /\ v.a.reload => v.acr.freerun))]

\* A tick counts, or loads one tick after zero; a write of the high byte starts the
\* timer whatever the tick did.
TimerA(v, falling, a) ==
    [latch |-> ALatch(v, a), count |-> ACount(v, falling, a),
     reload |-> /\ ~writes(a, "T1CH")
                /\ IF falling THEN ~v.a.reload /\ v.a.count = 0 ELSE v.a.reload,
     may_interrupt |-> writes(a, "T1CH")
                         \/ (v.a.may_interrupt /\ (falling /\ v.a.reload => v.acr.freerun))]

\* Timer B counts without end, except in the mode that counts pulses of PB6, which has
\* none here; only the first zero after a start is a timeout.
Decrements(v, falling) == falling /\ ~v.acr.count_mode

Expires(v, falling) == Decrements(v, falling) /\ v.b.count = 0 /\ v.b.oneshot_trig

BCount(v, falling, a) ==
    IF writes(a, "T2CH") THEN Join(a.val, v.b.latch)
    ELSE IF Decrements(v, falling) THEN Down(v.b.count) ELSE v.b.count

\* Faulty variant of TimerB: the trigger stays set.
TimerBRepeats(v, falling, a) ==
    [latch |-> IF writes(a, "T2CL") THEN a.val ELSE v.b.latch, count |-> BCount(v, falling, a),
     oneshot_trig |-> v.b.oneshot_trig \/ writes(a, "T2CH"),
     timeout |-> IF falling THEN Expires(v, falling) ELSE v.b.timeout]

TimerB(v, falling, a) ==
    [latch |-> IF writes(a, "T2CL") THEN a.val ELSE v.b.latch, count |-> BCount(v, falling, a),
     oneshot_trig |-> (v.b.oneshot_trig /\ ~Expires(v, falling)) \/ writes(a, "T2CH"),
     timeout |-> IF falling THEN Expires(v, falling) ELSE v.b.timeout]

\* One clock; lines are CA1 and CA2.
ViaCycle(v, falling, a, lines) ==
    [irq_flags |-> NextFlags(v, falling, a), irq_mask |-> NextMask(v, a),
     acr |-> IF writes(a, "ACR") THEN a.val ELSE v.acr,
     pcr |-> IF writes(a, "PCR") THEN a.val ELSE v.pcr,
     ca1_c |-> lines.ca1, ca1_d |-> v.ca1_c, ca2_c |-> lines.ca2, ca2_d |-> v.ca2_c,
     a |-> TimerA(v, falling, a), b |-> TimerB(v, falling, a)]

=============================================================================
