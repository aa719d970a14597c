----------------------------- MODULE Via1System -----------------------------
(***************************************************************************)
(* VIA1's timers and flags with the E clock and the 60 Hz divider of        *)
(* iosb.sv, and a guest that programs the timers, enables interrupts and    *)
(* serves them.  A step is one clock.  iosb.sv keeps the strobes of an      *)
(* access up until the falling E edge (A_VIA), so the access is chosen in   *)
(* that clock, and a read returns what was there before it (A_CAPTURE).     *)
(***************************************************************************)
EXTENDS Via1Timers, Sequences

CONSTANTS
    E,         \* clocks of an E period (2 * E_HALF)
    TICK_HALF, \* clocks of half a 60 Hz period
    SECOND,    \* 60 Hz periods of a second (60)
    Guests,    \* a sequence of guests: the accesses each makes and the flags it enables
    Coincide   \* the handler's flag write may fall into the clock of another flag's event

ASSUME SystemAssumption ==
    /\ E \in Nat /\ E > 1 /\ TICK_HALF \in Nat /\ TICK_HALF > 2 /\ SECOND \in Nat /\ SECOND > 1
    /\ Coincide \in BOOLEAN

Bytes == 0..(BYTE - 1)

\* What the guest may do outside its handler: any register but IFR and IER.
Accesses ==
    [op : {"read", "write"}, val : Bytes,
     addr : {"T1CL", "T1CH", "T1LL", "T1LH", "T2CL", "T2CH", "ORA", "ORA_NH"}]
      \cup [op : {"write"}, addr : {"ACR"}, val : [freerun : BOOLEAN, count_mode : BOOLEAN]]
      \cup [op : {"write"}, addr : {"PCR"},
            val : [ca1_rising : BOOLEAN, ca2_rising : BOOLEAN, ca2_no_irq_clr : BOOLEAN]]

ASSUME GuestsAssumption ==
    \A g \in DOMAIN Guests : Guests[g].accesses \subseteq Accesses /\ Guests[g].flags \subseteq Flags

VARIABLES
    via,   \* the VIA's registers
    ediv,  \* clock of the E period
    tick,  \* the 60 Hz divider and the count of the second
    cpu,   \* the guest
    hist   \* what the timers and the flags owe the guest

vars == <<via, ediv, tick, cpu, hist>>

falling == ediv = E - 1

onesec == tick.count = SECOND - 1

\* Faulty variant of TickCycle: the second is one period too long.
TickCycleLong ==
    LET full == tick.div = TICK_HALF - 1
    IN  [div |-> IF full THEN 0 ELSE tick.div + 1,
         hz |-> IF full THEN ~tick.hz ELSE tick.hz, hz_d |-> tick.hz,
         count |-> IF tick.hz /\ ~tick.hz_d
                   THEN IF tick.count = SECOND THEN 0 ELSE tick.count + 1 ELSE tick.count]

\* Faulty variant of TickCycle: both edges of the 60 Hz line are counted.
TickCycleBoth ==
    LET full == tick.div = TICK_HALF - 1
    IN  [div |-> IF full THEN 0 ELSE tick.div + 1,
         hz |-> IF full THEN ~tick.hz ELSE tick.hz, hz_d |-> tick.hz,
         count |-> IF tick.hz # tick.hz_d
                   THEN IF onesec THEN 0 ELSE tick.count + 1 ELSE tick.count]

TickCycle ==
    LET full == tick.div = TICK_HALF - 1
    IN  [div |-> IF full THEN 0 ELSE tick.div + 1,
         hz |-> IF full THEN ~tick.hz ELSE tick.hz, hz_d |-> tick.hz,
         count |-> IF tick.hz /\ ~tick.hz_d
                   THEN IF onesec THEN 0 ELSE tick.count + 1 ELSE tick.count]

-----------------------------------------------------------------------------
(* History: the ticks to the event of each timer, the clocks to the next    *)
(* second, the flags owed                                                   *)

None == -1

Interval(n) == n + 2

\* A start makes the timer due n + 2 ticks later; in free run it is due again then.
DueA(a) ==
    IF writes(a, "T1CH") THEN Interval(Join(a.val, Lo(via.a.latch)))
    ELSE IF ~falling \/ hist.dueA = None THEN hist.dueA
    ELSE IF hist.dueA > 1 THEN hist.dueA - 1
    ELSE IF via.acr.freerun THEN Interval(AReload(via, a))
    ELSE None

\* Timer B is due once; its last tick passes in every mode.
DueB(a) ==
    IF writes(a, "T2CH") THEN Interval(Join(a.val, via.b.latch))
    ELSE IF ~falling \/ hist.dueB = None THEN hist.dueB
    ELSE IF hist.dueB = 1 THEN None
    ELSE IF via.acr.count_mode THEN hist.dueB ELSE hist.dueB - 1

\* The clocks of a second.
Period == SECOND * (2 * TICK_HALF)

\* The interrupt of the second, in the direction that PCR selects.
second_event == EdgeOf(via.ca2_c, via.ca2_d, via.pcr.ca2_rising)

\* A second is due a period after the last one; when the direction changes, the next
\* one starts the count again.
DueS(a) ==
    IF writes(a, "PCR") /\ a.val.ca2_rising # via.pcr.ca2_rising THEN None
    ELSE IF second_event THEN Period
    ELSE IF hist.dueS = None THEN None ELSE hist.dueS - 1

History(a) ==
    [dueA |-> DueA(a), dueB |-> DueB(a), dueS |-> DueS(a),
     stale |-> IF writes(a, "T2CH") THEN hist.dueB = 2 /\ ~via.acr.count_mode
               ELSE hist.stale /\ ~falling,
     owed |-> (hist.owed \cup irq_events(via, falling)) \ Cleared(via, a)]

-----------------------------------------------------------------------------
(* One clock with the access a in it *)

Clock(a) ==
    /\ via' = ViaCycle(via, falling, a, [ca1 |-> tick.hz, ca2 |-> onesec])
    /\ ediv' = (ediv + 1) % E
    /\ tick' = TickCycle
    /\ hist' = History(a)

Init ==
    /\ via = ViaInit /\ ediv = 0
    /\ tick = [div |-> 0, hz |-> FALSE, hz_d |-> FALSE, count |-> 0]
    /\ \E g \in DOMAIN Guests : cpu = [guest |-> g, at |-> "run", seen |-> {}, wants |-> {}]
    /\ hist = [dueA |-> None, dueB |-> None, dueS |-> Period - TICK_HALF + 3, stale |-> FALSE,
               owed |-> {}]

guest == Guests[cpu.guest]

\* The guest programs the VIA while no interrupt is up.
Program ==
    /\ falling /\ cpu.at = "run" /\ ~irq_out(via)
    /\ \E a \in guest.accesses : Clock(a)
    /\ UNCHANGED cpu

\* It enables its flags one at a time.
Enable ==
    /\ falling /\ cpu.at = "run" /\ ~irq_out(via)
    /\ \E f \in guest.flags \ cpu.wants :
          /\ Clock([op |-> "write", addr |-> "IER", val |-> [set |-> TRUE, bits |-> {f}]])
          /\ cpu' = [cpu EXCEPT !.wants = @ \cup {f}]

\* And may disable one again.
Disable ==
    /\ falling /\ cpu.at = "run" /\ ~irq_out(via) /\ guest.disables
    /\ \E f \in cpu.wants :
          /\ Clock([op |-> "write", addr |-> "IER", val |-> [set |-> FALSE, bits |-> {f}]])
          /\ cpu' = [cpu EXCEPT !.wants = @ \ {f}]

\* The level 1 handler reads the flags.
TakeIrq ==
    /\ falling /\ cpu.at = "run" /\ irq_out(via)
    /\ Clock([op |-> "read", addr |-> "IFR", val |-> 0])
    /\ cpu' = [cpu EXCEPT !.at = "handler", !.seen = via.irq_flags \cap cpu.wants]

\* It clears what it serves.
Acknowledge ==
    /\ falling /\ cpu.at = "handler"
    /\ Coincide \/ irq_events(via, falling) \subseteq cpu.seen
    /\ Clock([op |-> "write", addr |-> "IFR", val |-> cpu.seen])
    /\ cpu' = [cpu EXCEPT !.at = "run", !.seen = {}]

Quiet == Clock(NoAccess) /\ UNCHANGED cpu

Next == Program \/ Enable \/ Disable \/ TakeIrq \/ Acknowledge \/ Quiet

Spec == Init /\ [][Next]_vars

\* The clock runs, and the processor takes an interrupt and ends its handler.
FairSpec == Spec /\ WF_vars(Next) /\ SF_vars(TakeIrq) /\ SF_vars(Acknowledge)

-----------------------------------------------------------------------------
(* Properties *)

TypeOK ==
    /\ via.irq_flags \subseteq Flags /\ via.irq_mask \subseteq Flags
    /\ via.a.latch \in Counts /\ via.a.count \in Counts /\ via.b.count \in Counts
    /\ via.b.latch \in 0..(BYTE - 1)
    /\ ediv \in 0..(E - 1) /\ tick.count \in 0..(SECOND - 1)
    /\ cpu.at \in {"run", "handler"}

\* Timer A raises its event in exactly the ticks in which it is due: n + 2 ticks after
\* it was started with n, once in one-shot mode and every latch + 2 ticks in free run,
\* whatever the counter wraps through, the mode changes or restarts it
\* (via6522.sv:545-590).
TimerAExact == timer_a_event(via, falling) <=> falling /\ hist.dueA = 1

\* Timer B raises its event once for each start, n + 2 ticks later, also when counting
\* was suspended in between.  A start in the very tick in which the counter stands at
\* zero is excepted: the timeout of the old shot is not taken back, and the new one is
\* interrupted at once (via6522.sv:594-657).
TimerBExact == timer_b_event(via, falling) <=> falling /\ (hist.dueB = 1 \/ hist.stale)

\* The one-second interrupt comes exactly every SECOND periods of the 60 Hz tick, not a
\* clock early or late, through the divider, the count, its comparison and the edge
\* detector, for either direction and whatever else the guest writes; the first one after
\* a reset comes half a period early (iosb.sv:109-141, via6522.sv:185, 246, 259).
SecondExact == hist.dueS # None => (second_event <=> hist.dueS = 1)

\* A flag that the guest has enabled interrupts it until it is served, whatever else it
\* enables and clears: the mask is changed by bits (via6522.sv:226-234, 379-386).
Served == \A f \in Flags : (f \in hist.owed /\ f \in cpu.wants) ~> (f \notin hist.owed \/ f \notin cpu.wants)

=============================================================================
