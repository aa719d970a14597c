----------------------------- MODULE Via1Proofs -----------------------------
(***************************************************************************)
(* Proofs about Via1System for every counter width, E period, 60 Hz divider *)
(* and guest: types, the exact tick of each timer's event and the exact      *)
(* clock of the second.                                                     *)
(***************************************************************************)
EXTENDS Via1System, TLAPS

ViaType ==
    [irq_flags : SUBSET Flags, irq_mask : SUBSET Flags,
     acr : [freerun : BOOLEAN, count_mode : BOOLEAN],
     pcr : [ca1_rising : BOOLEAN, ca2_rising : BOOLEAN, ca2_no_irq_clr : BOOLEAN],
     ca1_c : BOOLEAN, ca1_d : BOOLEAN, ca2_c : BOOLEAN, ca2_d : BOOLEAN,
     a : [latch : Counts, count : Counts, reload : BOOLEAN, may_interrupt : BOOLEAN],
     b : [latch : Bytes, count : Counts, oneshot_trig : BOOLEAN, timeout : BOOLEAN]]

\* A counter is split into two bytes ...
LEMMA ByteSplit ==
    ASSUME NEW n \in Counts
    PROVE  /\ Lo(n) \in Bytes /\ Hi(n) \in Bytes
  <1>1. BYTE \in Nat /\ BYTE > 0 /\ n \in Nat /\ n < BYTE * BYTE
    BY TimersAssumption DEF Counts
  <1>2. Lo(n) \in Bytes
    BY <1>1 DEF Lo, Bytes
  <1>3. n = BYTE * (n \div BYTE) + (n % BYTE) /\ n \div BYTE \in Int /\ n % BYTE \in 0..(BYTE - 1)
    BY <1>1
  <1>4. n \div BYTE < BYTE
    <2> DEFINE q == n \div BYTE
    <2> SUFFICES ASSUME q >= BYTE PROVE FALSE
      BY <1>1, <1>3
    <2>1. BYTE * q >= BYTE * BYTE
      BY <1>1, <1>3, Z3
    <2> QED BY <2>1, <1>1, <1>3
  <1>5. n \div BYTE >= 0
    <2> DEFINE q == n \div BYTE
    <2> SUFFICES ASSUME q <= -1 PROVE FALSE
      BY <1>1, <1>3
    <2>1. BYTE * q <= BYTE * (-1)
      BY <1>1, <1>3, Z3
    <2> QED BY <2>1, <1>1, <1>3
  <1> QED BY <1>2, <1>1, <1>3, <1>4, <1>5 DEF Hi, Bytes

\* ... and put together from two.
LEMMA ByteJoin ==
    ASSUME NEW h \in Bytes, NEW l \in Bytes
    PROVE  Join(h, l) \in Counts
  <1>1. BYTE \in Nat /\ BYTE > 0 /\ h \in Nat /\ l \in Nat /\ h <= BYTE - 1 /\ l <= BYTE - 1
    BY TimersAssumption DEF Bytes
  <1>2. h * BYTE <= (BYTE - 1) * BYTE /\ h * BYTE >= 0 /\ h * BYTE \in Int
    BY <1>1, Z3
  <1>3. (BYTE - 1) * BYTE = BYTE * BYTE - BYTE /\ BYTE * BYTE \in Int
    BY <1>1, Z3
  <1> QED BY <1>1, <1>2, <1>3 DEF Join, Counts

\* Counting wraps at zero only.
LEMMA CountDown ==
    ASSUME NEW n \in Counts
    PROVE  Down(n) \in Counts /\ (n # 0 => Down(n) = n - 1)
  <1> DEFINE M == BYTE * BYTE
  <1>1. M \in Nat /\ M > 0
    BY TimersAssumption, Z3
  <1>2. n \in 0..(M - 1)
    BY DEF Counts
  <1> HIDE DEF M
  <1>3. (n - 1) % M \in 0..(M - 1) /\ (n # 0 => (n - 1) % M = n - 1)
    BY <1>1, <1>2
  <1> QED BY <1>3 DEF Down, Counts, M

-----------------------------------------------------------------------------
(* What a clock's access may be *)

AccessOK(a) ==
    /\ a.op = "none" \/ falling
    /\ \A r \in {"T1CL", "T1CH", "T1LL", "T1LH", "T2CL", "T2CH"} : writes(a, r) => a.val \in Bytes
    /\ writes(a, "ACR") => a.val \in [freerun : BOOLEAN, count_mode : BOOLEAN]
    /\ writes(a, "PCR") =>
          a.val \in [ca1_rising : BOOLEAN, ca2_rising : BOOLEAN, ca2_no_irq_clr : BOOLEAN]
    /\ writes(a, "IER") => a.val.bits \subseteq Flags

\* The guest's part of the invariant.
CpuType == cpu.at \in {"run", "handler"} /\ cpu.guest \in DOMAIN Guests /\ cpu.wants \subseteq Flags

\* Timer A's registers stay in their types.
LEMMA TimerAType ==
    ASSUME NEW v \in ViaType, NEW a, NEW f \in BOOLEAN,
           \A r \in {"T1CL", "T1CH", "T1LL", "T1LH"} : writes(a, r) => a.val \in Bytes
    PROVE  /\ TimerA(v, f, a) \in [latch : Counts, count : Counts, reload : BOOLEAN, may_interrupt : BOOLEAN]
           /\ AReload(v, a) \in Counts
           /\ writes(a, "T1CH") => Join(a.val, Lo(v.a.latch)) \in Counts
  <1>1. v.a.latch \in Counts /\ v.a.count \in Counts /\ v.a.reload \in BOOLEAN
        /\ v.a.may_interrupt \in BOOLEAN /\ v.acr.freerun \in BOOLEAN
    BY DEF ViaType
  <1>2. Lo(v.a.latch) \in Bytes /\ Hi(v.a.latch) \in Bytes
    BY <1>1, ByteSplit
  <1>3. \A b \in Bytes : Join(b, Lo(v.a.latch)) \in Counts /\ Join(Hi(v.a.latch), b) \in Counts
    BY <1>2, ByteJoin
  <1>4. Down(v.a.count) \in Counts
    BY <1>1, CountDown
  <1>5. ALatch(v, a) \in Counts /\ AReload(v, a) \in Counts
    BY <1>1, <1>3 DEF ALatch, AReload
  <1>6. ASSUME writes(a, "T1CH") PROVE Join(a.val, Lo(v.a.latch)) \in Counts
    BY <1>6, <1>3
  <1>7. ACount(v, f, a) \in Counts
    BY <1>1, <1>4, <1>5, <1>6 DEF ACount
  <1>8. TimerA(v, f, a).reload \in BOOLEAN /\ TimerA(v, f, a).may_interrupt \in BOOLEAN
    BY <1>1 DEF TimerA, writes
  <1> QED BY <1>5, <1>6, <1>7, <1>8 DEF TimerA

\* And timer B's.
LEMMA TimerBType ==
    ASSUME NEW v \in ViaType, NEW a, NEW f \in BOOLEAN,
           \A r \in {"T2CL", "T2CH"} : writes(a, r) => a.val \in Bytes
    PROVE  /\ TimerB(v, f, a) \in [latch : Bytes, count : Counts, oneshot_trig : BOOLEAN, timeout : BOOLEAN]
           /\ writes(a, "T2CH") => Join(a.val, v.b.latch) \in Counts
  <1>1. v.b.latch \in Bytes /\ v.b.count \in Counts /\ v.b.oneshot_trig \in BOOLEAN
        /\ v.acr.count_mode \in BOOLEAN /\ v.b.timeout \in BOOLEAN
    BY DEF ViaType
  <1>2. ASSUME writes(a, "T2CH") PROVE Join(a.val, v.b.latch) \in Counts
    BY <1>1, <1>2, ByteJoin
  <1>3. Down(v.b.count) \in Counts
    BY <1>1, CountDown
  <1>4. BCount(v, f, a) \in Counts
    BY <1>1, <1>2, <1>3 DEF BCount
  <1>5. (IF writes(a, "T2CL") THEN a.val ELSE v.b.latch) \in Bytes
    BY <1>1
  <1>6. TimerB(v, f, a).oneshot_trig \in BOOLEAN /\ TimerB(v, f, a).timeout \in BOOLEAN
    BY <1>1 DEF TimerB, writes, Expires, Decrements
  <1> QED BY <1>2, <1>4, <1>5, <1>6 DEF TimerB

\* One clock of the VIA.
LEMMA ViaTypeStep ==
    ASSUME via \in ViaType, NEW a, AccessOK(a), NEW lines \in [ca1 : BOOLEAN, ca2 : BOOLEAN]
    PROVE  ViaCycle(via, falling, a, lines) \in ViaType
  <1>0. falling \in BOOLEAN
    BY DEF falling
  <1>1. TimerA(via, falling, a) \in [latch : Counts, count : Counts, reload : BOOLEAN, may_interrupt : BOOLEAN]
    BY <1>0, TimerAType DEF AccessOK
  <1>2. TimerB(via, falling, a) \in [latch : Bytes, count : Counts, oneshot_trig : BOOLEAN, timeout : BOOLEAN]
    BY <1>0, TimerBType DEF AccessOK
  <1>3. via.irq_flags \subseteq Flags /\ via.irq_mask \subseteq Flags
    BY DEF ViaType
  <1>4. NextFlags(via, falling, a) \subseteq Flags
    BY <1>3 DEF NextFlags, irq_events
  <1>5. NextMask(via, a) \subseteq Flags
    BY <1>3 DEF NextMask, AccessOK
  <1>6. /\ (IF writes(a, "ACR") THEN a.val ELSE via.acr) \in [freerun : BOOLEAN, count_mode : BOOLEAN]
        /\ (IF writes(a, "PCR") THEN a.val ELSE via.pcr)
             \in [ca1_rising : BOOLEAN, ca2_rising : BOOLEAN, ca2_no_irq_clr : BOOLEAN]
    BY DEF ViaType, AccessOK
  <1>7. lines.ca1 \in BOOLEAN /\ lines.ca2 \in BOOLEAN /\ via.ca1_c \in BOOLEAN /\ via.ca2_c \in BOOLEAN
    BY DEF ViaType
  <1> QED BY <1>1, <1>2, <1>4, <1>5, <1>6, <1>7 DEF ViaCycle, ViaType

\* Every step is a clock with an access of these.
LEMMA StepShape ==
    ASSUME Next, CpuType
    PROVE  (\E a : AccessOK(a) /\ Clock(a)) /\ CpuType'
  <1>1. CASE Program
    <2>1. PICK a \in Accesses : Clock(a)
      BY <1>1, GuestsAssumption DEF Program, guest, CpuType
    <2>2. AccessOK(a)
      BY <1>1, <2>1 DEF Program, AccessOK, Accesses, writes
    <2> QED BY <1>1, <2>1, <2>2 DEF Program, CpuType
  <1>2. CASE Enable
    <2>1. PICK f \in Flags :
            /\ Clock([op |-> "write", addr |-> "IER", val |-> [set |-> TRUE, bits |-> {f}]])
            /\ cpu' = [cpu EXCEPT !.wants = @ \cup {f}]
      BY <1>2, GuestsAssumption DEF Enable, guest, CpuType
    <2>2. AccessOK([op |-> "write", addr |-> "IER", val |-> [set |-> TRUE, bits |-> {f}]])
      BY <1>2 DEF Enable, AccessOK, writes
    <2>3. CpuType'
      BY <2>1 DEF CpuType
    <2> QED BY <2>1, <2>2, <2>3
  <1>3. CASE Disable
    <2>1. PICK f \in Flags :
            /\ Clock([op |-> "write", addr |-> "IER", val |-> [set |-> FALSE, bits |-> {f}]])
            /\ cpu' = [cpu EXCEPT !.wants = @ \ {f}]
      BY <1>3 DEF Disable, CpuType
    <2>2. AccessOK([op |-> "write", addr |-> "IER", val |-> [set |-> FALSE, bits |-> {f}]])
      BY <1>3 DEF Disable, AccessOK, writes
    <2>3. CpuType'
      BY <2>1 DEF CpuType
    <2> QED BY <2>1, <2>2, <2>3
  <1>4. CASE TakeIrq
    <2>1. AccessOK([op |-> "read", addr |-> "IFR", val |-> 0])
      BY <1>4 DEF TakeIrq, AccessOK, writes
    <2>2. CpuType'
      BY <1>4 DEF TakeIrq, CpuType
    <2> QED BY <1>4, <2>1, <2>2 DEF TakeIrq
  <1>5. CASE Acknowledge
    <2>1. AccessOK([op |-> "write", addr |-> "IFR", val |-> cpu.seen])
      BY <1>5 DEF Acknowledge, AccessOK, writes
    <2>2. CpuType'
      BY <1>5 DEF Acknowledge, CpuType
    <2> QED BY <1>5, <2>1, <2>2 DEF Acknowledge
  <1>6. CASE Quiet
    BY <1>6 DEF Quiet, NoAccess, AccessOK, writes, CpuType
  <1> QED BY <1>1, <1>2, <1>3, <1>4, <1>5, <1>6 DEF Next

-----------------------------------------------------------------------------
(* The inductive invariant *)

TickType ==
    tick \in [div : 0..(TICK_HALF - 1), hz : BOOLEAN, hz_d : BOOLEAN, count : 0..(SECOND - 1)]

HistType ==
    hist \in [dueA : Int, dueB : Int, dueS : Int, stale : BOOLEAN, owed : SUBSET Flags]

\* Timer A is due when its registers say so: it counts to zero, waits a tick for its
\* reload, and raises the event in that one.
DueAFits ==
    hist.dueA = IF ~via.a.may_interrupt THEN None
                ELSE IF via.a.reload THEN 1 ELSE via.a.count + 2

\* Timer B, whose timeout may outlive the shot it belongs to.
DueBFits ==
    /\ hist.dueB = IF via.b.oneshot_trig THEN via.b.count + 2
                   ELSE IF via.b.timeout THEN 1 ELSE None
    /\ hist.stale <=> (via.b.oneshot_trig /\ via.b.timeout)

\* The clocks of a 60 Hz period, to the next step of the count, and to its wrap, which
\* ends the second.
Full == 2 * TICK_HALF

ToStep ==
    IF ~tick.hz THEN TICK_HALF - tick.div + 1
    ELSE IF tick.hz_d THEN Full - tick.div + 1 ELSE 1

Rest(c) == (SECOND - 1 - c) * Full

ToWrap == ToStep + Rest(tick.count)

\* What the line was one and two clocks ago, when the wrap was one and two further.
LineFits ==
    /\ tick.hz => (tick.hz_d <=> tick.div # 0)
    /\ via.ca2_c <=> ToWrap = Period \/ ToWrap <= Full - 1
    /\ via.ca2_d <=> ToWrap = Period \/ ToWrap = Period - 1 \/ ToWrap <= Full - 2

\* The distance to the wrap in the clock of the interrupt, and the clocks to it.
EventAt(rising) == IF rising THEN Full - 1 ELSE Period - 1

ClocksTo(n, at) == IF n >= at THEN n - at + 1 ELSE n - at + 1 + Period

DueSFits ==
    hist.dueS # None => hist.dueS = ClocksTo(ToWrap, EventAt(via.pcr.ca2_rising))

IInv ==
    /\ via \in ViaType /\ ediv \in 0..(E - 1) /\ TickType /\ CpuType /\ HistType
    /\ DueAFits /\ DueBFits /\ LineFits /\ DueSFits

\* Timer A's part is kept by a clock.
LEMMA DueAStep ==
    ASSUME IInv, NEW a, AccessOK(a), Clock(a)
    PROVE  DueAFits' /\ hist'.dueA \in Int
  <1>1. via.a.latch \in Counts /\ via.a.count \in Counts /\ via.a.reload \in BOOLEAN
        /\ via.a.may_interrupt \in BOOLEAN /\ via.acr.freerun \in BOOLEAN
    BY DEF IInv, ViaType
  <1>2. via.a.count \in Nat /\ \A n \in Counts : n \in Nat
    BY <1>1 DEF Counts
  <1>3. Down(via.a.count) \in Counts /\ (via.a.count # 0 => Down(via.a.count) = via.a.count - 1)
    BY <1>1, CountDown
  <1>4. /\ AReload(via, a) \in Counts
        /\ writes(a, "T1CH") => Join(a.val, Lo(via.a.latch)) \in Counts
    BY TimerAType DEF AccessOK, IInv, falling
  <1>5. via'.a = TimerA(via, falling, a) /\ hist'.dueA = DueA(a)
    BY DEF Clock, ViaCycle, History
  <1>a. via'.a.count = ACount(via, falling, a)
    BY <1>5 DEF TimerA
  <1>r. via'.a.reload <=> /\ ~writes(a, "T1CH")
                         /\ IF falling THEN ~via.a.reload /\ via.a.count = 0 ELSE via.a.reload
    BY <1>1, <1>5 DEF TimerA
  <1>m. via'.a.may_interrupt <=>
            writes(a, "T1CH")
              \/ (via.a.may_interrupt /\ (falling /\ via.a.reload => via.acr.freerun))
    <2>1. via'.a.may_interrupt =
            (writes(a, "T1CH")
              \/ (via.a.may_interrupt /\ (falling /\ via.a.reload => via.acr.freerun)))
      BY <1>5 DEF TimerA
    <2> QED BY <2>1
  <1>d. hist.dueA = IF ~via.a.may_interrupt THEN None
                    ELSE IF via.a.reload THEN 1 ELSE via.a.count + 2
    BY DEF IInv, DueAFits
  <1>6. writes(a, "T1CH") => falling
    BY DEF AccessOK, writes
  <1>7. CASE writes(a, "T1CH")
    <2>1. via'.a.count = Join(a.val, Lo(via.a.latch)) /\ via'.a.may_interrupt /\ ~via'.a.reload
      BY <1>a, <1>r, <1>m, <1>7 DEF ACount
    <2>2. hist'.dueA = via'.a.count + 2
      BY <2>1, <1>5, <1>7 DEF DueA, Interval
    <2> QED BY <1>2, <1>4, <1>7, <2>1, <2>2 DEF DueAFits
  <1>8. CASE ~writes(a, "T1CH") /\ ~falling
    <2>1. via'.a.count = via.a.count /\ (via'.a.may_interrupt <=> via.a.may_interrupt)
          /\ (via'.a.reload <=> via.a.reload)
      BY <1>a, <1>r, <1>m, <1>8 DEF ACount
    <2>2. hist'.dueA = hist.dueA
      BY <1>5, <1>8 DEF DueA
    <2> QED BY <1>2, <1>d, <2>1, <2>2 DEF DueAFits, None
  <1>9. CASE ~writes(a, "T1CH") /\ falling
    <2>1. CASE ~via.a.may_interrupt
      <3>1. ~via'.a.may_interrupt
        BY <1>m, <1>9, <2>1
      <3>2. hist'.dueA = None
        BY <1>5, <1>9, <1>d, <2>1 DEF DueA
      <3> QED BY <3>1, <3>2 DEF DueAFits, None
    <2>2. CASE via.a.may_interrupt /\ via.a.reload
      <3>1. ~via'.a.reload /\ via'.a.count = AReload(via, a)
            /\ (via'.a.may_interrupt <=> via.acr.freerun)
        BY <1>a, <1>r, <1>m, <1>9, <2>2 DEF ACount
      <3>2. hist'.dueA = IF via.acr.freerun THEN AReload(via, a) + 2 ELSE None
        BY <1>5, <1>9, <1>d, <2>2 DEF DueA, None, Interval
      <3> QED BY <1>2, <1>4, <3>1, <3>2 DEF DueAFits, None
    <2>3. CASE via.a.may_interrupt /\ ~via.a.reload
      <3>1. (via'.a.reload <=> via.a.count = 0) /\ via'.a.may_interrupt
            /\ via'.a.count = Down(via.a.count)
        BY <1>a, <1>r, <1>m, <1>9, <2>3 DEF ACount
      <3>2. hist'.dueA = via.a.count + 1
        BY <1>2, <1>5, <1>9, <1>d, <2>3 DEF DueA, None
      <3> QED BY <1>2, <1>3, <3>1, <3>2 DEF DueAFits, None
    <2> QED BY <1>1, <2>1, <2>2, <2>3
  <1> QED BY <1>7, <1>8, <1>9

\* Timer B's part is kept by a clock.
LEMMA DueBStep ==
    ASSUME IInv, NEW a, AccessOK(a), Clock(a)
    PROVE  DueBFits' /\ hist'.dueB \in Int /\ hist'.stale \in BOOLEAN
  <1>1. via.b.count \in Counts /\ via.b.oneshot_trig \in BOOLEAN
        /\ via.b.timeout \in BOOLEAN /\ via.acr.count_mode \in BOOLEAN /\ hist.stale \in BOOLEAN
    BY DEF IInv, ViaType, HistType
  <1>2. via.b.count \in Nat /\ \A n \in Counts : n \in Nat
    BY <1>1 DEF Counts
  <1>3. Down(via.b.count) \in Counts /\ (via.b.count # 0 => Down(via.b.count) = via.b.count - 1)
    BY <1>1, CountDown
  <1>4. writes(a, "T2CH") => Join(a.val, via.b.latch) \in Counts
    BY TimerBType DEF AccessOK, IInv, falling
  <1>5. /\ via'.b = TimerB(via, falling, a) /\ hist'.dueB = DueB(a)
        /\ hist'.stale = IF writes(a, "T2CH") THEN hist.dueB = 2 /\ ~via.acr.count_mode
                         ELSE hist.stale /\ ~falling
    BY DEF Clock, ViaCycle, History
  <1>c. via'.b.count = BCount(via, falling, a)
    BY <1>5 DEF TimerB
  <1>t. via'.b.oneshot_trig <=>
            (via.b.oneshot_trig /\ ~Expires(via, falling)) \/ writes(a, "T2CH")
    <2>1. via'.b.oneshot_trig =
            ((via.b.oneshot_trig /\ ~Expires(via, falling)) \/ writes(a, "T2CH"))
      BY <1>5 DEF TimerB
    <2> QED BY <2>1
  <1>o. via'.b.timeout <=> IF falling THEN Expires(via, falling) ELSE via.b.timeout
    BY <1>1, <1>5 DEF TimerB
  <1>d. /\ hist.dueB = IF via.b.oneshot_trig THEN via.b.count + 2
                       ELSE IF via.b.timeout THEN 1 ELSE None
        /\ hist.stale <=> (via.b.oneshot_trig /\ via.b.timeout)
    BY DEF IInv, DueBFits
  <1>s. hist'.stale \in BOOLEAN
    BY <1>1, <1>5
  <1>6. writes(a, "T2CH") => falling
    BY DEF AccessOK, writes
  <1>7. CASE writes(a, "T2CH")
    <2>1. via'.b.count = Join(a.val, via.b.latch) /\ via'.b.oneshot_trig
      BY <1>c, <1>t, <1>7 DEF BCount
    <2>2. hist'.dueB = via'.b.count + 2
      BY <2>1, <1>5, <1>7 DEF DueB, Interval
    <2>3. hist.dueB = 2 <=> via.b.oneshot_trig /\ via.b.count = 0
      BY <1>2, <1>d DEF None
    <2>4. hist'.stale <=> via'.b.timeout
      BY <1>1, <1>5, <1>6, <1>7, <1>o, <2>3 DEF Expires, Decrements
    <2> QED BY <1>2, <1>4, <1>7, <1>s, <2>1, <2>2, <2>4 DEF DueBFits
  <1>8. CASE ~writes(a, "T2CH") /\ ~falling
    <2>1. via'.b.count = via.b.count /\ (via'.b.oneshot_trig <=> via.b.oneshot_trig)
          /\ (via'.b.timeout <=> via.b.timeout)
      BY <1>c, <1>t, <1>o, <1>8 DEF BCount, Expires, Decrements
    <2>2. hist'.dueB = hist.dueB /\ (hist'.stale <=> hist.stale)
      BY <1>5, <1>8 DEF DueB
    <2> QED BY <1>2, <1>d, <1>s, <2>1, <2>2 DEF DueBFits, None
  <1>9. CASE ~writes(a, "T2CH") /\ falling
    <2>0. ~hist'.stale
      BY <1>5, <1>9
    <2>1. CASE via.b.oneshot_trig /\ via.acr.count_mode
      <3>1. via'.b.count = via.b.count /\ via'.b.oneshot_trig /\ ~via'.b.timeout
        BY <1>c, <1>t, <1>o, <1>9, <2>1 DEF BCount, Expires, Decrements
      <3>2. hist'.dueB = via.b.count + 2
        BY <1>2, <1>5, <1>9, <1>d, <2>1 DEF DueB, None
      <3> QED BY <1>2, <1>s, <2>0, <3>1, <3>2 DEF DueBFits
    <2>2. CASE via.b.oneshot_trig /\ ~via.acr.count_mode
      <3>1. /\ via'.b.count = Down(via.b.count)
            /\ via'.b.oneshot_trig <=> via.b.count # 0
            /\ via'.b.timeout <=> via.b.count = 0
        BY <1>c, <1>t, <1>o, <1>9, <2>2 DEF BCount, Expires, Decrements
      <3>2. hist'.dueB = via.b.count + 1
        BY <1>2, <1>5, <1>9, <1>d, <2>2 DEF DueB, None
      <3> QED BY <1>2, <1>3, <1>s, <2>0, <3>1, <3>2 DEF DueBFits
    <2>3. CASE ~via.b.oneshot_trig
      <3>1. ~via'.b.oneshot_trig /\ ~via'.b.timeout
        BY <1>t, <1>o, <1>9, <2>3 DEF Expires
      <3>2. hist'.dueB = None
        BY <1>5, <1>9, <1>d, <2>3 DEF DueB, None
      <3> QED BY <1>s, <2>0, <3>1, <3>2 DEF DueBFits, None
    <2> QED BY <1>1, <2>1, <2>2, <2>3
  <1> QED BY <1>7, <1>8, <1>9

-----------------------------------------------------------------------------
(* The second *)

\* What is known of the lengths: the count steps once in a 60 Hz period.
LEMMA Lengths ==
    /\ TICK_HALF \in Int /\ TICK_HALF > 2 /\ SECOND \in Int /\ SECOND > 1
    /\ Full \in Int /\ Full = 2 * TICK_HALF
    /\ Period \in Int /\ Period >= 2 * Full
    /\ Rest(SECOND - 1) = 0 /\ Period = Rest(0) + Full
    /\ \A c \in 0..(SECOND - 1) : Rest(c) \in Int /\ Rest(c) >= 0 /\ Rest(c) + Full <= Period
    /\ \A c \in 0..(SECOND - 1) : c # SECOND - 1 => Rest(c) = Rest(c + 1) + Full
<1>1. TICK_HALF \in Int /\ TICK_HALF > 2 /\ SECOND \in Int /\ SECOND > 1
  BY SystemAssumption
<1>2. Full \in Int /\ Full = 2 * TICK_HALF /\ Full > 0
  BY <1>1 DEF Full
<1>3. PICK h \in Int : h = Full
  BY <1>2
<1>4. \A c \in Int : Rest(c) = (SECOND - 1 - c) * h
  BY <1>3 DEF Rest
<1>5. Period = SECOND * h
  BY <1>3 DEF Period, Full
<1>6. h > 0
  BY <1>2, <1>3
<1>7. SECOND * h \in Int /\ SECOND * h >= 2 * h /\ (SECOND - 1 - 0) * h + h = SECOND * h
      /\ (SECOND - 1 - (SECOND - 1)) * h = 0
  BY <1>1, <1>6, Z3
<1>8. \A c \in 0..(SECOND - 1) :
         /\ (SECOND - 1 - c) * h \in Int /\ (SECOND - 1 - c) * h >= 0
         /\ (SECOND - 1 - c) * h + h <= SECOND * h
         /\ (SECOND - 1 - c) * h = (SECOND - 1 - (c + 1)) * h + h
  BY <1>1, <1>6, Z3
<1>9. QED
  BY <1>1, <1>2, <1>3, <1>4, <1>5, <1>7, <1>8

LEMMA WrapRange ==
    ASSUME IInv
    PROVE  ToWrap \in 1..Period
<1>1. PICK d, c, z, y : d = tick.div /\ c = tick.count /\ z = tick.hz /\ y = tick.hz_d
  OBVIOUS
<1>2. /\ d \in 0..(TICK_HALF - 1) /\ c \in 0..(SECOND - 1) /\ z \in BOOLEAN /\ y \in BOOLEAN
      /\ z => (y <=> d # 0)
  BY <1>1 DEF IInv, TickType, LineFits
<1>3. PICK s : s = ToStep
  OBVIOUS
<1>4. s = IF ~z THEN TICK_HALF - d + 1 ELSE IF y THEN Full - d + 1 ELSE 1
  BY <1>1, <1>3 DEF ToStep
<1>5. s \in 1..Full
  BY <1>2, <1>4, Lengths
<1>6. ToWrap = s + Rest(c)
  BY <1>1, <1>3 DEF ToWrap
<1>7. Rest(c) \in Int /\ Rest(c) >= 0 /\ Rest(c) + Full <= Period /\ Full \in Int /\ Period \in Int
  BY <1>2, Lengths
<1>8. QED
  BY <1>5, <1>6, <1>7

\* The wrap comes a clock nearer in every clock, and the line is up in the last period.
LEMMA WrapStep ==
    ASSUME IInv, NEW a, Clock(a)
    PROVE  /\ ToWrap \in 1..Period
           /\ ToWrap' = IF ToWrap = 1 THEN Period ELSE ToWrap - 1
           /\ onesec <=> ToWrap <= Full
           /\ (tick.hz => (tick.hz_d <=> tick.div # 0))'
<1>1. PICK d, c, z, y : d = tick.div /\ c = tick.count /\ z = tick.hz /\ y = tick.hz_d
  OBVIOUS
<1>2. /\ d \in 0..(TICK_HALF - 1) /\ c \in 0..(SECOND - 1) /\ z \in BOOLEAN /\ y \in BOOLEAN
      /\ z => (y <=> d # 0)
  BY <1>1 DEF IInv, TickType, LineFits
<1>3. /\ tick'.div = IF d = TICK_HALF - 1 THEN 0 ELSE d + 1
      /\ tick'.hz = IF d = TICK_HALF - 1 THEN ~z ELSE z
      /\ tick'.hz_d = z
      /\ tick'.count = IF z /\ ~y THEN IF c = SECOND - 1 THEN 0 ELSE c + 1 ELSE c
  BY <1>1 DEF Clock, TickCycle, onesec
<1>4. PICK s : s = ToStep
  OBVIOUS
<1>5. PICK s2 : s2 = ToStep'
  OBVIOUS
<1>6. s = IF ~z THEN TICK_HALF - d + 1 ELSE IF y THEN Full - d + 1 ELSE 1
  BY <1>1, <1>4 DEF ToStep
<1>7. s2 = IF ~tick'.hz THEN TICK_HALF - tick'.div + 1
           ELSE IF tick'.hz_d THEN Full - tick'.div + 1 ELSE 1
  BY <1>5 DEF ToStep, Full
<1>8. s \in 1..Full /\ (s = 1 <=> z /\ ~y)
  BY <1>2, <1>6, Lengths
<1>9. s2 = IF s = 1 THEN Full ELSE s - 1
  <2>1. CASE z /\ ~y
    BY <1>2, <1>3, <1>6, <1>7, <2>1, Lengths
  <2>2. CASE z /\ y /\ d = TICK_HALF - 1
    <3>1. ~tick'.hz /\ tick'.div = 0
      BY <1>3, <2>2
    <3>2. QED
      BY <1>2, <1>6, <1>7, <2>2, <3>1, Lengths
  <2>3. CASE z /\ y /\ d # TICK_HALF - 1
    <3>1. tick'.hz /\ tick'.hz_d /\ tick'.div = d + 1
      BY <1>3, <2>3
    <3>2. QED
      BY <1>2, <1>6, <1>7, <2>3, <3>1, Lengths
  <2>4. CASE ~z /\ d = TICK_HALF - 1
    <3>1. tick'.hz /\ ~tick'.hz_d
      BY <1>3, <2>4
    <3>2. QED
      BY <1>2, <1>6, <1>7, <2>4, <3>1, Lengths
  <2>5. CASE ~z /\ d # TICK_HALF - 1
    <3>1. ~tick'.hz /\ tick'.div = d + 1
      BY <1>3, <2>5
    <3>2. QED
      BY <1>2, <1>6, <1>7, <2>5, <3>1, Lengths
  <2>6. QED
    BY <1>2, <2>1, <2>2, <2>3, <2>4, <2>5
<1>10. ToWrap = s + Rest(c)
  BY <1>1, <1>4 DEF ToWrap
<1>11. ToWrap' = s2 + Rest(tick'.count)
  BY <1>5 DEF ToWrap, Rest, Full
<1>12. tick'.count = IF s = 1 THEN IF c = SECOND - 1 THEN 0 ELSE c + 1 ELSE c
  BY <1>3, <1>8
<1>13. Rest(c) \in Int /\ Rest(c) >= 0 /\ Rest(c) + Full <= Period /\ Rest(0) + Full = Period
       /\ (c = SECOND - 1 => Rest(c) = 0)
       /\ (c # SECOND - 1 => Rest(c) = Rest(c + 1) + Full /\ Rest(c + 1) \in Int /\ Rest(c + 1) >= 0)
       /\ Full \in Int /\ Full > 0 /\ Period \in Int
  <2>1. c # SECOND - 1 => c + 1 \in 0..(SECOND - 1)
    BY <1>2, Lengths
  <2>2. QED
    BY <1>2, <2>1, Lengths
<1>14. ToWrap \in 1..Period
  BY WrapRange
<1>15. ToWrap' = IF ToWrap = 1 THEN Period ELSE ToWrap - 1
  <2>1. CASE s # 1
    BY <1>8, <1>9, <1>10, <1>11, <1>12, <1>13, <2>1
  <2>2. CASE s = 1 /\ c = SECOND - 1
    <3>1. ToWrap = 1
      BY <1>10, <1>13, <2>2
    <3>2. ToWrap' = Full + Rest(0)
      BY <1>9, <1>11, <1>12, <2>2
    <3>3. Full + Rest(0) = Period
      BY <1>13, <2>2, Lengths
    <3>4. QED
      BY <3>1, <3>2, <3>3
  <2>3. CASE s = 1 /\ c # SECOND - 1
    <3>1. ToWrap' = Full + Rest(c + 1)
      BY <1>9, <1>11, <1>12, <2>3
    <3>2. QED
      BY <1>10, <1>13, <2>3, <3>1
  <2>4. QED
    BY <2>1, <2>2, <2>3
<1>16. onesec <=> ToWrap <= Full
  <2>1. onesec <=> c = SECOND - 1
    BY <1>1 DEF onesec
  <2>2. QED
    BY <1>8, <1>10, <1>13, <2>1
<1>17. (tick.hz => (tick.hz_d <=> tick.div # 0))'
  <2>1. CASE d = TICK_HALF - 1
    <3>1. tick'.div = 0 /\ (tick'.hz <=> ~z) /\ (tick'.hz_d <=> z)
      BY <1>2, <1>3, <2>1
    <3>2. QED
      BY <3>1
  <2>2. CASE d # TICK_HALF - 1
    <3>1. tick'.div = d + 1 /\ (tick'.hz <=> z) /\ (tick'.hz_d <=> z)
      BY <1>2, <1>3, <2>2
    <3>2. tick'.div # 0
      BY <1>2, <3>1
    <3>3. QED
      BY <3>1, <3>2
  <2>3. QED
    BY <2>1, <2>2
<1>18. QED
  BY <1>14, <1>15, <1>16, <1>17

\* The interrupt comes in the clock that its distance to the wrap says.
LEMMA EventIs ==
    ASSUME IInv, ToWrap \in 1..Period
    PROVE  second_event <=> ToWrap = EventAt(via.pcr.ca2_rising)
<1>1. /\ via.ca2_c \in BOOLEAN /\ via.ca2_d \in BOOLEAN /\ via.pcr.ca2_rising \in BOOLEAN
  BY DEF IInv, ViaType
<1>2. PICK n \in 1..Period : n = ToWrap
  OBVIOUS
<1>3. /\ via.ca2_c <=> n = Period \/ n <= Full - 1
      /\ via.ca2_d <=> n = Period \/ n = Period - 1 \/ n <= Full - 2
  BY <1>2 DEF IInv, LineFits
<1>4. CASE via.pcr.ca2_rising
  <2>1. second_event <=> via.ca2_c /\ ~via.ca2_d
    BY <1>1, <1>4 DEF second_event, EdgeOf
  <2>2. QED
    BY <1>2, <1>3, <1>4, <2>1, Lengths DEF EventAt
<1>5. CASE ~via.pcr.ca2_rising
  <2>1. second_event <=> ~via.ca2_c /\ via.ca2_d
    BY <1>1, <1>5 DEF second_event, EdgeOf
  <2>2. QED
    BY <1>2, <1>3, <1>5, <2>1, Lengths DEF EventAt
<1>6. QED
  BY <1>4, <1>5

\* The line's two samples and the clocks to the next second are kept by a clock.
LEMMA SecondStep ==
    ASSUME IInv, NEW a, AccessOK(a), Clock(a)
    PROVE  LineFits' /\ DueSFits' /\ hist'.dueS \in Int
<1>1. PICK n \in 1..Period : n = ToWrap
  BY WrapStep
<1>2. PICK m : m = ToWrap'
  OBVIOUS
<1>3. m = (IF n = 1 THEN Period ELSE n - 1) /\ (onesec <=> n <= Full)
  BY <1>1, <1>2, WrapStep
<1>4. m \in 1..Period
  BY <1>1, <1>3, Lengths
<1>5. via'.ca2_c = onesec /\ via'.ca2_d = via.ca2_c
  BY DEF Clock, ViaCycle
<1>6. via.ca2_c <=> n = Period \/ n <= Full - 1
  BY <1>1 DEF IInv, LineFits
<1>7. LineFits'
  <2>1. via'.ca2_c <=> m = Period \/ m <= Full - 1
    <3>1. n <= Full <=> (m = Period \/ m <= Full - 1)
      BY <1>1, <1>3, Lengths
    <3>2. QED
      BY <1>3, <1>5, <3>1
  <2>2. via'.ca2_d <=> m = Period \/ m = Period - 1 \/ m <= Full - 2
    <3>1. (n = Period \/ n <= Full - 1) <=> (m = Period \/ m = Period - 1 \/ m <= Full - 2)
      BY <1>1, <1>3, Lengths
    <3>2. QED
      BY <1>5, <1>6, <3>1
  <2>3. Period' = Period /\ Full' = Full
    BY DEF Period, Full
  <2>4. QED
    BY <1>2, <2>1, <2>2, <2>3, WrapStep DEF LineFits
<1>8. hist'.dueS = DueS(a)
  BY DEF Clock, History
<1>9. via'.pcr = IF writes(a, "PCR") THEN a.val ELSE via.pcr
  BY DEF Clock, ViaCycle
<1>10. PICK at : at = EventAt(via.pcr.ca2_rising)
  OBVIOUS
<1>11. at \in Int /\ at > 1 /\ at <= Period
  BY <1>10, Lengths DEF EventAt
<1>12. second_event <=> n = at
  BY <1>1, <1>10, EventIs
<1>13. hist.dueS \in Int /\ (hist.dueS # None => hist.dueS = ClocksTo(n, at))
  BY <1>1, <1>10 DEF IInv, HistType, DueSFits
<1>14. CASE writes(a, "PCR") /\ a.val.ca2_rising # via.pcr.ca2_rising
  BY <1>7, <1>8, <1>14 DEF DueS, DueSFits, None
<1>15. CASE ~(writes(a, "PCR") /\ a.val.ca2_rising # via.pcr.ca2_rising)
  <2>1. via'.pcr.ca2_rising = via.pcr.ca2_rising
    BY <1>9, <1>15
  <2>2. DueSFits' <=> (hist'.dueS # None => hist'.dueS = ClocksTo(m, at))
    BY <1>2, <1>10, <2>1 DEF DueSFits, ClocksTo, EventAt, None, Period, Full
  <2>3. CASE n = at
    <3>1. hist'.dueS = Period
      BY <1>8, <1>12, <1>15, <2>3 DEF DueS
    <3>2. ClocksTo(m, at) = Period
      BY <1>1, <1>3, <1>11, <2>3, Lengths DEF ClocksTo
    <3>3. QED
      BY <1>7, <2>2, <3>1, <3>2, Lengths
  <2>4. CASE n # at /\ hist.dueS = None
    <3>1. hist'.dueS = None
      BY <1>8, <1>12, <1>15, <2>4 DEF DueS
    <3>2. QED
      BY <1>7, <2>2, <3>1 DEF None
  <2>5. CASE n # at /\ hist.dueS # None
    <3>1. hist'.dueS = hist.dueS - 1
      BY <1>8, <1>12, <1>15, <2>5 DEF DueS
    <3>2. ClocksTo(m, at) = ClocksTo(n, at) - 1
      BY <1>1, <1>3, <1>11, <2>5, Lengths DEF ClocksTo
    <3>3. QED
      BY <1>7, <1>13, <2>2, <2>5, <3>1, <3>2
  <2>6. QED
    BY <2>3, <2>4, <2>5
<1>16. QED
  BY <1>14, <1>15

-----------------------------------------------------------------------------
(* The invariant and what follows from it *)

\* The invariant holds at the start and is kept by every step.
THEOREM TimersInvariant == Spec => []IInv
  <1>1. Init => IInv
    <2> SUFFICES ASSUME Init PROVE IInv
      OBVIOUS
    <2>1. via \in ViaType
      <3>1. Lo(latch_reset_pattern) \in Bytes /\ latch_reset_pattern \in Counts
        BY TimersAssumption, ByteSplit DEF Counts
      <3> QED BY <3>1 DEF Init, ViaInit, ViaType, AcrReset, PcrReset
    <2>2. ediv \in 0..(E - 1) /\ TickType
      BY SystemAssumption DEF Init, TickType
    <2>3. CpuType
      BY DEF Init, CpuType
    <2>4. HistType
      BY Lengths DEF Init, HistType, None
    <2>5. DueAFits
      BY DEF Init, DueAFits, ViaInit
    <2>6. DueBFits
      BY DEF Init, DueBFits, ViaInit
    <2>7. ToWrap = Period - TICK_HALF + 1
      <3>1. ToStep = TICK_HALF + 1 /\ tick.count = 0
        BY Lengths DEF Init, ToStep
      <3>2. 0 \in 0..(SECOND - 1)
        BY Lengths
      <3>3. QED
        BY <3>1, <3>2, Lengths DEF ToWrap
    <2>8. LineFits
      BY <2>7, Lengths DEF Init, LineFits, ViaInit
    <2>9. DueSFits
      BY <2>7, Lengths DEF Init, DueSFits, ClocksTo, EventAt, ViaInit, PcrReset
    <2> QED BY <2>1, <2>2, <2>3, <2>4, <2>5, <2>6, <2>8, <2>9 DEF IInv
  <1>2. IInv /\ [Next]_vars => IInv'
    <2> SUFFICES ASSUME IInv, [Next]_vars PROVE IInv'
      OBVIOUS
    <2>1. CASE UNCHANGED vars
      BY <2>1 DEF vars, IInv, TickType, CpuType, HistType, DueAFits, DueBFits,
                  LineFits, DueSFits, ToWrap, ToStep, Rest, Full, ClocksTo, EventAt, Period, None
    <2>2. CASE Next
      <3>1. CpuType' /\ \E a : AccessOK(a) /\ Clock(a)
        BY <2>2, StepShape DEF IInv
      <3>2. PICK a : AccessOK(a) /\ Clock(a)
        BY <3>1
      <3>3. via' \in ViaType
        <4>1. [ca1 |-> tick.hz, ca2 |-> onesec] \in [ca1 : BOOLEAN, ca2 : BOOLEAN]
          BY DEF IInv, TickType, onesec
        <4> QED BY <3>2, <4>1, ViaTypeStep DEF IInv, Clock
      <3>4. ediv' \in 0..(E - 1)
        BY <3>2, SystemAssumption DEF Clock, IInv
      <3>5. TickType'
        <4>1. tick' = TickCycle
          BY <3>2 DEF Clock
        <4>2. tick.div \in 0..(TICK_HALF - 1) /\ tick.hz \in BOOLEAN /\ tick.hz_d \in BOOLEAN
              /\ tick.count \in 0..(SECOND - 1)
          BY DEF IInv, TickType
        <4>3. (IF tick.div = TICK_HALF - 1 THEN 0 ELSE tick.div + 1) \in 0..(TICK_HALF - 1)
          BY <4>2, SystemAssumption
        <4>4. (IF tick.hz /\ ~tick.hz_d THEN IF onesec THEN 0 ELSE tick.count + 1 ELSE tick.count)
                \in 0..(SECOND - 1)
          BY <4>2, SystemAssumption DEF onesec
        <4>5. (IF tick.div = TICK_HALF - 1 THEN ~tick.hz ELSE tick.hz) \in BOOLEAN
          BY <4>2
        <4> QED BY <4>1, <4>2, <4>3, <4>4, <4>5 DEF TickCycle, TickType
      <3>6. DueAFits' /\ DueBFits' /\ hist'.dueA \in Int /\ hist'.dueB \in Int /\ hist'.stale \in BOOLEAN
        BY <3>2, DueAStep, DueBStep
      <3>8. LineFits' /\ DueSFits' /\ hist'.dueS \in Int
        BY <3>2, SecondStep
      <3>7. HistType'
        <4>1. hist' = History(a)
          BY <3>2 DEF Clock
        <4>2. hist'.owed \subseteq Flags
          BY <4>1 DEF History, IInv, HistType, irq_events
        <4> QED BY <3>6, <3>8, <4>1, <4>2 DEF History, HistType
      <3> QED BY <3>1, <3>3, <3>4, <3>5, <3>6, <3>7, <3>8 DEF IInv
    <2> QED BY <2>1, <2>2
  <1> QED BY <1>1, <1>2, PTL DEF Spec

\* Every register stays in its type: a counter wraps, the divided clocks count to
\* their ends (via6522.sv:543-657, iosb.sv:122-141).
THEOREM TypeCorrect == Spec => []TypeOK
  <1>1. IInv => TypeOK
    BY DEF IInv, TypeOK, ViaType, TickType, CpuType, Bytes
  <1> QED BY <1>1, TimersInvariant, PTL

\* Timer A's event comes in exactly the ticks in which it is due, for every width of
\* the counter and every sequence of accesses.
THEOREM TimerACorrect == Spec => []TimerAExact
  <1>1. IInv => TimerAExact
    <2> SUFFICES ASSUME IInv PROVE TimerAExact
      OBVIOUS
    <2>1. via.a.count \in Nat /\ via.a.reload \in BOOLEAN /\ via.a.may_interrupt \in BOOLEAN
      BY DEF IInv, ViaType, Counts
    <2> QED BY <2>1 DEF IInv, DueAFits, TimerAExact, timer_a_event, None
  <1> QED BY <1>1, TimersInvariant, PTL

\* And timer B's, once for each start, but for the start in the tick of a timeout.
THEOREM TimerBCorrect == Spec => []TimerBExact
  <1>1. IInv => TimerBExact
    <2> SUFFICES ASSUME IInv PROVE TimerBExact
      OBVIOUS
    <2>1. via.b.count \in Nat /\ via.b.oneshot_trig \in BOOLEAN /\ via.b.timeout \in BOOLEAN
      BY DEF IInv, ViaType, Counts
    <2> QED BY <2>1 DEF IInv, DueBFits, TimerBExact, timer_b_event, None
  <1> QED BY <1>1, TimersInvariant, PTL

\* The one-second interrupt comes exactly every SECOND periods of the 60 Hz tick, for
\* every divider, either direction and every sequence of accesses.
THEOREM SecondCorrect == Spec => []SecondExact
  <1>1. IInv => SecondExact
    <2> SUFFICES ASSUME IInv, hist.dueS # None PROVE second_event <=> hist.dueS = 1
      BY DEF SecondExact
    <2>1. ToWrap \in 1..Period
      BY WrapRange
    <2>2. PICK n \in 1..Period : n = ToWrap
      BY <2>1
    <2>3. PICK at : at = EventAt(via.pcr.ca2_rising)
      OBVIOUS
    <2>4. at \in Int /\ at > 1 /\ at <= Period
      BY <2>3, Lengths DEF EventAt
    <2>5. hist.dueS = ClocksTo(n, at)
      BY <2>2, <2>3 DEF IInv, DueSFits
    <2>6. ClocksTo(n, at) = 1 <=> n = at
      BY <2>2, <2>4, Lengths DEF ClocksTo
    <2> QED BY <2>1, <2>2, <2>3, <2>5, <2>6, EventIs
  <1> QED BY <1>1, TimersInvariant, PTL
=============================================================================
