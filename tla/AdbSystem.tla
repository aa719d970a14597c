----------------------------- MODULE AdbSystem ------------------------------
(***************************************************************************)
(* VIA1's shift register, the shim and the ADB transceiver, on iosb.sv's    *)
(* clock: every step is one clk edge; E has 2 * E_HALF clocks and the       *)
(* transceiver's enable comes every ADB_DIV clocks.                         *)
(*                                                                          *)
(* External: the ADB driver of the guest, one VIA access per falling E edge *)
(* at most, and the platform's PS/2 events.  The driver follows the         *)
(* transactions that docs/adb-via-shift.md and docs/tools/instr_adb.py       *)
(* trace: command byte out, dummy read, a byte per data state, and back to  *)
(* IDLE, where it waits for the shim's completion.                           *)
(***************************************************************************)
EXTENDS Adb, SequencesExt, FiniteSetsExt

CONSTANTS
    E_HALF, ADB_DIV,
    Commands,       \* <<"cmd", type, addr, reg>>, with the operands of a Listen
    Operands,       \* command -> its two bytes
    Prompt,         \* falling edges of E the driver may let pass in a transaction
    StartsAnytime,  \* may start a command before the idle completion it waits for
    KeyKinds, MaxKeys, Packets, MaxPackets

ASSUME SystemAssumption ==
    /\ E_HALF \in Nat \ {0} /\ ADB_DIV \in Nat \ {0} /\ Prompt \in Nat
    /\ MaxKeys \in Nat /\ MaxPackets \in Nat
    /\ StartsAnytime \in BOOLEAN

VARIABLES
    ephase, adbdiv,   \* the two clock dividers
    via, shim, adb,
    drv,              \* the driver
    user              \* the PS/2 side, and what became of its events

vars == <<ephase, adbdiv, via, shim, adb, drv, user>>

e_rising == ephase = E_HALF - 1
e_falling == ephase = 2 * E_HALF - 1
adb_en == adbdiv = ADB_DIV - 1

-----------------------------------------------------------------------------
(* The driver: an instruction is an access; keep says what becomes of the   *)
(* value it reads.  Await is the read of the flags that sees the shift       *)
(* register's interrupt; the reads before it change nothing.                 *)

Wr(addr, val) == [op |-> "write", addr |-> addr, val |-> val, keep |-> ""]

Rd(addr, keep) == [op |-> "read", addr |-> addr, val |-> "", keep |-> keep]

Await == Rd("IFR", "")

SendCommand(c) == <<Wr("ACR", "out"), Wr("SR", c), Wr("ORB", "COMMAND"), Await>>

Heartbeat == <<Await, Rd("SR", "")>>

BackToIdle == <<Wr("ORB", "IDLE"), Wr("ACR", "in"), Rd("SR", "")>> \o Heartbeat

Program(c) ==
    SendCommand(c) \o
    CASE c[2] = "talk" ->
            <<Wr("ACR", "in"), Rd("SR", ""), Wr("ORB", "DATA1"), Await,
              Rd("SR", "byte"), Rd("ORB", "int"), Wr("ORB", "DATA2"), Await,
              Rd("SR", "byte"), Wr("ORB", "IDLE")>> \o Heartbeat
      [] c[2] = "listen" ->
            <<Wr("SR", Operands[c][1]), Wr("ORB", "DATA1"), Await,
              Wr("SR", Operands[c][2]), Wr("ORB", "DATA2"), Await>> \o BackToIdle
      [] OTHER -> BackToIdle

\* Where the driver believes the devices are, and what it set the LEDs to, after
\* command c.
AtReset == [kbd |-> ADDR_KEYBOARD, mouse |-> ADDR_MOUSE, leds |-> 7]

Believes(b, c) ==
    LET move == c[2] = "listen" /\ c[4] = 3 /\ Operands[c][2] = ChangeAddr
    IN  IF c[2] = "reset" THEN AtReset
        ELSE IF c[2] = "listen" /\ c[4] = 2 /\ c[3] = b.kbd
        THEN [b EXCEPT !.leds = Operands[c][1][2]]
        ELSE IF move /\ c[3] = b.kbd THEN [b EXCEPT !.kbd = Operands[c][1][2]]
        ELSE IF move /\ c[3] = b.mouse THEN [b EXCEPT !.mouse = Operands[c][1][2]]
        ELSE b

DrvInit ==
    [todo |-> <<>>, late |-> 0, cmd |-> Zero, got |-> <<>>, int |-> FALSE,
     believed |-> AtReset, keys |-> <<>>]

Ready == drv.todo # <<>> /\ (Head(drv.todo) = Await => via.serial_flag)

\* Which keys a Talk brought.
KeysIn(bytes) == SelectSeq(bytes, LAMBDA b : b[1] = "key")

\* An access, and what the driver does with the value: the second byte ends the
\* data of a Talk, and counts unless INT said that there was no answer.
DrvAccess(a) ==
    /\ e_falling /\ Ready /\ a = Head(drv.todo)
    /\ drv' = LET n == [drv EXCEPT !.todo = Tail(@)]
                  got == Append(drv.got, via.shift_reg)
              IN  IF a.keep = "int" THEN [n EXCEPT !.int = int_out(adb, via.st)]
                  ELSE IF a.keep # "byte" THEN n
                  ELSE IF Len(got) = 2 /\ ~drv.int
                  THEN [n EXCEPT !.got = got, !.keys = @ \o KeysIn(got)]
                  ELSE [n EXCEPT !.got = got]

\* The driver takes up the next transaction, or waits for the idle completion.
MayBegin == drv.todo = <<>> \/ (StartsAnytime /\ drv.cmd = Zero /\ drv.todo = Heartbeat)

Begin(a) ==
    /\ MayBegin /\ a = NoAccess
    /\ \E c \in Commands :
          drv' = [drv EXCEPT !.todo = Program(c), !.late = 0, !.cmd = c, !.got = <<>>,
                            !.int = FALSE, !.believed = Believes(@, c)]

AwaitIdle(a) ==
    /\ drv.todo = <<>> /\ via.mode = "in" /\ a = NoAccess
    /\ drv' = [drv EXCEPT !.todo = Heartbeat, !.late = 0, !.cmd = Zero, !.got = <<>>]

\* It keeps its pace: only the waits for an interrupt have no bound.
DrvWait(a) ==
    /\ a = NoAccess /\ drv.todo # <<>>
    /\ IF e_falling /\ Ready
       THEN drv.late < Prompt /\ drv' = [drv EXCEPT !.late = @ + 1]
       ELSE UNCHANGED drv

-----------------------------------------------------------------------------
(* The user: keys and mouse packets, at the transceiver's enable            *)

UserInit ==
    [typed |-> 0, held |-> FALSE, moved |-> 0, last |-> NoPacket, flushed |-> {}, lost |-> FALSE]

FifoKeys ==
    [i \in 1..(adb.kbdFifoWr - adb.kbdFifoRd) % KFIFO |->
        adb.kbdFifo[(adb.kbdFifoRd + i - 1) % KFIFO]]

\* PS/2 events are many ticks apart, and Caps Lock goes down and up in turn.
KeyEvents ==
    {e \in [kind : KeyKinds, press : BOOLEAN, id : {user.typed + 1}] :
        /\ user.typed < MaxKeys /\ ~adb.keyStrobe
        /\ IF e.kind = "caps" THEN e.press = ~user.held ELSE e.press}

PacketEvents == IF user.moved < MaxPackets THEN Packets ELSE {}

-----------------------------------------------------------------------------
(* The clocked logic *)

ClockBlock ==
    /\ ephase' = (ephase + 1) % (2 * E_HALF)
    /\ adbdiv' = (adbdiv + 1) % ADB_DIV

ViaBlock(a) ==
    via' = ViaCycle(via, e_rising, e_falling, a,
                    [complete |-> shim.complete, load |-> shim.load, data |-> shim.data])

ShimBlock(a) ==
    shim' = ShimCycle(shim, adb_en, a, adb.adb_dout, adb.adb_dout_strobe,
                      ~resp_empty(adb), via.st = "IDLE", via.shift_active)

\* A command that empties the FIFO takes the keys that are in it.  Keys are lost,
\* or come back, when one is stored in that very tick (adb.sv:372-375: only the read
\* pointer is then zero) or in a full FIFO.
Flushes ==
    /\ adb.cmd_valid /\ ~adb.cmd_processed /\ via.st = "COMMAND"
    /\ \/ cmd_type(adb) = "reset"
       \/ cmd_type(adb) = "flush" /\ cmd_addr(adb) = adb.kbd_addr

AdbBlock(e, p) ==
    /\ adb' = Tick(adb, via.st, shim.adb_din, shim.adb_din_strobe, e, p)
    /\ user' = [typed |-> IF sends(adb, e) THEN e.id ELSE user.typed,
                held |-> IF e.kind = "caps" THEN e.press ELSE user.held,
                moved |-> IF p.strobe THEN user.moved + 1 ELSE user.moved,
                last |-> IF says(adb, p) THEN p ELSE user.last,
                flushed |-> IF Flushes
                            THEN user.flushed \cup {FifoKeys[i][2] : i \in DOMAIN FifoKeys}
                            ELSE user.flushed,
                lost |-> \/ user.lost
                         \/ adb.keyStrobe /\ (Flushes \/ Len(FifoKeys) = KFIFO - 1)]

Init ==
    /\ ephase = 0 /\ adbdiv = 0
    /\ via = ViaInit /\ shim = ShimInit /\ adb = AdbInit
    /\ drv = DrvInit /\ user = UserInit

Drive(a) == DrvAccess(a) \/ Begin(a) \/ AwaitIdle(a) \/ DrvWait(a)

Transceiver ==
    \/ ~adb_en /\ UNCHANGED <<adb, user>>
    \/ adb_en /\ AdbBlock(NoKey, NoPacket)
    \/ adb_en /\ \E e \in KeyEvents : AdbBlock(e, NoPacket)
    \/ adb_en /\ \E p \in PacketEvents : AdbBlock(NoKey, p)

Next ==
    \E a \in {NoAccess} \cup (IF Ready THEN {Head(drv.todo)} ELSE {}) :
        Drive(a) /\ ViaBlock(a) /\ ShimBlock(a) /\ Transceiver /\ ClockBlock

Spec == Init /\ [][Next]_vars

-----------------------------------------------------------------------------
(* Properties *)

\* What the devices answer to a Talk, as far as the driver can know it.
Answers(c, r) ==
    LET b == drv.believed
    IN  CASE c[3] = b.kbd /\ c[4] = 0 ->
                user.lost \/ \A i \in DOMAIN r : r[i][1] = "key" \/ r[i] = Ones
          [] c[3] = b.kbd /\ c[4] = 2 -> r = <<Ones, Leds(b.leds)>>
          [] c[3] = b.kbd /\ c[4] = 3 -> r = Reg3(b.kbd, 2)
          [] c[3] # b.kbd /\ c[3] = b.mouse /\ c[4] = 0 -> r = <<>> \/ r[1][1] = "dy"
          [] c[3] # b.kbd /\ c[3] = b.mouse /\ c[4] = 3 -> r = Reg3(b.mouse, 1)
          [] OTHER -> r = <<>>

\* A Talk brings the driver both bytes of the device's answer, in order, each once
\* and with all its bits, or the INT that says there is none: no byte is left over
\* from an earlier transfer, lost to the transceiver's slower clock or shifted
\* (iosb.sv:309-321, docs/adb-via-shift.md), and a Listen before it took effect.
TalkExact ==
    (Len(drv.got) = 2 /\ via.st = "DATA2")
        => LET r == IF drv.int THEN <<>> ELSE drv.got
           IN  /\ r = adb.response
               /\ Answers(drv.cmd, r)

\* The keys the driver has heard, those on their way and those in the FIFO are the
\* typed ones in the order they were typed, but for what a Flush or Reset dropped,
\* as long as no key was stored in a full FIFO or in the tick of a Flush.
KeysConserved ==
    LET pending == IF adb.st_prev # "IDLE" /\ Len(drv.got) < 2
                   THEN KeysIn(adb.response) ELSE <<>>
        late == IF adb.keyStrobe THEN <<adb.keyData>> ELSE <<>>
        ids == [i \in DOMAIN (drv.keys \o pending \o FifoKeys \o late) |->
                    (drv.keys \o pending \o FifoKeys \o late)[i][2]]
    IN  ~user.lost => /\ \A i, j \in DOMAIN ids : i < j => ids[i] < ids[j]
                      /\ ToSet(ids) \cup user.flushed = 1..user.typed
                      /\ ToSet(ids) \cap user.flushed = {}

\* With the key released and nothing under way, the guest has Caps Lock down exactly
\* when the transceiver's capslock output is set.
CapsAgree ==
    LET caps == SelectSeq(drv.keys, LAMBDA k : k[3] = "caps")
        quiet == Len(FifoKeys) = 0 /\ ~adb.keyStrobe /\ adb.response = <<>> /\ user.flushed = {}
                 /\ ~user.lost
    IN  (quiet /\ ~user.held) => adb.capslock = (caps # <<>> /\ Last(caps)[4])

\* The nearest number of seven bits.
Within(n) == Max({-64, Min({63, n})})

\* "Clamp mouse deltas to 7-bit signed range" (adb.sv): the report has the packet's
\* horizontal motion, and the vertical one upside down, as far as seven bits go.
\* (Deltas from -192 to -129, and -64 upside down, are the exceptions: AdbProofs.)
MouseExact ==
    adb.mouse.has_event
        => adb.mouse.x = Within(user.last.x) /\ adb.mouse.y = Within(-user.last.y)

\* When the driver waits for the shift register's interrupt, it comes: a shift is
\* timed that can end, or the transceiver owes a byte that ends it.  (A shift-in
\* timer that ran out with response bytes pending, or on a shift that is not armed,
\* stays where it is: iosb.sv:416-417.)
NoDeadWait ==
    (drv.todo # <<>> /\ Head(drv.todo) = Await /\ ~via.serial_flag)
        => \/ shim.timer > 1 \/ shim.complete
           \/ shim.timer = 1 /\ shim.dir = "out"
           \/ shim.timer = 1 /\ via.shift_active /\ (resp_empty(adb) \/ via.st = "IDLE")
           \/ shim.dir = "in" /\ (shim.fresh \/ adb.adb_dout_strobe)
           \/ shim.dir = "in" /\ via.st # adb.st_prev /\ via.st \in {"DATA1", "DATA2"}

=============================================================================
