----------------------------- MODULE AdbProofs ------------------------------
(***************************************************************************)
(* Proofs about the ADB side of the machine: what becomes of a mouse        *)
(* packet in the transceiver, whatever the driver asks it meanwhile.        *)
(***************************************************************************)
EXTENDS AdbSystem, TLAPS

-----------------------------------------------------------------------------
(* The clamp *)

\* The deltas of 9 bits that the transceiver clamps as its comment says.  Of a negative
\* one it looks at bit 6 only: -192 to -129 have it set and are cut to seven bits.  And
\* -64 turned upside down does not fit in seven bits.
GoodX == -256..255 \ -192..-129

GoodY == GoodX \ {-64}

\* The nearest number of seven bits.
LEMMA WithinIs ==
    ASSUME NEW n \in Int
    PROVE  Within(n) = IF n > 63 THEN 63 ELSE IF n < -64 THEN -64 ELSE n
  <1> DEFINE m == IF n > 63 THEN 63 ELSE n
             k == IF m < -64 THEN -64 ELSE m
  <1>1. Min({63, n}) = m
    <2>1. m \in {63, n} /\ \A y \in {63, n} : m <= y
      OBVIOUS
    <2>2. \A x \in {63, n} : (\A y \in {63, n} : x <= y) => x = m
      OBVIOUS
    <2> HIDE DEF m
    <2> QED
      BY <2>1, <2>2 DEF Min
  <1>2. Max({-64, m}) = k
    <2>1. k \in {-64, m} /\ \A y \in {-64, m} : k >= y
      OBVIOUS
    <2>2. \A x \in {-64, m} : (\A y \in {-64, m} : x >= y) => x = k
      OBVIOUS
    <2> HIDE DEF m, k
    <2> QED
      BY <2>1, <2>2 DEF Max
  <1>3. Within(n) = k
    BY <1>1, <1>2 DEF Within
  <1> QED
    BY <1>3

\* The horizontal motion: the three cases of adb.sv on the bits of the delta.
LEMMA ClampXIs ==
    ASSUME NEW r \in GoodX
    PROVE  ClampX(r) = Within(r)
  <1>0. r \in Int /\ r >= -256 /\ r <= 255 /\ ~(r >= -192 /\ r <= -129)
    BY DEF GoodX
  <1>1. Within(r) = IF r > 63 THEN 63 ELSE IF r < -64 THEN -64 ELSE r
    BY <1>0, WithinIs
  <1>2. CASE r >= 64
    BY <1>0, <1>1, <1>2 DEF ClampX
  <1>3. CASE r >= 0 /\ r < 64
    <2>1. (r + 512) % 128 = r
      BY <1>0, <1>3
    <2>2. Signed7(r + 512) = r
      BY <1>0, <1>3, <2>1 DEF Signed7
    <2> QED
      BY <1>0, <1>1, <1>3, <2>2 DEF ClampX
  <1>4. CASE r < 0 /\ r >= -64
    <2>1. (r + 512) % 128 = r + 128
      BY <1>0, <1>4
    <2>2. Signed7(r + 512) = r
      BY <1>0, <1>4, <2>1 DEF Signed7
    <2>3. bit6(r) = 1
      BY <1>0, <1>4 DEF bit6
    <2> QED
      BY <1>0, <1>1, <1>4, <2>2, <2>3 DEF ClampX
  <1>5. CASE r < -64
    <2>1. bit6(r) = 0
      BY <1>0, <1>5 DEF bit6
    <2> QED
      BY <1>0, <1>1, <1>5, <2>1 DEF ClampX
  <1> QED
    BY <1>0, <1>2, <1>3, <1>4, <1>5

\* The vertical motion, upside down.
LEMMA ClampYIs ==
    ASSUME NEW r \in GoodY
    PROVE  ClampY(r) = Within(-r)
  <1>0. r \in Int /\ r >= -256 /\ r <= 255 /\ ~(r >= -192 /\ r <= -129) /\ r # -64 /\ -r \in Int
    BY DEF GoodX, GoodY
  <1>1. Within(-r) = IF -r > 63 THEN 63 ELSE IF -r < -64 THEN -64 ELSE -r
    BY <1>0, WithinIs
  <1>2. CASE r >= 64
    BY <1>0, <1>1, <1>2 DEF ClampY
  <1>3. CASE r > 0 /\ r < 64
    <2>1. (512 - r) % 128 = 128 - r
      BY <1>0, <1>3
    <2>2. Signed7(512 - r) = -r
      BY <1>0, <1>3, <2>1 DEF Signed7
    <2> QED
      BY <1>0, <1>1, <1>3, <2>2 DEF ClampY
  <1>4. CASE r <= 0 /\ r > -64
    <2>1. (512 - r) % 128 = -r
      BY <1>0, <1>4
    <2>2. Signed7(512 - r) = -r
      BY <1>0, <1>4, <2>1 DEF Signed7
    <2>3. r < 0 => bit6(r) = 1
      BY <1>0, <1>4 DEF bit6
    <2> QED
      BY <1>0, <1>1, <1>4, <2>2, <2>3 DEF ClampY
  <1>5. CASE r < -64
    <2>1. bit6(r) = 0
      BY <1>0, <1>5 DEF bit6
    <2> QED
      BY <1>0, <1>1, <1>5, <2>1 DEF ClampY
  <1> QED
    BY <1>0, <1>2, <1>3, <1>4, <1>5
-----------------------------------------------------------------------------
(* The report that waits *)

\* What a step may make of the report of d: keep it, or take its event away.
KeepsReport(d, n) ==
    /\ "mouse" \in DOMAIN n /\ "has_event" \in DOMAIN n.mouse
    /\ n.mouse = d.mouse \/ n.mouse.has_event = FALSE

\* A command leaves the report alone (a Talk to the keyboard, a Listen), takes its
\* event (a Talk of register 0, a Flush) or clears it all (a Reset).
LEMMA CommandKeepsReport ==
    ASSUME NEW d, NEW n, NEW finish, KeepsReport(d, n)
    PROVE  KeepsReport(d, process_command(d, n, finish))
  <1> DEFINE m == [n EXCEPT !.response = <<>>, !.resp_idx = 0]
  <1>1. PICK k : k = m
    OBVIOUS
  <1>2. KeepsReport(d, k)
    BY <1>1 DEF KeepsReport
  <1>3. \A bytes : KeepsReport(d, respond(k, bytes))
    BY <1>2 DEF KeepsReport, respond
  <1>4. KeepsReport(d, ResetDevices(k))
    BY <1>2 DEF KeepsReport, ResetDevices, NoMouse
  <1>5. KeepsReport(d, TalkKeys(d, k))
    <2>1. \A bytes, v : KeepsReport(d, [respond(k, bytes) EXCEPT !.kbdFifoRd = v])
      BY <1>3 DEF KeepsReport
    <2> QED
      BY <1>3, <2>1 DEF TalkKeys
  <1>6. KeepsReport(d, TalkMouse(d, k))
    <2>1. \A bytes : KeepsReport(d, [respond(k, bytes)
               EXCEPT !.mouse = [@ EXCEPT !.x = 0, !.y = 0, !.has_event = FALSE]])
      BY <1>3 DEF KeepsReport
    <2> QED
      BY <1>3, <2>1 DEF TalkMouse
  <1>7. KeepsReport(d, Keyboard(d, k, finish))
    <2>1. KeepsReport(d, [k EXCEPT !.kbdFifoRd = 0, !.kbdFifoWr = 0, !.cmd_processed = TRUE])
      BY <1>2 DEF KeepsReport
    <2>2. \A v : KeepsReport(d, [k EXCEPT !.leds = v, !.cmd_processed = TRUE])
      BY <1>2 DEF KeepsReport
    <2>3. \A v : KeepsReport(d, [k EXCEPT !.kbd_addr = v, !.cmd_processed = TRUE])
      BY <1>2 DEF KeepsReport
    <2>4. KeepsReport(d, [k EXCEPT !.cmd_processed = TRUE])
      BY <1>2 DEF KeepsReport
    <2> QED
      BY <1>2, <1>3, <1>5, <2>1, <2>2, <2>3, <2>4 DEF Keyboard
  <1>8. KeepsReport(d, Mouse(d, k, finish))
    <2>1. KeepsReport(d, [k EXCEPT !.mouse = [@ EXCEPT !.x = 0, !.y = 0, !.has_event = FALSE],
                                   !.cmd_processed = TRUE])
      BY <1>2 DEF KeepsReport
    <2>2. \A v : KeepsReport(d, [k EXCEPT !.mouse_addr = v, !.cmd_processed = TRUE])
      BY <1>2 DEF KeepsReport
    <2>3. KeepsReport(d, [k EXCEPT !.cmd_processed = TRUE])
      BY <1>2 DEF KeepsReport
    <2> QED
      BY <1>2, <1>3, <1>6, <2>1, <2>2, <2>3 DEF Mouse
  <1>9. KeepsReport(d, [k EXCEPT !.cmd_processed = TRUE])
    BY <1>2 DEF KeepsReport
  <1> QED
    BY <1>1, <1>4, <1>7, <1>8, <1>9 DEF process_command

\* So does every stage of a tick up to the mouse's own: entering a bus state, a byte
\* from the shim, a command and a key that is stored.
LEMMA StagesKeepReport ==
    ASSUME NEW d, NEW n, NEW st, NEW din, NEW strobe, KeepsReport(d, n)
    PROVE  /\ KeepsReport(d, StateChange(d, n, st))
           /\ KeepsReport(d, ReceiveCommand(d, n, st, din, strobe))
           /\ KeepsReport(d, RunCommand(d, n, st))
           /\ KeepsReport(d, ReceiveListen(d, n, st, din, strobe))
           /\ KeepsReport(d, StoreKey(d, n))
  <1>1. KeepsReport(d, StateChange(d, n, st))
    <2>1. PICK m : m = [n EXCEPT !.st_prev = st]
      OBVIOUS
    <2>2. KeepsReport(d, m)
      BY <2>1 DEF KeepsReport
    <2>3. KeepsReport(d, EnterCommand(d, m))
      <3>1. PICK k : k = IF d.cmd_valid /\ cmd_type(d) = "listen" /\ ~d.cmd_processed
                         THEN process_command(d, m, TRUE) ELSE m
        OBVIOUS
      <3>2. KeepsReport(d, k)
        BY <2>2, <3>1, CommandKeepsReport
      <3>3. KeepsReport(d, [k EXCEPT !.cmd_valid = FALSE, !.cmd_processed = FALSE,
                                     !.response = <<>>, !.resp_idx = 0, !.listen_data = <<>>])
        BY <3>2 DEF KeepsReport
      <3> QED
        BY <3>1, <3>3 DEF EnterCommand
    <2>4. KeepsReport(d, EnterData(d, m))
      <3>1. KeepsReport(d, [m EXCEPT !.adb_dout = Zero, !.adb_dout_strobe = TRUE])
        BY <2>2 DEF KeepsReport
      <3>2. \A v, i : KeepsReport(d, [m EXCEPT !.adb_dout = v, !.adb_dout_strobe = TRUE,
                                               !.resp_idx = i])
        BY <2>2 DEF KeepsReport
      <3> QED
        BY <3>1, <3>2 DEF EnterData
    <2> QED
      BY <2>1, <2>2, <2>3, <2>4 DEF StateChange
  <1>2. KeepsReport(d, ReceiveCommand(d, n, st, din, strobe))
    <2>1. KeepsReport(d, [n EXCEPT !.cmd = din, !.cmd_valid = TRUE, !.cmd_processed = FALSE,
                                   !.listen_data = <<>>])
      BY DEF KeepsReport
    <2>2. \A v : KeepsReport(d, [n EXCEPT !.listen_data = v])
      BY DEF KeepsReport
    <2> QED
      BY <2>1, <2>2 DEF ReceiveCommand
  <1>3. KeepsReport(d, RunCommand(d, n, st))
    <2>1. PICK k : k = process_command(d, n, FALSE)
      OBVIOUS
    <2>2. KeepsReport(d, k)
      BY <2>1, CommandKeepsReport
    <2>3. KeepsReport(d, [k EXCEPT !.cmd_valid = FALSE])
      BY <2>2 DEF KeepsReport
    <2> QED
      BY <2>1, <2>3 DEF RunCommand
  <1>4. KeepsReport(d, ReceiveListen(d, n, st, din, strobe))
    <2>1. \A v : KeepsReport(d, [n EXCEPT !.listen_data = v])
      BY DEF KeepsReport
    <2> QED
      BY <2>1 DEF ReceiveListen
  <1>5. KeepsReport(d, StoreKey(d, n))
    <2>1. \A f, v : KeepsReport(d, [n EXCEPT !.kbdFifo = f, !.kbdFifoWr = v])
      BY DEF KeepsReport
    <2>2. [n EXCEPT !.kbdFifo[d.kbdFifoWr] = d.keyData, !.kbdFifoWr = (d.kbdFifoWr + 1) % KFIFO]
          = [n EXCEPT !.kbdFifo = [n.kbdFifo EXCEPT ![d.kbdFifoWr] = d.keyData],
                      !.kbdFifoWr = (d.kbdFifoWr + 1) % KFIFO]
      OBVIOUS
    <2> QED
      BY <2>1, <2>2 DEF StoreKey
  <1> QED
    BY <1>1, <1>2, <1>3, <1>4, <1>5

\* One tick: the packet that says something makes the report, and without one the
\* report is kept or taken.
LEMMA TickReport ==
    ASSUME NEW d, NEW st, NEW din, NEW strobe, NEW e, NEW p,
           "mouse" \in DOMAIN d, "has_event" \in DOMAIN d.mouse
    PROVE  LET n == Tick(d, st, din, strobe, e, p)
           IN  /\ "mouse" \in DOMAIN n /\ "has_event" \in DOMAIN n.mouse
               /\ IF says(d, p)
                  THEN n.mouse.x = ClampX(p.x) /\ n.mouse.y = ClampY(p.y)
                  ELSE KeepsReport(d, n)
  <1>1. PICK n0 : n0 = [d EXCEPT !.adb_dout_strobe = FALSE]
    OBVIOUS
  <1>2. KeepsReport(d, n0)
    BY <1>1 DEF KeepsReport
  <1>3. PICK n1 : n1 = StateChange(d, n0, st)
    OBVIOUS
  <1>4. PICK n2 : n2 = ReceiveCommand(d, n1, st, din, strobe)
    OBVIOUS
  <1>5. PICK n3 : n3 = RunCommand(d, n2, st)
    OBVIOUS
  <1>6. PICK l3 : l3 = ReceiveListen(d, n3, st, din, strobe)
    OBVIOUS
  <1>7. PICK n4 : n4 = StoreKey(d, l3)
    OBVIOUS
  <1>8. KeepsReport(d, n4)
    <2>1. KeepsReport(d, n1)
      BY <1>2, <1>3, StagesKeepReport
    <2>2. KeepsReport(d, n2)
      BY <2>1, <1>4, StagesKeepReport
    <2>3. KeepsReport(d, n3)
      BY <2>2, <1>5, StagesKeepReport
    <2>4. KeepsReport(d, l3)
      BY <2>3, <1>6, StagesKeepReport
    <2> QED
      BY <2>4, <1>7, StagesKeepReport
  <1>9. PICK k : k = MouseInput(d, n4, p)
    OBVIOUS
  <1>10. /\ "mouse" \in DOMAIN k /\ "has_event" \in DOMAIN k.mouse
         /\ IF says(d, p) THEN k.mouse.x = ClampX(p.x) /\ k.mouse.y = ClampY(p.y)
            ELSE KeepsReport(d, k)
    <2>1. CASE says(d, p)
      <3>1. k = [n4 EXCEPT !.mouse = [x |-> ClampX(p.x), y |-> ClampY(p.y),
                                      button |-> p.button, has_event |-> TRUE]]
        BY <1>9, <2>1 DEF MouseInput
      <3> QED
        BY <1>8, <2>1, <3>1 DEF KeepsReport
    <2>2. CASE ~says(d, p)
      BY <1>8, <1>9, <2>2 DEF MouseInput, KeepsReport
    <2> QED
      BY <2>1, <2>2
  <1>11. Tick(d, st, din, strobe, e, p) = KeyInput(d, k, e)
    BY <1>1, <1>3, <1>4, <1>5, <1>6, <1>7, <1>9 DEF Tick
  <1>12. PICK n : n = KeyInput(d, k, e)
    OBVIOUS
  <1>13. "mouse" \in DOMAIN n /\ n.mouse = k.mouse
    <2>1. PICK m : m = IF e.kind = "caps" /\ e.press THEN [k EXCEPT !.capslock = ~d.capslock]
                       ELSE k
      OBVIOUS
    <2>2. "mouse" \in DOMAIN m /\ m.mouse = k.mouse
      BY <1>10, <2>1
    <2>3. n = IF e.kind = "" THEN [k EXCEPT !.keyStrobe = FALSE]
              ELSE IF sends(d, e)
              THEN [m EXCEPT !.keyStrobe = TRUE, !.keyData = <<"key", e.id, e.kind, e.press>>]
              ELSE m
      BY <1>12, <2>1 DEF KeyInput
    <2> QED
      BY <1>10, <2>2, <2>3
  <1>14. /\ "mouse" \in DOMAIN n /\ "has_event" \in DOMAIN n.mouse
         /\ IF says(d, p) THEN n.mouse.x = ClampX(p.x) /\ n.mouse.y = ClampY(p.y)
            ELSE KeepsReport(d, n)
    BY <1>10, <1>13 DEF KeepsReport
  <1> QED
    BY <1>11, <1>12, <1>14

-----------------------------------------------------------------------------
(* MouseExact *)

MouseInv ==
    /\ "mouse" \in DOMAIN adb /\ "has_event" \in DOMAIN adb.mouse
    /\ MouseExact

\* A clock enable with packet p, whose deltas are among the good ones if it is one.
LEMMA AdbBlockMouse ==
    ASSUME NEW e, NEW p, MouseInv, AdbBlock(e, p),
           p.strobe => p.x \in GoodX /\ p.y \in GoodY
    PROVE  MouseInv'
  <1>1. PICK st : st = via.st
    OBVIOUS
  <1>2. PICK din : din = shim.adb_din
    OBVIOUS
  <1>3. PICK strobe : strobe = shim.adb_din_strobe
    OBVIOUS
  <1>4. adb' = Tick(adb, st, din, strobe, e, p)
    BY <1>1, <1>2, <1>3 DEF AdbBlock
  <1>5. /\ "mouse" \in DOMAIN adb' /\ "has_event" \in DOMAIN adb'.mouse
        /\ IF says(adb, p) THEN adb'.mouse.x = ClampX(p.x) /\ adb'.mouse.y = ClampY(p.y)
           ELSE KeepsReport(adb, adb')
    BY <1>4, TickReport DEF MouseInv
  <1>6. user'.last = IF says(adb, p) THEN p ELSE user.last
    BY DEF AdbBlock
  <1>7. CASE says(adb, p)
    <2>1. p.x \in GoodX /\ p.y \in GoodY
      BY <1>7 DEF says
    <2>2. adb'.mouse.x = Within(user'.last.x) /\ adb'.mouse.y = Within(-user'.last.y)
      BY <1>5, <1>6, <1>7, <2>1, ClampXIs, ClampYIs
    <2> QED
      BY <1>5, <2>2 DEF MouseInv, MouseExact
  <1>8. CASE ~says(adb, p)
    <2>1. user'.last = user.last
      BY <1>6, <1>8
    <2>2. adb'.mouse = adb.mouse \/ adb'.mouse.has_event = FALSE
      BY <1>5, <1>8 DEF KeepsReport
    <2>3. MouseExact'
      BY <2>1, <2>2 DEF MouseInv, MouseExact
    <2> QED
      BY <1>5, <2>3 DEF MouseInv
  <1> QED
    BY <1>7, <1>8

\* Whatever the driver sends, at whatever pace, and whenever its commands meet a
\* packet: the report that waits in the transceiver is the last packet that said
\* anything, clamped to seven bits, its vertical motion upside down.  The packets are
\* those of 9-bit deltas which the clamp of adb.sv handles (GoodX, GoodY).
THEOREM MouseKept ==
    ASSUME \A p \in Packets : p.x \in GoodX /\ p.y \in GoodY
    PROVE  Spec => []MouseExact
  <1>1. Init => MouseInv
    BY DEF Init, AdbInit, NoMouse, MouseInv, MouseExact
  <1>2. MouseInv /\ [Next]_vars => MouseInv'
    <2> SUFFICES ASSUME MouseInv, [Next]_vars PROVE MouseInv'
      OBVIOUS
    <2>1. CASE UNCHANGED <<adb, user>>
      BY <2>1 DEF MouseInv, MouseExact
    <2>2. \A e : AdbBlock(e, NoPacket) => MouseInv'
      <3>1. ~NoPacket.strobe
        BY DEF NoPacket
      <3> QED
        BY <3>1, AdbBlockMouse
    <2>3. \A p \in PacketEvents : AdbBlock(NoKey, p) => MouseInv'
      <3>1. PacketEvents \subseteq Packets
        BY DEF PacketEvents
      <3> QED
        BY <3>1, AdbBlockMouse
    <2>4. CASE Next
      <3>1. Transceiver
        BY <2>4 DEF Next
      <3> QED
        BY <3>1, <2>1, <2>2, <2>3 DEF Transceiver
    <2> QED
      BY <2>1, <2>4 DEF vars
  <1>3. MouseInv => MouseExact
    BY DEF MouseInv
  <1> QED
    BY <1>1, <1>2, <1>3, PTL DEF Spec

=============================================================================
