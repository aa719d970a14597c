-------------------------------- MODULE Adb ---------------------------------
(***************************************************************************)
(* rtl/adb.sv: the ADB transceiver with its keyboard and its mouse.  It     *)
(* works on its clock enable: one Tick below.  The host moves it through    *)
(* the bus states COMMAND, DATA1, DATA2, IDLE.                               *)
(*                                                                          *)
(* Bytes are tuples that say what they are: a command <<"cmd", type, addr,  *)
(* reg>>, a key <<"key", id, kind>>, the two bytes of a mouse report, of a   *)
(* register 3, and the operands of a Listen.                                 *)
(***************************************************************************)
EXTENDS AdbShim, Sequences

CONSTANTS
    KFIFO,            \* entries of the key FIFO (8)
    ADDR_KEYBOARD, ADDR_MOUSE

ASSUME AdbAssumption == KFIFO \in Nat \ {0, 1} /\ ADDR_KEYBOARD # ADDR_MOUSE

\* Listen operands: a new address, $FE (change the address), LED bits.
NewAddr(n) == <<"addr", n>>
ChangeAddr == <<"FE">>
Leds(n) == <<"leds", n>>

\* Register 3: {0, exceptional, SRQ enable, 0, address} and the handler ID.
Reg3(n, handler) == <<<<"reg3", n>>, <<"handler", handler>>>>

NoMouse == [x |-> 0, y |-> 0, button |-> FALSE, has_event |-> FALSE]

AdbInit ==
    [st_prev |-> "IDLE", cmd |-> Zero, cmd_valid |-> FALSE, cmd_processed |-> FALSE,
     response |-> <<>>, resp_idx |-> 0, listen_data |-> <<>>,
     adb_dout |-> Zero, adb_dout_strobe |-> FALSE,
     kbd_addr |-> ADDR_KEYBOARD, mouse_addr |-> ADDR_MOUSE, leds |-> 7,
     kbdFifo |-> [i \in 0..KFIFO - 1 |-> Zero], kbdFifoRd |-> 0, kbdFifoWr |-> 0,
     mouse |-> NoMouse, capslock |-> FALSE, keyStrobe |-> FALSE, keyData |-> Zero]

cmd_type(d) == d.cmd[2]
cmd_addr(d) == d.cmd[3]
cmd_reg(d) == d.cmd[4]

resp_empty(d) == d.resp_idx >= Len(d.response)

kbdFifoEmpty(d) == d.kbdFifoRd = d.kbdFifoWr

any_srq(d) == ~kbdFifoEmpty(d) \/ d.mouse.has_event

\* The INT line, active: nothing to answer (DATA1), a service request (DATA2, IDLE).
int_out(d, st) ==
    \/ st = "DATA1" /\ ~d.cmd_valid /\ resp_empty(d)
    \/ st \in {"DATA2", "IDLE"} /\ any_srq(d)

-----------------------------------------------------------------------------
(* process_command *)

respond(n, bytes) == [n EXCEPT !.response = bytes, !.cmd_processed = TRUE]

\* Faulty variant of TalkKeys: the second key is not removed.
TalkKeysOne(d, n) ==
    IF kbdFifoEmpty(d) THEN respond(n, <<>>)
    ELSE LET next == (d.kbdFifoRd + 1) % KFIFO
         IN  [respond(n, <<d.kbdFifo[d.kbdFifoRd],
                           IF next = d.kbdFifoWr THEN Ones ELSE d.kbdFifo[next]>>)
                 EXCEPT !.kbdFifoRd = next]

\* Register 0 of the keyboard: up to two keys out of the FIFO.
TalkKeys(d, n) ==
    IF kbdFifoEmpty(d) THEN respond(n, <<>>)
    ELSE LET next == (d.kbdFifoRd + 1) % KFIFO
             key1 == d.kbdFifo[d.kbdFifoRd]
         IN  IF next # d.kbdFifoWr
             THEN [respond(n, <<key1, d.kbdFifo[next]>>)
                     EXCEPT !.kbdFifoRd = (d.kbdFifoRd + 2) % KFIFO]
             ELSE [respond(n, <<key1, Ones>>) EXCEPT !.kbdFifoRd = next]

\* Register 0 of the mouse: {~button, dy}, {1, dx}, and the event is taken.
TalkMouse(d, n) ==
    IF d.mouse.has_event
    THEN [respond(n, <<<<"dy", d.mouse.button, d.mouse.y>>, <<"dx", d.mouse.x>>>>)
             EXCEPT !.mouse = [@ EXCEPT !.x = 0, !.y = 0, !.has_event = FALSE]]
    ELSE respond(n, <<>>)

\* A Listen of register 3 whose second byte is $FE moves the device.
moves(d) == cmd_reg(d) = 3 /\ Len(d.listen_data) >= 2 /\ d.listen_data[2] = ChangeAddr

Keyboard(d, n, finish) ==
    IF cmd_type(d) = "flush"
    THEN [n EXCEPT !.kbdFifoRd = 0, !.kbdFifoWr = 0, !.cmd_processed = TRUE]
    ELSE IF cmd_type(d) = "listen"
    THEN IF ~finish THEN n
         ELSE IF cmd_reg(d) = 2 /\ Len(d.listen_data) >= 1
         THEN [n EXCEPT !.leds = d.listen_data[1][2], !.cmd_processed = TRUE]
         ELSE IF moves(d)
         THEN [n EXCEPT !.kbd_addr = d.listen_data[1][2], !.cmd_processed = TRUE]
         ELSE [n EXCEPT !.cmd_processed = TRUE]
    ELSE IF cmd_reg(d) = 0 THEN TalkKeys(d, n)
    ELSE IF cmd_reg(d) = 2 THEN respond(n, <<Ones, Leds(d.leds)>>)
    ELSE IF cmd_reg(d) = 3 THEN respond(n, Reg3(d.kbd_addr, 2))
    ELSE respond(n, <<>>)

Mouse(d, n, finish) ==
    IF cmd_type(d) = "flush"
    THEN [n EXCEPT !.mouse = [@ EXCEPT !.x = 0, !.y = 0, !.has_event = FALSE],
                   !.cmd_processed = TRUE]
    ELSE IF cmd_type(d) = "listen"
    THEN IF ~finish THEN n
         ELSE IF moves(d)
         THEN [n EXCEPT !.mouse_addr = d.listen_data[1][2], !.cmd_processed = TRUE]
         ELSE [n EXCEPT !.cmd_processed = TRUE]
    ELSE IF cmd_reg(d) = 0 THEN TalkMouse(d, n)
    ELSE IF cmd_reg(d) = 3 THEN respond(n, Reg3(d.mouse_addr, 1))
    ELSE respond(n, <<>>)

ResetDevices(n) ==
    [n EXCEPT !.kbd_addr = ADDR_KEYBOARD, !.mouse_addr = ADDR_MOUSE, !.leds = 7,
              !.kbdFifoRd = 0, !.kbdFifoWr = 0, !.mouse = NoMouse, !.cmd_processed = TRUE]

\* Reset goes to all devices; at a shared address the keyboard answers.
process_command(d, n, finish) ==
    LET m == [n EXCEPT !.response = <<>>, !.resp_idx = 0]
    IN  IF cmd_type(d) = "reset" THEN ResetDevices(m)
        ELSE IF cmd_addr(d) = d.kbd_addr THEN Keyboard(d, m, finish)
        ELSE IF cmd_addr(d) = d.mouse_addr THEN Mouse(d, m, finish)
        ELSE [m EXCEPT !.cmd_processed = TRUE]

-----------------------------------------------------------------------------
(* The clocked block, in source order *)

\* A Listen is carried out when the next command begins.
EnterCommand(d, n) ==
    LET m == IF d.cmd_valid /\ cmd_type(d) = "listen" /\ ~d.cmd_processed
             THEN process_command(d, n, TRUE) ELSE n
    IN  [m EXCEPT !.cmd_valid = FALSE, !.cmd_processed = FALSE,
                  !.response = <<>>, !.resp_idx = 0, !.listen_data = <<>>]

\* A data state returns the next byte of the response, or $00.
EnterData(d, n) ==
    IF resp_empty(d) THEN [n EXCEPT !.adb_dout = Zero, !.adb_dout_strobe = TRUE]
    ELSE [n EXCEPT !.adb_dout = d.response[d.resp_idx + 1], !.adb_dout_strobe = TRUE,
                   !.resp_idx = d.resp_idx + 1]

StateChange(d, n, st) ==
    LET m == [n EXCEPT !.st_prev = st]
    IN  IF st = d.st_prev THEN n
        ELSE IF st = "COMMAND" THEN EnterCommand(d, m)
        ELSE IF st = "IDLE" THEN m
        ELSE EnterData(d, m)

ReceiveCommand(d, n, st, din, strobe) ==
    IF ~(st = "COMMAND" /\ strobe) THEN n
    ELSE IF ~d.cmd_valid
    THEN [n EXCEPT !.cmd = din, !.cmd_valid = TRUE, !.cmd_processed = FALSE, !.listen_data = <<>>]
    ELSE [n EXCEPT !.listen_data = Append(d.listen_data, din)]

\* Every command but a Listen runs the tick after it was received.
RunCommand(d, n, st) ==
    IF d.cmd_valid /\ ~d.cmd_processed /\ st = "COMMAND" /\ cmd_type(d) # "listen"
    THEN [process_command(d, n, FALSE) EXCEPT !.cmd_valid = FALSE]
    ELSE n

ReceiveListen(d, n, st, din, strobe) ==
    IF st \in {"DATA1", "DATA2"} /\ strobe /\ d.cmd_valid /\ cmd_type(d) = "listen"
    THEN [n EXCEPT !.listen_data = Append(d.listen_data, din)]
    ELSE n

\* A translated key goes into the FIFO one tick after its PS/2 event.
StoreKey(d, n) ==
    IF ~d.keyStrobe THEN n
    ELSE [n EXCEPT !.kbdFifo[d.kbdFifoWr] = d.keyData, !.kbdFifoWr = (d.kbdFifoWr + 1) % KFIFO]

\* 7-bit two's complement.
Signed7(n) == LET m == n % 128 IN IF m >= 64 THEN m - 128 ELSE m

bit6(r) == (((r + 512) % 512) \div 64) % 2

ClampX(r) ==
    IF r >= 64 THEN 63 ELSE IF r < 0 /\ bit6(r) = 0 THEN -64 ELSE Signed7(r + 512)

\* Faulty variant of ClampY: the delta is negated and cut to seven bits.
ClampYCut(r) == Signed7(512 - r)

ClampY(r) ==
    IF r >= 64 THEN -64 ELSE IF r < 0 /\ bit6(r) = 0 THEN 63 ELSE Signed7(512 - r)

NoPacket == [strobe |-> FALSE, x |-> 0, y |-> 0, button |-> FALSE]

says(d, p) == p.strobe /\ (p.x # 0 \/ p.y # 0 \/ p.button # d.mouse.button)

\* A packet of 9-bit deltas replaces the pending report, if it says anything.
MouseInput(d, n, p) ==
    IF says(d, p)
    THEN [n EXCEPT !.mouse = [x |-> ClampX(p.x), y |-> ClampY(p.y),
                              button |-> p.button, has_event |-> TRUE]]
    ELSE n

NoKey == [kind |-> "", press |-> FALSE, id |-> 0]

\* Faulty variant of sends: Caps Lock goes down and up with its key.
sendsAll(d, e) == e.kind # ""

\* A PS/2 key event e, its scan code translated: kind is "key" or "caps".  (A code
\* with no ADB key is strobed as $7F and never stored: it is no event here.)  Caps
\* Lock is a locking key to the guest: it goes down with the first press and up with
\* the second release.
sends(d, e) == e.kind = "key" \/ (e.kind = "caps" /\ ~d.capslock)

KeyInput(d, n, e) ==
    LET m == IF e.kind = "caps" /\ e.press THEN [n EXCEPT !.capslock = ~d.capslock] ELSE n
    IN  IF e.kind = "" THEN [n EXCEPT !.keyStrobe = FALSE]
        ELSE IF sends(d, e)
        THEN [m EXCEPT !.keyStrobe = TRUE, !.keyData = <<"key", e.id, e.kind, e.press>>]
        ELSE m

\* One clock enable: bus state, byte from the shim, PS/2 key e and packet p.
Tick(d, st, din, strobe, e, p) ==
    LET n0 == [d EXCEPT !.adb_dout_strobe = FALSE]
        n1 == StateChange(d, n0, st)
        n2 == ReceiveCommand(d, n1, st, din, strobe)
        n3 == RunCommand(d, n2, st)
        n4 == StoreKey(d, ReceiveListen(d, n3, st, din, strobe))
    IN  KeyInput(d, MouseInput(d, n4, p), e)

=============================================================================
