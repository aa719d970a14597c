------------------------------ MODULE AdbShim -------------------------------
(***************************************************************************)
(* rtl/iosb.sv: the shim between VIA1's shift register and the ADB          *)
(* transceiver.  It ends the shifts that accesses arm: a shift-out when its  *)
(* timer runs out, which hands the byte to the transceiver; a shift-in as    *)
(* soon as the transceiver produced a byte, or when the timer runs out and   *)
(* nothing is pending.                                                       *)
(*                                                                          *)
(* The block is a list of conditional assignments of which the last wins:   *)
(* each part below takes the registers before the clock (h) and those       *)
(* assigned so far (n).                                                      *)
(***************************************************************************)
EXTENDS Via6522

CONSTANTS
    SHIFT_DELAY,   \* cycles of a shift (100000)
    IDLE_DELAY     \* cycles between two idle completions (363000)

ASSUME DelayAssumption ==
    SHIFT_DELAY \in Nat /\ IDLE_DELAY \in Nat /\ 1 < SHIFT_DELAY /\ SHIFT_DELAY < IDLE_DELAY

ShimInit ==
    [acr_mode |-> "off", sr_shadow |-> Zero, timer |-> 0, dir |-> "in",
     complete |-> FALSE, load |-> FALSE, data |-> Zero,
     out_pending |-> FALSE, out_ack |-> FALSE, fresh |-> FALSE, kbd_to_mac |-> Zero,
     adb_din |-> Zero, adb_din_strobe |-> FALSE]

ShimCapture(n, adb_en, dout, dout_strobe) ==
    IF adb_en /\ dout_strobe THEN [n EXCEPT !.kbd_to_mac = dout, !.fresh = TRUE] ELSE n

\* Faulty variant of ShimDeliver: the strobe lasts one clock.
ShimDeliverShort(h, n, adb_en) ==
    IF h.out_pending /\ ~h.out_ack
    THEN [n EXCEPT !.adb_din = h.sr_shadow, !.adb_din_strobe = TRUE,
                   !.out_ack = TRUE, !.out_pending = FALSE]
    ELSE [n EXCEPT !.adb_din_strobe = FALSE, !.out_ack = FALSE]

\* The handshake with the transceiver runs on its clock enable.
ShimDeliver(h, n, adb_en) ==
    IF ~adb_en THEN n
    ELSE IF h.out_pending /\ ~h.out_ack
    THEN [n EXCEPT !.adb_din = h.sr_shadow, !.adb_din_strobe = TRUE,
                   !.out_ack = TRUE, !.out_pending = FALSE]
    ELSE [n EXCEPT !.adb_din_strobe = FALSE, !.out_ack = FALSE]

\* Faulty variant of ShimMode: the mode is recorded for shift-out only.
ShimModeOutOnly(h, n, a) ==
    IF ~writes(a, "ACR") THEN n
    ELSE IF a.val = "off" THEN [n EXCEPT !.timer = 0]
    ELSE IF a.val = h.acr_mode THEN n
    ELSE [n EXCEPT !.timer = SHIFT_DELAY, !.dir = a.val,
                   !.acr_mode = IF a.val = "out" THEN "out" ELSE @]

\* A write of the control register that changes the mode arms a shift.
ShimMode(h, n, a) ==
    IF ~writes(a, "ACR") THEN n
    ELSE LET m == [n EXCEPT !.acr_mode = a.val]
         IN  IF a.val = "off" THEN [m EXCEPT !.timer = 0]
             ELSE IF a.val # h.acr_mode THEN [m EXCEPT !.timer = SHIFT_DELAY, !.dir = a.val]
             ELSE m

ShimRead(h, n, a, resp_pending) ==
    IF a.op = "read" /\ a.addr = "SR" /\ h.acr_mode = "in"
    THEN [n EXCEPT !.timer = IF resp_pending THEN SHIFT_DELAY ELSE IDLE_DELAY, !.dir = "in"]
    ELSE n

ShimWrite(h, n, a) ==
    IF ~writes(a, "SR") THEN n
    ELSE IF h.acr_mode = "off" THEN [n EXCEPT !.sr_shadow = a.val]
    ELSE [n EXCEPT !.sr_shadow = a.val, !.timer = SHIFT_DELAY, !.dir = h.acr_mode]

\* A running timer counts, whatever an access of the same cycle assigned to it.
ShimCount(h, n) == IF h.timer > 1 THEN [n EXCEPT !.timer = h.timer - 1] ELSE n

ShimOut(h, n) ==
    IF h.timer = 1 THEN [n EXCEPT !.timer = 0, !.complete = TRUE, !.out_pending = TRUE] ELSE n

load_byte(h, n) ==
    [n EXCEPT !.timer = 0, !.complete = TRUE, !.load = TRUE, !.data = h.kbd_to_mac]

ShimIn(h, n, resp_pending, bus_idle, sr_active) ==
    IF h.fresh THEN [load_byte(h, n) EXCEPT !.fresh = FALSE]
    ELSE IF h.timer = 1 /\ sr_active /\ (~resp_pending \/ bus_idle) THEN load_byte(h, n)
    ELSE n

\* One clock: the VIA access a, the transceiver's outputs and the VIA's sr_active.
ShimCycle(h, adb_en, a, dout, dout_strobe, resp_pending, bus_idle, sr_active) ==
    LET n0 == [h EXCEPT !.complete = FALSE, !.load = FALSE]
        n1 == ShimDeliver(h, ShimCapture(n0, adb_en, dout, dout_strobe), adb_en)
        n2 == ShimWrite(h, ShimRead(h, ShimMode(h, n1, a), a, resp_pending), a)
        n3 == ShimCount(h, n2)
    IN  IF h.dir = "out" THEN ShimOut(h, n3)
        ELSE ShimIn(h, n3, resp_pending, bus_idle, sr_active)

=============================================================================
