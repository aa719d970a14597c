------------------------------ MODULE Via6522 -------------------------------
(***************************************************************************)
(* rtl/via6522.sv as iosb.sv wires it for VIA1: the shift register, its     *)
(* interrupt flag and the port B bits the ADB transceiver listens to.       *)
(* CB1 and CB2 are tied low, so no shift is ever clocked by a pin: a shift   *)
(* that an access arms is ended by the shim (ext.complete), which may load   *)
(* a byte (ext.load).  The auxiliary control register's shift modes are      *)
(* "off" (000), "in" (011) and "out" (111), the ones an ADB driver uses.     *)
(*                                                                          *)
(* An access a is sampled on the falling E edge: op is "read", "write" or   *)
(* "none", addr the register.  Flags other than the shift register's are    *)
(* not kept here.                                                            *)
(***************************************************************************)
EXTENDS Integers

\* $FF, $00 and a byte that was shifted by a bit.
Ones == <<"ones">>
Zero == <<"zero">>
Garbled == <<"garbled">>

NoAccess == [op |-> "none", addr |-> "", val |-> ""]

ViaInit ==
    [st |-> "IDLE", mode |-> "off", serial_flag |-> FALSE, shift_reg |-> Ones,
     shift_active |-> FALSE, shift_active_d |-> FALSE, bit_cnt |-> 0,
     shift_clock |-> TRUE, shift_clock_d |-> TRUE, trigger_acr_shift |-> FALSE]

cb1_i == FALSE

writes(a, addr) == a.op = "write" /\ a.addr = addr

trigger_serial(a) == a.op \in {"read", "write"} /\ a.addr = "SR"

serport_en(v) == v.mode # "off"

shift_tick_r(v) == ~v.shift_clock_d /\ v.shift_clock

shift_tick_f(v) == v.shift_clock_d /\ ~v.shift_clock

shift_pulse(v) ==
    (v.shift_active \/ v.mode = "off") /\ v.shift_clock /\ ~v.shift_clock_d

\* In all three modes the internal shift clock is the pin.
ShiftClock(v) == cb1_i

serial_event(v, rising) ==
    rising /\ serport_en(v) /\ ~v.shift_active /\ (v.shift_active_d \/ shift_tick_r(v))

\* The flag is set by a completion and by the end of shift_active one edge of E
\* later, and cleared by an access to the shift register in the same cycle.
SerialFlag(v, rising, a, ext) ==
    (v.serial_flag \/ serial_event(v, rising) \/ ext.complete) /\ ~trigger_serial(a)

ShiftReg(v, falling, a, ext) ==
    IF ext.complete /\ ext.load THEN ext.data
    ELSE IF ~falling THEN v.shift_reg
    ELSE IF writes(a, "SR") THEN a.val
    ELSE IF (v.mode = "out" /\ shift_tick_f(v)) \/ (v.mode # "out" /\ shift_tick_r(v))
    THEN Garbled
    ELSE v.shift_reg

\* An access to the shift register, or the control write that selected a mode,
\* arms a shift; eight pulses of the clock would end it.
ShiftArm(v, falling, a) ==
    IF ~falling THEN v
    ELSE IF v.mode = "off" THEN [v EXCEPT !.shift_active = FALSE]
    ELSE IF ~v.shift_active
    THEN IF trigger_serial(a) \/ v.trigger_acr_shift
         THEN [v EXCEPT !.shift_active = TRUE, !.bit_cnt = 7] ELSE v
    ELSE IF shift_pulse(v) /\ v.shift_clock
    THEN IF v.bit_cnt = 0 THEN [v EXCEPT !.shift_active = FALSE]
         ELSE [v EXCEPT !.bit_cnt = @ - 1]
    ELSE v

ViaCycle(v, rising, falling, a, ext) ==
    LET armed == ShiftArm(v, falling, a)
    IN  [st |-> IF writes(a, "ORB") THEN a.val ELSE v.st,
         mode |-> IF writes(a, "ACR") THEN a.val ELSE v.mode,
         serial_flag |-> SerialFlag(v, rising, a, ext),
         shift_reg |-> ShiftReg(v, falling, a, ext),
         shift_active |-> armed.shift_active /\ ~ext.complete,
         shift_active_d |-> IF rising THEN v.shift_active ELSE v.shift_active_d,
         bit_cnt |-> IF ext.complete THEN 0 ELSE armed.bit_cnt,
         shift_clock |-> IF rising THEN ShiftClock(v) ELSE v.shift_clock,
         shift_clock_d |-> IF rising THEN v.shift_clock ELSE v.shift_clock_d,
         trigger_acr_shift |-> IF falling THEN writes(a, "ACR") /\ a.val # "off"
                               ELSE v.trigger_acr_shift]

=============================================================================
