---------------------------- MODULE MCAdbSystem -----------------------------
(* TLC instances: the keyboard is at 2, the mouse at 3 until it is moved to 5. *)
EXTENDS AdbSystem

MCMoveMouse == <<"cmd", "listen", 3, 3>>

MCCommands == {<<"cmd", "talk", 2, 0>>, <<"cmd", "talk", 3, 0>>, <<"cmd", "talk", 5, 3>>,
               MCMoveMouse, <<"cmd", "flush", 2, 0>>}

MCOperands == [c \in {MCMoveMouse} |-> <<NewAddr(5), ChangeAddr>>]

\* Polls of the keyboard, and register 3 of both devices.
MCRegisters == {<<"cmd", "talk", 2, 3>>, <<"cmd", "talk", 3, 3>>, <<"cmd", "talk", 2, 0>>}

MCPackets == {[strobe |-> TRUE, x |-> 5, y |-> 100, button |-> TRUE]}

=============================================================================
