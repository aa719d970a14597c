---------------------------- MODULE MCVia1System ----------------------------
(***************************************************************************)
(* Small instances of Via1System: counters of two bits, seconds of two      *)
(* 60 Hz periods.                                                           *)
(***************************************************************************)
EXTENDS Via1System

Wr(addr, val) == [op |-> "write", addr |-> addr, val |-> val]
Rd(addr) == [op |-> "read", addr |-> addr, val |-> 0]

Acr(freerun, pulses) == Wr("ACR", [freerun |-> freerun, count_mode |-> pulses])
Pcr(ca1, ca2, keep) ==
    Wr("PCR", [ca1_rising |-> ca1, ca2_rising |-> ca2, ca2_no_irq_clr |-> keep])

\* Timer A with every way to start, restart and stop it, and the 60 Hz tick.
GuestA ==
    [accesses |-> {Wr("T1CL", 0), Wr("T1LL", 1), Wr("T1CH", 0), Wr("T1CH", 1), Wr("T1LH", 0),
                   Rd("T1CL"), Acr(TRUE, FALSE), Acr(FALSE, FALSE)},
     flags |-> {"T1", "CA1"}, disables |-> FALSE]

\* Timer B, and the second.
GuestB ==
    [accesses |-> {Wr("T2CL", 0), Wr("T2CL", 1), Wr("T2CH", 0), Wr("T2CH", 1), Rd("T2CL"),
                   Acr(FALSE, TRUE), Acr(FALSE, FALSE)},
     flags |-> {"T2", "CA2"}, disables |-> TRUE]

\* Timer A and port A, whose accesses clear the flags of CA1 and CA2.
GuestC ==
    [accesses |-> {Wr("T1CH", 0), Rd("ORA"), Rd("ORA_NH"), Wr("ORA", 0),
                   Pcr(TRUE, TRUE, TRUE), Pcr(TRUE, FALSE, TRUE), Pcr(FALSE, FALSE, FALSE)},
     flags |-> {"T1", "CA2"}, disables |-> FALSE]

MCGuests == <<GuestA, GuestB, GuestC>>
=============================================================================
