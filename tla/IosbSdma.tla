------------------------------ MODULE IosbSdma ------------------------------
(***************************************************************************)
(* rtl/iosb.sv: the part of the IOSB bus interface the SCSI chip sits on.   *)
(* A request for a chip register strobes it in one cycle; a pseudo-DMA      *)
(* request is held, byte after byte, until the chip has moved all of it,    *)
(* and a watchdog releases it with a bus error when the chip never does.    *)
(*                                                                          *)
(* A request is a record: op is "read" or "write" (a register rs) or        *)
(* "pdma_rd", "pdma_wr" (val: the number of bytes, or the bytes).           *)
(***************************************************************************)
EXTENDS Integers, Sequences

CONSTANTS
    SDMA_LIMIT   \* cycles of idle waiting before the release (2^18 - 1)

ASSUME SdmaAssumption == SDMA_LIMIT \in Nat \ {0}

\* data holds the bytes still to write, or the bytes read so far.
IosbInit ==
    [astate |-> "IDLE", ack |-> FALSE, sdma_fault |-> FALSE, sdma |-> "none",
     sdma_left |-> 0, data |-> <<>>, rdata |-> <<>>, sdma_watch |-> 0]

starts(s, on) == s.astate = "IDLE" /\ on /\ ~s.ack

scsi_strobe(s, on, req) == starts(s, on) /\ req.op \in {"read", "write"}

IosbIdle(s, on, req, value) ==
    LET n == [s EXCEPT !.ack = FALSE, !.sdma_fault = FALSE]
    IN  IF ~starts(s, on) THEN n
        ELSE IF scsi_strobe(s, on, req) THEN [n EXCEPT !.ack = TRUE, !.rdata = <<value>>]
        ELSE IF req.op = "pdma_rd"
        THEN [n EXCEPT !.astate = "SDMA", !.sdma = "rd", !.sdma_left = req.val,
                       !.data = <<>>, !.sdma_watch = 0]
        ELSE [n EXCEPT !.astate = "SDMA", !.sdma = "wr", !.sdma_left = Len(req.val),
                       !.data = req.val, !.sdma_watch = 0]

\* The chip moved a byte (sdma_valid): the next one, or the end of the beat.
SdmaByte(s, rbyte) ==
    LET rest == IF s.sdma = "rd" THEN Append(s.data, rbyte) ELSE Tail(s.data)
    IN  IF s.sdma_left = 1
        THEN [s EXCEPT !.sdma_watch = 0, !.sdma = "none", !.ack = TRUE, !.rdata = rest,
                       !.data = <<>>, !.astate = "IDLE"]
        ELSE [s EXCEPT !.sdma_watch = 0, !.data = rest, !.sdma_left = s.sdma_left - 1]

SdmaTimeout(s) ==
    [s EXCEPT !.sdma = "none", !.ack = TRUE, !.sdma_fault = TRUE, !.rdata = <<>>,
              !.sdma_watch = 0, !.data = <<>>, !.astate = "IDLE"]

\* Faulty variant of SdmaAge: the watchdog counts all waiting.
SdmaAgeAlways(s, io_rd, io_wr) == [s EXCEPT !.sdma_watch = s.sdma_watch + 1]

\* The watchdog is frozen while the chip asks the platform for a block.
SdmaAge(s, io_rd, io_wr) ==
    IF io_rd \/ io_wr THEN s ELSE [s EXCEPT !.sdma_watch = s.sdma_watch + 1]

IosbCycle(s, on, req, value, valid, rbyte, io_rd, io_wr) ==
    IF s.astate = "IDLE" THEN IosbIdle(s, on, req, value)
    ELSE LET n == [s EXCEPT !.ack = FALSE, !.sdma_fault = FALSE]
         IN  IF valid THEN SdmaByte(n, rbyte)
             ELSE IF s.sdma_watch = SDMA_LIMIT THEN SdmaTimeout(n)
             ELSE SdmaAge(n, io_rd, io_wr)

=============================================================================
