----------------------------- MODULE BlockPort ------------------------------
(***************************************************************************)
(* What a SCSI target may expect of the platform's block device: a request  *)
(* is acknowledged, the words of its sector move once each and in order     *)
(* between the request and the end of the acknowledge, and nothing else in  *)
(* the buffer or on the disk changes.  ncr53c96.sv takes the fall of io_ack *)
(* for the end of the transfer.                                             *)
(***************************************************************************)
EXTENDS Integers

CONSTANTS
    LBAs,    \* the sectors of the disk
    WORDS,   \* 16-bit words of a sector (256)
    Fillings \* what the target fills its buffer with before a flush

VARIABLES
    op,      \* the transfer asked for: "rd", "wr" or "none"
    lba,     \* its sector
    ack,     \* io_ack
    w,       \* words moved
    buf,     \* the target's sector buffer
    disk     \* the sectors

vars == <<op, lba, ack, w, buf, disk>>

Sector == 0..(WORDS - 1)

\* A sector of words that name where they were first, and which they are.
Filled(tag, l) == [j \in Sector |-> <<tag, l, j>>]

Init ==
    /\ op = "none" /\ lba \in LBAs /\ ~ack /\ w = 0
    /\ buf = Filled("power-up", 0) /\ disk = [l \in LBAs |-> Filled("disk", l)]

AskRead ==
    /\ op = "none"
    /\ op' = "rd" /\ lba' \in LBAs /\ ack' \in BOOLEAN
    /\ UNCHANGED <<w, buf, disk>>

AskWrite ==
    /\ op = "none"
    /\ op' = "wr" /\ lba' \in LBAs /\ ack' \in BOOLEAN
    /\ \E tag \in Fillings : buf' = Filled(tag, 0)
    /\ UNCHANGED <<w, disk>>

\* One word moves, or none.
Moved(n) ==
    /\ n \in {0, 1} /\ w + n <= WORDS
    /\ buf' = IF n = 1 /\ op = "rd" THEN [buf EXCEPT ![w] = disk[lba][w]] ELSE buf
    /\ disk' = IF n = 1 /\ op = "wr" THEN [disk EXCEPT ![lba][w] = buf[w]] ELSE disk

\* The acknowledge is up until every word has moved.
Serve ==
    /\ op # "none"
    /\ \E n \in {0, 1} :
          /\ Moved(n)
          /\ \/ /\ w' = w + n /\ ack' \in {ack, TRUE} /\ UNCHANGED <<op, lba>>
             \/ /\ ack /\ w + n = WORDS
                /\ w' = 0 /\ ~ack' /\ op' = "none" /\ UNCHANGED lba

Next == AskRead \/ AskWrite \/ Serve

Spec == Init /\ [][Next]_vars

=============================================================================
