---------------------------- MODULE MCScsiSystem ----------------------------
(* Small instances of ScsiSystem: sectors of 4 bytes, a FIFO of 4, responses *)
(* of 2, two blocks.   *)
EXTENDS ScsiSystem

MCBlocks == 0..1

Do(op, lba, blocks, dialect, mode, chunk) ==
    [op |-> op, lba |-> lba, blocks |-> blocks, len |-> 2, present |-> TRUE,
     dialect |-> dialect, mode |-> mode, chunk |-> chunk]

\* 1-4: reads and writes of one and two blocks: chunks that end inside a sector,
\* across one and after the last byte, and byte by byte.
\* 5-10: commands without a block transfer, a bad opcode, an empty ID, a negotiation.
\* 11-13: a read to abort, a response, and a write to follow either.
MCCommands ==
    << Do("READ", 0, 2, "rom", "dma", 6), Do("WRITE", 0, 2, "unix", "dma", 2),
       Do("READ", 1, 1, "unix", "pio", 1), Do("WRITE", 1, 1, "rom", "pio", 2),
       Do("TUR", 0, 0, "rom", "dma", 2), Do("INQ", 0, 0, "negotiate", "dma", 4),
       Do("SENSE", 0, 0, "unix", "pio", 1), Do("BAD", 0, 0, "unix", "dma", 2),
       [Do("TUR", 0, 0, "unix", "dma", 2) EXCEPT !.present = FALSE],
       Do("READ", 0, 1, "negotiate", "dma", 4),
       Do("READ", 0, 1, "unix", "pio", 1), Do("INQ", 0, 0, "unix", "dma", 2),
       Do("WRITE", 0, 1, "unix", "dma", 4) >>

Driver(picks, limit, impatient) == [picks |-> picks, limit |-> limit, impatient |-> impatient]

\* The patient disk driver, the one that explores the target, and one that aborts a
\* READ and reads the same or the other block next.
MCDrivers ==
    {Driver(1..4, 3, FALSE), Driver(5..10, 3, FALSE), Driver({11, 3, 5, 8}, 3, TRUE)}

\* A write with a synthesized response behind it.
MCWriteInquiry == {Driver({12, 13}, 2, FALSE)}

\* A patient driver with a slow platform.
MCReadAndWrite == {Driver({10, 13}, 2, FALSE)}

\* A read to abort and a write.
MCReadWrite == {Driver({11, 13}, 2, TRUE)}

=============================================================================
