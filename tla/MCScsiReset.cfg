SPECIFICATION Spec
CONSTANTS
    SECTOR = 4
    FIFO = 4
    SYNTH = 2
    Commands <- MCCommands
    Blocks <- MCBlocks
    SDMA_LIMIT = 12
    SlowTransfer = FALSE
    Menus <- MCReadWrite
INVARIANTS LoadOwnsBuffer
