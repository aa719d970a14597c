SPECIFICATION Spec
CONSTANTS
    SHIFT_DELAY = 22
    IDLE_DELAY = 29
    KFIFO = 4
    ADDR_KEYBOARD = 2
    ADDR_MOUSE = 3
    E_HALF = 3
    ADB_DIV = 4
    Commands <- MCRegisters
    Operands <- MCOperands
    Prompt = 1
    StartsAnytime = TRUE
    KeyKinds = {"caps"}
    MaxKeys = 0
    Packets <- MCPackets
    MaxPackets = 0
INVARIANT TalkExact
