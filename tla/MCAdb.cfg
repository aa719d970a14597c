SPECIFICATION Spec
CONSTANTS
    SHIFT_DELAY = 22
    IDLE_DELAY = 29
    KFIFO = 4
    ADDR_KEYBOARD = 2
    ADDR_MOUSE = 3
    E_HALF = 3
    ADB_DIV = 2
    Commands <- MCCommands
    Operands <- MCOperands
    Prompt = 1
    StartsAnytime = FALSE
    KeyKinds = {"caps"}
    MaxKeys = 2
    Packets <- MCPackets
    MaxPackets = 1
INVARIANTS TalkExact KeysConserved CapsAgree MouseExact NoDeadWait
