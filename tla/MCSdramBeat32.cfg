SPECIFICATION FairSpec
CONSTANTS
    b0 = b0
    b1 = b1
    X = X
    Addr = {a1, a2}
    Byte <- MCByte
    ZeroWord <- MCZeroWord
    PowerUp <- MCPowerUp
    WriteData <- MCWriteData
    WriteBE <- MCWriteBE
    RATIO = 3
    REFRESH_PERIOD = 17
    STARTUP_CYCLES = 2
    EarlyBeats = FALSE
INVARIANTS TypeOK NoFalseTrigger NoSpareAccess RefreshNotLost
PROPERTIES ImplementsMemory StableAcrossDomains EveryBeatAcked
