SPECIFICATION FairSpec
CONSTANTS
    LastWord = 7
    Region <- MCMap
    Loads <- MCLoads
INVARIANTS ReadExact WriteExact NoOrphanBeat OneOutcome WalkerOnce
PROPERTIES CpuServed WalkerServed
