SPECIFICATION FairSpec
CONSTANTS
    kVDNUM = 3
    WORDS = 4
    MOUNT = 6
    BOOT = 2
    Latencies = {1, 2, 3, 7}
    LBAs = {0, 1}
    Fillings = {"x", "y"}
PROPERTIES ImplementsPort RequestServed MountEnds
