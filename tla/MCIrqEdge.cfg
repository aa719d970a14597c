SPECIFICATION Spec
CONSTANTS
    SIZE = 4
    LANES = 2
    SAMPLE_DIV = 6
    Stereo = FALSE
    GAP = 2
    External = {"scsi", "vbl", "via1"}
    Coincide = TRUE
INVARIANTS EdgeKept
