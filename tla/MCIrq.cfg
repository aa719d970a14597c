SPECIFICATION FairSpec
CONSTANTS
    SIZE = 4
    LANES = 2
    SAMPLE_DIV = 6
    Stereo = FALSE
    GAP = 2
    External = {"vbl", "via1"}
    Coincide = FALSE
INVARIANTS SoundExact EdgeKept
PROPERTIES SoundGoesOn VblServed NoStorm
