SPECIFICATION FairSpec
CONSTANTS
    BYTE = 2
    latch_reset_pattern = 2
    E = 3
    TICK_HALF = 4
    SECOND = 2
    Guests <- MCGuests
    Coincide = FALSE
INVARIANTS TypeOK TimerAExact TimerBExact SecondExact
PROPERTIES Served
