\* Packets may be too small: frames are split and stay behind.
CONSTANTS
    Size = 1
    Credit = 1
    MaxPn = 4
    NGTCP2_PKT_DEADLINE_PERIOD = 2
    Splits = TRUE
SPECIFICATION FairSpec
INVARIANTS InFlightAccounted AckedWasReceived NothingForgotten
           AckRemovesExactly
CHECK_DEADLOCK FALSE
PROPERTY Drains
