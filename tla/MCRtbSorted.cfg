\* A partly written packet stays at the head of the list.
CONSTANTS
    Size = 0
    Credit = 1
    MaxPn = 4
    NGTCP2_PKT_DEADLINE_PERIOD = 2
    Splits = TRUE
SPECIFICATION Spec
INVARIANT Sorted
CHECK_DEADLOCK FALSE
