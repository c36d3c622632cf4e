CONSTANTS
    MaxStream = 3
    MAX_BYTES_IN_FLIGHT = 2
    Pages <- WindowPages
SPECIFICATION Spec
CHECK_DEADLOCK FALSE
INVARIANTS
    WindowFollowsGap
