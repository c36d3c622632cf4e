\* Every measurement table over three data centers.
CONSTANTS
    DC = {a, b, c}
    Self = a
    MaxRedundancy = 2
    Latencies <- MCLatencies
    Values <- MCValues
SPECIFICATION Spec
\* A behaviour ends when its packet has been forwarded.
CHECK_DEADLOCK FALSE
INVARIANTS
    BestIsFirst
    RedundantWithinBounds
    NoneSkipped
