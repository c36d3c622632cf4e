\* Two frames of every kind in a buffer that is too small for some and in one
\* that has room to spare.  Lists of up to four gaps, heaps of up to three
\* levels, and a table that is resized once.
SPECIFICATION Spec
CONSTANTS
    MaxFrames = 2
    Buffers = {20, 30, 50}
    Aead = 2
    ParamBuf = 256
    Infinity = 9
    Items = {1, 2, 3, 4, 5, 6}
    Expiries = {1, 2, 3}
    Keys = {k1, k2, k3, k4, k5}
    TableLen = 4
CHECK_DEADLOCK FALSE
INVARIANTS FramesRecovered CutNoticed MessagesRecovered GapsAreTheRest HeldIsFound
