\* Data that arrives after a reset of the stream.
SPECIFICATION Spec
CONSTANTS
    Size = 5
    Chunk = 2
    Window = 3
    MaxData = 4
    Resets = {TRUE}
CHECK_DEADLOCK FALSE
PROPERTIES ResetEndsReception
