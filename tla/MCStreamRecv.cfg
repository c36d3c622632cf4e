\* The peer writes the whole stream, or either end may give it up at any point.
\* The stream is longer than a chunk and than either window, so every limit is
\* met and raised.
SPECIFICATION FairSpec
CONSTANTS
    Size = 5
    Chunk = 2
    Window = 3
    MaxData = 4
    Resets = {TRUE, FALSE}
INVARIANTS CreditConserved IntactPrefix
PROPERTIES IsByteStream Delivered
CHECK_DEADLOCK FALSE
