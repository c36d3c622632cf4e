CONSTANTS
    MaxStream = 3
    MAX_BYTES_IN_FLIGHT = 2
    Pages <- MCPages
SPECIFICATION Spec
CHECK_DEADLOCK FALSE
INVARIANTS
    AssertsHold
    ConcurrencyBounded
    ErrorsOnlyAfterReset
    AnsweredOnce
    CloseMeansDelivered
    CreditNotLost
    NotSilent
