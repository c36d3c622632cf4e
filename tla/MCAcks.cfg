SPECIFICATION Spec
CONSTANTS
    Client = Client
    Server = Server
    Budgets <- MCBudgets
    NGTCP2_ACKTR_MAX_ENT = 3
    NGTCP2_MAX_ACK_BLKS = 1
    RingLen = 2
    Bits <- MCBits
INVARIANTS
    ListedWereGot
    KeptUntilHeard
    NewestRecovered
    OwedIsTimed
CHECK_DEADLOCK FALSE
