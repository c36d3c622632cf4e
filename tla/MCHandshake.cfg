CONSTANTS
    Scenarios <- MCScenarios
    MaxConn = 2
    NGTCP2_MAX_NUM_BUFFED_RX_PPKTS = 1
SPECIFICATION Spec
INVARIANTS
    TypeOK
    RoutesAgree
    OneServer
    FinishedNotAbandoned
    NotSilent
PROPERTIES
    BothEnd
CHECK_DEADLOCK FALSE
