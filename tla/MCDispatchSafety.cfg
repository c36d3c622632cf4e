\* Two connections, two dispatchers with changing measurements, racing timers, restarts
\* of dispatchers and servers, and a loss.
CONSTANTS
    da = da
    db = db
    dc = dc
    c1 = c1
    c2 = c2
    None = None
    DC = {da, db}
    Conns = {c1, c2}
    ServerIds = {s1, s2}
    MaxTx = 2
    Tries <- Uneven
    Redundancy = 0
    Deployed = {da, db}
    Tunnels <- Everybody
    DemandOf <- RttAndCpu
    MetricsOf <- AnyMetrics2
    MaxLoss = 1
    LossyHops = {"dispatcher", "server", "client"}
    TimersRace = TRUE
SPECIFICATION Spec
SYMMETRY Alike
\* The system may stop: every client is served or has given up.
CHECK_DEADLOCK FALSE
INVARIANTS
    TypeOK
    TableConsistent
    SingleCopy
    TakenOnce
