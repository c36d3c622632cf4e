\* Two dispatchers that disagree about the first client and agree about the
\* second; one datagram is lost on the way to a dispatcher.
CONSTANTS
    da = da
    db = db
    dc = dc
    c1 = c1
    c2 = c2
    None = None
    DC = {da, db}
    Conns = {c1, c2}
    ServerIds = {s1, s2}
    MaxTx = 3
    Tries <- Impatient
    Redundancy = 0
    Deployed = {da, db}
    Tunnels <- Everybody
    DemandOf <- RttAndCpu
    MetricsOf <- OtherNearest
    MaxLoss = 1
    LossyHops = {"dispatcher"}
    TimersRace = FALSE
SPECIFICATION FairSpec
\* The system may stop: every client is served or has given up.
CHECK_DEADLOCK FALSE
PROPERTIES
    Quiesces
    Served
