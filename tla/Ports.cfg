SPECIFICATION UseSpec
CONSTANTS
    src = src
    snk = snk
    NoPort = NoPort
    Port = {src, snk}
    Msg = {m1, m2}
    InitCap = 2
    InitPct = 60
    Capacities = {2, 3}
    Percents = {60, 100, 101}
    MaxQueue = 3
    Uses <- MCUses
INVARIANTS
    TypeOK
    ConnectionClean
    BusyHasBacklog
    SenderWaitsForBusyPort
PROPERTIES
    ImplementsLossyChannel
    ImplementsReliableChannel
CHECK_DEADLOCK FALSE
