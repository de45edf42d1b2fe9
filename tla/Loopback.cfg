SPECIFICATION FairLoopSpec
CONSTANTS
    lb = lb
    peer = peer
    NoPort = NoPort
    Port = {lb, peer}
    Msg = {1, 2, 3, 4, 5, 6, 7, 8, 9}
    InitCap = 2
    InitPct = 60
    Capacities = {}
    Percents = {}
    MaxQueue = 3
    Uses <- MCUses
    MaxCmds = 2
    MaxIssued = 7
    MaxFed = 9
INVARIANTS
    NoLostWakeup
    StoppedIsClean
PROPERTIES
    EchoInOrder
    EchoDrains
    CommandsAnswered
CHECK_DEADLOCK FALSE
