SPECIFICATION FairSpec
CONSTANTS
    t1 = t1
    t2 = t2
    t3 = t3
    Threads = {t1, t2, t3}
    Depth = 2
    MaxEvents = 2
CHECK_DEADLOCK FALSE
INVARIANTS
    RequestFollowsRing
    PlaceForWhoeverIsIn
PROPERTIES
    CarriesEvents
    EveryEventProcessed
