SPECIFICATION FairSpec
CONSTANTS
    Events <- MCEvents
    Key <- MCKey
    Hour <- MCHour
    MaxQueue = 2
    FlushSize = 2
CHECK_DEADLOCK FALSE
INVARIANTS
    OnePlace
    StopFlushes
PROPERTIES
    NothingVanishes
    EventsDrain
    ShutdownEnds
