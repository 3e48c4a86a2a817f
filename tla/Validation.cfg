SPECIFICATION ValidationSpec
CONSTANTS
    Histories <- UpToFive
    MinTrades = 3
    MinAccepted = 2
    None = None
CHECK_DEADLOCK FALSE
INVARIANTS
    FiltersNest
PROPERTIES
    AdoptIsSound
