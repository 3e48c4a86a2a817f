SPECIFICATION Spec
CONSTANTS
    btc = btc
    eth = eth
    None = None
    Coins = {btc, eth}
    CacheTtl = 1
    MaxHistory = 5
    Weekend = {2}
    Feed <- TwoCoinFeed
    ScanEvery = 1
    MaxSignals = 3
    MaxPositions = 2
    MaxExposure = 3000
    Cooldown = 1
    WeekendMaxPositions = 1
    MaxSlPerWindow = 2
    SlWindow = 2
    MinTrades = 1
    MaxEvents = 5
    MaxTime = 2
CHECK_DEADLOCK FALSE
INVARIANTS
    LevelsHeld
    CooldownKept
    BooksAgree
    WithinLimits
PROPERTIES
    StopNeverLoosens
    GuardKept
