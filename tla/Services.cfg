SPECIFICATION Spec
CHECK_DEADLOCK FALSE
CONSTANTS
    Coins = {btc}
    None = None
    Day = 4
    Hour = 2
    SendAt = 3
    Interval = 4
    Starts <- MCStarts
    Changes <- MCChanges
    MaxSend = 1
    MaxTime = 8
    MaxUpdates = 1
    MaxFailures = 1
    MaxDelay = 1
INVARIANTS
    MissedOnlyBetweenWindows
    OncePerDay
PROPERTIES
    EntryFeaturesSettle
