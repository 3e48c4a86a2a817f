SPECIFICATION FairPersistenceSpec
CONSTANTS
    Coins = {btc}
    CacheTtl = 2
    MaxHistory = 6
    Weekend = {}
    None = None
    Outlooks <- ThreeOutlooks
    Horizon = 8
INVARIANTS
    AnswersConfirmed
PROPERTIES
    AnswerCatchesUp
