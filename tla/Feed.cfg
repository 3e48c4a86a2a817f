SPECIFICATION FairSpec
CONSTANTS
    Coins = {btc, eth, sol}
    MaxWire = 2
CHECK_DEADLOCK FALSE
INVARIANTS
    SubscribedIsServed
PROPERTIES
    DesiredIsServed
    StopEnds
