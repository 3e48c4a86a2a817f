SPECIFICATION FairSpec
CONSTANTS
    Users = {u1}
    Requests = {r1, r2, r3}
    Startup = Startup
    None = None
    Overrides <- NoneOrAll
    Ttl = 2
    HttpTimeout = 1
    RateMax = 2
    RateWindow = 1
    MaxTime = 3
INVARIANTS
    LoginsLimited
PROPERTIES
    AllowListFresh
    RefreshesApart
    RequestsPass
