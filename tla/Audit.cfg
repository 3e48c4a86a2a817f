SPECIFICATION AuditSpec
CONSTANTS
    Registered <- UpToTwo
    Requests = {"now"}
    Observed <- SomeObserved
    BotReplies = {5}
    HasCredentials = TRUE
    MaxRefusals = 1
INVARIANTS
    ScoreIsWorst
PROPERTIES
    OutdatedIsReplaced
    DeadTokenReplaced
CHECK_DEADLOCK FALSE
