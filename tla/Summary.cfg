SPECIFICATION SummarySpec
CONSTANTS
    TradeHistories <- SomeTrades
    SignalHistories <- SomeSignals
    Arriving <- ArrivingTrades
    ArrivingSignals <- ArrivingEvaluations
    MaxArrivals = 1
INVARIANTS
    ConclusionsAgree
    AdviceAgrees
    NothingHighIsCut
    LossesAreSummarised
    IssuesMeanMissingScores
CHECK_DEADLOCK FALSE
