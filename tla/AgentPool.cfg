SPECIFICATION Spec
CONSTANTS
    Tasks = {t1, t2, t3}
    MaxConcurrency = 2
    Estimates = {1, 2}
    NoEstimate = NoEstimate
    MinEstimate = 1
    MaxCost = 2
    Cap = 1
    Burst = 2
    PerToken = 2
INVARIANTS
    BudgetOverrunIsBounded
    RateIsKept
PROPERTIES
    FanOutReturns
