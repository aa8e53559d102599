SPECIFICATION Spec
CONSTANTS
    a = a
    b = b
    d = d
    z = z
    None = None
    StateIds <- MCStateIds
    Workflows <- MCWorkflows
    Backends = {"file", "memory"}
    MaxStateRetries = 2
    MaxTransitions = 2
    CleanCaller = TRUE
    MaxJobs = 2
    MaxKills = 2
    SequenceBound = 4
INVARIANTS
    LogIsChained
    ClosedLogIsQuiet
    CompletedAnswerIsTheLog
PROPERTIES
    CallReturns
    ImplementsDurableJob
