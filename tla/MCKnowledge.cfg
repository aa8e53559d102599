SPECIFICATION Spec

CONSTANTS
    \* MemoryLayers
    NumObservations = 3
    Related = {1, 2}
    Cycles = {c1, c2}
    MaxWorking = 1
    MaxEntries = 2
    Limit = 2
    Life <- Lifetimes
    ArchiveTTL = 1
    \* RecallPipeline
    Queries = {1, 2, 3}
    Original = 1
    KeyOf <- MCKeyOf
    Found = {"short", "medium", "long"}
    Words <- MCWords
    NumVariants = 1
    MaxSubqueries = 1
    TopK = 2
    FusionK = 60
    BudgetTokens = 5
    Unit = 3782
    \* ProfileFacts
    Setters = {s1, s2}
    MaxSets = 4
    MaxErasures = 1
    \* Collections
    Writers = {w1, w2}
    MaxCalls = 4
    MaxTime = 2
    MaxPolls = 3
    PageSize = 2
    NoCall = NoCall
    \* ConnectionPool
    Stores = {items, kv}
    Nested = {items}
    Clients = {c1, c2, c3}
    PoolSize = 2
    NoStore = NoStore
    \* AuditTrail
    Loggers = {l1, l2}
    MaxEvents = 4
    MaxCrashes = 1
    MaxBatch = 2

SYMMETRY Symmetry
INVARIANTS
    ObservationsAreKept
    AnswerIsRanked
    FactHasOneValue
    ReaderMissesNothing
    OnlyFirstUseWedgesPool
    AuditIsSound
PROPERTIES
    ChangesAreWhole

\* Most parts end: calls and requests are bounded.
CHECK_DEADLOCK FALSE
