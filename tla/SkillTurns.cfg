SPECIFICATION Spec

CONSTANTS
    \* FactoryAgent
    Runs = {r1, r2}
    NoRun = NoRun
    Modes = {"run", "adaptive", "sample"}
    Tiers = {hard}
    BaseTier = base
    Fallbacks = 2
    MaxIterations = 2
    \* SenseiApp
    NumRequests = 4
    Overlapping = 2
    Toggles = {"streaming", "adaptive_routing"}
    ChatModels = {m1}
    DefaultModel = m1
    KeepRecent = 1
    MaxTurns = 3
    MaxRestarts = 1
    Nobody = Nobody
    \* AgentHooks
    HandlerModes <- MCHandlerModes
    LlmWraps = 2
    ToolWraps = 1
    MaxInner = 3
    \* ProviderCalls
    Callers = {u1, u2}
    Models = {"adaptive", "small", "oseries"}
    Refuses <- MCRefuses
    MaxChunks = 1
    \* BatchRun
    MaxInputs = 3
    MaxConcurrent = 2
    GivenIds = {2, 7}
    NoId = NoId
    \* ReasoningLoops
    Said = {"done", "more"}
    Finals = {"done"}
    Scores = {0, 40, 80}
    PassMark = 70
    NothingSaid = ""
    MaxRounds = 3
    MaxWorkers = 3
    \* AgentBuild
    ToolNames = {"add", "sum"}
    Shelf <- MCShelf
    YamlTools <- MCYamlTools
    MaxBuilds = 3
    \* SkillCatalog
    Dirs = {1, 2}
    Stems = {1, 2}
    Unreadable = 0
    AgentKeys = {k1, k2}
    MaxShown = 2
    MaxEdits = 3

INVARIANTS
    TurnsSeeEveryReload

\* Most parts end: calls and requests are bounded.
CHECK_DEADLOCK FALSE
