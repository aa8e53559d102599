SPECIFICATION Spec

CONSTANTS
    \* CaseScoring
    Canon <- MCCanon
    Spelled <- MCSpelled
    Letters <- MCLetters
    OpTexts <- MCOpTexts
    Known <- MCKnown
    NoOp = ""
    MaxCells = 2
    Threshold = 80
    JudgeScores = {40, 70}
    JudgeThreshold = 70
    \* PromptVersions
    Versions = {1, 2}
    NoVersion = NoVersion
    Pages = {p1, p2}
    MaxClicks = 3
    \* SuiteConfig
    Savers = {w1, w2}
    Categories = {crud, code}
    MaxSaves = 4
    NoCategory = NoCategory
    \* RunArchive
    Gap = 1
    PageLimit = 2
    MaxArchived = 3
    MaxFinish = 3
    MaxReboots = 1
    MaxFull = 1
    Alone = Alone
    \* ProjectMirror
    RemoteSuites = {a, b}
    RemoteIds = {x}
    Visitors = {v1, v2}
    MaxEdits = 2
    MaxVisits = 2
    Unknown = Unknown
    \* OracleRuns
    Tabs = {t1, t2}
    MaxExecutes = 3
    Nothing = Nothing
    \* QueryCache
    MaxMutations = 2
    MaxElsewhere = 1
    MaxPages = 3
    \* StudioDraft
    Fixtures = {f1, f2}
    Prompts = {text}
    MaxAsked = 2
    Blank = Blank

SYMMETRY MCSymmetry

INVARIANTS
    CountsAgree
    LiveVersionIsPromoted
    SequentialSavesKeepTheCategory
    MirrorIsHonest
    StudioKeepsItsWord
    OwnChangesAreShown
PROPERTIES
    HistoryIsTold

\* Most parts end: calls and requests are bounded.
CHECK_DEADLOCK FALSE
