SPECIFICATION RunsSpec
CONSTANTS
    Runs = {r1}
    Monitors = {m1}
    NCases = 2
    Concurrency = 2
    Budgets = {1}
    MaxRestarts = 1
    None = None
CHECK_DEADLOCK FALSE
INVARIANTS
    ReadersAreToldTheRun
PROPERTIES
    MonitorLearnsTheEnd
