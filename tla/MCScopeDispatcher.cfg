SPECIFICATION Spec
CONSTANTS
    Messages = {m1, m2, m3}
    NoTask = NoTask
    MaxClears = 1
INVARIANTS
    TurnIsSteered
PROPERTIES
    EveryMessageAnswered
