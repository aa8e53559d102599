SPECIFICATION Spec
CONSTANTS
    Messages = {m1, m2, m3}
    NoTask = NoTask
    MaxClears = 0
INVARIANT OneHandlerPerScope
SYMMETRY Symmetric
