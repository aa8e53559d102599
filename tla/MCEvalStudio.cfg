CONSTANTS
    Pages = {p1}
    Slots = {q1, q2}
    Cells = {c1}
    MaxRequests = 3
    MaxRestarts = 1
    None = None
SPECIFICATION Spec
INVARIANTS ReviewIsKept
PROPERTY CasesAreKept
SYMMETRY SlotsAlike
