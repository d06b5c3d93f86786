SPECIFICATION Spec
CONSTANTS
    Rows = {r1}
    Actions = {a1}
    Slots = {w1, w2}
    Responders = {x1}
    MaxRuns = 2
    None = None
INVARIANT PerformedOnce
