SPECIFICATION Spec
CONSTANTS
    Rows = {r1, r2}
    Actions = {a1, a2}
    Slots = {w1, w2}
    Responders = {x1, x2}
    MaxRuns = 2
    None = None
INVARIANTS TypeOK OnceUnlessRaced PerformedIsApproved
PROPERTY IsApprovedOnce
SYMMETRY Symmetry
CONSTRAINT NotOverturned
