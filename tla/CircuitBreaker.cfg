SPECIFICATION FairSpec
CONSTANTS
    Callers = {c1, c2, c3}
    FailureThreshold = 2
    HalfOpenMax = 2
INVARIANTS
    TypeOK
    ClosedBelowThreshold
    HalfOpenAdmits
PROPERTIES
    EarnedClose
    Recovers
