SPECIFICATION FairSpec
CONSTANTS
    Requests = {r1, r2, r3}
    Processes = {p1, p2}
    Faults = {"boot", "redis", "stall"}
    None = None
INVARIANTS
    TypeOK
    OneLocalExecution
    OverlapNeedsFault
    NothingLeft
PROPERTIES
    IsALock
    KeyErrorAfterRelease
    Served
CHECK_DEADLOCK FALSE
