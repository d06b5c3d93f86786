SPECIFICATION FairSpec
CONSTANTS
    NumTasks = 1
    Ticks = {b1, b2}
    Workers = {w1}
    Period = 2
    BatchSize = 1
    MaxTick = 1
    MaxQueue = 1
    MaxEdits = 1
    MaxFaults = 2
    None = None
INVARIANT TypeOK
PROPERTIES
    QueuedOnce
    NeverStarves
CHECK_DEADLOCK FALSE
