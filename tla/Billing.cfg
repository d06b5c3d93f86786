SPECIFICATION FairSpec
CONSTANTS
    Messages = {m1}
    Workers = {w1, w2}
    Requests = {q1}
    Sessions = {w1, w2, q1}
    Cost = 1
    Opening = 2
    None = None
    MaxRetries = 1
    BatchLimit = 1
    DayHours = 3
    TopUp = 1
    Plan = 2
    Price = 2
    MaxFaults = 2
INVARIANTS
    TypeOK
    BooksBalance
    NothingForgotten
PROPERTIES
    IsAnAccount
    CaughtUp
CHECK_DEADLOCK FALSE
