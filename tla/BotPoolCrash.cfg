SPECIFICATION Spec
CONSTANTS
    Workers = {w1, w2}
    SlackBots = {s1}
    TelegramBots = {}
    WhatsAppBots = {p1}
    Rank <- MCRank
    None = None
    Capacity = 2
    Initial = {w1, w2}
    Faults = {"crash", "disconnect", "failstart", "failstop", "database", "api"}
    MaxFaults = 2
    MaxRequests = 1
    MaxTrouble = 3
INVARIANTS
    TypeOK
    NoDoubleRun
    ActiveIsAssigned
CHECK_DEADLOCK FALSE
