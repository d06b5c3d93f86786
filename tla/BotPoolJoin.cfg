SPECIFICATION Spec
CONSTANTS
    Workers = {w1, w2}
    SlackBots = {s1, s2}
    TelegramBots = {}
    WhatsAppBots = {}
    Rank <- MCRank
    None = None
    Capacity = 2
    Initial = {w1}
    Faults = {"join"}
    MaxFaults = 1
    MaxRequests = 0
    MaxTrouble = 1
INVARIANT NoDoubleRun
CHECK_DEADLOCK FALSE
