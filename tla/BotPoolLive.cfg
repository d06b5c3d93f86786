SPECIFICATION FairSpec
CONSTANTS
    Workers = {w1, w2}
    SlackBots = {s1, s2}
    TelegramBots = {}
    WhatsAppBots = {}
    Rank <- MCRank
    None = None
    Capacity = 1
    Initial = {w1}
    Faults = {"join", "pause", "crash", "disconnect", "failstart", "failstop", "database", "api"}
    MaxFaults = 2
    MaxRequests = 2
    MaxTrouble = 2
PROPERTY OrphansClaimed
CHECK_DEADLOCK FALSE
