SPECIFICATION FairSpec
CONSTANTS
    Workers = {w1}
    SlackBots = {s1, s2}
    TelegramBots = {t1}
    WhatsAppBots = {}
    Rank <- MCRank
    None = None
    Capacity = 1
    Initial = {w1}
    Faults = {"failstart", "failstop"}
    MaxFaults = 1
    MaxRequests = 2
    MaxTrouble = 3
INVARIANTS
    OvershootBounded
    NoGhost
PROPERTY ShutdownEnds
CHECK_DEADLOCK FALSE
