SPECIFICATION FairSpec
CONSTANTS
    a = a
    b = b
    e1 = e1
    c1 = c1
    Internal <- MCInternal
    Pushers = {e1}
    Hooked = {c1}
    Rounds = 1
    HasSynthesizer = TRUE
    MaxParticipants = 3
    Runs = {x1, x2}
    Requests = {q1, q2}
    MaxCalls = 2
    MaxFaults = 1
    Synthesizer = Synthesizer
    None = None
INVARIANTS
    TypeOK
    OnceEach
    WordsAreOwn
PROPERTY Ends
CHECK_DEADLOCK FALSE
