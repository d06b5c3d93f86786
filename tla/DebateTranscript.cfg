SPECIFICATION Spec
CONSTANTS
    a = a
    b = b
    e1 = e1
    c1 = c1
    Internal <- MCInternal
    Pushers = {}
    Hooked = {}
    Rounds = 1
    HasSynthesizer = TRUE
    MaxParticipants = 3
    Runs = {x1}
    Requests = {q1}
    MaxCalls = 0
    MaxFaults = 0
    Synthesizer = Synthesizer
    None = None
PROPERTY TranscriptKept
CHECK_DEADLOCK FALSE
