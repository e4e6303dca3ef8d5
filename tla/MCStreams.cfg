SPECIFICATION MCSpec
CONSTANTS
    Sessions = {s1, s2}
    Streams = {x}
    Idents = {i}
    Publishers = {p1, p2}
    Limit = 2
    TTL = 1
    KeepFactor = 1
    MaxMessages = 3
    MaxTime = 4
    MaxEpochs = 2
    MaxCalls = 2
    MaxFailures = 1
    MaxRaces = 1
SYMMETRY MCSymmetry
CHECK_DEADLOCK FALSE
INVARIANTS
    GapsExplained
    Listening
