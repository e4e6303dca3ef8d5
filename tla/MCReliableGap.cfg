SPECIFICATION Spec
CONSTANTS
    Publishers = {p1}
    Limit = 3
    TTL = 1
    KeepFactor = 1
    MaxMessages = 4
    MaxTime = 6
    MaxEpochs = 1
CHECK_DEADLOCK FALSE
INVARIANT
    AtLeastOnce
