SPECIFICATION Spec
CONSTANTS
    Callers = {c1}
    MaxPending = 1
    MaxCalls = 2
    PeerMayStall = TRUE
CHECK_DEADLOCK FALSE
PROPERTY
    SlowClientIsHungUp
