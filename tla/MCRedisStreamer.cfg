SPECIFICATION Spec
CONSTANTS
    Nodes = {n1, n2}
    NoNode = NoNode
    MaxReconnectAttempts = 1
    MaxEntries = 2
    MaxFaults = 1
INVARIANTS
    NotLost
    OnceUnlessClaimed
PROPERTIES
    EventuallyHandled
    ShutdownReturns
CHECK_DEADLOCK FALSE
