SPECIFICATION MCSpec
CONSTANTS
    HistoryLimit = 2
    MaxMessages = 3
    MaxRequests = 2
    Beginning = Beginning
    Now = Now
    CloseFrame = CloseFrame
    None = None
    MaxCommands = 2
    MaxEvents = 3
    a = a
    b = b
    n1 = n1
    n2 = n2
    Nodes = {n1, n2}
    Goroutines = {g1, g2}
    Publications = {p1}
    MaxErrors = 1
    MaxUses = 2
    Streams = {a, b}
    MaxInStream <- MCMaxInStream
    MaxSubscribes = 3
    TTL <- MCTTL
    MaxAttempts = 1
    MaxStarts = 2
    MaxExpirations = 1
    MaxBroadcasts = 1
    MaxState = 3
    KeyTTL = 2
    MaxTime = 5
INVARIANTS
    
    EventsInOrder
    
    EveryNodeOnce
    
    AnswersContiguous
    EpochsAgree
    
CHECK_DEADLOCK FALSE
