SPECIFICATION MCSpec
CONSTANTS
    Sessions = {s1, s2}
    Concurrency = 1
    Backlog = 1
    MaxRetries = 1
    MaxCommands = 1
    Configs <- MCConfigs
    Clients = {c1}
    Messages = {m1}
    MaxSignals = 2
    MaxFailures = 1
INVARIANTS
    Flushed
    BroadcastsSurvive
PROPERTIES
    ShutdownEnds
    
CHECK_DEADLOCK FALSE
