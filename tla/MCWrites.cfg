SPECIFICATION MCSpec
CONSTANTS
    small = small
    large = large
    NoItem = NoItem
    Items <- MCItems
    ItemSize <- MCItemSize
    MaxSizes = {0, 4}
    InitCap = 1
    MaxLen = 9
    Callers = {c1}
    MaxPending = 1
    MaxCalls = 3
    PeerMayStall = TRUE
    Tasks = {t1, t2, t3}
    PoolSize = 2
    Threshold = 3
CHECK_DEADLOCK FALSE
INVARIANTS
    NeverPanics
    NoLostWakeup
    HandedOverOnce
PROPERTIES
    ImplementsFifo
    WriterStops
    TasksRun
