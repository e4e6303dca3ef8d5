SPECIFICATION MCSpec
CONSTANTS
    PingInterval = 2
    SessionsTTL = 6
    PresenceTTL = 4
    Configs <- MCConfigs
    Ticks = {g1, g2}
    MaxTime = 7
    MaxCommands = 1
    Sessions = {s1, s2}
    Streams = {st1}
    Pids = {p1, p2}
    NoPid = NoPid
    Keepers = {s1}
    PresenceCommands = 5
    Cached = {c1, c2, c3, c4}
    CacheTTL = 3
    CacheTime = 6
INVARIANTS
    KeptAlive
    AnsweringClientKept
    StaysPresent
    ViewsAgree
    RestorableUntilDeadline
CHECK_DEADLOCK FALSE
