SPECIFICATION MCSpec
CONSTANTS
    alice = alice
    Sessions = {s1, s2}
    Streams = {x}
    Idents = {i}
    Users = {alice}
    UserOf <- MCUserOf
    MaxCommands = 1
    MaxReplies = 2
    Callers = {c1, c2}
    MaxOutages = 2
    MaxGenerations = 3
    MaxRequests = 1
    NoSession = NoSession
    AccessConfigs <- MCAccessConfigs
    ClientCommands = 3
    MaxErrors = 1
SYMMETRY MCSymmetry
CHECK_DEADLOCK FALSE
INVARIANTS
    CleanRemoval
    RemoteDisconnectHits
    OneTryPerOutage
    HalfOpenNotStuck
    
    
    
PROPERTIES
    WhispersOwnStreams
