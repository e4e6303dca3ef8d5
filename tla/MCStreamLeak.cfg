SPECIFICATION Spec
CONSTANTS
    Sessions = {s1}
    Streams = {x}
    Idents = {i}
    MaxCalls = 2
    MaxFailures = 0
    MaxRaces = 0
CHECK_DEADLOCK FALSE
INVARIANT
    UnusedIsReleased
