SPECIFICATION Spec
CONSTANTS
    x = x
    y = y
    g1 = g1
    None = None
    Sessions = {s1, s2}
    Streams = {x, y}
    Idents = {i}
    Gates = {g1}
    GateOf <- MCGateOf
    ChanCap = 1
    MaxMessages = 3
    MaxChanges = 3
CHECK_DEADLOCK FALSE
INVARIANTS
    DeliveryOrder
    NoLostBroadcast
PROPERTY
    BroadcastSettles
