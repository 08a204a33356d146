SPECIFICATION FairSpec
CONSTANTS
    v1 = v1
    v2 = v2
    Nobody = Nobody
    Services = {v1, v2}
    LowSenders = {v2}
    Closers = {v2}
    MAX_SOCKET = 1
    Size = 2
    MaxId = 2
    MaxSends <- TwoAndOne
INVARIANTS WireWhole InOrder  Drained
PROPERTY Delivered
CHECK_DEADLOCK FALSE
