SPECIFICATION Spec
CONSTANTS
    v1 = v1
    v2 = v2
    Nobody = Nobody
    Services = {v1, v2}
    LowSenders = {v2}
    Closers = {v2}
    MAX_SOCKET = 1
    Size = 2
    MaxId = 2
    MaxSends <- TwoAndOne
INVARIANT NeverAborts
CHECK_DEADLOCK FALSE
