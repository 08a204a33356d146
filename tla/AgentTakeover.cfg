SPECIFICATION Spec
CONSTANTS
    Agents = {a1}
    MaxNames = 2
    MaxFds = 3
    MaxRef = 2
    MaxKicks = 1
    Env = {"slow"}
    None = None
INVARIANTS TypeOK OneOnlineSession Routed OwnerExists
PROPERTIES NotReloaded
CHECK_DEADLOCK FALSE
