SPECIFICATION Spec
CONSTANTS
    Users = {alice, bob}
    Fds = {f1, f2}
    Sessions = {s1}
    MaxReqs = 3
    MaxHandshake = 2
    ExpiredNumber = 1
    None = None
SYMMETRY GateSymmetry
INVARIANTS TypeOK ReturnFdOwned CacheIndex NoSecondRun
PROPERTY RetireKeepsExpiredNumber
CHECK_DEADLOCK FALSE
