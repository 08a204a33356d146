SPECIFICATION Spec
CONSTANTS
    Timers = {t1, t2}
    NEAR = 2
    LEVEL = 2
    MaxTime = 15
    MaxLag = 2
SYMMETRY TimerSymmetry
INVARIANTS
    OnTime
    SameTickInOrder
