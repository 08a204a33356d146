SPECIFICATION Spec
CONSTANTS
    Levels = {"debug", "info"}
    MessageSize = 2
    DropLimit = 2
    RollSize = 1
    HoursPerDay = 24
    MaxMsgs = 3
    MaxHour = 0
    Bufs <- MCBufs
    FopenMayFail = {}
INVARIANT ExitWritesAll
CHECK_DEADLOCK FALSE
