SPECIFICATION FairSpec
CONSTANTS
    Levels = {"debug", "info"}
    MessageSize = 2
    DropLimit = 2
    RollSize = 1
    HoursPerDay = 24
    MaxMsgs = 4
    MaxHour = 1
    Bufs <- MCBufs
    FopenMayFail = {"info"}
INVARIANTS
    NoAssertFails
    OneOwner
    NoneLost
    FilesRolled
PROPERTIES
    Logged
CHECK_DEADLOCK FALSE
