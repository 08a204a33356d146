SPECIFICATION FairSpec
CONSTANTS
    w1 = w1
    w2 = w2
    Ext = Ext
    Workers <- MCWorkers
    Weight <- MCWeight
    Steady = w2
    InitHandles = 1
    MaxHandle = 2
    MaxMsgs = 2
    SlotSize = 1
    QueueSize = 2
INVARIANTS
    QueueInOnePlace
    RefsCounted
    DropReported
PROPERTIES
    MailboxSpec
    QueueServed
CHECK_DEADLOCK FALSE
