SPECIFICATION Spec
CONSTANTS
    MaxWrites = 4
    Env = {"partition", "dbcrash", "gamecrash"}
    None = None
INVARIANTS RedisNotStale
PROPERTIES SavedNotRolledBack
