SPECIFICATION FairSpec
CONSTANTS
    Agents = {a1}
    MaxNames = 1
    MaxFds = 2
    MaxRef = 2
    MaxKicks = 0
    Env = {"timeout", "slow"}
    None = None
INVARIANTS NamesKnown
PROPERTIES SessionsEnd
CHECK_DEADLOCK FALSE
