SPECIFICATION LeavingSpec
CONSTANTS
    Conns = {c1, c2}
    MaxTasks = 2
CHECK_DEADLOCK FALSE
INVARIANT ExitDrains
PROPERTY ExitsAfterPeers
