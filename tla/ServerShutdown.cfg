SPECIFICATION FairSpec
CONSTANTS
    Conns = {c1}
    MaxTasks = 1
CHECK_DEADLOCK FALSE
PROPERTY ShutdownExits
