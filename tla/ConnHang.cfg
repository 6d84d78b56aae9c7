SPECIFICATION FairSpec
CONSTANTS
    Channels = {ch1}
    TxIds = {tx1}
    CallIds = {r1}
    Events = {}
    OutCapacity = 1
    MaxKeepalives = 0
    MaxStrays = 0
    Orderly = TRUE
    MayCancel = FALSE
    Detached = FALSE
    Breakable = TRUE
    NoKey = NoKey
    NoCall = NoCall
    NoEvent = NoEvent
CHECK_DEADLOCK FALSE
PROPERTIES
    StreamEndFailsCalls
