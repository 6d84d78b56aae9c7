SPECIFICATION FairSpec
CONSTANTS
    Channels = {ch1}
    TxIds = {tx1}
    CallIds = {r1, r2}
    Events = {}
    OutCapacity = 1
    MaxKeepalives = 2
    MaxStrays = 0
    Orderly = TRUE
    MayCancel = TRUE
    Detached = TRUE
    Breakable = TRUE
    NoKey = NoKey
    NoCall = NoCall
    NoEvent = NoEvent
CHECK_DEADLOCK FALSE
INVARIANTS
    NoLostWakeup
    PingsAccounted
    ClosedMeansOver
PROPERTIES
    EveryTxAnswered
    EveryCallEnds
    EveryPingEchoed
    LoopEndsWithStream
