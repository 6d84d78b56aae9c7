SPECIFICATION Spec
CONSTANTS
    Channels = {ch1, ch2}
    TxIds = {tx1}
    CallIds = {r1, r2}
    Events = {}
    OutCapacity = 1
    MaxKeepalives = 0
    MaxStrays = 0
    Orderly = TRUE
    MayCancel = TRUE
    Detached = FALSE
    Breakable = TRUE
    NoKey = NoKey
    NoCall = NoCall
    NoEvent = NoEvent
SYMMETRY Symmetry
CHECK_DEADLOCK FALSE
INVARIANTS
    TypeOK
    NoCrossTalk
    OneInFlight
    NoPendingLeak
    RefusedAfterCancel
PROPERTY
    ImplementsSession
