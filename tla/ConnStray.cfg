SPECIFICATION Spec
CONSTANTS
    Channels = {ch1, ch2}
    TxIds = {tx1}
    CallIds = {r1}
    Events = {ev1}
    OutCapacity = 2
    MaxKeepalives = 1
    MaxStrays = 1
    Orderly = FALSE
    MayCancel = TRUE
    Detached = FALSE
    Breakable = TRUE
    NoKey = NoKey
    NoCall = NoCall
    NoEvent = NoEvent
SYMMETRY Symmetry
CHECK_DEADLOCK FALSE
INVARIANTS
    NoTxLost
    VerdictIsLast
    VerdictsAccounted
    RunsAfterHandshake
