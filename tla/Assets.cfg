SPECIFICATION Spec
CONSTANTS
    empty = empty
    asset1 = asset1
    asset2 = asset2
    o1 = o1
    o2 = o2
    d1 = d1
    d2 = d2
    Ids = {empty, asset1, asset2}
    EmptyId = empty
    Owners = {o1, o2}
    Details = {d1, d2}
    Seeds <- MCSeeds
    Stored <- MCStored
    Requests <- MCRequests
    Txs = {t1, t2, t3}
    Missing = Missing
    Corrupt = Corrupt
    Unit = Unit
    NoEvent = NoEvent
    NoRequest = NoRequest
    NoOutcome = NoOutcome
    Unread = Unread
    Unwritten = Unwritten
SYMMETRY Symmetry
CHECK_DEADLOCK FALSE
INVARIANT TypeOK
PROPERTIES
    NoLostUpdate
    ImplementsRegistry
