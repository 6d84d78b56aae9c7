SPECIFICATION FairSpec
CONSTANTS
    q1 = q1
    Iters = {q1, q2}
    MaxRecords = 2
    Totals <- MCTotals
    Malformed = {2}
    MayFail = TRUE
    MayCancel = TRUE
    NoIter = NoIter
CHECK_DEADLOCK FALSE
INVARIANTS
    TypeOK
    NoRecordTwice
    NoRecordLost
    EndMeansAll
    CollectsAll
    ClosedMeansReleased
    NothingAfterClose
PROPERTY
    OperationsEnd
