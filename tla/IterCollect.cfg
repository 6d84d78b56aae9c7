SPECIFICATION Spec
CONSTANTS
    q1 = q1
    Iters = {q1}
    MaxRecords = 2
    Totals <- MCTotals
    Malformed = {2}
    MayFail = FALSE
    MayCancel = FALSE
    NoIter = NoIter
INVARIANT CollectReleases
CHECK_DEADLOCK FALSE
