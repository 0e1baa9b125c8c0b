CONSTANTS
    Queries = {q1, q2}
    None = None
    MaxUpdates = 1
    MaxEvents = 1
    MayClose = TRUE
SPECIFICATION FairSpec
PROPERTIES CloseReturns
CHECK_DEADLOCK FALSE
