CONSTANTS
    Queries = {q1, q2, q3}
    None = None
    MaxUpdates = 1
    MaxEvents = 2
    MayClose = TRUE
SPECIFICATION FairSpec
INVARIANTS TypeOK HandlerWaits HandlerIsOwed DestroyedIsLocked
PROPERTIES ServiceSpec SendAnswered
CHECK_DEADLOCK FALSE
