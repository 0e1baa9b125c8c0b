CONSTANTS
    MaxUnlocks = 2
    MaxRequests = 2
    MaxTasks = 2
SPECIFICATION Spec
INVARIANTS TypeOK KeyTakenOnce DeclinedNotPaid StarvedForCause
CHECK_DEADLOCK FALSE
