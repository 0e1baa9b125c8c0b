CONSTANTS
    Jobs = {j1, j2}
    MaxLt <- AccountBounds
    PageSize = 1
    MaxFailures = 1
    MaxSwitches = 1
    MaxRestarts = 1
    NoWallet = NoWallet
    NoLoad = NoLoad
SPECIFICATION Spec
SYMMETRY JobSymmetry
INVARIANTS TypeOK SavedStateWasTrue DefaultListIsOwn HistoryBehindState
PROPERTIES ActiveListGrows ViewSpec
CHECK_DEADLOCK FALSE
