CONSTANTS
    Jobs = {j1, j2}
    MaxLt <- SmallAccountBounds
    PageSize = 1
    MaxFailures = 1
    MaxSwitches = 1
    MaxRestarts = 0
    NoWallet = NoWallet
    NoLoad = NoLoad
SPECIFICATION FairSpec
PROPERTIES CatchesUp
CHECK_DEADLOCK FALSE
