SPECIFICATION FairSpec
CONSTANTS
    Requests = {r1}
    Networks = {"main", "test"}
    KeyBlocks <- KeysValue
    InitBlocks <- InitsValue
    Configs <- ConfigsValue
    MasterInit = 1
    StartTip = 3
    MaxTip = 4
    MaxConfigs = 2
    MaxLosses = 1
    None = None
INVARIANTS TypeOK OneQueryEach NobodyStranded FreshAnswer NothingUnsaved KeptIsChecked StoreOwnNet FatalIsFinal PercentInRange
PROPERTIES HeadSpec StoreForward CallersAnswered FileCatchesUp
CHECK_DEADLOCK FALSE
