SPECIFICATION CtlSpec
CONSTANTS
    RequestId = {1, 2, 3, 4, 5}
    MaxCalls = 5
    Action = {a1}
    CacheSize = 1
    MaxSnapshots = 1
    AllowOracle = TRUE
    MaxEpisodes = 2
    MaxGeneration = 3
    MaxWorlds = 3
    MaxHandles = 1
    NoAction = NoAction
CHECK_DEADLOCK FALSE
INVARIANTS
    CtlTypeOK
    OneStepPerRequest
    NoRewardLostSilently
    InStepUnlessTold
