SPECIFICATION RpcSpec
CONSTANTS
    RequestId = {q1, q2}
    Action = {a1}
    CacheSize = 1
    MaxSnapshots = 1
    AllowOracle = TRUE
    MaxEpisodes = 2
    MaxGeneration = 4
    MaxWorlds = 3
    MaxHandles = 2
    NoAction = NoAction
SYMMETRY Symmetry
INVARIANTS
    RpcTypeOK
    ActsOnWorldPresented
    OneStepPerDecision
    DecisionNamesOneWorld
    SnapshotsOfEpisode
