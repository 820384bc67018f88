SPECIFICATION EyeSpec
CONSTANTS
    Limit = 5
    Handles <- MCHandles
    HandleRank <- MCHandleRank
    MaxRecords = 11
    MaxDecisions = 2
    MaxEvents = 2
CHECK_DEADLOCK FALSE
INVARIANTS
    FramesAccepted
    HiddenStaysHidden
    MemoryIsTheEvidence
    ScorerAimsTrue
