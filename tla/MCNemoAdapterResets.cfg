SPECIFICATION NemoSpec
CONSTANTS
    Cookie = {c1, c2, c3}
    Identity = {1, 2}
    RequestId = {q1}
    RepresentationOf <- MCRepresentation
    MaxSessions = 2
    SessionTTL = 0
    MaxReplies = 1
    MaxResets = 2
    MaxClosed = 1
    ClosedTTL = 0
    Limit = 1
    MaxTime = 1
    MaxInternal = 2
    MaxRecords = 1
    MaxDecisions = 2
    MaxEvents = 1
SYMMETRY MCSymmetry
INVARIANT ResetHandsOver
