SPECIFICATION NemoSpec
CONSTANTS
    Cookie = {c1}
    Identity = {1}
    RequestId = {0}
    RepresentationOf <- MCRepresentation
    MaxSessions = 1
    SessionTTL = 0
    MaxReplies = 1
    MaxResets = 1
    MaxClosed = 1
    ClosedTTL = 0
    Limit = 4
    MaxTime = 0
    MaxInternal = 1
    MaxRecords = 1
    MaxDecisions = 2
    MaxEvents = 1
INVARIANT RepeatedDecisionRenders
