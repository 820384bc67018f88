SPECIFICATION NemoSpec
CONSTANTS
    Cookie = {c1, c2, c3}
    Identity = {0, 1}
    RequestId = {q1, q2}
    RepresentationOf <- MCRepresentation
    MaxSessions = 2
    SessionTTL = 0
    MaxReplies = 1
    MaxResets = 1
    MaxClosed = 1
    ClosedTTL = 0
    Limit = 2
    MaxTime = 1
    MaxInternal = 2
    MaxRecords = 1
    MaxDecisions = 2
    MaxEvents = 1
SYMMETRY MCSymmetry
INVARIANTS
    NemoTypeOK
    SessionsOwned
    AnswersItsAction
    CountedOnce
VIEW MCView
