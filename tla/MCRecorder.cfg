SPECIFICATION RecSpec
CONSTANTS
    MaxEvents = 7
    MaxScopes = 4
    MaxMarks = 2
    Clock = {3}
    MaxStamp = 7
    Short = {2, 3, 6}
CHECK_DEADLOCK FALSE
INVARIANTS
    RecTypeOK
    ScopesNest
    RecordIsTruthful
    ProjectionIsTruthful
