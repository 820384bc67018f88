SPECIFICATION LoopSpec
CONSTANTS
    Request = {r1, r2, r3}
    Decision = {1, 2, 3, 4}
    LastDecision = 4
    Thread = {t1}
    Capacity = 2
    NoRequest = NoRequest
    NoThread = NoThread
    NoDecision = NoDecision
SYMMETRY Symmetry
INVARIANTS
    LoopTypeOK
    RefusedNeverApplied
    ResultMeansApplied
