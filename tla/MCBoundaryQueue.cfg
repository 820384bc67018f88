SPECIFICATION FairSpec
CONSTANTS
    Request = {r1, r2, r3}
    Decision = {d1, d2}
    Thread = {t1, t2}
    Capacity = 2
    NoRequest = NoRequest
    NoThread = NoThread
    NoDecision = NoDecision
INVARIANTS
    TypeOK
    NoLostWaiter
    WithinCapacity
    NothingOutlivesFault
    CancelBeforeDispatchHolds
PROPERTIES
    DispatchInOrder
    KeepsPromise
    EveryRequestAnswered
