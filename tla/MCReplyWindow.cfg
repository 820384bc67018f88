SPECIFICATION WindowSpec
CONSTANTS
    RequestId = {q1, q2, q3, q4, q5}
    Content = {c1, c2}
    Reply = {y1, y2}
    CacheSize = 3
SYMMETRY Symmetry
INVARIANTS
    WindowTypeOK
    RepeatsTheAnswer
PROPERTIES
    ComputedOncePerWindow
