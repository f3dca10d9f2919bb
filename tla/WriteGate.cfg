\* Safety of the gate and of the request log, with restarts.
SPECIFICATION Spec
CONSTANTS
    Db = {d1, d2}
    Call = {c1, c2}
    Click = {k1, k2}
    Window = 1
    MaxLag = 1
    MaxTime = 3
    LastClick = 2
    MAX_ITEMS = 1
SYMMETRY Symmetry
INVARIANT TypeOK
INVARIANT AdmittedOnlyWhileOpen
INVARIANT LogIsTruthful
INVARIANT RingHoldsTheLastAnswers
PROPERTY WindowIsACountdown
