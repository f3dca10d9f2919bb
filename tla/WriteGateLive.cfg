\* Liveness of the gate: no symmetry, and deadlines the clock can outrun.
SPECIFICATION FairSpec
CONSTANTS
    Db = {d1, d2}
    Call = {c1}
    Click = {k1, k2}
    Window = 2
    MaxLag = 1
    MaxTime = 6
    LastClick = 2
    MAX_ITEMS = 1
PROPERTY EveryWindowCloses
PROPERTY EveryCallIsAnswered
