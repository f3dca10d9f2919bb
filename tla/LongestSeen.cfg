\* Three backends and two statements each against two rows a tick and a map of three.
SPECIFICATION Spec
CONSTANTS
    Pid = {p1, p2, p3}
    None = None
    FETCH = 2
    MAX_TRACKED = 3
    TOP_N = 2
    MaxStarts = 2
    MaxAge = 3
SYMMETRY Symmetry
INVARIANT TypeOK
INVARIANT TopIsTheTop
