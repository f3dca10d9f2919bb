\* The calls of a minute: two rows of one query, resets, outages, a late extension.
SPECIFICATION Spec
CONSTANTS
    Db = {d1}
    Statement = {s1, s2}
    QueryId <- MCQueryId
    s1 = s1
    s2 = s2
    None = None
    Timers = {"slow"}
    Flaky = {d1}
    Installed = {}
    Longest = {0}
    History = {"working"}
    DiskMayFail = FALSE
    MaxWork = 3
    MaxResets = 1
    MaxShown = 1
SYMMETRY Symmetry
INVARIANT MinutesAreAFloor
INVARIANT NoWindowStoredTwice
