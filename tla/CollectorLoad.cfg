\* The load series: resets, outages, a file that stops taking rows.
SPECIFICATION Spec
CONSTANTS
    Db = {d1}
    Statement = {s1}
    QueryId <- MCQueryId
    s1 = s1
    s2 = s2
    None = None
    Timers = {"fast"}
    Flaky = {d1}
    Installed = {d1}
    Longest = {0}
    History = {"working"}
    DiskMayFail = TRUE
    MaxWork = 2
    MaxResets = 2
    MaxShown = 2
INVARIANT TypeOK
INVARIANT RatesAreExact
INVARIANT NothingLostBetweenWindows
