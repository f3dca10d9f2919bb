\* A disk that fails and recovers, under the timers that report it.
SPECIFICATION FairSpec
CONSTANTS
    Db = {d1}
    Statement = {}
    QueryId <- MCQueryId
    s1 = s1
    s2 = s2
    None = None
    Timers = {"fast", "hourly"}
    Flaky = {d1}
    Installed = {d1}
    Longest = {0, 1}
    History = {"working", "disabled"}
    DiskMayFail = TRUE
    MaxWork = 0
    MaxResets = 0
    MaxShown = 2
PROPERTY DiskFailureIsShown
PROPERTY DiskRecoveryIsShown
