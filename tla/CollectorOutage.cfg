\* Outages under two overlapping timers.
SPECIFICATION FairSpec
CONSTANTS
    Db = {d1}
    Statement = {}
    QueryId <- MCQueryId
    s1 = s1
    s2 = s2
    None = None
    Timers = {"fast", "slow"}
    Flaky = {d1}
    Installed = {d1}
    Longest = {0}
    History = {"working"}
    DiskMayFail = FALSE
    MaxWork = 0
    MaxResets = 0
    MaxShown = 2
PROPERTY RecoversAfterOutage
PROPERTY OutageIsShown
