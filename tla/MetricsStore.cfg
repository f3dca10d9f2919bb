\* The history file: three timers, a request, crashes and a sweep.
SPECIFICATION Spec
CONSTANTS
    Mount = {m1, m2}
    Spelling = {lower, upper}
    Table = {"load_samples", "minute_samples", "table_samples", "statement_samples"}
    None = None
    RETENTION = 2
    MAX_HOURS = 2
    Asked = {0, 9}
    Sections = {"tables", "statements", "minutes", "blank"}
    MaxLag = 1
    MaxTime = 5
    MaxTicks = 2
    MaxRestarts = 1
SYMMETRY Symmetry
INVARIANT TypeOK
INVARIANT ReadIsFaithful
INVARIANT NothingYoungIsLost
PROPERTY HistoryIsALog
CHECK_DEADLOCK FALSE
