\* Texts, settings files, charts, connection strings and I/O counters.
SPECIFICATION Spec
CONSTANTS
    Grammars <- MCGrammars
    Entries <- MCEntries
    MaxFile = 2
    MaxEdits = 2
    Series <- MCSeries
    Span = 4
    Gap = 1
    MaxNow = 5
    Hosts <- MCHosts
    Ports <- MCPorts
    Tunnels <- MCTunnels
    Databases <- MCDatabases
    Relation = {t1, t2, t3}
    FETCH_N = 2
    TOP_N = 1
    Versions = {13, 17}
    Unknown = Unknown
    MaxReads = 3
    MaxRestarts = 1
SYMMETRY Symmetry
CHECK_DEADLOCK FALSE
INVARIANT SameStatement
INVARIANT ReadMeansHarmless
INVARIANT MountsAreServed
INVARIANT ConnectsToItsOwn
INVARIANT DrawnAsRecorded
INVARIANT OneCardPerServer
INVARIANT NothingInvented
INVARIANT HotTablesAreListed
