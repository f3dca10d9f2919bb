\* Three overlapping clicks of any kind, reloads and restarts in between.
SPECIFICATION Spec
CONSTANTS
    Click = {k1, k2, k3}
    Library = {cron, quoted}
    Unsafe = {quoted}
    EXTENSION = pg_stat_statements
SYMMETRY Symmetry
INVARIANT TypeOK
INVARIANT NamedOnce
INVARIANT NoChangeWaitsUnseen
