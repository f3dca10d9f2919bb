\* One click on a server that preloads another library already.
SPECIFICATION Spec
CONSTANTS
    Click = {k1}
    Library = {cron}
    Unsafe = {}
    EXTENSION = pg_stat_statements
PROPERTY LibrariesAreKept
