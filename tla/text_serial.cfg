SPECIFICATION Spec
CONSTANTS
    Procs = {p1, p2}
    Header <- MCHeader
    Queries <- Serial
    Files <- MCFiles
    Limit = 5
    Crashes = 2
    NULL = NULL
INVARIANT TypeOK
PROPERTIES QueriesAreAtomic DamageStays
