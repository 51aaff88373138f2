CONSTANTS
    two = two
    none = none
    bad = bad
    blank = blank
    null = null
    Queries = {two, none, bad}
    Failing = {bad}
    Answer <- MCAnswer
    EmptyQuery = blank
    NULL = null
    Conns = {1, 2}
    Persistent = TRUE
    ServerOpens = {TRUE, FALSE}
    Segmented = FALSE
SPECIFICATION FairSpec
INVARIANTS TypeOK InStep
PROPERTIES ProxyPassesRowsOn OnlyEndedSessionsHang ChildrenEnd
CHECK_DEADLOCK FALSE
