CONSTANTS
    two = two
    none = none
    bad = bad
    blank = blank
    null = null
    Queries = {two, bad}
    Failing = {bad}
    Answer <- MCAnswer
    EmptyQuery = blank
    NULL = null
    Conns = {1, 2}
    Persistent = TRUE
    ServerOpens = {TRUE, FALSE}
    Segmented = FALSE
SPECIFICATION FairSpec
PROPERTY EveryCallReturns
CHECK_DEADLOCK FALSE
