SPECIFICATION Spec
CONSTANTS
    names = names
    totals = totals
    change = change
    wide = wide
    Queries = {names, totals, change, wide}
    Columns <- MCColumns
    Rows <- MCRows
    MaxCols = 2
    Faults = {"olog", "oopen", "oparse", "odescr", "odefin", "oexec", "ofetch", "ologof"}
    MaxLost = 2
    Junk = Junk
    NULL = NULL
INVARIANTS TypeOK QueriesAreAnswered LoginsAreAccounted
CHECK_DEADLOCK FALSE
