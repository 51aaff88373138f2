SPECIFICATION Spec
CONSTANTS
    names = names
    totals = totals
    change = change
    story = story
    va = va
    vb = vb
    vc = vc
    vd = vd
    Depth = 2
    Queries = {names, totals, change, story}
    Columns <- MCColumns
    Rows <- MCRows
    Long = {vd}
    Faults = {"connect", "query", "describe", "fetch", "close", "commit", "disconnect"}
    Junk = Junk
    Zero = Zero
    Count = Count
    NULL = NULL
INVARIANTS TypeOK RowsAreOwn NothingLeftOpen
