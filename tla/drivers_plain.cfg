SPECIFICATION Spec
CONSTANTS
    names = names
    nothing = nothing
    change = change
    wrong = wrong
    late = late
    r1 = r1
    r2 = r2
    Drivers = {"mysql", "postgres", "msql", "sqlite", "sqlite3", "odbc", "lago", "shsql"}
    Queries = {names, nothing, change, wrong, late}
    Rows <- MCRows
    Failing = {wrong, late}
    NoResult = {change}
    MaxConns = 3
    NULL = NULL
INVARIANTS TypeOK QueriesAreAnswered
PROPERTY QueriesGiveBack
