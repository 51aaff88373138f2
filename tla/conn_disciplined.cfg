CONSTANTS
    ConnMax = 2
    Urls = {pg, my, txt, bogus}
    Served = {pg, my, txt}
    Keeping = {pg, my}
    Forgetful = {my}
    Addrs = {a1, a2, a3}
    NULL = NULL
    MaxRows = 2
    MaxDepth = 2
    StaleIds = FALSE
SPECIFICATION Spec
SYMMETRY Symmetry
INVARIANTS HeldIdsWork QueriesStayConnected NothingUsedAfterClose NothingLost NothingShared
PROPERTY IdsAreStable
CHECK_DEADLOCK FALSE
