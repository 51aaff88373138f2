CONSTANTS
    sdbd = sdbd
    sqlite = sqlite
    text = text
    mytext = mytext
    mine = mine
    other = other
    hers = hers
    TableSize = 6
    Builtin <- MCBuiltin
    AppDrivers = {mytext, mine, other, hers}
    NameOf <- MCNameOf
    Names <- MCNames
    Ids = {1, 2}
    None = None
SPECIFICATION RegistrySpec
INVARIANTS RegisteredAreFound ConnectionsKeepTheirDriver OnlyFullTablesOverrun
PROPERTY NamesKeepTheirDriver
CHECK_DEADLOCK FALSE
