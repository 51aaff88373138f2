SPECIFICATION Spec
CONSTANTS
    k1 = k1
    k2 = k2
    v1 = v1
    v2 = v2
    Procs = {p1, p2}
    Depth = 2
    Commands <- MCCommands
    Failing <- MCFailing
    Data = {k1, k2, v1, v2}
    Stores <- MCStores
    Rebuilt = TRUE
    NULL = NULL
SYMMETRY Alike
INVARIANT TypeOK
PROPERTY CommandsAreAtomic
