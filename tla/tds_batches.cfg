SPECIFICATION Spec
CONSTANTS
    names = names
    batch = batch
    change = change
    image = image
    wrong = wrong
    blob = blob
    Queries = {names, batch, change, image, wrong}
    Values <- MCValues
    Results <- MCResults
    Refused = {wrong}
    NoText = {blob}
    Complete = {TRUE, FALSE}
    Reachable = {TRUE, FALSE}
    Wild = Wild
    NULL = NULL
INVARIANTS TypeOK QueriesAreAnswered SocketsAreAccounted
CHECK_DEADLOCK FALSE
