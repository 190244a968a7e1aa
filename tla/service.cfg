\* Two workers, one of which restarts or stops; calls at both.
SPECIFICATION FairStoreSpec
CONSTANTS
    n1 = n1
    n2 = n2
    w1 = w1
    w2 = w2
    r1 = r1
    a = a
    x = x
    y = y
    None = None
    Replica = {n1, n2}
    Command = {w1, w2}
    Reader = {w1, w2, r1}
    Query <- Queries
    Restarting = {n2}
    Word = {a, x, y}
    Request <- Requests
    Contact <- Contacts
    Stopping = {n2}
    MaxRestarts = 1
INVARIANTS
    StoreTypeOK
    
    
PROPERTIES
    ActualizeEnds
    StopEnds
