\* One leader, one command, fair scheduling: calls end and logs catch up.
SPECIFICATION FairSpec
CONSTANTS
    n1 = n1
    n2 = n2
    n3 = n3
    c1 = c1
    c2 = c2
    r1 = r1
    r2 = r2
    None = None
    Garbage = Garbage
    Huge = 9
    Query <- Queries
    Replica <- Three
    Command = {c1}
    Reader = {}
    MaxTerm = 1
    Standing <- OnlyN1
    Contact <- AtN1
    Linked <- AllLinks
    Capacity = 3
    MaxCopies = 1
    MaxBatch = 1
    Prompt = TRUE
PROPERTIES
    EveryCallAnswered
    LaggardsCatchUp
