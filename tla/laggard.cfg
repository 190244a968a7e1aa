\* Several requests in flight: next_index wraps around and a replica is left behind.
SPECIFICATION FairSpec
CONSTANTS
    n1 = n1
    n2 = n2
    n3 = n3
    c1 = c1
    c2 = c2
    r1 = r1
    r2 = r2
    None = None
    Garbage = Garbage
    Huge = 9
    Query <- Queries
    Replica <- Three
    Command = {c1}
    Reader = {}
    MaxTerm = 3
    Standing <- InTurn
    Contact <- AtN1
    Linked <- N3Down
    Capacity = 2
    MaxCopies = 2
    MaxBatch = 1
    Prompt = TRUE
PROPERTIES
    LaggardsCatchUp
