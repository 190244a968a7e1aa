\* Any timer may expire: one term gets two leaders.
SPECIFICATION Spec
CONSTANTS
    n1 = n1
    n2 = n2
    n3 = n3
    c1 = c1
    c2 = c2
    r1 = r1
    r2 = r2
    None = None
    Garbage = Garbage
    Huge = 9
    Query <- Queries
    Replica <- Three
    Command = {c1, c2}
    Reader = {}
    MaxTerm = 1
    Standing <- Anyone
    Contact <- OwnReplica
    Linked <- AllLinks
    Capacity = 2
    MaxCopies = 1
    MaxBatch = 2
    Prompt = FALSE
INVARIANTS
    NoConflictWithinTerm
