\* Elections: any timer may expire, two terms, messages delayed and lost.
SPECIFICATION Spec
CONSTANTS
    n1 = n1
    n2 = n2
    n3 = n3
    c1 = c1
    c2 = c2
    r1 = r1
    r2 = r2
    None = None
    Garbage = Garbage
    Huge = 9
    Query <- Queries
    Replica <- Three
    Command = {}
    Reader = {}
    MaxTerm = 2
    Standing <- Anyone
    Contact <- AtN1
    Linked <- AllLinks
    Capacity = 1
    MaxCopies = 1
    MaxBatch = 1
    Prompt = FALSE
SYMMETRY AllReplicas
INVARIANTS
    TypeOK
    VotesBacked
    LeaderBacked
    RivalLeaders
PROPERTIES
    VoteKept
