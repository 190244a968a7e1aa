\* Two leaders in turn, n1 deaf to n2; messages are delayed, reordered and lost.
SPECIFICATION Spec
CONSTANTS
    n1 = n1
    n2 = n2
    n3 = n3
    c1 = c1
    c2 = c2
    r1 = r1
    r2 = r2
    None = None
    Garbage = Garbage
    Huge = 9
    Query <- Queries
    Replica <- Three
    Command = {c1, c2}
    Reader = {}
    MaxTerm = 2
    Standing <- InTurn
    Contact <- OwnReplica
    Linked <- N1Deaf
    Capacity = 1
    MaxCopies = 1
    MaxBatch = 1
    Prompt = FALSE
INVARIANTS
    LogMatching
    NoConflictWithinTerm
    OnePromise
    RedirectedNotLogged
    VotersNotAhead
PROPERTIES
    LeaderAppendOnly
