\* One leader, two commands and two reads: what is committed.
SPECIFICATION Spec
CONSTANTS
    n1 = n1
    n2 = n2
    n3 = n3
    c1 = c1
    c2 = c2
    r1 = r1
    r2 = r2
    None = None
    Garbage = Garbage
    Huge = 9
    Query <- Queries
    Replica <- Three
    Command = {c1, c2}
    Reader = {r1, r2}
    MaxTerm = 1
    Standing <- OnlyN1
    Contact <- AtN1
    Linked <- AllLinks
    Capacity = 2
    MaxCopies = 1
    MaxBatch = 1
    Prompt = TRUE
SYMMETRY FollowersAndCalls
INVARIANTS
    StateMachineSafety
    PersistedOnQuorum
    MatchIndexTrue
    ReadsAgree
    CommitNotAhead
PROPERTIES
    CommittedStays
    ImplementsLog
