\* Leaders in turn: a command lost with its leader is reported persisted.
SPECIFICATION Spec
CONSTANTS
    n1 = n1
    n2 = n2
    n3 = n3
    c1 = c1
    c2 = c2
    r1 = r1
    r2 = r2
    None = None
    Garbage = Garbage
    Huge = 9
    Query <- Queries
    Replica <- Three
    Command = {c1, c2}
    Reader = {}
    MaxTerm = 3
    Standing <- InTurn
    Contact <- OwnReplica
    Linked <- N1N3Cut
    Capacity = 3
    MaxCopies = 1
    MaxBatch = 1
    Prompt = TRUE
INVARIANTS
    PersistedOnQuorum
