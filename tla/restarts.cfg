\* One leader, followers restart and stand; leader_commit arrives right or as garbage.
SPECIFICATION OneLeaderSpec
CONSTANTS
    n1 = n1
    n2 = n2
    n3 = n3
    c1 = c1
    c2 = c2
    r1 = r1
    r2 = r2
    None = None
    Garbage = Garbage
    Huge = 9
    Query <- Queries
    Replica <- Three
    Command = {c1, c2}
    Reader = {}
    MaxTerm = 1
    Standing <- Anyone
    Contact <- ToEither
    Linked <- AllLinks
    Capacity = 1
    MaxCopies = 1
    MaxBatch = 1
    Prompt = TRUE
    CommitRead <- Unsure
    Restarting <- Followers
    MaxRestarts = 1
SYMMETRY EitherFollower
INVARIANTS
    StateMachineSafety
    OnePromise
PROPERTIES
    ImplementsRestartingLog
CHECK_DEADLOCK FALSE
