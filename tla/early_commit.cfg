\* One leader; leader_commit is lost on the way: a follower commits ahead of its leader.
SPECIFICATION OneLeaderSpec
CONSTANTS
    n1 = n1
    n2 = n2
    n3 = n3
    c1 = c1
    c2 = c2
    r1 = r1
    r2 = r2
    None = None
    Garbage = Garbage
    Huge = 9
    Query <- Queries
    Replica <- Three
    Command = {c1}
    Reader = {}
    MaxTerm = 1
    Standing <- Anyone
    Contact <- AtN1
    Linked <- AllLinks
    Capacity = 1
    MaxCopies = 1
    MaxBatch = 1
    Prompt = TRUE
    CommitRead <- More
    Restarting <- Nobody
    MaxRestarts = 0
INVARIANTS
    CommitNotAhead
CHECK_DEADLOCK FALSE
