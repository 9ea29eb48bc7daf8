SPECIFICATION FairSpec
CONSTANTS
    Procs = {p1, p2}
    Generations = {g1, g2}
    None = None
    TTL = 3
    MaxHold = 2
    MaxSkew = 1
INVARIANTS
    TypeOK
    MutualExclusion
    LeaseKept
PROPERTY
    Progress
