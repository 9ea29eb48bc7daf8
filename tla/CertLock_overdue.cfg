SPECIFICATION Spec
CONSTANTS
    Procs = {p1, p2, p3}
    Generations = {g1, g2, g3}
    None = None
    TTL = 2
    MaxHold = 4
    MaxSkew = 0
SYMMETRY Symmetry
INVARIANT
    LeaseKept
