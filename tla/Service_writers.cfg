SPECIFICATION Spec
CONSTANTS
    Reqs = {r1, r2}
    Users = {alice}
    Hosts = {h1, h2}
    Dests = {d1}
    Ids = {i1, i2}
    None = None
    Faults = TRUE
    Operators = {o1}
    Loose = {}
    Servers = {}
    NoConfig = NoConfig
    Seeds <- NoSeed
    Bare <- Itself
SYMMETRY Symmetry
PROPERTY
    ClaimedNotDropped
