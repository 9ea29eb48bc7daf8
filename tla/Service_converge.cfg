SPECIFICATION FairSpec
CONSTANTS
    Reqs = {r1}
    Users = {alice}
    Hosts <- WwwPair
    Dests = {d1, d2}
    Ids = {i1, i2}
    None = None
    Faults = FALSE
    Operators = {}
    Loose = {}
    Servers = {s1}
    NoConfig = NoConfig
    Seeds <- NoSeed
    Bare <- BareOfPair
PROPERTY
    ServersConverge
