SPECIFICATION Spec
CONSTANTS
    Reqs = {r1}
    Users = {alice}
    Hosts = {h1, h2}
    Dests = {d1, loose}
    Ids = {i1, i2}
    None = None
    Faults = FALSE
    Operators = {}
    Loose = {loose}
    Servers = {s1}
    NoConfig = NoConfig
    Seeds <- NoSeed
    Bare <- Itself
INVARIANT
    NoLingeringCert
