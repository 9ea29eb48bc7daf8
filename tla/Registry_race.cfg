SPECIFICATION Spec
CONSTANTS
    Reqs = {r1, r2}
    Users = {alice, bob}
    Hosts = {h1, h2}
    Dests = {d1, d2}
    Ids = {i1, i2}
    None = None
    Faults = TRUE
SYMMETRY Symmetry
INVARIANTS
    TypeOK
    UniqueClaim
PROPERTIES
    SoloAnswersLive
    SparesClaimedCerts
    ImplementsClaims
