SPECIFICATION FairSpec
CONSTANTS
    Users = {alice, bob}
    Hosts = {h1}
    Dests = {d1, d2}
    Ids = {i1, i2}
    Form = Form
    None = None
    Faults = TRUE
INVARIANTS
    TypeOK
    ListIsRows
PROPERTIES
    ButtonsRevive
