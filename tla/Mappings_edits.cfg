SPECIFICATION Spec
CONSTANTS
    Names <- MCNames
    Targets = {t1, loose}
    Loose = {loose}
    Icann <- MCIcann
    Private <- MCPrivate
    Canonical = Canonical
    None = None
INVARIANTS
    TypeOK
    EditsAreTableEdits
    RecordsAgree
    RegisteredAsTyped
PROPERTY
    SavesSorted
