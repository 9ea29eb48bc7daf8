SPECIFICATION Spec
CONSTANTS
    Names <- MCNames
    Keys <- MCKeys
    Hosts = {"h"}
    Callers = {c1, c2}
    Faults = TRUE
SYMMETRY Symmetry
INVARIANT
    TypeOK
PROPERTIES
    CompleteOnSuccess
    DeletesOwn
    MissingIsMissing
