SPECIFICATION FSpec
CONSTANTS
    Operators = {o1, o2}
    Hosts <- MCHosts
    Dotless <- MCDotless
    Texts <- MCTexts
    NormalizeHost <- MCNormalizeHost
    Seeds <- MCSeeds
    Dests = {d1, loose}
    Loose = {loose}
    Faults = TRUE
    Exports = {x1, x2}
SYMMETRY Symmetry
INVARIANTS
    TypeOK
    FileOK
    SettledFile
PROPERTIES
    EditsOwnHost
    RefusedWhenFaulty
    ImplementsCli
