SPECIFICATION FairRSpec
CONSTANTS
    Servers = {s1}
    Last = 4
    Contents <- MCContents
    Newer <- MCNewer
    NoConfig = NoConfig
    Faults = TRUE
    Intervals = {0, 30}
INVARIANTS
    TypeOK
    ProcessOK
PROPERTIES
    NeverBack
    GracefulStop
    SignalEnds
    NoHalfLife
    CatchesUp
