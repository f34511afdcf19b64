SPECIFICATION Spec
CONSTANTS
    Sessions = {s1, s2}
    MaxXid = 3
    MaxRows = 2
    MaxCrashes = 1
    ShortXid = 3
SYMMETRY Threads
INVARIANTS
    TypeOK
    VisibleIsLive
    OneWinner
    OneVersion
    ScanSeesEachRow
PROPERTIES
    UsesTxOutcome
