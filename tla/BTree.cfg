SPECIFICATION Spec
CONSTANTS
    Copies <- OneTwice
    MaxEntries = 7
    MaxUpsets = 1
    LeafCap = 2
    NodeCap = 2
INVARIANTS
    TypeOK
    SearchIsExact
    RangeIsExact
    ChainIsComplete
