SPECIFICATION Spec
CONSTANTS
    Copies <- TwoTwice
    MaxEntries = 5
    MaxUpsets = 0
    LeafCap = 2
    NodeCap = 2
INVARIANT
    EntriesAreFound
