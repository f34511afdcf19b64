SPECIFICATION Spec
CONSTANTS
    Sessions = {s1, s2, v}
    Vacuumers = {v}
    MaxXid = 2
    MaxRestarts = 2
    TornTail = FALSE
INVARIANTS
    TypeOK
    LogCoversMemory
PROPERTIES
    FreshIds
    KeepsPromise
