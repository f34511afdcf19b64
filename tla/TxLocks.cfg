SPECIFICATION FairSpec
CONSTANTS
    Sessions = {s1, s2, s3}
    Vacuumers = {}
    MaxXid = 3
    MaxRestarts = 0
    TornTail = FALSE
INVARIANTS
    NoWaitCycle
    EdgesAreWaiters
    NoLostWakeup
PROPERTIES
    WaitersReturn
