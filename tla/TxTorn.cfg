SPECIFICATION Spec
CONSTANTS
    Sessions = {s1}
    Vacuumers = {}
    MaxXid = 3
    MaxRestarts = 2
    TornTail = TRUE
PROPERTIES
    CommitsSurvive
