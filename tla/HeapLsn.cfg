SPECIFICATION Spec
CONSTANTS
    MaxPage = 2
    RowsPerPage = 2
    Capacity = 1
    MaxLog = 5
    MaxUpsets = 2
    Beyond = Beyond
    NotCached = NotCached
INVARIANTS
    SurvivesReopening
