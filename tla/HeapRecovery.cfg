SPECIFICATION Spec
CONSTANTS
    MaxPage = 3
    RowsPerPage = 2
    Capacity = 2
    MaxLog = 6
    MaxUpsets = 3
    Beyond = Beyond
    NotCached = NotCached
INVARIANTS
    TypeOK
    RecoversExactly
    LsnTellsContent
