SPECIFICATION Spec
CONSTANTS
    MaxPage = 2
    Image = {Zero, a, b}
    Zero = Zero
    Beyond = Beyond
    NotCached = NotCached
    Capacity = 2
    MaxFailures = 2
INVARIANTS
    TypeOK
    LruListsFrames
    NoPageVanishes
PROPERTIES
    KeepsPages
