SPECIFICATION Spec
CONSTANTS
    MaxInt = 7
    Checked = TRUE
    Cases <- AllCases
INVARIANTS
    TypeOK
    FilterIsExact
    JoinIsExact
    GroupsAreExact
    OrderIsExact
    CompiledAgrees
PROPERTIES
    FoldKeepsAnswer
    IndexKeepsAnswer
CHECK_DEADLOCK FALSE
