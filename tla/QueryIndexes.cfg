SPECIFICATION Spec
CONSTANTS
    MaxInt = 7
    Checked = TRUE
    Cases <- IndexCases
PROPERTY
    IndexesChangeNoAnswer
CHECK_DEADLOCK FALSE
