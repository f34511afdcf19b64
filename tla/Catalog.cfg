SPECIFICATION Spec
CONSTANTS
  Tables = {t, n}
  Indexes = {n, i}
  Keys = {k1, k2}
  Sessions = {a, w, r}
  Admin = a
  Writers = {w}
  Readers = {r}
  None = None
  Torn = Torn
  MaxRows = 2
  MaxDdl = 2
  MaxFaults = 2
  MaxEffort = 4
SYMMETRY Symmetric
CONSTRAINT Bounded
INVARIANTS TypeOK IndexExact ScanIsBracketed
PROPERTY RestartKeepsNames
CHECK_DEADLOCK FALSE
