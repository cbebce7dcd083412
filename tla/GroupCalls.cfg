SPECIFICATION Spec
CHECK_DEADLOCK FALSE
CONSTANTS
  k1 = k1
  k2 = k2
  v = v
  Call = {c1, c2, c3}
  Key = {k1, k2}
  Value = {v}
  Blank <- MCBlank
  Request <- MCRequest
  Faults = {"api", "nil_map"}
SYMMETRY Symmetry
INVARIANTS
  TypeOK
  AckedWriteSticks
  AckedGroupSticks
  ReadsAreCurrent
  SearchesAreCurrent
