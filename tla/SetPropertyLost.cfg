SPECIFICATION Spec
CHECK_DEADLOCK FALSE
CONSTANTS
  k1 = k1
  k2 = k2
  v = v
  Call = {c1, c2}
  Key = {k1, k2}
  Value = {v}
  Blank <- MCBlank
  Request <- SetRequest
  Faults = {}
SYMMETRY Symmetry
INVARIANTS
  SetPropertyHolds
