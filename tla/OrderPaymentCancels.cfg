SPECIFICATION Spec
CONSTANTS
  Process = {p1}
  Callback = {b1}
  Request = {}
  Cancel = {k1, k2}
  None = None
  MaxCrashes = 1
SYMMETRY Symmetry
INVARIANTS
  CanceledIsRefunded
CHECK_DEADLOCK FALSE
