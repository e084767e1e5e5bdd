SPECIFICATION Spec
CONSTANTS
  Process = {p1}
  Callback = {b1}
  Request = {}
  Cancel = {k1, k2}
  None = None
  MaxCrashes = 0
SYMMETRY Symmetry
PROPERTIES
  CanceledNotRefundedAgain
CHECK_DEADLOCK FALSE
