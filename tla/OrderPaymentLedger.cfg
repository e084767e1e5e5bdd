SPECIFICATION FairSpec
CONSTANTS
  Process = {p1}
  Callback = {b1}
  Request = {r1}
  Cancel = {k1}
  None = None
  MaxCrashes = 1
PROPERTIES
  ImplementsLedger
  WritersAnswered
CHECK_DEADLOCK FALSE
