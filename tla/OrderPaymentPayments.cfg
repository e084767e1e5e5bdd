SPECIFICATION Spec
CONSTANTS
  Process = {p1, p2}
  Callback = {b1, b2}
  Request = {}
  Cancel = {k1}
  None = None
  MaxCrashes = 1
SYMMETRY Symmetry
INVARIANTS
  TypeOK
  PreparedIsRecorded
  AmountIsCurrent
  PaymentRecorded
  PayableIsCommitted
  RefundIsOfSettled
PROPERTIES
  OutcomeIsFinal
CHECK_DEADLOCK FALSE
