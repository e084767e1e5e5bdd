SPECIFICATION FairSpec
CONSTANTS
  Call = {c1, c2}
  Base = Base
  None = None
INVARIANTS
  TypeOK
  UpdateIsWhole
  
PROPERTIES
  CallsEnd
CHECK_DEADLOCK FALSE
