SPECIFICATION FairSpec
CONSTANTS
  d1 = d1
  Doc = {d1}
  Asked <- MCAsked
  Value = {v1}
  Gone = Gone
  None = None
  Limit = 1
  Reader = {r1}
  Writer = {w1, w2}
INVARIANTS
  TypeOK
  StaleHasCause
PROPERTIES
  StalenessEnds
  ImplementsReadService
CHECK_DEADLOCK FALSE
