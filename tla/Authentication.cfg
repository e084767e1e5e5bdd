SPECIFICATION FairSpec
CONSTANTS
  Call = {c1, c2, c3}
  Password = {p1, p2}
  Default = p1
  None = None
INVARIANTS
  TypeOK
  SignInSeesCurrent
  CodeServesOnce
PROPERTIES
  ReplacedIsRevoked
CHECK_DEADLOCK FALSE
