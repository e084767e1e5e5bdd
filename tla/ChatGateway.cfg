SPECIFICATION Spec
CONSTANTS
  Call = {c1, c2, c3}
  Client = {k1, k2}
  Admin = {k1}
  Email = {e1, e2}
  AdminRoom = AdminRoom
  Limit = 2
  RoomLimit = 1
  None = None
SYMMETRY Symmetry
INVARIANTS
  TypeOK
  RoomsAgree
  RoomAnnouncedFirst
  RepliesReachSomebody
  PagesAreComplete
CHECK_DEADLOCK FALSE
