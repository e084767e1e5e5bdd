SPECIFICATION Spec
CONSTANTS
  i2 = i2
  i3 = i3
  o1 = o1
  o2 = o2
  Call = {c1, c2}
  Slot = {s1, s2}
  Item = {i1, i2}
  Option = {o1, o2}
  InCart = {i1, i2}
  Removable = {}
  Editable = {}
  NewStock = {3}
  None = None
  OptionOf <- MCOptionOf
  Quantity <- MCQuantity
  Initial <- MCInitial
SYMMETRY Symmetry
INVARIANTS
  TypeOK
  StockMatchesOrders
  CommittedIsComplete
  FailedLeavesNothing
  OrderedItemsLeaveCart
CHECK_DEADLOCK FALSE
