SPECIFICATION FairSpec
CONSTANTS
  i2 = i2
  i3 = i3
  o1 = o1
  o2 = o2
  Call = {c1}
  Slot = {s1, s2}
  Item = {i1, i3}
  Option = {o1}
  InCart = {i1}
  Removable = {o1}
  Editable = {o1}
  NewStock = {3}
  None = None
  OptionOf <- MCOptionOf
  Quantity <- MCQuantity
  Initial <- MCInitial
INVARIANTS
  StockMatchesOrders
PROPERTIES
  CheckoutEnds
CHECK_DEADLOCK FALSE
