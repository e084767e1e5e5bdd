SPECIFICATION Spec
CONSTANTS
  i2 = i2
  i3 = i3
  o1 = o1
  o2 = o2
  Call = {c1}
  Slot = {s1, s2}
  Item = {i1, i3}
  Option = {o1}
  InCart = {i1}
  Removable = {}
  Editable = {}
  NewStock = {3}
  None = None
  OptionOf <- MCOptionOf
  Quantity <- MCQuantity
  Initial <- MCInitial
SYMMETRY Symmetry
INVARIANTS
  NoOversell
CHECK_DEADLOCK FALSE
