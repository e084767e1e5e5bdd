SPECIFICATION Spec
CONSTANTS
  q1 = q1
  q2 = q2
  Product = {q1, q2}
  SaleCost = {100}
  Discount = {0, 60}
  Missing = Missing
  Fee = {0, 30}
  CartItem <- MCCartItem
  MaxCosts = 2
  MaxTransactions = 2
  MaxRefunds = 2
INVARIANTS
  TypeOK
  TotalsMatchItems
  PaymentsDifferByFee
CHECK_DEADLOCK FALSE
