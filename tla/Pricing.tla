------------------------------ MODULE Pricing -------------------------------
(***************************************************************************)
(* What an order costs: the cost each order item is given while the cost   *)
(* of its product may change (createOrderItem, updateProduct), the totals  *)
(* of the order (calculateTotalCost), and what is asked for and refunded   *)
(* (processOrder, orderTransactionCallback, cancelOrder).                  *)
(*                                                                         *)
(* Costs are whole numbers of dong.  Amounts are counted in hundredths of  *)
(* a dong, so that a percentage of a cost is a whole number; vnp_Amount is *)
(* in hundredths too (amount * 100).  The payloads only ask for numbers:   *)
(* a quantity, a cost or a discount may be zero, negative or above 100.    *)
(***************************************************************************)
EXTENDS Integers, SequencesExt

CONSTANTS
  Product,    \* products
  SaleCost,   \* values of saleCost
  Discount,   \* values of discountPercentage
  Missing,    \* a saleCost or discountPercentage that updateProduct was not given
  Fee,        \* fees GHN may answer
  CartItem,   \* the payload of createOrder: a sequence of cart items,
              \* [product, quantity]
  MaxCosts,   \* bound on the costs a product is given
  MaxTransactions, \* bound on the calls of processOrder
  MaxRefunds  \* bound on the refunds asked for

ASSUME PricingAssumption ==
  /\ SaleCost \subseteq Int /\ Discount \subseteq Int /\ Fee \subseteq Int
  /\ Missing \notin SaleCost \cup Discount
  /\ CartItem \in Seq([product : Product, quantity : Int])
  /\ MaxCosts \in Nat \ {0} /\ MaxTransactions \in Nat /\ MaxRefunds \in Nat

VARIABLES
  costs,      \* the costs each product has been given; a cost is never changed
  view,       \* the index of the current cost in the cached view of each cart
              \* item; 0 without a view
  chosen,     \* the index of the cost of the order item in each position; 0: none yet
  totals,     \* [totalCost, discountCost] of the order
  amounts,    \* the fee of each of its transactions and the payment it asks for,
              \* oldest first
  settled,    \* the transactions a callback has given a payDate
  refunds,    \* refunds asked for
  phase       \* "cart", "placed", or "failed" when createOrder threw

vars == <<costs, view, chosen, totals, amounts, settled, refunds, phase>>

Position == DOMAIN CartItem
\* createProduct needs both numbers, newCost of updateProduct neither.
FirstCost == [saleCost : SaleCost, discountPercentage : Discount]
Cost == [saleCost : SaleCost \cup {Missing}, discountPercentage : Discount \cup {Missing}]
CostOf(p) == costs[CartItem[p].product][chosen[p]]
QuantityOf(p) == CartItem[p].quantity

Init ==
  /\ costs \in [Product -> {<<c>> : c \in FirstCost}]
  /\ view = [p \in Position |-> 0]
  /\ chosen = [p \in Position |-> 0]
  /\ totals = [totalCost |-> 0, discountCost |-> 0]
  /\ amounts = <<>>
  /\ settled = {}
  /\ refunds = <<>>
  /\ phase = "cart"

-----------------------------------------------------------------------------

\* updateProduct with newCost: a cost document is created, pushed to the
\* product's costs and made its currentCost.  The old one stays.
ChangeCost(q, c) ==
  /\ Len(costs[q]) < MaxCosts
  /\ costs' = [costs EXCEPT ![q] = Append(@, c)]
  /\ UNCHANGED <<view, chosen, totals, amounts, settled, refunds, phase>>

\* createOrderItem of one position: the cart item is found, in the cache or in
\* the database, with the current cost of its product; the order item is
\* created with that cost.
CreateOrderItem(p) ==
  /\ phase = "cart" /\ chosen[p] = 0
  /\ LET current == IF view[p] # 0 THEN view[p] ELSE Len(costs[CartItem[p].product])
     IN /\ view' = [view EXCEPT ![p] = current]
        /\ chosen' = [chosen EXCEPT ![p] = current]
  /\ UNCHANGED <<costs, totals, amounts, settled, refunds, phase>>

\* A listing or another checkout has cached the cart item, or its view expires.
TouchView(p) ==
  /\ phase = "cart"
  /\ view' = [view EXCEPT ![p] = IF @ = 0 THEN Len(costs[CartItem[p].product]) ELSE 0]
  /\ UNCHANGED <<costs, chosen, totals, amounts, settled, refunds, phase>>

\* Mutant: the discount of an item is not multiplied by its quantity.
AddOnce(acc, p) ==
  LET discount == CostOf(p).saleCost * CostOf(p).discountPercentage
  IN [totalCost |-> acc.totalCost + (100 * CostOf(p).saleCost - discount) * QuantityOf(p),
      discountCost |-> acc.discountCost + discount]
AddItem(acc, p) ==
  LET discount == CostOf(p).saleCost * CostOf(p).discountPercentage
  IN [totalCost |-> acc.totalCost + (100 * CostOf(p).saleCost - discount) * QuantityOf(p),
      discountCost |-> acc.discountCost + discount * QuantityOf(p)]

\* The items in the order of the payload, whatever order they were created in.
CalculateTotalCost ==
  FoldLeft(AddItem, [totalCost |-> 0, discountCost |-> 0], [p \in Position |-> p])

\* A number is missing: totals would be NaN.
Computable == \A p \in Position : Missing \notin {CostOf(p).saleCost, CostOf(p).discountPercentage}

PlaceOrder ==
  /\ phase = "cart" /\ \A p \in Position : chosen[p] # 0
  /\ Computable
  /\ totals' = CalculateTotalCost
  /\ phase' = "placed"
  /\ UNCHANGED <<costs, view, chosen, amounts, settled, refunds>>

\* The schema refuses a total that is not a number; nothing is left of the order.
PlaceRefused ==
  /\ phase = "cart" /\ \A p \in Position : chosen[p] # 0
  /\ ~Computable
  /\ phase' = "failed"
  /\ UNCHANGED <<costs, view, chosen, totals, amounts, settled, refunds>>

\* Mutant: the price is taken from the costs the products have now.
NowOf(p) == LET c == Last(costs[CartItem[p].product])
            IN IF Missing \in {c.saleCost, c.discountPercentage} THEN CostOf(p) ELSE c
TransactionAmountNow(f) ==
  100 * f + SumFunction([p \in Position |->
    (100 - 2 * NowOf(p).discountPercentage) * NowOf(p).saleCost * QuantityOf(p)])
TransactionAmount(f) == totals.totalCost + 100 * f - totals.discountCost

\* What VNPAY is asked.  vnp_Amount, amount * 100, is the number of hundredths
\* in which this module counts; the signature and the other parameters are left out.
BuildVnpBaseParams(command, amount) == [command |-> command, amount |-> amount]

CreatePaymentUrl(amount) == BuildVnpBaseParams("pay", amount)
RefundTransaction(amount) == BuildVnpBaseParams("refund", amount)

\* calcFee: what GHN answers for the order and the address.  Without a service,
\* or without an answer, processOrder throws and leaves nothing.
CalcFee == Fee

\* processOrder, in whatever status the order is, any number of times: a new
\* transaction and its payment URL.
ProcessOrder ==
  /\ phase = "placed" /\ Len(amounts) < MaxTransactions
  /\ \E f \in CalcFee :
       amounts' = Append(amounts, [asked |-> CreatePaymentUrl(TransactionAmount(f)), fee |-> f])
  /\ UNCHANGED <<costs, view, chosen, totals, settled, refunds, phase>>

\* Mutant: the callback settles the transaction that comes next.
CallbackAhead(n) ==
  /\ settled' = settled \cup {n + 1}
  /\ UNCHANGED <<costs, view, chosen, totals, amounts, refunds, phase>>

\* orderTransactionCallback gives a payDate to the transaction it finds in the
\* order, which the cache may take from an earlier processOrder.
Callback(n) ==
  /\ settled' = settled \cup {n}
  /\ UNCHANGED <<costs, view, chosen, totals, amounts, refunds, phase>>

\* cancelOrder refunds the amount of the transaction it finds in the order, an
\* earlier one too; without a payDate it throws.
Refund(n) ==
  /\ n \in settled /\ Len(refunds) < MaxRefunds
  /\ refunds' = Append(refunds, RefundTransaction(amounts[n].asked.amount))
  /\ UNCHANGED <<costs, view, chosen, totals, amounts, settled, phase>>

Next ==
  \/ \E q \in Product, c \in Cost : ChangeCost(q, c)
  \/ \E p \in Position : CreateOrderItem(p) \/ TouchView(p)
  \/ PlaceOrder \/ PlaceRefused \/ ProcessOrder
  \/ \E n \in DOMAIN amounts : Callback(n) \/ Refund(n)

Spec == Init /\ [][Next]_vars

-----------------------------------------------------------------------------
(* Safety.                                                                 *)

Asked == [command : {"pay", "refund"}, amount : Int]
Amount == [asked : Asked, fee : Fee]

\* Every variable stays in its domain: a view and an item refer to a cost their
\* product was given, a callback to a transaction that was created.
TypeOK ==
  /\ DOMAIN costs = Product /\ \A q \in Product : Len(costs[q]) \in 1 .. MaxCosts
  /\ \A p \in Position : {view[p], chosen[p]} \subseteq 0 .. Len(costs[CartItem[p].product])
  /\ totals \in [totalCost : Int, discountCost : Int]
  /\ \A n \in DOMAIN amounts : amounts[n] \in Amount
  /\ settled \subseteq DOMAIN amounts
  /\ \A n \in DOMAIN refunds : refunds[n] \in Asked
  /\ phase \in {"cart", "placed", "failed"}

\* The totals of an order stay explained by the costs its items refer to, also
\* after the products were given new costs: net total plus discount is the
\* price of the items without discounts, and the discount is the items'
\* percentage of it (createOrderItem, calculateTotalCost).
TotalsMatchItems ==
  phase = "placed" =>
    /\ totals.totalCost + totals.discountCost =
         SumFunction([p \in Position |-> 100 * CostOf(p).saleCost * QuantityOf(p)])
    /\ totals.discountCost =
         SumFunction([p \in Position |-> CostOf(p).saleCost * CostOf(p).discountPercentage * QuantityOf(p)])

\* However often an order is processed, and whatever its products cost meanwhile,
\* two payments asked for it differ only by their fees; and what is refunded was
\* asked for by a transaction with a payDate (processOrder, cancelOrder).
PaymentsDifferByFee ==
  /\ \A n, k \in DOMAIN amounts :
       amounts[n].asked.amount - amounts[k].asked.amount = 100 * (amounts[n].fee - amounts[k].fee)
  /\ \A n \in DOMAIN refunds : \E k \in settled : refunds[n].amount = amounts[k].asked.amount

=============================================================================
