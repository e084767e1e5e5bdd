--------------------------- MODULE PricingProofs ---------------------------
(* What an order costs, for any cart, costs, discounts and fees.           *)
EXTENDS Pricing, DataInduction

Totals == [totalCost : Int, discountCost : Int]
Zero == [totalCost |-> 0, discountCost |-> 0]
DiscountAt(p) == CostOf(p).saleCost * CostOf(p).discountPercentage * QuantityOf(p)
NetAt(p) == (100 * CostOf(p).saleCost - CostOf(p).saleCost * CostOf(p).discountPercentage) * QuantityOf(p)
PriceAt(p) == 100 * CostOf(p).saleCost * QuantityOf(p)
Discounts == [p \in Position |-> DiscountAt(p)]
Nets == [p \in Position |-> NetAt(p)]
Prices == [p \in Position |-> PriceAt(p)]

\* Every product keeps the costs it was given; a view and an item refer to one of them.
CostInv ==
  /\ costs \in [Product -> Seq(Cost)]
  /\ \A q \in Product : Len(costs[q]) \in 1 .. MaxCosts
  /\ view \in [Position -> Nat] /\ chosen \in [Position -> Nat]
  /\ \A p \in Position : {view[p], chosen[p]} \subseteq 0 .. Len(costs[CartItem[p].product])
  /\ phase \in {"cart", "placed", "failed"}
  /\ phase = "placed" => Computable /\ \A p \in Position : chosen[p] # 0

\* The totals are those of the items.
TotalInv ==
  /\ phase # "placed" => totals = Zero /\ amounts = <<>>
  /\ phase = "placed" => totals = [totalCost |-> SumFunction(Nets), discountCost |-> SumFunction(Discounts)]

\* The positions of the payload are finitely many, and each has a quantity.
LEMMA Positions ==
  /\ IsFiniteSet(Position)
  /\ Position \in SUBSET Int
  /\ \A p \in Position : CartItem[p].product \in Product /\ QuantityOf(p) \in Int
<1>1. PICK n \in Nat : Position = 1 .. n
  BY PricingAssumption DEF Position
<1>2. IsFiniteSet(1 .. n)
  BY FS_Interval
<1>3. \A p \in Position : CartItem[p] \in [product : Product, quantity : Int]
  <2> DEFINE X == [product : Product, quantity : Int]
  <2>1. CartItem \in Seq(X)
    BY PricingAssumption
  <2> HIDE DEF X
  <2>2. \A p \in Position : CartItem[p] \in X
    BY <2>1 DEF Position
  <2>. QED
    BY <2>2 DEF X
<1>. QED
  BY <1>1, <1>2, <1>3 DEF QuantityOf

\* The cost of an item that has one, and both its numbers.
LEMMA CostType ==
  ASSUME CostInv, Computable, NEW p \in Position, chosen[p] # 0
  PROVE  CostOf(p).saleCost \in Int /\ CostOf(p).discountPercentage \in Int
<1>1. costs[CartItem[p].product] \in Seq(Cost) /\ chosen[p] \in 1 .. Len(costs[CartItem[p].product])
  BY Positions DEF CostInv
<1>2. CostOf(p) \in Cost
  BY <1>1 DEF CostOf
<1>3. CostOf(p).saleCost # Missing /\ CostOf(p).discountPercentage # Missing
  BY DEF Computable
<1>. QED
  BY <1>2, <1>3, PricingAssumption DEF Cost

\* Arithmetic of a discount.
LEMMA Percentage ==
  ASSUME NEW s \in Int, NEW d \in Int, NEW n \in Int
  PROVE  /\ s * d * n \in Int
         /\ (100 * s - s * d) * n \in Int
         /\ 100 * s * n = (100 * s - s * d) * n + s * d * n
<1>1. s * d \in Int /\ 100 * s \in Int /\ 100 * s - s * d \in Int
  OBVIOUS
<1>2. \A a, b \in Int : a * b \in Int
  OBVIOUS
<1>3. \A a, b \in Int : a * n = (a - b) * n + b * n
  OBVIOUS
<1>4. s * d * n \in Int /\ (100 * s - s * d) * n \in Int
  BY <1>1, <1>2
<1>5. 100 * s * n = (100 * s - s * d) * n + s * d * n
  BY <1>1, <1>3
<1>. QED
  BY <1>4, <1>5

\* What the items of a placed order add up from.
LEMMA Parts ==
  ASSUME CostInv, Computable, NEW p \in Position, chosen[p] # 0
  PROVE  /\ DiscountAt(p) \in Int /\ NetAt(p) \in Int
         /\ PriceAt(p) = NetAt(p) + DiscountAt(p)
<1>1. QuantityOf(p) \in Int
  BY Positions
<1>. QED
  BY <1>1, CostType, Percentage DEF DiscountAt, NetAt, PriceAt

\* One item of calculateTotalCost.
LEMMA AddItemIs ==
  ASSUME NEW p \in Position, NEW acc \in Totals
  PROVE  AddItem(acc, p) = [totalCost |-> acc.totalCost + NetAt(p), discountCost |-> acc.discountCost + DiscountAt(p)]
  BY DEF AddItem, NetAt, DiscountAt

\* calculateTotalCost, which goes through the items in the order of the payload,
\* computes the two sums.
THEOREM CalculatedTotals ==
  ASSUME CostInv, Computable, \A p \in Position : chosen[p] # 0
  PROVE  CalculateTotalCost = [totalCost |-> SumFunction(Nets), discountCost |-> SumFunction(Discounts)]
<1> DEFINE pick == [T \in SUBSET Position |-> Max(T)]
           h == [x \in Position \X Totals |-> AddItem(x[2], x[1])]
           Body(g) == [T \in SUBSET Position |->
                         IF T = {} THEN Zero ELSE AddItem(g[T \ {Max(T)}], [p \in Position |-> p][Max(T)])]
           c == CHOOSE g : g = Body(g)
<1>1. \A T \in SUBSET Position : T # {} => IsFiniteSet(T) /\ Max(T) \in T
  BY Positions, FS_Subset, MaxElement
<1>2. \A p \in Position, acc \in Totals :
        AddItem(acc, p) = [totalCost |-> acc.totalCost + NetAt(p), discountCost |-> acc.discountCost + DiscountAt(p)]
  BY AddItemIs
<1>3. \A p \in Position : NetAt(p) \in Int /\ DiscountAt(p) \in Int
  BY Parts
<1>4. h \in [Position \X Totals -> Totals] /\ Zero \in Totals
  BY <1>2, <1>3 DEF Totals, Zero
<1>5. PICK g \in [SUBSET Position -> Totals] : Recurses(g, Position, Zero, h, pick)
  <2>1. \A T \in SUBSET Position : T # {} => pick[T] \in T
    BY <1>1
  <2> HIDE DEF h, pick
  <2>. QED
    BY <1>4, <2>1, Positions, FiniteRecursion
<1>6. \A T \in SUBSET Position : T # {} => g[T] = AddItem(g[T \ {Max(T)}], Max(T))
  <2> SUFFICES ASSUME NEW T \in SUBSET Position, T # {} PROVE g[T] = AddItem(g[T \ {Max(T)}], Max(T))
    OBVIOUS
  <2>1. pick[T] = Max(T) /\ Max(T) \in Position /\ g[T \ {Max(T)}] \in Totals
    BY <1>1, <1>5
  <2>2. g[T] = h[<<Max(T), g[T \ {Max(T)}]>>]
    BY <1>5, <2>1 DEF Recurses
  <2>. QED
    BY <2>1, <2>2
<1>7. g[{}] = Zero
  BY <1>5 DEF Recurses
<1>8. g = Body(g)
  <2>1. \A T \in SUBSET Position : T # {} => [p \in Position |-> p][Max(T)] = Max(T)
    BY <1>1
  <2>. QED
    BY <1>5, <1>6, <1>7, <2>1
<1>9. c = Body(c)
  <2> HIDE DEF Body
  <2>. QED
    BY <1>8
<1>10. CalculateTotalCost = c[Position]
  BY DEF CalculateTotalCost, FoldLeft, MapThenFoldSet, Zero
<1> DEFINE Sums(T) == [totalCost |-> SumFunctionOnSet(Nets, T), discountCost |-> SumFunctionOnSet(Discounts, T)]
           G == {T \in SUBSET Position : c[T] = Sums(T)}
<1>11. ASSUME NEW T \in SUBSET Position, \A x \in T : T \ {x} \in G PROVE T \in G
  <2>1. IsFiniteSet(T) /\ \A x \in T : Nets[x] \in Int /\ Discounts[x] \in Int
    BY <1>3, Positions, FS_Subset DEF Nets, Discounts
  <2>2. CASE T = {}
    <3>1. SumFunctionOnSet(Nets, T) = 0 /\ SumFunctionOnSet(Discounts, T) = 0
      BY <2>1, <2>2, SumTaken
    <3>2. c[T] = Zero
      BY <1>9, <2>2
    <3>. QED
      BY <3>1, <3>2 DEF Zero
  <2>3. CASE T # {}
    <3> DEFINE m == Max(T)
               R == T \ {m}
    <3>1. m \in T /\ m \in Position
      BY <1>1, <2>3
    <3>2. /\ SumFunctionOnSet(Nets, T) = Nets[m] + SumFunctionOnSet(Nets, R)
          /\ SumFunctionOnSet(Discounts, T) = Discounts[m] + SumFunctionOnSet(Discounts, R)
      BY <2>1, <3>1, SumStep
    <3>3. SumFunctionOnSet(Nets, R) \in Int /\ SumFunctionOnSet(Discounts, R) \in Int
      <4>1. IsFiniteSet(R) /\ \A x \in R : Nets[x] \in Int /\ Discounts[x] \in Int
        BY <2>1, FS_Subset
      <4>. QED
        BY <4>1, SumTaken
    <3>4. c[R] = Sums(R)
      BY <1>11, <3>1
    <3>5. c[T] = AddItem(c[R], m)
      <4>1. c[T] = AddItem(c[R], [p \in Position |-> p][m])
        BY <1>9, <2>3
      <4>. QED
        BY <3>1, <4>1
    <3>6. Sums(R) \in Totals
      BY <3>3 DEF Totals
    <3>7. AddItem(Sums(R), m) = [totalCost |-> Sums(R).totalCost + NetAt(m), discountCost |-> Sums(R).discountCost + DiscountAt(m)]
      BY <1>2, <3>1, <3>6
    <3>8. Nets[m] = NetAt(m) /\ Discounts[m] = DiscountAt(m)
      BY <3>1 DEF Nets, Discounts
    <3>9. NetAt(m) \in Int /\ DiscountAt(m) \in Int
      BY <1>3, <3>1
    <3> HIDE DEF m, R, c
    <3>10. c[T] = [totalCost |-> SumFunctionOnSet(Nets, R) + NetAt(m), discountCost |-> SumFunctionOnSet(Discounts, R) + DiscountAt(m)]
      BY <3>4, <3>5, <3>7
    <3>. QED
      BY <3>2, <3>3, <3>8, <3>9, <3>10
  <2>. QED
    BY <2>2, <2>3
<1>12. Position \in G
  <2> HIDE DEF G
  <2>. QED
    BY <1>11, Positions, FiniteShrink, Zenon
<1>. QED
  BY <1>10, <1>12 DEF SumFunction, Nets, Discounts

-----------------------------------------------------------------------------
(* The steps.                                                              *)

\* The invariant holds at the start.
LEMMA CostInit == Init => CostInv /\ TotalInv
<1> SUFFICES ASSUME Init PROVE CostInv /\ TotalInv
  OBVIOUS
<1>1. ASSUME NEW q \in Product PROVE costs[q] \in Seq(Cost) /\ Len(costs[q]) = 1
  <2>1. PICK c \in FirstCost : costs[q] = <<c>>
    BY DEF Init
  <2>2. c \in Cost
    BY DEF FirstCost, Cost
  <2>. QED
    BY <2>1, <2>2
<1>2. costs \in [Product -> Seq(Cost)]
  BY <1>1 DEF Init
<1>3. 1 \in 1 .. MaxCosts
  BY PricingAssumption
<1>4. \A p \in Position : 0 \in 0 .. Len(costs[CartItem[p].product])
  BY <1>1, Positions
<1>. QED
  BY <1>1, <1>2, <1>3, <1>4 DEF Init, CostInv, TotalInv, Zero

\* A product's costs only grow.
LEMMA CostStep ==
  ASSUME CostInv, [Next]_vars
  PROVE  /\ costs' \in [Product -> Seq(Cost)]
         /\ \A q \in Product : /\ Len(costs'[q]) \in 1 .. MaxCosts
                               /\ Len(costs[q]) <= Len(costs'[q])
                               /\ \A n \in 1 .. Len(costs[q]) : costs'[q][n] = costs[q][n]
<1>1. CASE UNCHANGED costs
  BY <1>1 DEF CostInv
<1>2. ASSUME NEW q \in Product, NEW c \in Cost, ChangeCost(q, c)
      PROVE  /\ costs' \in [Product -> Seq(Cost)]
             /\ \A r \in Product : /\ Len(costs'[r]) \in 1 .. MaxCosts
                                   /\ Len(costs[r]) <= Len(costs'[r])
                                   /\ \A n \in 1 .. Len(costs[r]) : costs'[r][n] = costs[r][n]
  <2>1. costs' = [costs EXCEPT ![q] = Append(costs[q], c)] /\ Len(costs[q]) < MaxCosts
    BY <1>2 DEF ChangeCost
  <2>2. costs[q] \in Seq(Cost) /\ Append(costs[q], c) \in Seq(Cost) /\ Len(Append(costs[q], c)) = Len(costs[q]) + 1
        /\ \A n \in 1 .. Len(costs[q]) : Append(costs[q], c)[n] = costs[q][n]
    BY DEF CostInv
  <2>3. costs' \in [Product -> Seq(Cost)]
    BY <2>1, <2>2 DEF CostInv
  <2>4. ASSUME NEW r \in Product
        PROVE  /\ Len(costs'[r]) \in 1 .. MaxCosts
               /\ Len(costs[r]) <= Len(costs'[r])
               /\ \A n \in 1 .. Len(costs[r]) : costs'[r][n] = costs[r][n]
    <3>1. CASE r = q
      <4>1. costs'[q] = Append(costs[q], c)
        BY <2>1 DEF CostInv
      <4>2. Len(costs[q]) \in 1 .. MaxCosts /\ MaxCosts \in Nat
        BY PricingAssumption DEF CostInv
      <4>. QED
        BY <2>1, <2>2, <3>1, <4>1, <4>2
    <3>2. CASE r # q
      <4>1. costs'[r] = costs[r] /\ costs[r] \in Seq(Cost) /\ Len(costs[r]) \in 1 .. MaxCosts
        BY <2>1, <3>2 DEF CostInv
      <4>. QED
        BY <4>1
    <3>. QED
      BY <3>1, <3>2
  <2>. QED
    BY <2>3, <2>4
<1>. QED
  BY <1>1, <1>2 DEF Next, CreateOrderItem, TouchView, PlaceOrder, PlaceRefused, ProcessOrder, Callback, Refund, vars

\* Items refer to costs that their products have, once they are placed all of them.
LEMMA CostNext ==
  ASSUME CostInv, [Next]_vars
  PROVE  CostInv' /\ (phase # "cart" => chosen' = chosen /\ phase' = phase)
<1>1. \A p \in Position : /\ Len(costs[CartItem[p].product]) \in Nat \ {0}
                          /\ Len(costs'[CartItem[p].product]) \in Nat
                          /\ Len(costs[CartItem[p].product]) <= Len(costs'[CartItem[p].product])
  <2>1. ASSUME NEW q \in Product
        PROVE  /\ Len(costs[q]) \in Nat \ {0} /\ Len(costs'[q]) \in Nat
               /\ Len(costs[q]) <= Len(costs'[q])
    BY CostStep, PricingAssumption DEF CostInv
  <2>. QED
    BY <2>1, Positions
<1>2. /\ view' \in [Position -> Nat] /\ chosen' \in [Position -> Nat]
      /\ \A p \in Position : {view'[p], chosen'[p]} \subseteq 0 .. Len(costs[CartItem[p].product])
  <2>1. ASSUME NEW p \in Position, CreateOrderItem(p)
        PROVE  /\ view' \in [Position -> Nat] /\ chosen' \in [Position -> Nat]
               /\ \A r \in Position : {view'[r], chosen'[r]} \subseteq 0 .. Len(costs[CartItem[r].product])
    BY <1>1, <2>1 DEF CreateOrderItem, CostInv
  <2>2. ASSUME NEW p \in Position, TouchView(p)
        PROVE  /\ view' \in [Position -> Nat] /\ chosen' \in [Position -> Nat]
               /\ \A r \in Position : {view'[r], chosen'[r]} \subseteq 0 .. Len(costs[CartItem[r].product])
    BY <1>1, <2>2 DEF TouchView, CostInv
  <2>3. CASE UNCHANGED <<view, chosen>>
    BY <2>3 DEF CostInv
  <2>. QED
    BY <2>1, <2>2, <2>3 DEF Next, ChangeCost, PlaceOrder, PlaceRefused, ProcessOrder, Callback, Refund, vars
<1>3. \A p \in Position : {view'[p], chosen'[p]} \subseteq 0 .. Len(costs'[CartItem[p].product])
  BY <1>1, <1>2
<1>4. /\ phase' \in {"cart", "placed", "failed"}
      /\ phase # "cart" => chosen' = chosen /\ phase' = phase
      /\ phase' = "placed" => \A p \in Position : chosen'[p] # 0
  BY DEF Next, ChangeCost, CreateOrderItem, TouchView, PlaceOrder, PlaceRefused, ProcessOrder, Callback, Refund, vars, CostInv
<1>5. phase' = "placed" => Computable'
  <2>1. CASE phase = "placed"
    <3>1. \A p \in Position : CostOf(p)' = CostOf(p)
      <4>1. \A p \in Position : chosen[p] \in 1 .. Len(costs[CartItem[p].product])
        BY <2>1, Positions DEF CostInv
      <4>. QED
        BY <1>4, <2>1, <4>1, CostStep, Positions DEF CostOf
    <3>. QED
      BY <2>1, <3>1 DEF CostInv, Computable
  <2>2. CASE phase # "placed" /\ phase' = "placed"
    <3>1. PlaceOrder
      BY <2>2 DEF Next, ChangeCost, CreateOrderItem, TouchView, PlaceRefused, ProcessOrder, Callback, Refund, vars
    <3>2. Computable /\ UNCHANGED <<costs, chosen>>
      BY <3>1 DEF PlaceOrder
    <3>. QED
      BY <3>2 DEF Computable, CostOf
  <2>. QED
    BY <2>1, <2>2
<1>. QED
  BY <1>2, <1>3, <1>4, <1>5, CostStep DEF CostInv

\* The cost of an item stays what it was.
LEMMA ItemCostStays ==
  ASSUME CostInv, [Next]_vars, phase = "placed", NEW p \in Position
  PROVE  CostOf(p)' = CostOf(p)
<1>1. chosen' = chosen /\ chosen[p] \in 1 .. Len(costs[CartItem[p].product])
  BY CostNext, Positions DEF CostInv
<1>. QED
  BY <1>1, CostStep, Positions DEF CostOf

\* Nothing of what was placed changes what it adds up to.
LEMMA TotalNext == ASSUME CostInv, TotalInv, [Next]_vars PROVE TotalInv'
<1>1. CASE phase # "placed" /\ phase' # "placed"
  BY <1>1 DEF TotalInv, Next, ChangeCost, CreateOrderItem, TouchView, PlaceOrder, PlaceRefused, ProcessOrder, Callback, Refund, vars
<1>2. CASE phase # "placed" /\ phase' = "placed"
  <2>1. PlaceOrder
    BY <1>2 DEF Next, ChangeCost, CreateOrderItem, TouchView, PlaceRefused, ProcessOrder, Callback, Refund, vars
  <2>2. /\ UNCHANGED <<costs, chosen>> /\ totals' = CalculateTotalCost /\ Computable
        /\ \A p \in Position : chosen[p] # 0
    BY <2>1 DEF PlaceOrder
  <2>3. Nets' = Nets /\ Discounts' = Discounts
    BY <2>2 DEF Nets, Discounts, NetAt, DiscountAt, CostOf
  <2>. QED
    BY <1>2, <2>2, <2>3, CalculatedTotals DEF TotalInv
<1>3. CASE phase = "placed"
  <2>1. phase' = "placed" /\ totals' = totals
    BY <1>3, CostNext DEF Next, ChangeCost, CreateOrderItem, TouchView, PlaceOrder, PlaceRefused, ProcessOrder, Callback, Refund, vars
  <2>2. \A p \in Position : CostOf(p)' = CostOf(p)
    BY <1>3, ItemCostStays
  <2>3. Nets' = Nets /\ Discounts' = Discounts
    BY <2>2 DEF Nets, Discounts, NetAt, DiscountAt
  <2>. QED
    BY <1>3, <2>1, <2>3 DEF TotalInv
<1>. QED
  BY <1>1, <1>2, <1>3

-----------------------------------------------------------------------------
(* The amounts.                                                            *)

\* Every transaction asks for the totals of the order and its own fee; a refund is
\* of one that a callback has settled.
AmountInv ==
  /\ amounts \in Seq(Amount)
  /\ \A n \in DOMAIN amounts :
       amounts[n].asked.amount = totals.totalCost + 100 * amounts[n].fee - totals.discountCost
  /\ settled \subseteq DOMAIN amounts
  /\ refunds \in Seq(Asked)
  /\ \A n \in DOMAIN refunds : \E k \in settled : refunds[n].amount = amounts[k].asked.amount

\* Totals are numbers: an order with a cost that lacks one is refused.
LEMMA TotalsType ==
  ASSUME CostInv, TotalInv
  PROVE  totals \in [totalCost : Int, discountCost : Int]
<1>1. CASE phase # "placed"
  BY <1>1 DEF TotalInv, Zero
<1>2. CASE phase = "placed"
  <2>1. \A p \in Position : Nets[p] \in Int /\ Discounts[p] \in Int
    BY <1>2, Parts DEF CostInv, Nets, Discounts
  <2>2. DOMAIN Nets = Position /\ DOMAIN Discounts = Position
    BY DEF Nets, Discounts
  <2>3. SumFunctionOnSet(Nets, Position) \in Int /\ SumFunctionOnSet(Discounts, Position) \in Int
    BY <2>1, Positions, SumTaken
  <2>. QED
    BY <1>2, <2>2, <2>3 DEF TotalInv, SumFunction
<1>. QED
  BY <1>1, <1>2

\* Processing, settling and refunding.
LEMMA AmountNext == ASSUME CostInv, TotalInv, AmountInv, [Next]_vars PROVE AmountInv'
<1>1. CASE ProcessOrder
  <2>1. PICK f \in Fee : amounts' = Append(amounts, [asked |-> CreatePaymentUrl(TransactionAmount(f)), fee |-> f])
    BY <1>1 DEF ProcessOrder, CalcFee
  <2> DEFINE a == [asked |-> CreatePaymentUrl(TransactionAmount(f)), fee |-> f]
  <2>2. f \in Int /\ totals \in [totalCost : Int, discountCost : Int]
    BY TotalsType, PricingAssumption
  <2>3. a \in Amount /\ a.fee = f /\ a.asked.amount = totals.totalCost + 100 * a.fee - totals.discountCost
    BY <2>2 DEF CreatePaymentUrl, BuildVnpBaseParams, TransactionAmount, Amount, Asked
  <2>4. UNCHANGED <<totals, settled, refunds>>
    BY <1>1 DEF ProcessOrder
  <2> HIDE DEF a
  <2>5. /\ amounts' = Append(amounts, a) /\ amounts' \in Seq(Amount) /\ Len(amounts') = Len(amounts) + 1
        /\ \A n \in DOMAIN amounts : n \in DOMAIN amounts' /\ amounts'[n] = amounts[n]
        /\ \A n \in DOMAIN amounts' : n \in DOMAIN amounts \/ amounts'[n] = a
    BY <2>1, <2>3 DEF AmountInv, a
  <2>6. \A n \in DOMAIN amounts' :
          amounts'[n].asked.amount = totals'.totalCost + 100 * amounts'[n].fee - totals'.discountCost
    BY <2>3, <2>4, <2>5 DEF AmountInv
  <2>7. \A n \in DOMAIN refunds : \E k \in settled : refunds[n].amount = amounts'[k].asked.amount
    BY <2>5 DEF AmountInv
  <2>. QED
    BY <2>4, <2>5, <2>6, <2>7 DEF AmountInv
<1>2. ASSUME NEW n \in DOMAIN amounts, Refund(n) PROVE AmountInv'
  <2>1. /\ n \in settled /\ UNCHANGED <<totals, amounts, settled>>
        /\ refunds' = Append(refunds, RefundTransaction(amounts[n].asked.amount))
    BY <1>2 DEF Refund
  <2> DEFINE r == RefundTransaction(amounts[n].asked.amount)
  <2>2. r \in Asked /\ r.amount = amounts[n].asked.amount
    <3>1. amounts[n] \in Amount
      BY DEF AmountInv
    <3>. QED
      BY <3>1 DEF RefundTransaction, BuildVnpBaseParams, Amount, Asked
  <2> HIDE DEF r
  <2>3. /\ refunds' \in Seq(Asked)
        /\ \A m \in DOMAIN refunds' : (m \in DOMAIN refunds /\ refunds'[m] = refunds[m]) \/ refunds'[m] = r
    BY <2>1, <2>2 DEF AmountInv, r
  <2>4. \A m \in DOMAIN refunds' : \E k \in settled : refunds'[m].amount = amounts[k].asked.amount
    BY <2>1, <2>2, <2>3 DEF AmountInv
  <2>. QED
    BY <2>1, <2>3, <2>4 DEF AmountInv
<1>3. ASSUME NEW n \in DOMAIN amounts, Callback(n) PROVE AmountInv'
  <2>1. settled' = settled \cup {n} /\ UNCHANGED <<totals, amounts, refunds>>
    BY <1>3 DEF Callback
  <2>. QED
    BY <2>1 DEF AmountInv
<1>4. CASE PlaceOrder
  <2>1. amounts = <<>> /\ UNCHANGED <<amounts, settled, refunds>>
    BY <1>4 DEF PlaceOrder, TotalInv
  <2>. QED
    BY <2>1 DEF AmountInv
<1>5. CASE UNCHANGED <<totals, amounts, settled, refunds>>
  BY <1>5 DEF AmountInv
<1>. QED
  BY <1>1, <1>2, <1>3, <1>4, <1>5 DEF Next, ChangeCost, CreateOrderItem, TouchView, PlaceRefused, vars

-----------------------------------------------------------------------------
(* The properties of the run, for any cart, costs, discounts and fees.     *)

\* The invariant holds in every state (createOrder, processOrder, cancelOrder).
THEOREM PricesKept == Spec => [](CostInv /\ TotalInv /\ AmountInv)
<1>1. Init => CostInv /\ TotalInv /\ AmountInv
  <2>1. Init => AmountInv
    BY DEF Init, AmountInv
  <2>. QED
    BY <2>1, CostInit
<1>2. CostInv /\ TotalInv /\ AmountInv /\ [Next]_vars => (CostInv /\ TotalInv /\ AmountInv)'
  BY CostNext, TotalNext, AmountNext
<1>. QED
  BY <1>1, <1>2, PTL DEF Spec

\* Every variable stays in its domain: a view and an item refer to a cost their
\* product was given, a callback to a transaction that was created (createOrder,
\* updateProduct, orderTransactionCallback).
THEOREM TypesKept == Spec => []TypeOK
<1>1. CostInv /\ TotalInv /\ AmountInv => TypeOK
  <2> SUFFICES ASSUME CostInv, TotalInv, AmountInv PROVE TypeOK
    OBVIOUS
  <2>1. \A n \in DOMAIN amounts : amounts[n] \in Amount
    BY DEF AmountInv
  <2>2. \A n \in DOMAIN refunds : refunds[n] \in Asked
    BY DEF AmountInv
  <2>. QED
    BY <2>1, <2>2, TotalsType DEF CostInv, AmountInv, TypeOK
<1>. QED
  BY <1>1, PricesKept, PTL

\* The totals of an order stay explained by the costs its items refer to, also
\* after the products were given new costs: net total plus discount is the price
\* of the items without discounts (createOrderItem, calculateTotalCost).
THEOREM TotalsAlwaysMatchItems == Spec => []TotalsMatchItems
<1>1. CostInv /\ TotalInv => TotalsMatchItems
  <2> SUFFICES ASSUME CostInv, TotalInv, phase = "placed"
               PROVE  /\ totals.totalCost + totals.discountCost = SumFunction(Prices)
                      /\ totals.discountCost = SumFunction(Discounts)
    BY DEF TotalsMatchItems, Prices, PriceAt, Discounts, DiscountAt
  <2>1. \A p \in Position : Nets[p] \in Int /\ Discounts[p] \in Int /\ Prices[p] = Nets[p] + Discounts[p]
    BY Parts DEF CostInv, Nets, Discounts, Prices
  <2>2. DOMAIN Nets = Position /\ DOMAIN Discounts = Position /\ DOMAIN Prices = Position
    BY DEF Nets, Discounts, Prices
  <2>3. SumFunctionOnSet(Prices, Position) = SumFunctionOnSet(Nets, Position) + SumFunctionOnSet(Discounts, Position)
    BY <2>1, Positions, SumPlus
  <2>. QED
    BY <2>2, <2>3 DEF TotalInv, SumFunction
<1>. QED
  BY <1>1, PricesKept, PTL

\* However often an order is processed, and whatever its products cost meanwhile,
\* two payments asked for it differ only by their fees, and a refund is of a
\* payment asked for by a transaction with a payDate (processOrder, cancelOrder).
THEOREM PaymentsAlwaysDifferByFee == Spec => []PaymentsDifferByFee
<1>1. CostInv /\ TotalInv /\ AmountInv => PaymentsDifferByFee
  <2> SUFFICES ASSUME CostInv, TotalInv, AmountInv PROVE PaymentsDifferByFee
    OBVIOUS
  <2>1. \A n \in DOMAIN amounts : amounts[n].fee \in Int
    <3>1. \A n \in DOMAIN amounts : amounts[n] \in Amount
      BY DEF AmountInv
    <3>. QED
      BY <3>1, PricingAssumption DEF Amount
  <2>2. ASSUME NEW n \in DOMAIN amounts, NEW k \in DOMAIN amounts
        PROVE  amounts[n].asked.amount - amounts[k].asked.amount = 100 * (amounts[n].fee - amounts[k].fee)
    <3> DEFINE t == totals.totalCost
               d == totals.discountCost
               f == amounts[n].fee
               g == amounts[k].fee
    <3>1. t \in Int /\ d \in Int /\ f \in Int /\ g \in Int
      BY <2>1, TotalsType
    <3>2. amounts[n].asked.amount = t + 100 * f - d /\ amounts[k].asked.amount = t + 100 * g - d
      BY DEF AmountInv
    <3> HIDE DEF t, d, f, g
    <3>3. amounts[n].asked.amount - amounts[k].asked.amount = 100 * (f - g)
      BY <3>1, <3>2
    <3>. QED
      BY <3>3 DEF f, g
  <2>. QED
    BY <2>2 DEF AmountInv, PaymentsDifferByFee
<1>. QED
  BY <1>1, PricesKept, PTL

=============================================================================
