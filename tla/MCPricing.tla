------------------------------ MODULE MCPricing -----------------------------
(* Pricing on a cart of two products, one of them twice, a quantity negative. *)
EXTENDS Pricing

CONSTANTS q1, q2

MCCartItem == << [product |-> q1, quantity |-> 2], [product |-> q2, quantity |-> -1],
                 [product |-> q1, quantity |-> 1] >>

=============================================================================
