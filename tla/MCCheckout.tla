----------------------------- MODULE MCCheckout -----------------------------
(* Checkout on two calls, two positions, up to three cart items and two options. *)
EXTENDS Checkout, TLC

CONSTANTS i2, i3, o1, o2

\* i1 and i3 are two cart items of one option.
MCOptionOf == [i \in Item |-> IF i = i2 THEN o2 ELSE o1]
MCQuantity == [i \in Item |-> IF i = i3 THEN 2 ELSE IF i = i2 THEN -1 ELSE 1]
MCInitial == [o \in Option |-> IF o = o1 THEN 2 ELSE 1]

Symmetry == Permutations(Call) \cup Permutations(Slot)

=============================================================================
