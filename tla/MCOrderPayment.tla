--------------------------- MODULE MCOrderPayment ---------------------------
(* OrderPayment on small sets of calls. *)
EXTENDS OrderPayment, TLC

\* Calls of one kind are interchangeable: sound where no liveness is checked.
Symmetry ==
  Permutations(Process) \cup Permutations(Callback)
    \cup Permutations(Request) \cup Permutations(Cancel)

=============================================================================
