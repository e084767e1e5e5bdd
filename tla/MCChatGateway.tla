--------------------------- MODULE MCChatGateway ----------------------------
(* ChatGateway for TLC. *)
EXTENDS ChatGateway

Symmetry == Permutations(Call) \cup Permutations(Email)

=============================================================================
