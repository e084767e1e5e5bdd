------------------------- MODULE MCProductCatalogue -------------------------
(* ProductCatalogue for TLC. *)
EXTENDS ProductCatalogue

=============================================================================
