-------------------------- MODULE MCAuthentication --------------------------
(* Authentication for TLC. *)
EXTENDS Authentication

=============================================================================
