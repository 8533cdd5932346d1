---------------------------- MODULE MCOidcLogin ----------------------------
(* An instance of OidcLogin for TLC. *)
EXTENDS OidcLogin

CONSTANTS p1, p2, s1, r1, r2
=============================================================================
