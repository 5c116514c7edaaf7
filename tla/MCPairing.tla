------------------------------- MODULE MCPairing -------------------------------
(* A burst of three requests by TVs of two types, which make up to three users. *)
EXTENDS Pairing
=============================================================================
