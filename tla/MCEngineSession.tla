--------------------------- MODULE MCEngineSession ---------------------------
(* A small instance of EngineSession: the lights have two possible looks. *)
EXTENDS EngineSession
=============================================================================
