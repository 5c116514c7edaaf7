------------------------------ MODULE MCSession ------------------------------
(* A small instance of Session: two requests at a time, the watchdog, the unload. *)
EXTENDS Session
=============================================================================
