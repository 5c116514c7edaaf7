-------------------------------- MODULE MCEntry --------------------------------
(* Entry with the code's time-outs: 30 and 5 times the poll interval. *)
EXTENDS Entry
=============================================================================
