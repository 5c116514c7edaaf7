--------------------------- MODULE MCFrameMailbox ---------------------------
(* A small instance of FrameMailbox: two threads, six frames. *)
EXTENDS FrameMailbox
=============================================================================
