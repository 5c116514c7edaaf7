---------------------------- MODULE LatestFrame ----------------------------
(***************************************************************************)
(* What the hand-off between the DTLS thread and the event loop promises,  *)
(* without its lock, its flag and its callback: a register that holds the  *)
(* freshest frame not yet taken.  FrameMailbox is shown to implement it.   *)
(***************************************************************************)
EXTENDS Naturals

CONSTANT MaxFrames       \* bound: how many frames the TV sends in a behaviour

VARIABLES
    sent,                \* frames offered so far; a frame is its number
    latest,              \* the freshest frame not yet taken, or NoFrame
    taken,               \* the last frame the event loop took, or NoFrame
    running              \* the event loop is running

vars == <<sent, latest, taken, running>>

NoFrame == 0

Init == sent = 0 /\ latest = NoFrame /\ taken = NoFrame /\ running = TRUE

\* A frame is offered and supersedes the one that waits, if any.
Offer ==
    /\ sent < MaxFrames
    /\ sent' = sent + 1
    /\ latest' = sent + 1
    /\ UNCHANGED <<taken, running>>

\* The loop takes the freshest frame, which is then nobody else's.
Take ==
    /\ running
    /\ latest # NoFrame
    /\ taken' = latest
    /\ latest' = NoFrame
    /\ UNCHANGED <<sent, running>>

Close == running /\ running' = FALSE /\ UNCHANGED <<sent, latest, taken>>

Next == Offer \/ Take \/ Close

\* While the loop runs, a waiting frame (or a fresher one) is taken.
Spec == Init /\ [][Next]_vars /\ WF_vars(Take)
=============================================================================
