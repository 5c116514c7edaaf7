---------------------------- MODULE FrameMailbox ----------------------------
(***************************************************************************)
(* The single-slot hand-off of frames from the DTLS thread to the asyncio  *)
(* event loop.  The lock makes each of the three critical sections one     *)
(* step; everything between them interleaves: the thread leaves the lock   *)
(* before it wakes the loop, and the callback leaves it before it calls    *)
(* the handler.  A frame is the number of its put.                         *)
(***************************************************************************)
EXTENDS Naturals

CONSTANTS
    Threads,             \* the threads that may call put (one DTLS thread today)
    MaxFrames            \* bound: how many frames are put in a behaviour

ASSUME FramesAssumption == MaxFrames \in Nat

VARIABLES
    latest,              \* _latest: the freshest frame, or NoFrame
    scheduled,           \* _scheduled: a wake-up of the loop is under way
    coalesced,           \* the counter of superseded frames
    pc,                  \* where each thread is in put
    queued,              \* _deliver callbacks in the loop's queue
    held,                \* the frame _deliver took and has not handled yet
    handled,             \* the last frame given to the handler
    delivered,           \* how many frames the handler was given
    sent,                \* how many frames were put
    running              \* the event loop is not closed

mailbox == <<latest, scheduled, coalesced>>
loop == <<queued, held, handled, delivered, running>>
vars == <<mailbox, pc, loop, sent>>

NoFrame == 0

Init ==
    /\ latest = NoFrame
    /\ scheduled = FALSE
    /\ coalesced = 0
    /\ pc = [t \in Threads |-> "idle"]
    /\ queued = 0
    /\ held = NoFrame
    /\ handled = NoFrame
    /\ delivered = 0
    /\ sent = 0
    /\ running = TRUE

-----------------------------------------------------------------------------
(* The DTLS thread *)

\* Erroneous variants of put, for the mutation of Put: it wakes the loop for every
\* frame; it keeps the older frame.
PutAlwaysWaking(t) ==
    /\ pc[t] = "idle" /\ sent < MaxFrames
    /\ sent' = sent + 1 /\ latest' = sent + 1 /\ scheduled' = TRUE
    /\ coalesced' = IF latest # NoFrame THEN coalesced + 1 ELSE coalesced
    /\ pc' = [pc EXCEPT ![t] = "waking"]
    /\ UNCHANGED loop

PutKeepingOldest(t) ==
    /\ pc[t] = "idle" /\ sent < MaxFrames
    /\ sent' = sent + 1 /\ scheduled' = TRUE
    /\ latest' = IF latest = NoFrame THEN sent + 1 ELSE latest
    /\ coalesced' = IF latest # NoFrame THEN coalesced + 1 ELSE coalesced
    /\ pc' = [pc EXCEPT ![t] = IF scheduled THEN "idle" ELSE "waking"]
    /\ UNCHANGED loop

\* The critical section of put: store the frame, claim the wake-up if no one has.
Put(t) ==
    /\ pc[t] = "idle"
    /\ sent < MaxFrames
    /\ sent' = sent + 1
    /\ coalesced' = IF latest # NoFrame THEN coalesced + 1 ELSE coalesced
    /\ latest' = sent + 1
    /\ scheduled' = TRUE
    /\ pc' = [pc EXCEPT ![t] = IF scheduled THEN "idle" ELSE "waking"]
    /\ UNCHANGED loop

\* call_soon_threadsafe queues the callback, or raises on a closed loop.
Wake(t) ==
    /\ pc[t] = "waking"
    /\ queued' = IF running THEN queued + 1 ELSE queued
    /\ pc' = [pc EXCEPT ![t] = IF running THEN "idle" ELSE "refused"]
    /\ UNCHANGED <<mailbox, held, handled, delivered, running, sent>>

\* The handler of that RuntimeError gives the claim back.
Unschedule(t) ==
    /\ pc[t] = "refused"
    /\ scheduled' = FALSE
    /\ pc' = [pc EXCEPT ![t] = "idle"]
    /\ UNCHANGED <<latest, coalesced, loop, sent>>

-----------------------------------------------------------------------------
(* The event loop *)

\* Erroneous variants: _deliver leaves the frame in the slot, for the next put to count
\* as superseded; the flag is cleared (again) after the handler, outside the lock.
DeliverLeavingFrame ==
    /\ running /\ queued > 0 /\ held = NoFrame
    /\ queued' = queued - 1 /\ held' = latest /\ scheduled' = FALSE
    /\ UNCHANGED <<latest, coalesced, pc, handled, delivered, running, sent>>

HandleClearingFlag ==
    /\ held # NoFrame
    /\ handled' = held /\ delivered' = delivered + 1 /\ held' = NoFrame
    /\ scheduled' = FALSE
    /\ UNCHANGED <<latest, coalesced, pc, queued, running, sent>>

\* The critical section of _deliver: take the frame, let the next put wake the loop.
Deliver ==
    /\ running
    /\ queued > 0
    /\ held = NoFrame
    /\ queued' = queued - 1
    /\ held' = latest
    /\ latest' = NoFrame
    /\ scheduled' = FALSE
    /\ UNCHANGED <<coalesced, pc, handled, delivered, running, sent>>

\* The rest of _deliver, outside the lock: the handler runs.
Handle ==
    /\ held # NoFrame
    /\ handled' = held
    /\ delivered' = delivered + 1
    /\ held' = NoFrame
    /\ UNCHANGED <<mailbox, pc, queued, running, sent>>

\* Home Assistant shuts down; what is queued never runs.
Close ==
    /\ running
    /\ held = NoFrame
    /\ running' = FALSE
    /\ UNCHANGED <<mailbox, pc, queued, held, handled, delivered, sent>>

Next ==
    \/ \E t \in Threads : Put(t) \/ Wake(t) \/ Unschedule(t)
    \/ Deliver
    \/ Handle
    \/ Close

\* A thread inside put leaves it, and a loop that runs gets to its callbacks.
Fairness ==
    /\ \A t \in Threads : WF_vars(Wake(t))
    /\ WF_vars(Deliver)
    /\ WF_vars(Handle)

Spec == Init /\ [][Next]_vars /\ Fairness

-----------------------------------------------------------------------------
(* Properties *)

\* The type invariant of the mailbox and the two sides that use it.
TypeOK ==
    /\ latest \in 0 .. MaxFrames
    /\ scheduled \in BOOLEAN
    /\ coalesced \in Nat
    /\ pc \in [Threads -> {"idle", "waking", "refused"}]
    /\ queued \in Nat
    /\ held \in 0 .. MaxFrames
    /\ handled \in 0 .. MaxFrames
    /\ delivered \in Nat
    /\ sent \in 0 .. MaxFrames
    /\ running \in BOOLEAN

Busy(t) == pc[t] # "idle"

\* "Scheduling at most one loop callback at a time": the flag stands for exactly
\* one wake-up, which is either a queued callback or one thread on its way out of
\* put.  Without it a stalled loop would build the backlog the class exists to avoid.
AtMostOneCallback ==
    /\ queued <= 1
    /\ \A t, u \in Threads : Busy(t) /\ Busy(u) => t = u
    /\ queued = 1 => \A t \in Threads : ~Busy(t)
    /\ scheduled <=> (queued = 1 \/ \E t \in Threads : Busy(t))

\* No frame waits in the slot of a running loop that nobody is going to wake:
\* put returns early on the flag alone, so a flag left behind would freeze the
\* lights, and a flag cleared too late would strand the last frame.
NoStrandedFrame == latest # NoFrame /\ running => scheduled

Outstanding(f) == IF f = NoFrame THEN 0 ELSE 1

\* Every frame put is handled once, counted as coalesced, or still on its way:
\* the coalesced counter of the diagnostics is exact whatever the interleaving.
Conservation ==
    sent = delivered + coalesced + Outstanding(latest) + Outstanding(held)

\* The mailbox is a register of the freshest frame: what the loop takes is always
\* the newest frame put, and while the loop runs a put is followed by a delivery.
Register == INSTANCE LatestFrame WITH
    taken <- IF held # NoFrame THEN held ELSE handled
ImplementsLatestFrame == Register!Spec
=============================================================================
