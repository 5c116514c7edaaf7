------------------------------- MODULE HueOutput -------------------------------
(***************************************************************************)
(* SyncController with HueEntertainmentBackend: an output whose start and  *)
(* stop await a bridge that may be away, break a stream or refuse a stop.  *)
(*                                                                         *)
(* The backend's own lock is only taken under the controller's, so that    *)
(* one lock is modelled, with what its holder awaits.  A released lock is  *)
(* handed over to the first waiter one turn of the loop later.             *)
(*                                                                         *)
(* The library's session is "fresh" before its first start, "idle" after a *)
(* stop, "broken" if it still counts as streaming but cannot send, and     *)
(* "dead" if it neither streams nor can be started again.                  *)
(***************************************************************************)
EXTENDS Naturals, Sequences

VARIABLES
    enabled,     \* SyncController._enabled
    active,      \* SyncController._active
    session,     \* HueEntertainmentBackend._session
    restart,     \* HueEntertainmentBackend._restart_required
    doing,       \* what the lock's holder awaits: "closing", "opening", "undoing" of a
                 \* start, "stopping" of a stop, "ending" of the stop of async_close
    waiting,     \* the calls that wait for the lock, in order
    closing,     \* async_close: "no", "saving", "closed" or "failed"
    bridgeUp

lock == <<doing, waiting>>

Init ==
    /\ enabled \in BOOLEAN
    /\ active = FALSE
    /\ session = "none"
    /\ restart = FALSE
    /\ doing = "none"
    /\ waiting = <<>>
    /\ closing = "no"
    /\ bridgeUp \in BOOLEAN

Streaming == session \in {"streaming", "broken"}

\* Erroneous variant: a session that cannot send counts as connected.
BackendConnectedWhileStreaming == Streaming

BackendConnected == Streaming /\ ~restart
Connected == active /\ BackendConnected
LockIsFree == doing = "none" /\ waiting = <<>>

-----------------------------------------------------------------------------
(* Starting *)

\* The backend's start up to its first await: a session that failed is closed first.
Opening ==
    /\ session' = IF session = "none" THEN "fresh" ELSE session
    /\ doing' = IF restart /\ session # "none" THEN "closing" ELSE "opening"

\* async_start once it has the lock.
StartLocked ==
    IF ~enabled \/ Connected THEN UNCHANGED <<active, session, doing>>
    ELSE IF BackendConnected THEN active' = TRUE /\ UNCHANGED <<session, doing>>
    ELSE active' = FALSE /\ Opening

\* async_start up to its first await.
Start ==
    \/ (~enabled \/ Connected) /\ UNCHANGED <<active, session, lock>>
    \/ enabled /\ ~Connected /\ LockIsFree /\ StartLocked /\ UNCHANGED waiting
    \/ /\ enabled /\ ~Connected /\ ~LockIsFree
       /\ waiting' = Append(waiting, "start")
       /\ UNCHANGED <<active, session, doing>>

\* Erroneous variant: the session is closed and no new one made.
ClosedOnly ==
    /\ doing = "closing"
    /\ session' = "none"
    /\ doing' = "opening"
    /\ UNCHANGED <<enabled, active, restart, waiting, closing, bridgeUp>>

\* The failed session is closed and a new one made.
Closed ==
    /\ doing = "closing"
    /\ session' = "fresh"
    /\ doing' = "opening"
    /\ UNCHANGED <<enabled, active, restart, waiting, closing, bridgeUp>>

CloseFails ==
    /\ doing = "closing"
    /\ doing' = "none"
    /\ UNCHANGED <<enabled, active, session, restart, waiting, closing, bridgeUp>>

\* The stream is open; if sync was disabled meanwhile, it is stopped at once.
Opened ==
    /\ doing = "opening"
    /\ bridgeUp /\ session \in {"fresh", "idle"}
    /\ session' = "streaming"
    /\ restart' = FALSE
    /\ IF enabled THEN active' = TRUE /\ doing' = "none"
                  ELSE doing' = "undoing" /\ UNCHANGED active
    /\ UNCHANGED <<enabled, waiting, closing, bridgeUp>>

OpenFails ==
    /\ doing = "opening"
    /\ session' = "dead"
    /\ restart' = TRUE
    /\ doing' = "none"
    /\ UNCHANGED <<enabled, active, waiting, closing, bridgeUp>>

-----------------------------------------------------------------------------
(* Stopping *)

\* async_stop once it has the lock; the last one belongs to async_close.
StopLocked(last) ==
    /\ active' = FALSE
    /\ IF session = "none"
       THEN closing' = (IF last THEN "saving" ELSE closing) /\ UNCHANGED doing
       ELSE doing' = (IF last THEN "ending" ELSE "stopping") /\ UNCHANGED closing

Stop(last) ==
    \/ LockIsFree /\ StopLocked(last) /\ UNCHANGED waiting
    \/ /\ ~LockIsFree
       /\ waiting' = Append(waiting, IF last THEN "end" ELSE "stop")
       /\ UNCHANGED <<active, doing, closing>>

\* The session is stopped, which does not mend one that was broken.
Stopped ==
    /\ doing \in {"undoing", "stopping", "ending"}
    /\ session' \in CASE session = "none" -> {"none"}
                      [] session \in {"broken", "dead"} -> {"idle", "dead"}
                      [] OTHER -> {"idle"}
    /\ restart' = FALSE
    /\ closing' = IF doing = "ending" THEN "saving" ELSE closing
    /\ doing' = "none"
    /\ UNCHANGED <<enabled, active, waiting, bridgeUp>>

\* The session's stop raises: it is streaming for all one knows, and a close ends here.
StopFails ==
    /\ doing \in {"undoing", "stopping", "ending"}
    /\ session' = IF session = "streaming" THEN "broken" ELSE session
    /\ closing' = IF doing = "ending" THEN "failed" ELSE closing
    /\ doing' = "none"
    /\ UNCHANGED <<enabled, active, restart, waiting, bridgeUp>>

\* The rest of async_close, without the lock: the store is written, the session closed.
Saved ==
    /\ closing = "saving"
    /\ \/ closing' = "closed" /\ session' = "none" /\ restart' = FALSE
       \/ closing' = "failed" /\ UNCHANGED <<session, restart>>
    /\ UNCHANGED <<enabled, active, lock, bridgeUp>>

\* The first waiter gets the released lock.
Acquire ==
    /\ doing = "none"
    /\ waiting # <<>>
    /\ waiting' = Tail(waiting)
    /\ \/ Head(waiting) = "start" /\ StartLocked /\ UNCHANGED closing
       \/ Head(waiting) # "start" /\ StopLocked(Head(waiting) = "end") /\ UNCHANGED session
    /\ UNCHANGED <<enabled, restart, bridgeUp>>

-----------------------------------------------------------------------------
(* The switch, frames, the bridge *)

\* Erroneous variant: an output that is not connected is not stopped.
DisableOfConnected ==
    /\ enabled
    /\ enabled' = FALSE
    /\ IF Connected THEN Stop(FALSE) ELSE UNCHANGED <<active, lock, closing>>
    /\ UNCHANGED <<session, restart, bridgeUp>>

Disable ==
    /\ enabled
    /\ enabled' = FALSE
    /\ Stop(FALSE)
    /\ UNCHANGED <<session, restart, bridgeUp>>

Enable ==
    /\ ~enabled
    /\ enabled' = TRUE
    /\ UNCHANGED <<active, session, restart, lock, closing, bridgeUp>>

\* send_frame right after a start was begun: a failing send asks for a new session.  The
\* gate, a pause or the cap on the frame rate may drop the frame.
SendFrame(dropped) ==
    restart' = (restart \/ (~dropped /\ enabled /\ active' /\ session' = "broken"))

\* A frame arrives: a task starts the output if need be, then the frame is sent.
Frame(dropped) ==
    /\ Start
    /\ SendFrame(dropped)
    /\ UNCHANGED <<enabled, closing, bridgeUp>>

BridgeToggles ==
    /\ bridgeUp' = ~bridgeUp
    /\ UNCHANGED <<enabled, active, session, restart, lock, closing>>

\* While the bridge is away the library notices that it does not stream, or does not.
StreamBreaks ==
    /\ ~bridgeUp /\ session = "streaming"
    /\ session' \in {"broken", "dead"}
    /\ UNCHANGED <<enabled, active, restart, lock, closing, bridgeUp>>

\* What the lock's holder awaits returns or raises.
Returns == Closed \/ CloseFails \/ Opened \/ OpenFails \/ Stopped \/ StopFails

-----------------------------------------------------------------------------
(* Properties *)

\* The types; and a start that awaits the session has one.
TypeOK ==
    /\ enabled \in BOOLEAN /\ active \in BOOLEAN /\ restart \in BOOLEAN /\ bridgeUp \in BOOLEAN
    /\ session \in {"none", "fresh", "idle", "streaming", "broken", "dead"}
    /\ doing \in {"none", "closing", "opening", "undoing", "stopping", "ending"}
    /\ waiting \in Seq({"start", "stop", "end"})
    /\ closing \in {"no", "saving", "closed", "failed"}
    /\ doing \in {"closing", "opening"} /\ closing = "no" => session # "none"

StopComing ==
    doing \in {"undoing", "stopping", "ending"} \/ \E i \in DOMAIN waiting : waiting[i] # "start"

\* With the switch off nothing is driven, however the switch, frames and the bridge's
\* answers overlap, unless a stop is on its way.  A stop that raised leaves a broken session.
DisabledIsStopped == ~enabled /\ (active \/ session = "streaming") => StopComing
=============================================================================
