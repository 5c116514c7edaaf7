------------------------------- MODULE Session -------------------------------
(***************************************************************************)
(* The life of a session with the Home Assistant light output: the TV's    *)
(* stream requests, the SyncController and its lock, the frame watchdog,   *)
(* the services and the unload of the entry, around EngineSession.         *)
(*                                                                         *)
(* A caller is a coroutine that may enter SyncController: an HTTP request  *)
(* or the light entity's turn_off, the watchdog, the unload.  asyncio.Lock *)
(* is first come first served, and a released lock goes to the first       *)
(* waiter one turn of the loop later.  The only await under the lock is    *)
(* the engine's restore: a start runs in one step once it has the lock.    *)
(***************************************************************************)
EXTENDS Naturals, Sequences

CONSTANTS
    Scenes, NoScene,     \* see EngineSession
    Requests, NoCaller,  \* identities for requests; bounds how many run at once
    Standalone           \* the Hue API has a server of its own, not Home Assistant's

\* There is one watchdog inside async_stop at a time: its successor is created by a
\* start, for which it has to leave.
Callers == Requests \cup {"watchdog", "unload"}

ASSUME SceneAssumption == NoScene \notin Scenes

ASSUME CallerAssumption ==
    /\ "watchdog" \notin Requests /\ "unload" \notin Requests
    /\ NoCaller \notin Callers
    /\ Standalone \in BOOLEAN

VARIABLES
    active, saved, silent,                                  \* EngineSession's
    releasing, forcing, graceTimer, pausedUntil, pauseTimer,
    restore, target, scene,
    enabled,             \* SyncController._enabled
    driving,             \* SyncController._active
    holder,              \* the caller that keeps the lock across an await
    waiting,             \* the callers that wait for the lock, in order
    call,                \* what each caller is in there for
    flag,                \* HueAPIServer._entertainment_active, shown to the TV
    watchdog,            \* the task: "none", "asleep" or in its own "teardown"
    doomed,              \* the restore in progress was cancelled with its watchdog
    phase                \* the entry: "loaded", "unloading", "detached", "saving", "unloaded"

engine == <<active, saved, silent, releasing, forcing, graceTimer,
            pausedUntil, pauseTimer, restore, target, scene>>
control == <<enabled, driving>>
lock == <<holder, waiting, call>>
entry == <<flag, watchdog, doomed, phase>>
vars == <<engine, control, lock, entry>>

S == INSTANCE EngineSession

Init ==
    /\ S!Init
    /\ enabled \in BOOLEAN
    /\ driving = FALSE
    /\ holder = NoCaller
    /\ waiting = <<>>
    /\ call = [h \in Callers |-> "none"]
    /\ flag = FALSE
    /\ watchdog = "none"
    /\ doomed = FALSE
    /\ phase = "loaded"

Idle(h) == call[h] = "none"
LockIsFree == holder = NoCaller /\ waiting = <<>>

\* HomeAssistantLightBackend.connected, of which the controller asks both parts.
Connected == driving /\ active

Enqueue(h, what) ==
    /\ waiting' = Append(waiting, h)
    /\ call' = [call EXCEPT ![h] = what]
    /\ UNCHANGED holder

-----------------------------------------------------------------------------
(* Starting *)

\* A started session has a watchdog: the one there is, or a new one.
EnsureWatchdog == watchdog' = IF watchdog = "none" THEN "asleep" ELSE watchdog

\* async_start once it has the lock, and the rest of _on_entertainment_start.
StartLocked ==
    IF ~enabled
    THEN flag' = FALSE /\ UNCHANGED <<engine, driving, watchdog>>
    ELSE /\ IF Connected THEN UNCHANGED <<engine, driving>> ELSE S!Snapshot /\ driving' = TRUE
         /\ EnsureWatchdog
         /\ UNCHANGED flag

\* A request is dispatched to its handler, which awaits the body.
RequestArrives(h) ==
    /\ phase \in {"loaded", "unloading"}
    /\ Idle(h)
    /\ call' = [call EXCEPT ![h] = "request"]
    /\ UNCHANGED <<engine, control, holder, waiting, entry>>

Return(h) == call' = [call EXCEPT ![h] = "none"] /\ UNCHANGED <<holder, waiting>>

\* The body is no JSON, or never comes: the client or the closing server gives up.
RequestFails(h) ==
    /\ call[h] = "request"
    /\ Return(h)
    /\ UNCHANGED <<engine, control, entry>>

\* The body asks for a stream; the flag is set before anything else happens.
TvStart(h) ==
    /\ call[h] = "request"
    /\ \/ /\ ~enabled                                   \* refused at once
          /\ flag' = FALSE
          /\ Return(h)
          /\ UNCHANGED <<engine, driving, watchdog>>
       \/ /\ enabled /\ Connected                       \* there is a session already
          /\ flag' = TRUE
          /\ EnsureWatchdog
          /\ Return(h)
          /\ UNCHANGED <<engine, driving>>
       \/ /\ enabled /\ ~Connected /\ LockIsFree
          /\ flag' = TRUE
          /\ S!Snapshot /\ driving' = TRUE
          /\ EnsureWatchdog
          /\ Return(h)
       \/ /\ enabled /\ ~Connected /\ ~LockIsFree
          /\ flag' = TRUE
          /\ Enqueue(h, "start")
          /\ UNCHANGED <<engine, driving, watchdog>>
    /\ UNCHANGED <<enabled, doomed, phase>>

-----------------------------------------------------------------------------
(* Stopping *)

\* Erroneous variant: the controller stops, the engine is not told.
StopLockedWithoutEngine(h, what) ==
    /\ driving' = FALSE
    /\ call' = [call EXCEPT ![h] = "none"]
    /\ phase' = IF h = "unload" THEN "saving" ELSE phase
    /\ UNCHANGED <<engine, holder>>

\* async_stop once it has the lock, up to the engine's first await if it has one.
StopLocked(h, what) ==
    /\ driving' = FALSE
    /\ IF active
       THEN /\ S!BeginRestore
            /\ holder' = h
            /\ call' = [call EXCEPT ![h] = what]
            /\ UNCHANGED phase
       ELSE /\ call' = [call EXCEPT ![h] = "none"]
            /\ phase' = IF h = "unload" THEN "saving" ELSE phase
            /\ UNCHANGED <<engine, holder>>

\* async_stop: takes the lock or queues for it.
Stop(h, what) ==
    \/ LockIsFree /\ StopLocked(h, what) /\ UNCHANGED waiting
    \/ ~LockIsFree /\ Enqueue(h, what) /\ UNCHANGED <<engine, driving, phase>>

\* Cancels the watchdog.  Asleep, it is gone.  In a teardown of its own it goes on if it
\* awaits the drain task, because the restore swallows the CancelledError there, and
\* it is cut off if it awaits the restored lights.
CancelWatchdog ==
    /\ watchdog' = "none"
    /\ doomed' = (doomed \/ (watchdog = "teardown" /\ restore = "reproducing"))

\* Erroneous variant: a stop of a stream that is not flagged stops nothing.
TvStopOfFlagged(h) ==
    /\ call[h] = "request"
    /\ flag' = FALSE
    /\ CancelWatchdog
    /\ IF flag THEN Stop(h, "stop") ELSE Return(h) /\ UNCHANGED <<engine, driving, phase>>
    /\ UNCHANGED enabled

\* Erroneous variant: the request leaves its teardown to the task that the watchdog's
\* variable refers to, for the entry to own it.
TvStopInWatchdogTask(h) ==
    /\ call[h] = "request"
    /\ flag' = FALSE
    /\ watchdog' = IF active /\ LockIsFree THEN "teardown" ELSE "none"
    /\ UNCHANGED doomed
    /\ Stop(h, "stop")
    /\ UNCHANGED enabled

\* The body asks to stop the stream.
TvStop(h) ==
    /\ call[h] = "request"
    /\ flag' = FALSE
    /\ CancelWatchdog
    /\ Stop(h, "stop")
    /\ UNCHANGED enabled

\* Erroneous variant: only a stream that is flagged is stopped.
DisableOfFlagged(h) ==
    /\ phase = "loaded"
    /\ Idle(h)
    /\ enabled
    /\ enabled' = FALSE
    /\ flag' = FALSE
    /\ CancelWatchdog
    /\ IF flag THEN Stop(h, "disable") ELSE UNCHANGED <<engine, driving, lock, phase>>

\* The light entity is turned off: the same teardown, by way of _async_disable_sync.
Disable(h) ==
    /\ phase = "loaded"
    /\ Idle(h)
    /\ enabled
    /\ enabled' = FALSE
    /\ flag' = FALSE
    /\ CancelWatchdog
    /\ Stop(h, "disable")

Enable ==
    /\ phase = "loaded"
    /\ ~enabled
    /\ enabled' = TRUE
    /\ UNCHANGED <<engine, driving, lock, entry>>

\* Erroneous variant: the watchdog does not look for the session.
WatchdogEndsEarly ==
    /\ watchdog = "asleep"
    /\ watchdog' = "none"
    /\ UNCHANGED <<engine, control, lock, flag, doomed, phase>>

\* The watchdog wakes and finds the session gone.
WatchdogEnds ==
    /\ watchdog = "asleep"
    /\ ~active
    /\ watchdog' = "none"
    /\ UNCHANGED <<engine, control, lock, flag, doomed, phase>>

\* The watchdog wakes and finds FRAME_TIMEOUT passed.  A lock just released is handed
\* over before any sleep ends, and nobody keeps it while a session is active.
WatchdogFires ==
    /\ watchdog = "asleep"
    /\ active /\ silent
    /\ LockIsFree
    /\ flag' = FALSE
    /\ watchdog' = "teardown"
    /\ Stop("watchdog", "watchdog")
    /\ UNCHANGED <<enabled, doomed>>

-----------------------------------------------------------------------------
(* Under the lock *)

\* The first waiter gets the released lock, and with a start gives it back at once.
Acquire(h) ==
    /\ holder = NoCaller
    /\ waiting # <<>> /\ Head(waiting) = h
    /\ waiting' = Tail(waiting)
    /\ \/ /\ call[h] = "start"
          /\ StartLocked
          /\ call' = [call EXCEPT ![h] = "none"]
          /\ UNCHANGED <<holder, phase>>
       \/ /\ call[h] # "start"
          /\ StopLocked(h, call[h])
          /\ UNCHANGED <<flag, watchdog>>
    /\ UNCHANGED <<enabled, doomed>>

\* Erroneous variant: the lock is not released.
LeaveLockLocked ==
    /\ holder' = holder
    /\ call' = [call EXCEPT ![holder] = "none"]
    /\ phase' = IF holder = "unload" THEN "saving" ELSE phase
    /\ watchdog' = IF holder = "watchdog" THEN "none" ELSE watchdog
    /\ doomed' = FALSE

\* The caller leaves async_stop and releases the lock.
LeaveLock ==
    /\ holder' = NoCaller
    /\ call' = [call EXCEPT ![holder] = "none"]
    /\ phase' = IF holder = "unload" THEN "saving" ELSE phase
    /\ watchdog' = IF holder = "watchdog" THEN "none" ELSE watchdog
    /\ doomed' = FALSE

\* The drain task is done; without a scene to restore that was all.
ContinueRestore ==
    /\ S!ContinueRestore
    /\ IF restore' = "none"
       THEN LeaveLock
       ELSE UNCHANGED <<holder, call, phase, watchdog, doomed>>
    /\ UNCHANGED <<control, waiting, flag>>

EndRestore ==
    /\ ~doomed
    /\ S!EndRestore
    /\ LeaveLock
    /\ UNCHANGED <<control, waiting, flag>>

\* The CancelledError reaches the watchdog: the restore is cut off where it was.
AbandonRestore ==
    /\ doomed
    /\ S!EndRestore
    /\ LeaveLock
    /\ UNCHANGED <<control, waiting, flag>>

-----------------------------------------------------------------------------
(* Services, unload, time *)

\* The release service tells the TV first, then the engine.
ReleaseService ==
    /\ phase = "loaded"
    /\ flag' = FALSE
    /\ S!Release
    /\ UNCHANGED <<control, lock, watchdog, doomed, phase>>

PauseService ==
    /\ phase = "loaded"
    /\ S!Pause \/ S!Resume
    /\ UNCHANGED <<control, lock, entry>>

\* The unload cancels the watchdog and stops the inputs.
BeginUnload ==
    /\ phase = "loaded"
    /\ phase' = "unloading"
    /\ CancelWatchdog
    /\ UNCHANGED <<engine, control, lock, flag>>

\* The API takes no more requests.
Detach ==
    /\ phase = "unloading"
    /\ phase' = "detached"
    /\ UNCHANGED <<engine, control, lock, flag, watchdog, doomed>>

UnderWay == \E h \in Requests : call[h] \in {"request", "start", "stop"}

\* Erroneous variant: the controller is closed over the requests under way.
CloseAtOnce ==
    /\ phase = "detached"
    /\ Idle("unload")
    /\ Stop("unload", "close")
    /\ UNCHANGED <<enabled, flag, watchdog, doomed>>

\* The controller is closed.  A server of its own has let the requests under way
\* finish by then; Home Assistant's was only told to forward no more.
Close ==
    /\ phase = "detached"
    /\ ~Standalone \/ ~UnderWay
    /\ Idle("unload")
    /\ Stop("unload", "close")
    /\ UNCHANGED <<enabled, flag, watchdog, doomed>>

\* The store is written, the entry is unloaded and its background tasks cancelled.
Unloaded ==
    /\ phase = "saving"
    /\ phase' = "unloaded"
    /\ CancelWatchdog
    /\ UNCHANGED <<engine, control, lock, flag>>

\* What happens to the engine by itself: its timers, time, frames, other people.
EngineStep ==
    /\ \/ S!PauseElapses \/ S!OnPauseExpired \/ S!OnReleaseGraceExpired
       \/ S!SilenceElapses \/ S!Drive
       \/ phase \in {"loaded", "unloading"} /\ S!FrameArrives
    /\ UNCHANGED <<control, lock, entry>>

Next ==
    \/ \E h \in Requests :
         RequestArrives(h) \/ RequestFails(h) \/ TvStart(h) \/ TvStop(h) \/ Disable(h)
    \/ \E h \in Callers : Acquire(h)
    \/ Enable \/ WatchdogEnds \/ WatchdogFires
    \/ ContinueRestore \/ EndRestore \/ AbandonRestore
    \/ ReleaseService \/ PauseService
    \/ BeginUnload \/ Detach \/ Close \/ Unloaded
    \/ EngineStep

\* The loop runs what is ready, the awaited calls return, time passes, the watchdog
\* wakes, a server that closes gives up on a request, an unload goes on.  Nothing is
\* assumed of the TV, whose bodies may stay away.
Fairness ==
    /\ WF_vars(\E h \in Callers : Acquire(h))
    /\ WF_vars(WatchdogFires)
    /\ WF_vars(ContinueRestore)
    /\ WF_vars(EndRestore)
    /\ WF_vars(AbandonRestore)
    /\ WF_vars(phase = "detached" /\ \E h \in Requests : RequestFails(h))
    /\ WF_vars(Detach)
    /\ WF_vars(Close)
    /\ WF_vars(EngineStep /\ S!PauseElapses)
    /\ WF_vars(EngineStep /\ S!OnReleaseGraceExpired)
    /\ WF_vars(EngineStep /\ forcing /\ S!SilenceElapses)

Spec == Init /\ [][Next]_vars /\ Fairness

-----------------------------------------------------------------------------
(* Properties *)

\* The type invariant of the controller, its lock and the entry.
TypeOK ==
    /\ S!TypeOK
    /\ enabled \in BOOLEAN
    /\ driving \in BOOLEAN
    /\ holder \in Callers \cup {NoCaller}
    /\ waiting \in Seq(Callers)
    /\ call \in [Callers -> {"none", "request", "start", "stop", "disable", "watchdog", "close"}]
    /\ flag \in BOOLEAN
    /\ watchdog \in {"none", "asleep", "teardown"}
    /\ doomed \in BOOLEAN
    /\ phase \in {"loaded", "unloading", "detached", "saving", "unloaded"}

StopComing ==
    \/ \E h \in Callers : call[h] \in {"stop", "disable", "watchdog", "close"}
    \/ phase \in {"unloading", "detached"}

\* No session is left to itself: each has a watchdog, or a stop that was asked for and
\* is on its way.  Watchdogs are created by starts and cancelled by stops, in orders
\* that the lock does not fix.
SessionIsWatched == active => watchdog = "asleep" \/ StopComing

\* A disabled sync drives no lights: however starts, stops and the switch overlap,
\* a session found active has its stop on the way.
DisabledIsStopped == ~enabled /\ active => StopComing

\* The controller and the engine agree on whether there is a session.
SidesAgree == driving <=> active

\* A teardown for the TV, the switch or the unload restores the lights to the end: the
\* one restore that a cancellation may cut off is the watchdog's own.  What is cancelled
\* is whatever task the watchdog's variable refers to, while others hold the lock.
OthersAreNotCutOff == [][AbandonRestore => holder = "watchdog"]_vars

\* Outside of a teardown the lock is free, and whoever waits for it gets it.
EveryCallEnds == \A h \in Callers : call[h] \notin {"none", "request"} ~> Idle(h)

\* The controller, its lock and the watchdog implement what EngineSession takes for
\* granted: restores one at a time, starts apart from them, a teardown after silence.
ImplementsEngineSession == S!Spec

\* "A new session starting while a release is still pending is the release resolving":
\* a stream the TV is told is active is not one being released.
ReconnectResolvesRelease == flag /\ active => ~releasing

\* A restore that began is finished, or ends by RESTORE_TIMEOUT or an error: the next
\* stop request does not cut it off.
RestoreIsNotCutOff == ~doomed

\* "Stop the inputs first": an unloaded entry drives no lights, for nobody is left to
\* start a session after the controller's last stop.
UnloadedIsStopped == phase = "unloaded" => ~active
=============================================================================
