---------------------------- MODULE EngineSession ----------------------------
(***************************************************************************)
(* The session side of EntertainmentEngine: the snapshot, its restore, and *)
(* the pause / resume / release services with their two timers.  The event *)
(* loop is single-threaded, so a step runs from one await to the next; the *)
(* restore is the one operation here that awaits, and everything else may  *)
(* happen while it does.  The per-light slots and the drain loop are added *)
(* by Engine, the controller and the watchdog by Session.                  *)
(*                                                                         *)
(* Time is abstracted to the comparisons the code makes: whether a pause's *)
(* deadline has passed, whether FRAME_TIMEOUT has passed without a frame.  *)
(***************************************************************************)

CONSTANTS
    Scenes,              \* what the mapped lights, together, can look like
    NoScene              \* the None of _saved_states

ASSUME SceneAssumption == NoScene \notin Scenes

VARIABLES
    active,              \* _active: a session is in progress
    saved,               \* _saved_states: the scene to restore, or NoScene
    silent,              \* no frame was counted for longer than FRAME_TIMEOUT
    releasing,           \* _releasing
    forcing,             \* _release_forcing: the grace period is over
    graceTimer,          \* _release_cancel: the grace timer is armed
    pausedUntil,         \* _paused_until: "none", in the "future" or in the "past"
    pauseTimer,          \* _pause_cancel: the expiry callback is armed
    restore,             \* where async_restore_lights is, or "none"
    target,              \* its local variable saved, or NoScene
    scene                \* external: what the lights look like

request == <<releasing, forcing, graceTimer, pausedUntil, pauseTimer>>
session == <<active, saved, silent>>
restoring == <<restore, target, scene>>
vars == <<session, request, restoring>>

Init ==
    /\ active = FALSE
    /\ saved = NoScene
    /\ silent = FALSE
    /\ releasing = FALSE
    /\ forcing = FALSE
    /\ graceTimer = FALSE
    /\ pausedUntil = "none"
    /\ pauseTimer = FALSE
    /\ restore = "none"
    /\ target = NoScene
    /\ scene \in Scenes

\* Derived from the clock, not from the timer's callback.
IsPaused == pausedUntil = "future"
Suppressed == IsPaused \/ releasing

CancelPause == pausedUntil' = "none" /\ pauseTimer' = FALSE

\* Erroneous variant: the armed expiry callback survives.
CancelReleaseLeavingTimer ==
    releasing' = FALSE /\ forcing' = FALSE /\ graceTimer' = graceTimer

CancelRelease == releasing' = FALSE /\ forcing' = FALSE /\ graceTimer' = FALSE

-----------------------------------------------------------------------------
(* A session starts and ends *)

\* Erroneous variant: a re-toggle in mid-session takes a new snapshot.
SnapshotAlways ==
    /\ restore = "none"
    /\ saved' = scene /\ active' = TRUE /\ silent' = FALSE
    /\ CancelRelease
    /\ UNCHANGED <<pausedUntil, pauseTimer, restoring>>

\* async_snapshot_lights past its early return: a session that was not active, or
\* whose release is resolved by this very start.  The controller's lock keeps it
\* apart from a restore in progress.
Snapshot ==
    /\ restore = "none"
    /\ releasing \/ ~active
    /\ IF releasing THEN CancelRelease ELSE UNCHANGED <<releasing, forcing, graceTimer>>
    /\ saved' = scene
    /\ active' = TRUE
    /\ silent' = FALSE
    /\ UNCHANGED <<pausedUntil, pauseTimer, restoring>>

\* async_restore_lights up to its first await, the drain task it cancelled.
BeginRestore ==
    /\ active
    /\ restore = "none"
    /\ active' = FALSE
    /\ CancelRelease
    /\ restore' = "joining"
    /\ UNCHANGED <<saved, silent, pausedUntil, pauseTimer, target, scene>>

\* ... up to its second await, async_reproduce_state, if there is a scene to restore.
ContinueRestore ==
    /\ restore = "joining"
    /\ target' = saved
    /\ saved' = NoScene
    /\ restore' = IF saved = NoScene THEN "none" ELSE "reproducing"
    /\ UNCHANGED <<active, silent, request, scene>>

\* ... to its end: the scene is back, or RESTORE_TIMEOUT or an error left any scene.
EndRestore ==
    /\ restore = "reproducing"
    /\ scene' \in Scenes
    /\ restore' = "none"
    /\ target' = NoScene
    /\ UNCHANGED <<session, request>>

\* The lights are driven: by the drain loop, by classic commands, by other people.
Drive ==
    /\ scene' \in Scenes
    /\ UNCHANGED <<session, request, restore, target>>

\* A frame arrives.  Once a release forces its end, frames no longer count.
FrameArrives ==
    /\ silent' = (forcing /\ silent)
    /\ UNCHANGED <<active, saved, request, restoring>>

\* FRAME_TIMEOUT passes without a frame that counts.
SilenceElapses ==
    /\ ~silent
    /\ silent' = TRUE
    /\ UNCHANGED <<active, saved, request, restoring>>

-----------------------------------------------------------------------------
(* The services *)

\* Erroneous variant: pause() stores the duration in place of the deadline.
PauseStoringDuration ==
    /\ ~releasing
    /\ pausedUntil' = "duration" /\ pauseTimer' = TRUE
    /\ UNCHANGED <<session, releasing, forcing, graceTimer, restoring>>

\* async_pause: cancels an earlier pause and starts a new one; ignored while releasing.
Pause ==
    /\ ~releasing
    /\ pausedUntil' = "future"
    /\ pauseTimer' = TRUE
    /\ UNCHANGED <<session, releasing, forcing, graceTimer, restoring>>

\* async_resume
Resume ==
    /\ ~releasing
    /\ pausedUntil # "none"
    /\ CancelPause
    /\ UNCHANGED <<session, releasing, forcing, graceTimer, restoring>>

\* Erroneous variant: release() leaves the restore target in place.
ReleaseKeepingTarget ==
    /\ CancelPause /\ releasing' = TRUE /\ forcing' = FALSE /\ graceTimer' = TRUE
    /\ UNCHANGED <<session, restoring>>

\* async_release: supersedes a pause, restarts the grace period of an earlier release.
Release ==
    /\ CancelPause
    /\ saved' = NoScene
    /\ releasing' = TRUE
    /\ forcing' = FALSE
    /\ graceTimer' = TRUE
    /\ UNCHANGED <<active, silent, restoring>>

\* The pause's deadline passes.
PauseElapses ==
    /\ pausedUntil = "future"
    /\ pausedUntil' = "past"
    /\ UNCHANGED <<session, releasing, forcing, graceTimer, pauseTimer, restoring>>

\* _on_pause_expired: the timer's callback, after the deadline.
OnPauseExpired ==
    /\ pauseTimer
    /\ pausedUntil = "past"
    /\ CancelPause
    /\ UNCHANGED <<session, releasing, forcing, graceTimer, restoring>>

\* Erroneous variant: the expiry does not tell a session from classic mode.
OnReleaseGraceExpiredForcing ==
    /\ graceTimer
    /\ graceTimer' = FALSE /\ forcing' = releasing
    /\ UNCHANGED <<session, releasing, pausedUntil, pauseTimer, restoring>>

\* _on_release_grace_expired: forces the end of a session; without one, resolves
\* the release itself.
OnReleaseGraceExpired ==
    /\ graceTimer
    /\ graceTimer' = FALSE
    /\ releasing' = (releasing /\ active)
    /\ forcing' = (releasing /\ active)
    /\ UNCHANGED <<session, pausedUntil, pauseTimer, restoring>>

-----------------------------------------------------------------------------

Next ==
    \/ Snapshot \/ BeginRestore \/ ContinueRestore \/ EndRestore
    \/ Drive \/ FrameArrives \/ SilenceElapses
    \/ Pause \/ Resume \/ Release
    \/ PauseElapses \/ OnPauseExpired \/ OnReleaseGraceExpired

\* What the watchdog does (module Session shows that it does): tear down a silent session.
Teardown == silent /\ BeginRestore

\* Time passes, the loop runs what is due, the awaited calls return, and the
\* watchdog acts.  Nothing is assumed of the TV: only once frames have stopped
\* counting is silence bound to come.  The pause's callback may be lost.
Fairness ==
    /\ WF_vars(PauseElapses)
    /\ WF_vars(OnReleaseGraceExpired)
    /\ WF_vars(forcing /\ SilenceElapses)
    /\ WF_vars(Teardown)
    /\ WF_vars(ContinueRestore)
    /\ WF_vars(EndRestore)

Spec == Init /\ [][Next]_vars /\ Fairness

-----------------------------------------------------------------------------
(* Properties *)

\* The type invariant of the engine's session state.
TypeOK ==
    /\ active \in BOOLEAN
    /\ saved \in Scenes \cup {NoScene}
    /\ silent \in BOOLEAN
    /\ releasing \in BOOLEAN
    /\ forcing \in BOOLEAN
    /\ graceTimer \in BOOLEAN
    /\ pausedUntil \in {"none", "future", "past"}
    /\ pauseTimer \in BOOLEAN
    /\ restore \in {"none", "joining", "reproducing"}
    /\ target \in Scenes \cup {NoScene}
    /\ scene \in Scenes

\* "This integration never leaves you waiting on the TV forever": at every moment
\* of a release someone is going to end it, the armed grace timer or, once it has
\* fired, the watchdog of a session that still exists; and no timer outlives its
\* release to cut a later one short.
ReleaseHasResolver ==
    /\ releasing => graceTimer \/ (forcing /\ active)
    /\ graceTimer => releasing /\ ~forcing
    /\ forcing => releasing

\* "A release() already in progress wins": no pause, and no expiry callback of one,
\* exists under a release, so that none can end it.
ReleaseOutranksPause == releasing => pausedUntil = "none" /\ ~pauseTimer

\* A second stream start in mid-session "must not overwrite the pre-entertainment
\* snapshot with streaming colours": between start and end only a release touches it.
SnapshotIsKept ==
    [][active /\ active' /\ ~releasing => saved' = saved \/ (saved' = NoScene /\ releasing')]_vars

\* What a finished session leaves behind is one restore at most, of the scene it
\* found: nothing is kept for the next session, and a restore under way has one.
RestoreOnce ==
    /\ ~active /\ restore # "joining" => saved = NoScene
    /\ restore = "reproducing" <=> target # NoScene

\* Every release ends, whatever the TV does, unless callers keep releasing anew.
ReleaseEnds == <>[][~Release]_vars => (releasing ~> ~releasing)

\* The engine keeps the contract between pause, resume and release.
Contract == INSTANCE YieldContract WITH
    yield <- IF releasing THEN "released" ELSE IF IsPaused THEN "paused" ELSE "none",
    session <- active,
    restorable <- saved # NoScene
ImplementsContract == Contract!Spec

\* "There is nothing to restore back to": after release() no restore changes the
\* lights the caller has set.
NothingRestoredAfterRelease == [][releasing => ~EndRestore]_vars
=============================================================================
