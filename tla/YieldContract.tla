--------------------------- MODULE YieldContract ---------------------------
(***************************************************************************)
(* What the docstrings of async_pause, async_resume and async_release      *)
(* promise to a caller, without timers, flags or tasks: who yields the     *)
(* lights to whom, and what may end it.  EngineSession implements it.      *)
(***************************************************************************)

VARIABLES
    yield,               \* "none", "paused" or "released"
    session,             \* an entertainment session drives the lights
    restorable           \* a snapshot waits to be restored

vars == <<yield, session, restorable>>

Init == yield = "none" /\ session = FALSE /\ restorable = FALSE

\* A courtesy gap: the session is not touched.  No effect while released.
Pause ==
    /\ yield # "released"
    /\ yield' = "paused"
    /\ UNCHANGED <<session, restorable>>

\* The gap ends, by resume() or by its own deadline.
PauseEnds ==
    /\ yield = "paused"
    /\ yield' = "none"
    /\ UNCHANGED <<session, restorable>>

\* An intent change: wins over a pause and discards what would be restored.
Release ==
    /\ yield' = "released"
    /\ restorable' = FALSE
    /\ UNCHANGED session

\* A session begins, or begins afresh and so resolves a release.
SessionStarts ==
    /\ session => yield = "released"
    /\ session' = TRUE
    /\ restorable' = TRUE
    /\ yield' = IF yield = "released" THEN "none" ELSE yield

\* The session ends, which resolves a release.
SessionEnds ==
    /\ session
    /\ session' = FALSE
    /\ yield' = IF yield = "released" THEN "none" ELSE yield
    /\ UNCHANGED restorable

\* The lights are put back, once.
Restore ==
    /\ restorable
    /\ ~session
    /\ restorable' = FALSE
    /\ UNCHANGED <<yield, session>>

\* Without a session there is nothing to wait for but the grace period.
GraceEnds ==
    /\ yield = "released"
    /\ ~session
    /\ yield' = "none"
    /\ UNCHANGED <<session, restorable>>

Next ==
    \/ Pause \/ PauseEnds \/ Release \/ GraceEnds
    \/ SessionStarts \/ SessionEnds \/ Restore

\* "A pause can never outlive its own deadline."
Spec == Init /\ [][Next]_vars /\ WF_vars(PauseEnds)
=============================================================================
