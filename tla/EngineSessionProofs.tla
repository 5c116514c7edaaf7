------------------------ MODULE EngineSessionProofs ------------------------
(***************************************************************************)
(* What TLC checks of EngineSession for two scenes, proved for any set of  *)
(* them: the type invariant, that every release has someone to end it,     *)
(* that a release outranks a pause, that a session is restored once, that  *)
(* its snapshot is kept, and that every step is a step of YieldContract.   *)
(***************************************************************************)
EXTENDS EngineSession, TLAPS

\* A restore under way has ended its session, and keeps the next one out.
RestoringIsInactive == restore # "none" => ~active

\* The inductive invariant.
IInv ==
    /\ TypeOK
    /\ ReleaseHasResolver
    /\ ReleaseOutranksPause
    /\ RestoreOnce
    /\ RestoringIsInactive

\* The initial state satisfies the inductive invariant.
LEMMA InitIInv == Init => IInv
BY SceneAssumption DEF Init, IInv, TypeOK, ReleaseHasResolver, ReleaseOutranksPause,
    RestoreOnce, RestoringIsInactive

\* The variables stay in their types.
LEMMA NextTypeOK == TypeOK /\ [Next]_vars => TypeOK'
<1> SUFFICES ASSUME TypeOK, [Next]_vars PROVE TypeOK'
    OBVIOUS
<1> USE DEF TypeOK, session, request, restoring
<1>1. CASE Snapshot
    <2>1. CASE releasing
        BY <1>1, <2>1 DEF Snapshot, CancelRelease
    <2>2. CASE ~releasing
        BY <1>1, <2>2 DEF Snapshot
    <2> QED BY <2>1, <2>2
<1>2. CASE BeginRestore
    BY <1>2 DEF BeginRestore, CancelRelease
<1>3. CASE ContinueRestore
    BY <1>3 DEF ContinueRestore
<1>4. CASE EndRestore
    BY <1>4 DEF EndRestore
<1>5. CASE Drive
    BY <1>5 DEF Drive
<1>6. CASE FrameArrives
    BY <1>6 DEF FrameArrives
<1>7. CASE SilenceElapses
    BY <1>7 DEF SilenceElapses
<1>8. CASE Pause
    BY <1>8 DEF Pause
<1>9. CASE Resume
    BY <1>9 DEF Resume, CancelPause
<1>10. CASE Release
    BY <1>10 DEF Release, CancelPause
<1>11. CASE PauseElapses
    BY <1>11 DEF PauseElapses
<1>12. CASE OnPauseExpired
    BY <1>12 DEF OnPauseExpired, CancelPause
<1>13. CASE OnReleaseGraceExpired
    BY <1>13 DEF OnReleaseGraceExpired
<1>14. CASE UNCHANGED vars
    BY <1>14 DEF vars
<1> QED BY <1>1, <1>2, <1>3, <1>4, <1>5, <1>6, <1>7, <1>8, <1>9, <1>10, <1>11,
           <1>12, <1>13, <1>14 DEF Next

\* The flags and the two timers agree, whatever the step.
LEMMA NextRequests == IInv /\ [Next]_vars => ReleaseHasResolver' /\ ReleaseOutranksPause'
<1> DEFINE Goal == ReleaseHasResolver /\ ReleaseOutranksPause
<1> SUFFICES ASSUME IInv, [Next]_vars PROVE Goal'
    OBVIOUS
<1> USE DEF IInv, TypeOK, ReleaseHasResolver, ReleaseOutranksPause,
    session, request, restoring
<1>1. CASE Snapshot
    BY <1>1 DEF Snapshot, CancelRelease
<1>2. CASE BeginRestore
    BY <1>2 DEF BeginRestore, CancelRelease
<1>3. CASE ContinueRestore
    BY <1>3 DEF ContinueRestore
<1>4. CASE EndRestore
    BY <1>4 DEF EndRestore
<1>5. CASE Drive
    BY <1>5 DEF Drive
<1>6. CASE FrameArrives
    BY <1>6 DEF FrameArrives
<1>7. CASE SilenceElapses
    BY <1>7 DEF SilenceElapses
<1>8. CASE Pause
    BY <1>8 DEF Pause
<1>9. CASE Resume
    BY <1>9 DEF Resume, CancelPause
<1>10. CASE Release
    BY <1>10 DEF Release, CancelPause
<1>11. CASE PauseElapses
    BY <1>11 DEF PauseElapses
<1>12. CASE OnPauseExpired
    BY <1>12 DEF OnPauseExpired, CancelPause
<1>13. CASE OnReleaseGraceExpired
    BY <1>13 DEF OnReleaseGraceExpired
<1>14. CASE UNCHANGED vars
    BY <1>14 DEF vars
<1> QED BY <1>1, <1>2, <1>3, <1>4, <1>5, <1>6, <1>7, <1>8, <1>9, <1>10, <1>11,
           <1>12, <1>13, <1>14 DEF Next

\* The restore target is used up once, whatever the step.
LEMMA NextRestores == IInv /\ [Next]_vars => RestoreOnce' /\ RestoringIsInactive'
<1> DEFINE Goal == RestoreOnce /\ RestoringIsInactive
<1> SUFFICES ASSUME IInv, [Next]_vars PROVE Goal'
    OBVIOUS
<1> USE DEF IInv, TypeOK, RestoreOnce, RestoringIsInactive, session, request, restoring
<1>1. CASE Snapshot
    BY <1>1 DEF Snapshot
<1>2. CASE BeginRestore
    BY <1>2 DEF BeginRestore
<1>3. CASE ContinueRestore
    BY <1>3 DEF ContinueRestore
<1>4. CASE EndRestore
    BY <1>4 DEF EndRestore
<1>5. CASE Drive
    BY <1>5 DEF Drive
<1>6. CASE FrameArrives
    BY <1>6 DEF FrameArrives
<1>7. CASE SilenceElapses
    BY <1>7 DEF SilenceElapses
<1>8. CASE Pause
    BY <1>8 DEF Pause
<1>9. CASE Resume
    BY <1>9 DEF Resume
<1>10. CASE Release
    BY <1>10 DEF Release
<1>11. CASE PauseElapses
    BY <1>11 DEF PauseElapses
<1>12. CASE OnPauseExpired
    BY <1>12 DEF OnPauseExpired
<1>13. CASE OnReleaseGraceExpired
    BY <1>13 DEF OnReleaseGraceExpired
<1>14. CASE UNCHANGED vars
    BY <1>14 DEF vars
<1> QED BY <1>1, <1>2, <1>3, <1>4, <1>5, <1>6, <1>7, <1>8, <1>9, <1>10, <1>11,
           <1>12, <1>13, <1>14 DEF Next

\* Every step preserves the inductive invariant.
LEMMA NextIInv == IInv /\ [Next]_vars => IInv'
BY NextTypeOK, NextRequests, NextRestores DEF IInv

\* The inductive invariant holds in every reachable state.
THEOREM Invariance == Spec => []IInv
<1>1. Init => IInv
    BY InitIInv
<1>2. IInv /\ [Next]_vars => IInv'
    BY NextIInv
<1> QED BY <1>1, <1>2, PTL DEF Spec

\* The variables of the session keep their types.
THEOREM TypeCorrect == Spec => []TypeOK
<1>1. IInv => TypeOK
    BY DEF IInv
<1> QED BY <1>1, Invariance, PTL

\* No release is left without its timer or its watchdog.
THEOREM ReleaseIsResolved == Spec => []ReleaseHasResolver
<1>1. IInv => ReleaseHasResolver
    BY DEF IInv
<1> QED BY <1>1, Invariance, PTL

\* A release has no pause, and no pause's timer, beside it.
THEOREM ReleaseWins == Spec => []ReleaseOutranksPause
<1>1. IInv => ReleaseOutranksPause
    BY DEF IInv
<1> QED BY <1>1, Invariance, PTL

\* A finished session leaves nothing behind but the one restore under way.
THEOREM OneRestore == Spec => []RestoreOnce
<1>1. IInv => RestoreOnce
    BY DEF IInv
<1> QED BY <1>1, Invariance, PTL

\* Only a release touches the snapshot of a session that goes on.
THEOREM SnapshotSurvives == Spec => SnapshotIsKept
<1> DEFINE Kept == active /\ active' /\ ~releasing =>
                       saved' = saved \/ (saved' = NoScene /\ releasing')
<1>1. IInv /\ [Next]_vars => [Kept]_vars
    <2> SUFFICES ASSUME IInv, Next, active, active', ~releasing
                 PROVE  saved' = saved \/ (saved' = NoScene /\ releasing')
        OBVIOUS
    <2>1. ~Snapshot /\ ~ContinueRestore
        BY DEF Snapshot, ContinueRestore, IInv, RestoringIsInactive
    <2>2. Release => saved' = NoScene /\ releasing'
        BY DEF Release
    <2>3. Next /\ ~Snapshot /\ ~ContinueRestore /\ ~Release => saved' = saved
        BY DEF Next, BeginRestore, EndRestore, Drive, FrameArrives, SilenceElapses,
           Pause, Resume, PauseElapses, OnPauseExpired, OnReleaseGraceExpired, session
    <2> QED BY <2>1, <2>2, <2>3
<1> QED BY <1>1, Invariance, PTL DEF Spec, SnapshotIsKept

\* The engine keeps its contract: it starts as the contract does, and each step is a
\* pause, a release, a start or an end of one, a restore, or is invisible.
THEOREM RefinesContract == Spec => Contract!Init /\ [][Contract!Next]_(Contract!vars)
<1> USE SceneAssumption DEF Contract!vars, IsPaused
<1>1. Init => Contract!Init
    BY DEF Init, Contract!Init
<1>2. IInv /\ [Next]_vars => [Contract!Next]_(Contract!vars)
    <2> SUFFICES ASSUME IInv, [Next]_vars PROVE [Contract!Next]_(Contract!vars)
        OBVIOUS
    <2> USE DEF IInv, TypeOK, session, request, restoring
    <2>1. CASE Snapshot
        <3>1. Contract!SessionStarts
            <4>1. CASE releasing
                BY <2>1, <4>1 DEF Snapshot, CancelRelease, ReleaseOutranksPause,
                    Contract!SessionStarts
            <4>2. CASE ~releasing
                BY <2>1, <4>2 DEF Snapshot, Contract!SessionStarts
            <4> QED BY <4>1, <4>2
        <3> QED BY <3>1 DEF Contract!Next
    <2>2. CASE BeginRestore
        <3>1. Contract!SessionEnds
            BY <2>2 DEF BeginRestore, CancelRelease, ReleaseOutranksPause,
                Contract!SessionEnds
        <3> QED BY <3>1 DEF Contract!Next
    <2>3. CASE ContinueRestore
        <3>1. saved # NoScene => Contract!Restore
            BY <2>3 DEF ContinueRestore, RestoringIsInactive, Contract!Restore
        <3>2. saved = NoScene => UNCHANGED Contract!vars
            BY <2>3 DEF ContinueRestore
        <3> QED BY <3>1, <3>2 DEF Contract!Next
    <2>4. CASE EndRestore
        BY <2>4 DEF EndRestore
    <2>5. CASE Drive
        BY <2>5 DEF Drive
    <2>6. CASE FrameArrives
        BY <2>6 DEF FrameArrives
    <2>7. CASE SilenceElapses
        BY <2>7 DEF SilenceElapses
    <2>8. CASE Pause
        <3>1. Contract!Pause
            BY <2>8 DEF Pause, Contract!Pause
        <3> QED BY <3>1 DEF Contract!Next
    <2>9. CASE Resume
        <3>1. pausedUntil = "future" => Contract!PauseEnds
            BY <2>9 DEF Resume, CancelPause, Contract!PauseEnds
        <3>2. pausedUntil = "past" => UNCHANGED Contract!vars
            BY <2>9 DEF Resume, CancelPause
        <3> QED BY <2>9, <3>1, <3>2 DEF Resume, Contract!Next
    <2>10. CASE Release
        <3>1. Contract!Release
            BY <2>10 DEF Release, CancelPause, Contract!Release
        <3> QED BY <3>1 DEF Contract!Next
    <2>11. CASE PauseElapses
        <3>1. Contract!PauseEnds
            BY <2>11 DEF PauseElapses, ReleaseOutranksPause, Contract!PauseEnds
        <3> QED BY <3>1 DEF Contract!Next
    <2>12. CASE OnPauseExpired
        BY <2>12 DEF OnPauseExpired, CancelPause
    <2>13. CASE OnReleaseGraceExpired
        <3>1. CASE active
            BY <2>13, <3>1 DEF OnReleaseGraceExpired
        <3>2. CASE ~active
            <4>1. Contract!GraceEnds
                BY <2>13, <3>2 DEF OnReleaseGraceExpired, ReleaseHasResolver,
                    ReleaseOutranksPause, Contract!GraceEnds
            <4> QED BY <4>1 DEF Contract!Next
        <3> QED BY <3>1, <3>2
    <2>14. CASE UNCHANGED vars
        BY <2>14 DEF vars
    <2> QED BY <2>1, <2>2, <2>3, <2>4, <2>5, <2>6, <2>7, <2>8, <2>9, <2>10, <2>11,
               <2>12, <2>13, <2>14 DEF Next
<1> QED BY <1>1, <1>2, Invariance, PTL DEF Spec
=============================================================================
