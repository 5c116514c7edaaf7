----------------------------- MODULE SessionProofs -----------------------------
(***************************************************************************)
(* What TLC checks of Session for two requests, proved for any number of   *)
(* them: every step is one of EngineSession's or leaves the engine alone,  *)
(* the controller and the engine agree, a disabled sync is stopped; and,   *)
(* where the API has a server of its own, a session is watched and an      *)
(* unloaded entry drives no lights.                                        *)
(***************************************************************************)
EXTENDS Session, TLAPS

\* EngineSession's inductive invariant, and the lemmas about it.
P == INSTANCE EngineSessionProofs

Calls == {"none", "request", "start", "stop", "disable", "watchdog", "close"}

\* A caller in line has asked for the lock, once, and whoever keeps it across an await
\* is stopping.
LineIsOrdered ==
    /\ \A i \in DOMAIN waiting :
         call[waiting[i]] \notin {"none", "request"} /\ waiting[i] # holder
    /\ \A i, j \in DOMAIN waiting : waiting[i] = waiting[j] => i = j
    /\ holder # NoCaller => call[holder] \notin {"none", "request", "start"}

\* What each caller may be in there for.
CallersHaveRoles ==
    /\ call["watchdog"] \in {"none", "watchdog"}
    /\ call["unload"] \in {"none", "close"}

\* A watchdog in its own teardown keeps the lock.
TeardownHasLock == watchdog = "teardown" => holder = "watchdog" /\ restore # "none"

\* The controller's lock is kept exactly while a restore is under way.
RestoreHasLock == holder # NoCaller <=> restore # "none"

\* The restore that a CancelledError cuts off is the watchdog's own, at its second await,
\* after the watchdog was forgotten.
DoomedIsWatchdog == doomed => restore = "reproducing" /\ holder = "watchdog" /\ watchdog # "teardown"

\* Whoever asked for the lock keeps it or is in line for it.
NoCallIsLost ==
    \A h \in Callers :
        call[h] \notin {"none", "request"} => h = holder \/ \E i \in DOMAIN waiting : waiting[i] = h

\* Nobody is left to start a session.
NobodyStarts == \A h \in Requests : call[h] \notin {"request", "start", "stop"}

\* The controller is closed after the last request, and is not used again.
CloseIsLast ==
    Standalone =>
        /\ call["unload"] = "close" => phase = "detached" /\ NobodyStarts
        /\ phase \in {"saving", "unloaded"} => NobodyStarts /\ ~active

\* The inductive invariant.
IInv ==
    /\ TypeOK
    /\ P!IInv
    /\ SidesAgree
    /\ DisabledIsStopped
    /\ LineIsOrdered
    /\ CallersHaveRoles
    /\ TeardownHasLock
    /\ RestoreHasLock
    /\ DoomedIsWatchdog
    /\ NoCallIsLost
    /\ CloseIsLast
    /\ Standalone => SessionIsWatched

-----------------------------------------------------------------------------
(* The engine's share of a step *)

\* An instance of the engine's module is an instance of its proofs' module.
LEMMA SameSteps == [S!Next]_(S!vars) => [P!Next]_(P!vars)
BY DEF S!Next, S!vars, S!session, S!request, S!restoring, P!Next, P!vars, P!session, P!request,
    P!restoring, S!Snapshot, P!Snapshot, S!BeginRestore, P!BeginRestore, S!ContinueRestore,
    P!ContinueRestore, S!EndRestore, P!EndRestore, S!Drive, P!Drive, S!FrameArrives,
    P!FrameArrives, S!SilenceElapses, P!SilenceElapses, S!Pause, P!Pause, S!Resume, P!Resume,
    S!Release, P!Release, S!PauseElapses, P!PauseElapses, S!OnPauseExpired, P!OnPauseExpired,
    S!OnReleaseGraceExpired, P!OnReleaseGraceExpired, S!CancelPause, P!CancelPause,
    S!CancelRelease, P!CancelRelease

\* What a step of the controller's callers, of its lock, of the services and of the unload
\* does to the engine is a step of EngineSession, or nothing.
LEMMA EngineSteps == [Next]_vars => [S!Next]_(S!vars)
<1> SUFFICES ASSUME [Next]_vars PROVE S!Next \/ UNCHANGED engine
    BY DEF engine, S!vars, S!session, S!request, S!restoring
<1>1. ASSUME NEW h, NEW what, Stop(h, what) PROVE S!Next \/ UNCHANGED engine
    BY <1>1 DEF Stop, StopLocked, S!Next
<1>2. ASSUME NEW h \in Requests,
             RequestArrives(h) \/ RequestFails(h) \/ TvStart(h) \/ TvStop(h) \/ Disable(h)
      PROVE  S!Next \/ UNCHANGED engine
    BY <1>1, <1>2 DEF RequestArrives, RequestFails, TvStart, TvStop, Disable, S!Next
<1>3. ASSUME NEW h \in Callers, Acquire(h) PROVE S!Next \/ UNCHANGED engine
    BY <1>3 DEF Acquire, StartLocked, StopLocked, S!Next
<1>4. CASE Enable \/ WatchdogEnds \/ BeginUnload \/ Detach \/ Unloaded
    BY <1>4 DEF Enable, WatchdogEnds, BeginUnload, Detach, Unloaded
<1>5. CASE WatchdogFires \/ Close
    BY <1>1, <1>5 DEF WatchdogFires, Close
<1>6. CASE ContinueRestore \/ EndRestore \/ AbandonRestore
    BY <1>6 DEF ContinueRestore, EndRestore, AbandonRestore, S!Next
<1>7. CASE ReleaseService \/ PauseService \/ EngineStep
    BY <1>7 DEF ReleaseService, PauseService, EngineStep, S!Next
<1>8. CASE UNCHANGED vars
    BY <1>8 DEF vars
<1> QED BY <1>2, <1>3, <1>4, <1>5, <1>6, <1>7, <1>8 DEF Next

\* EngineSession's invariants survive every step.
LEMMA NextEngine == P!IInv /\ [Next]_vars => P!IInv' /\ S!TypeOK'
<1>1. P!SceneAssumption
    BY SceneAssumption DEF P!SceneAssumption
<1>2. P!IInv /\ [P!Next]_(P!vars) => P!IInv'
    BY <1>1, P!NextIInv
<1>3. P!IInv' => S!TypeOK'
    BY DEF P!IInv, P!TypeOK, S!TypeOK
<1> QED BY <1>2, <1>3, SameSteps, EngineSteps

\* What those steps do to the session and to the restore.
LEMMA EngineEffects ==
    /\ S!Snapshot => active' = TRUE /\ restore = "none" /\ restore' = "none"
    /\ S!BeginRestore => active /\ active' = FALSE /\ restore' = "joining"
    /\ S!ContinueRestore \/ S!EndRestore => UNCHANGED active /\ restore # "none"
    /\ S!Pause \/ S!Resume \/ S!Release => UNCHANGED <<active, restore>>
    /\ S!PauseElapses \/ S!OnPauseExpired \/ S!OnReleaseGraceExpired \/ S!SilenceElapses
          \/ S!Drive \/ S!FrameArrives
         => UNCHANGED <<active, restore>>
    /\ UNCHANGED engine => UNCHANGED <<active, restore>>
BY DEF engine, S!Snapshot, S!BeginRestore, S!ContinueRestore, S!EndRestore, S!Pause, S!Resume,
    S!Release, S!PauseElapses, S!OnPauseExpired, S!OnReleaseGraceExpired, S!SilenceElapses,
    S!Drive, S!FrameArrives, S!session, S!request, S!restoring

-----------------------------------------------------------------------------
(* The lock *)

\* A request begins or ends without the lock.
Passes(h) ==
    /\ call[h] \in {"none", "request"}
    /\ \E what \in {"none", "request"} : call' = [call EXCEPT ![h] = what]
    /\ UNCHANGED <<holder, waiting>>

\* A caller gets in line.
Queues(h, what) == call[h] \in {"none", "request"} /\ Enqueue(h, what)

\* A caller finds the lock free and keeps it, or is done at once.
Grabs(h, what) ==
    /\ LockIsFree
    /\ \/ holder' = h /\ call' = [call EXCEPT ![h] = what]
       \/ holder' = holder /\ call' = [call EXCEPT ![h] = "none"]
    /\ UNCHANGED waiting

\* The first caller in line does the same.
Advances(h) ==
    /\ holder = NoCaller
    /\ waiting # <<>> /\ Head(waiting) = h /\ waiting' = Tail(waiting)
    /\ \/ call[h] # "start" /\ holder' = h /\ call' = [call EXCEPT ![h] = call[h]]
       \/ holder' = holder /\ call' = [call EXCEPT ![h] = "none"]

Leaves == holder' = NoCaller /\ call' = [call EXCEPT ![holder] = "none"] /\ UNCHANGED waiting

\* Every step does one of these to the lock, or leaves it alone.
LEMMA LockSteps ==
    [Next]_vars =>
        \/ UNCHANGED lock
        \/ \E h \in Requests : Passes(h)
        \/ \E h \in Requests, what \in {"start", "stop", "disable"} : Queues(h, what)
        \/ \E h \in Requests, what \in {"stop", "disable"} : Grabs(h, what)
        \/ Queues("unload", "close") \/ Grabs("unload", "close")
        \/ Grabs("watchdog", "watchdog")
        \/ \E h \in Callers : Advances(h)
        \/ Leaves
<1> DEFINE Goal ==
        \/ UNCHANGED lock
        \/ \E h \in Requests : Passes(h)
        \/ \E h \in Requests, what \in {"start", "stop", "disable"} : Queues(h, what)
        \/ \E h \in Requests, what \in {"stop", "disable"} : Grabs(h, what)
        \/ Queues("unload", "close") \/ Grabs("unload", "close")
        \/ Grabs("watchdog", "watchdog")
        \/ \E h \in Callers : Advances(h)
        \/ Leaves
<1> SUFFICES ASSUME [Next]_vars PROVE Goal
    OBVIOUS
<1>1. ASSUME NEW h, NEW what, call[h] \in {"none", "request"}, Stop(h, what)
      PROVE  Queues(h, what) \/ Grabs(h, what)
    BY <1>1 DEF Stop, StopLocked, Queues, Grabs
<1>2. ASSUME NEW h \in Requests, RequestArrives(h) \/ RequestFails(h) PROVE Passes(h)
    BY <1>2 DEF RequestArrives, RequestFails, Return, Idle, Passes
<1>3. ASSUME NEW h \in Requests, TvStart(h) PROVE Passes(h) \/ Queues(h, "start")
    BY <1>3 DEF TvStart, Return, Passes, Queues
<1>4. ASSUME NEW h \in Requests, TvStop(h) PROVE Queues(h, "stop") \/ Grabs(h, "stop")
    BY <1>1, <1>4 DEF TvStop
<1>5. ASSUME NEW h \in Requests, Disable(h) PROVE Queues(h, "disable") \/ Grabs(h, "disable")
    BY <1>1, <1>5 DEF Disable, Idle
<1>6. ASSUME NEW h \in Callers, Acquire(h) PROVE Advances(h)
    BY <1>6 DEF Acquire, StopLocked, Advances
<1>7. CASE WatchdogFires
    BY <1>7 DEF WatchdogFires, Stop, StopLocked, Grabs
<1>8. CASE Close
    BY <1>1, <1>8 DEF Close, Idle
<1>9. CASE ContinueRestore \/ EndRestore \/ AbandonRestore
    BY <1>9 DEF ContinueRestore, EndRestore, AbandonRestore, LeaveLock, Leaves, lock
<1>10. CASE Enable \/ WatchdogEnds \/ ReleaseService \/ PauseService \/ BeginUnload
            \/ Detach \/ Unloaded \/ EngineStep \/ UNCHANGED vars
    BY <1>10 DEF Enable, WatchdogEnds, ReleaseService, PauseService, BeginUnload, Detach,
        Unloaded, EngineStep, vars, lock
<1> QED BY <1>2, <1>3, <1>4, <1>5, <1>6, <1>7, <1>8, <1>9, <1>10 DEF Next

\* The lock's variables have their types.
LockOK ==
    /\ holder \in Callers \cup {NoCaller}
    /\ waiting \in Seq(Callers)
    /\ call \in [Callers -> Calls]

\* Setting what one caller is in there for leaves the others alone.
LEMMA CallOfOne ==
    ASSUME LockOK, NEW h, NEW what \in Calls, call' = [call EXCEPT ![h] = what]
    PROVE  /\ call' \in [Callers -> Calls]
           /\ h \in Callers => call'[h] = what
           /\ \A g \in Callers : g # h => call'[g] = call[g]
BY DEF LockOK

\* What the callers ask for is one of the calls.
LEMMA NamesOfCalls ==
    /\ {"none", "request", "start", "stop", "disable", "watchdog", "close"} = Calls
    /\ Requests \subseteq Callers /\ "watchdog" \in Callers /\ "unload" \in Callers
    /\ NoCaller \notin Callers
BY CallerAssumption DEF Calls, Callers

\* A caller that gets in line, from outside of it, comes to its end.
LEMMA QueuesInOrder ==
    ASSUME LockOK, LineIsOrdered, NEW h \in Callers, NEW what \in Calls \ {"none", "request"},
           Queues(h, what)
    PROVE  LockOK' /\ LineIsOrdered'
<1> USE DEF LockOK, Queues, Enqueue
<1>1. /\ call' \in [Callers -> Calls] /\ call'[h] = what
      /\ \A g \in Callers : g # h => call'[g] = call[g]
    BY CallOfOne
<1>2. h # holder
    BY NamesOfCalls DEF LineIsOrdered
<1>3. waiting' \in Seq(Callers) /\ DOMAIN waiting' = 1 .. Len(waiting) + 1
    OBVIOUS
<1>4. \A i \in DOMAIN waiting : waiting'[i] = waiting[i] /\ waiting[i] \in Callers
                                   /\ waiting[i] # h
    BY DEF LineIsOrdered
<1>5. waiting'[Len(waiting) + 1] = h
    OBVIOUS
<1>6. \A i \in DOMAIN waiting' : i \in DOMAIN waiting \/ i = Len(waiting) + 1
    BY <1>3
<1>7. LineIsOrdered'
    BY <1>1, <1>2, <1>4, <1>5, <1>6 DEF LineIsOrdered
<1> QED BY <1>1, <1>3, <1>7

\* The first in line leaves it, whatever becomes of the lock.
LEMMA AdvancesInOrder ==
    ASSUME LockOK, LineIsOrdered, NEW h \in Callers, Advances(h)
    PROVE  LockOK' /\ LineIsOrdered'
<1> USE DEF LockOK, Advances
<1>1. waiting' \in Seq(Callers) /\ DOMAIN waiting' = 1 .. Len(waiting) - 1
    OBVIOUS
<1>2. \A i \in DOMAIN waiting' :
        /\ i + 1 \in DOMAIN waiting /\ waiting'[i] = waiting[i + 1]
        /\ waiting[i + 1] \in Callers
    OBVIOUS
<1>3. 1 \in DOMAIN waiting /\ waiting[1] = h
    OBVIOUS
<1>4. \A i \in DOMAIN waiting' : waiting'[i] # h
    BY <1>1, <1>2, <1>3 DEF LineIsOrdered
<1>5. \A i, j \in DOMAIN waiting' : waiting'[i] = waiting'[j] => i = j
    BY <1>1, <1>2 DEF LineIsOrdered
<1>6. call[h] \in Calls \ {"none", "request"}
    BY <1>3 DEF LineIsOrdered
<1>7. /\ call' \in [Callers -> Calls]
      /\ \A g \in Callers : g # h => call'[g] = call[g]
      /\ holder' = h => call'[h] \in Calls \ {"none", "request", "start"}
    BY <1>6, NamesOfCalls, CallOfOne
<1>8. holder' \in {h, NoCaller}
    OBVIOUS
<1>9. \A i \in DOMAIN waiting' :
        call'[waiting'[i]] \notin {"none", "request"} /\ waiting'[i] # holder'
    BY <1>2, <1>4, <1>7, <1>8, NamesOfCalls DEF LineIsOrdered
<1> QED BY <1>1, <1>5, <1>7, <1>8, <1>9 DEF LineIsOrdered

\* The other steps leave the line as it is, and its callers in it.
LEMMA LineStays ==
    ASSUME LockOK, LineIsOrdered, UNCHANGED waiting, holder' \in Callers \cup {NoCaller},
           call' \in [Callers -> Calls],
           \A i \in DOMAIN waiting : waiting[i] # holder' /\ call'[waiting[i]] = call[waiting[i]],
           holder' # NoCaller => call'[holder'] \notin {"none", "request", "start"}
    PROVE  LockOK' /\ LineIsOrdered'
BY DEF LockOK, LineIsOrdered

\* The line is kept in order, whatever the step.
LEMMA NextLine == LockOK /\ LineIsOrdered /\ [Next]_vars => LockOK' /\ LineIsOrdered'
<1> SUFFICES ASSUME LockOK, LineIsOrdered, [Next]_vars PROVE LockOK' /\ LineIsOrdered'
    OBVIOUS
<1>1. \A i \in DOMAIN waiting : waiting[i] \in Callers
    BY DEF LockOK
<1>2. CASE UNCHANGED lock
    BY <1>2 DEF lock, LockOK, LineIsOrdered
<1>3. ASSUME NEW h \in Requests, Passes(h) PROVE LockOK' /\ LineIsOrdered'
    <2>1. \A i \in DOMAIN waiting : waiting[i] # h
        BY <1>3 DEF Passes, LineIsOrdered
    <2>2. holder # h \/ holder = NoCaller
        BY <1>3 DEF Passes, LineIsOrdered
    <2>3. /\ call' \in [Callers -> Calls]
          /\ \A g \in Callers : g # h => call'[g] = call[g]
        BY <1>3, CallOfOne, NamesOfCalls DEF Passes
    <2>4. UNCHANGED <<holder, waiting>>
        BY <1>3 DEF Passes
    <2> QED BY <1>1, <2>1, <2>2, <2>3, <2>4, NamesOfCalls, LineStays DEF LockOK, LineIsOrdered
<1>4. ASSUME NEW h \in Callers, NEW what \in {"start", "stop", "disable", "close"},
             Queues(h, what)
      PROVE  LockOK' /\ LineIsOrdered'
    BY <1>4, NamesOfCalls, QueuesInOrder
<1>5. ASSUME NEW h \in Callers, NEW what \in {"stop", "disable", "close", "watchdog"},
             Grabs(h, what)
      PROVE  LockOK' /\ LineIsOrdered'
    <2>1. waiting = <<>> /\ holder = NoCaller
        BY <1>5 DEF Grabs, LockIsFree
    <2>2. call' \in [Callers -> Calls] /\ (holder' = h => call'[h] = what \/ holder' = NoCaller)
        BY <1>5, <2>1, CallOfOne, NamesOfCalls DEF Grabs
    <2>3. holder' \in {h, NoCaller} /\ UNCHANGED waiting
        BY <1>5, <2>1 DEF Grabs
    <2> QED BY <2>1, <2>2, <2>3, LineStays
<1>6. ASSUME NEW h \in Callers, Advances(h) PROVE LockOK' /\ LineIsOrdered'
    BY <1>6, AdvancesInOrder
<1>7. CASE Leaves
    <2>1. /\ call' \in [Callers -> Calls]
          /\ \A g \in Callers : g # holder => call'[g] = call[g]
        BY <1>7, CallOfOne, NamesOfCalls DEF Leaves
    <2>2. holder' = NoCaller /\ UNCHANGED waiting
        BY <1>7 DEF Leaves
    <2> QED BY <1>1, <2>1, <2>2, NamesOfCalls, LineStays DEF LineIsOrdered
<1> QED BY <1>2, <1>3, <1>4, <1>5, <1>6, <1>7, LockSteps, NamesOfCalls

\* No step forgets a caller that asked for the lock.
LEMMA NextHeard == LockOK /\ NoCallIsLost /\ [Next]_vars => NoCallIsLost'
<1> SUFFICES ASSUME LockOK, NoCallIsLost, [Next]_vars PROVE NoCallIsLost'
    OBVIOUS
<1> USE DEF NoCallIsLost
<1>1. CASE UNCHANGED lock
    BY <1>1 DEF lock
<1>2. ASSUME NEW h \in Requests, Passes(h) PROVE NoCallIsLost'
    <2>1. h \in Callers /\ UNCHANGED <<holder, waiting>>
        BY <1>2, NamesOfCalls DEF Passes
    <2>2. /\ call'[h] \in {"none", "request"}
          /\ \A g \in Callers : g # h => call'[g] = call[g]
        BY <1>2, <2>1, CallOfOne, NamesOfCalls DEF Passes
    <2> QED BY <2>1, <2>2
<1>3. ASSUME NEW h \in Callers, NEW what \in Calls, Queues(h, what) PROVE NoCallIsLost'
    <2>1. holder' = holder /\ \A g \in Callers : g # h => call'[g] = call[g]
        BY <1>3, CallOfOne DEF Queues, Enqueue
    <2>2. DOMAIN waiting' = 1 .. Len(waiting) + 1 /\ waiting'[Len(waiting) + 1] = h
        BY <1>3 DEF Queues, Enqueue, LockOK
    <2>3. \A i \in DOMAIN waiting : i \in DOMAIN waiting' /\ waiting'[i] = waiting[i]
        BY <1>3 DEF Queues, Enqueue, LockOK
    <2>4. Len(waiting) + 1 \in DOMAIN waiting'
        BY <2>2 DEF LockOK
    <2> QED BY <2>1, <2>2, <2>3, <2>4
<1>4. ASSUME NEW h \in Callers, NEW what \in Calls, Grabs(h, what) PROVE NoCallIsLost'
    <2>1. \A g \in Callers : call[g] \in {"none", "request"}
        BY <1>4, NamesOfCalls DEF Grabs, LockIsFree
    <2>2. \A g \in Callers : g # h => call'[g] = call[g]
        BY <1>4, CallOfOne, NamesOfCalls DEF Grabs
    <2>3. holder' = h \/ call'[h] = "none"
        BY <1>4, CallOfOne, NamesOfCalls DEF Grabs
    <2> QED BY <2>1, <2>2, <2>3
<1>5. ASSUME NEW h \in Callers, Advances(h) PROVE NoCallIsLost'
    <2>1. holder' = h \/ call'[h] = "none"
        BY <1>5, CallOfOne, NamesOfCalls DEF Advances
    <2>2. \A g \in Callers : g # h => call'[g] = call[g]
        BY <1>5, CallOfOne, NamesOfCalls DEF Advances, LockOK
    <2>3. \A i \in DOMAIN waiting :
            waiting[i] # h => i - 1 \in DOMAIN waiting' /\ waiting'[i - 1] = waiting[i]
        <3>1. waiting[1] = h /\ DOMAIN waiting' = 1 .. Len(waiting) - 1
            BY <1>5 DEF Advances, LockOK
        <3> QED BY <1>5, <3>1 DEF Advances, LockOK
    <2>4. \A g \in Callers : g # holder
        BY <1>5, NamesOfCalls DEF Advances
    <2> QED BY <2>1, <2>2, <2>3, <2>4
<1>6. CASE Leaves
    <2>1. UNCHANGED waiting /\ \A g \in Callers : g # holder => call'[g] = call[g]
        BY <1>6, CallOfOne, NamesOfCalls DEF Leaves
    <2>2. holder \in Callers => call'[holder] = "none"
        BY <1>6, CallOfOne, NamesOfCalls DEF Leaves
    <2> QED BY <2>1, <2>2
<1> QED BY <1>1, <1>2, <1>3, <1>4, <1>5, <1>6, LockSteps, NamesOfCalls

\* The unload and the watchdog ask for nothing else, and no request does what they do.
LEMMA NextRoles == LockOK /\ LineIsOrdered /\ CallersHaveRoles /\ [Next]_vars => CallersHaveRoles'
<1> SUFFICES ASSUME LockOK, LineIsOrdered, CallersHaveRoles, [Next]_vars PROVE CallersHaveRoles'
    OBVIOUS
<1> USE NamesOfCalls, CallerAssumption DEF CallersHaveRoles
<1>1. CASE UNCHANGED lock
    BY <1>1 DEF lock
<1>2. ASSUME NEW h \in Callers, NEW what \in Calls, call' = [call EXCEPT ![h] = what],
             h \in Requests \/ what = "none" \/ what = call[h]
                \/ <<h, what>> \in {<<"unload", "close">>, <<"watchdog", "watchdog">>}
      PROVE  CallersHaveRoles'
    BY <1>2, CallOfOne
<1>3. ASSUME NEW h \in Requests, Passes(h) PROVE CallersHaveRoles'
    BY <1>2, <1>3 DEF Passes
<1>4. ASSUME NEW h \in Requests, NEW what \in {"start", "stop", "disable"},
             Queues(h, what) \/ Grabs(h, what)
      PROVE  CallersHaveRoles'
    BY <1>2, <1>4 DEF Queues, Enqueue, Grabs
<1>5. CASE Queues("unload", "close") \/ Grabs("unload", "close")
              \/ Grabs("watchdog", "watchdog")
    BY <1>2, <1>5 DEF Queues, Enqueue, Grabs
<1>6. ASSUME NEW h \in Callers, Advances(h) PROVE CallersHaveRoles'
    BY <1>2, <1>6 DEF Advances, LockOK
<1>7. CASE Leaves
    <2>1. CASE holder \in Callers
        BY <1>2, <1>7, <2>1 DEF Leaves
    <2>2. CASE holder \notin Callers
        BY <1>7, <2>2, CallOfOne DEF Leaves, LockOK
    <2> QED BY <2>1, <2>2
<1> QED BY <1>1, <1>3, <1>4, <1>5, <1>6, <1>7, LockSteps

\* The variables stay in their types.
LEMMA NextTypeOK == TypeOK /\ P!IInv /\ LineIsOrdered /\ [Next]_vars => TypeOK'
<1> SUFFICES ASSUME TypeOK, P!IInv, LineIsOrdered, [Next]_vars PROVE TypeOK'
    OBVIOUS
<1>1. S!TypeOK'
    BY NextEngine
<1>2. LockOK'
    BY NextLine DEF TypeOK, LockOK, Calls
<1> DEFINE Flags ==
        /\ enabled \in BOOLEAN /\ driving \in BOOLEAN /\ flag \in BOOLEAN /\ doomed \in BOOLEAN
        /\ watchdog \in {"none", "asleep", "teardown"}
        /\ phase \in {"loaded", "unloading", "detached", "saving", "unloaded"}
<1>3. Flags'
    <2>1. Flags
        BY DEF TypeOK
    <2>2. ASSUME NEW h, NEW what, Stop(h, what)
          PROVE  driving' \in BOOLEAN /\ phase' \in {phase, "saving"}
        BY <2>1, <2>2 DEF Stop, StopLocked
    <2>3. CancelWatchdog => doomed' \in BOOLEAN /\ watchdog' = "none"
        BY <2>1 DEF CancelWatchdog
    <2>4. EnsureWatchdog => watchdog' \in {watchdog, "asleep"}
        BY DEF EnsureWatchdog
    <2>5. LeaveLock => watchdog' \in {watchdog, "none"} /\ phase' \in {phase, "saving"}
                          /\ doomed' = FALSE
        BY DEF LeaveLock
    <2>6. ASSUME NEW h \in Requests, TvStart(h) PROVE Flags'
        BY <2>1, <2>4, <2>6 DEF TvStart
    <2>7. ASSUME NEW h \in Requests, TvStop(h) \/ Disable(h) PROVE Flags'
        BY <2>1, <2>2, <2>3, <2>7 DEF TvStop, Disable
    <2>8. ASSUME NEW h \in Requests, RequestArrives(h) \/ RequestFails(h) PROVE Flags'
        BY <2>1, <2>8 DEF RequestArrives, RequestFails, control, entry
    <2>9. ASSUME NEW h \in Callers, Acquire(h) PROVE Flags'
        <3>1. CASE StartLocked /\ UNCHANGED <<enabled, doomed, phase>>
            BY <2>1, <2>4, <3>1 DEF StartLocked
        <3>2. CASE StopLocked(h, call[h]) /\ UNCHANGED <<enabled, flag, watchdog, doomed>>
            BY <2>1, <3>2 DEF StopLocked
        <3> QED BY <2>9, <3>1, <3>2 DEF Acquire
    <2>10. CASE Enable \/ WatchdogEnds
        BY <2>1, <2>10 DEF Enable, WatchdogEnds, control, entry
    <2>11. CASE WatchdogFires
        BY <2>1, <2>2, <2>11 DEF WatchdogFires
    <2>12. CASE ContinueRestore
        BY <2>1, <2>5, <2>12 DEF ContinueRestore, control
    <2>13. CASE EndRestore \/ AbandonRestore
        BY <2>1, <2>5, <2>13 DEF EndRestore, AbandonRestore, control
    <2>14. CASE ReleaseService \/ PauseService \/ EngineStep
        BY <2>1, <2>14 DEF ReleaseService, PauseService, EngineStep, control, entry
    <2>15. CASE BeginUnload \/ Detach \/ Unloaded
        BY <2>1, <2>3, <2>15 DEF BeginUnload, Detach, Unloaded, control
    <2>16. CASE Close
        BY <2>1, <2>2, <2>16 DEF Close
    <2>17. CASE UNCHANGED vars
        BY <2>1, <2>17 DEF vars, control, entry
    <2> QED BY <2>6, <2>7, <2>8, <2>9, <2>10, <2>11, <2>12, <2>13, <2>14, <2>15, <2>16, <2>17
            DEF Next
<1> QED BY <1>1, <1>2, <1>3 DEF TypeOK, LockOK, Calls

-----------------------------------------------------------------------------
(* The session *)

\* async_stop ends the session at once or gets in line behind whoever has the lock.
LEMMA StopEffects ==
    ASSUME NEW h, NEW what, Stop(h, what)
    PROVE  \/ LockIsFree /\ ~active' /\ ~driving'
           \/ /\ ~LockIsFree
              /\ call' = [call EXCEPT ![h] = what]
              /\ UNCHANGED <<active, driving, restore, holder, phase>>
<1>1. CASE LockIsFree /\ StopLocked(h, what)
    BY <1>1, EngineEffects DEF StopLocked
<1>2. CASE ~LockIsFree /\ Enqueue(h, what) /\ UNCHANGED <<engine, driving, phase>>
    BY <1>2, EngineEffects DEF Enqueue
<1> QED BY <1>1, <1>2 DEF Stop

\* What the steps that are neither a start nor a stop do to the session: nothing.
LEMMA OtherSteps ==
    ASSUME \/ \E h \in Requests : RequestArrives(h) \/ RequestFails(h)
           \/ Enable \/ WatchdogEnds \/ ReleaseService \/ PauseService
           \/ BeginUnload \/ Detach \/ Unloaded \/ EngineStep \/ UNCHANGED vars
    PROVE  UNCHANGED <<active, driving, restore, holder>>
<1>1. ASSUME NEW h \in Requests, RequestArrives(h) \/ RequestFails(h)
      PROVE  UNCHANGED <<active, driving, restore, holder>>
    BY <1>1, EngineEffects DEF RequestArrives, RequestFails, Return, control
<1>2. CASE Enable \/ WatchdogEnds \/ BeginUnload \/ Detach \/ Unloaded
    BY <1>2, EngineEffects DEF Enable, WatchdogEnds, BeginUnload, Detach, Unloaded, control, lock
<1>3. CASE ReleaseService \/ PauseService \/ EngineStep
    BY <1>3, EngineEffects DEF ReleaseService, PauseService, EngineStep, control, lock
<1>4. CASE UNCHANGED vars
    BY <1>4, EngineEffects DEF vars, control, lock
<1> QED BY <1>1, <1>2, <1>3, <1>4

\* The controller and the engine go on agreeing, whatever the step.
LEMMA NextSides == TypeOK /\ SidesAgree /\ [Next]_vars => SidesAgree'
<1> SUFFICES ASSUME TypeOK, SidesAgree, [Next]_vars PROVE SidesAgree'
    OBVIOUS
<1> USE DEF SidesAgree
<1>1. ASSUME NEW h, NEW what, Stop(h, what) PROVE SidesAgree'
    BY <1>1, StopEffects
<1>2. ASSUME NEW h \in Requests, TvStop(h) \/ Disable(h) PROVE SidesAgree'
    BY <1>1, <1>2 DEF TvStop, Disable
<1>3. CASE WatchdogFires \/ Close
    BY <1>1, <1>3 DEF WatchdogFires, Close
<1>4. ASSUME NEW h \in Requests, TvStart(h) PROVE SidesAgree'
    BY <1>4, EngineEffects DEF TvStart
<1>5. ASSUME NEW h \in Callers, Acquire(h) PROVE SidesAgree'
    <2>1. CASE StartLocked
        BY <2>1, EngineEffects DEF StartLocked
    <2>2. CASE StopLocked(h, call[h])
        BY <2>2, EngineEffects DEF StopLocked
    <2> QED BY <1>5, <2>1, <2>2 DEF Acquire
<1>6. CASE ContinueRestore \/ EndRestore \/ AbandonRestore
    BY <1>6, EngineEffects DEF ContinueRestore, EndRestore, AbandonRestore, control
<1> QED BY <1>2, <1>3, <1>4, <1>5, <1>6, OtherSteps DEF Next

\* A stop on its way stays on its way, until there is no session left, with a step that
\* sets what some other caller is in there for.
LEMMA StopStaysComing ==
    ASSUME TypeOK, NEW h, NEW what, call' = [call EXCEPT ![h] = what], UNCHANGED phase,
           StopComing, h \in Callers => call[h] \in {"none", "request", "start"}
    PROVE  StopComing'
BY DEF StopComing, TypeOK

\* A stop that gets in line is on its way.
LEMMA QueuedStopComes ==
    ASSUME TypeOK, NEW h \in Callers, NEW what \in {"stop", "disable", "watchdog", "close"},
           call' = [call EXCEPT ![h] = what]
    PROVE  StopComing'
BY DEF StopComing, TypeOK

\* Apart from starts, and from the end of an unload, a step leaves no session, or a stop
\* on its way, or everything as it was without one.
LEMMA StopSteps ==
    ASSUME TypeOK, P!IInv, [Next]_vars
    PROVE  \/ ~active'
           \/ StopComing'
           \/ ~StopComing /\ UNCHANGED <<active, watchdog>> /\ enabled' \in {enabled, TRUE}
           \/ \E h \in Requests : TvStart(h)
           \/ \E h \in Callers : call[h] = "start" /\ Acquire(h)
           \/ Unloaded
<1> DEFINE Goal ==
           \/ ~active'
           \/ StopComing'
           \/ ~StopComing /\ UNCHANGED <<active, watchdog>> /\ enabled' \in {enabled, TRUE}
           \/ \E h \in Requests : TvStart(h)
           \/ \E h \in Callers : call[h] = "start" /\ Acquire(h)
           \/ Unloaded
<1>1. ASSUME NEW h \in Callers, NEW what \in {"stop", "disable", "watchdog", "close"},
             Stop(h, what)
      PROVE  Goal
    BY <1>1, StopEffects, QueuedStopComes
<1>2. ASSUME NEW h \in Requests, TvStop(h) \/ Disable(h) PROVE Goal
    BY <1>1, <1>2, NamesOfCalls DEF TvStop, Disable
<1>3. CASE WatchdogFires \/ Close
    BY <1>1, <1>3, NamesOfCalls DEF WatchdogFires, Close
<1>4. ASSUME NEW h \in Callers, Acquire(h), call[h] # "start" PROVE Goal
    BY <1>4, EngineEffects DEF Acquire, StopLocked
<1>5. CASE ContinueRestore \/ EndRestore \/ AbandonRestore
    BY <1>5, EngineEffects
        DEF ContinueRestore, EndRestore, AbandonRestore, P!IInv, P!RestoringIsInactive
<1>6. ASSUME NEW h \in Requests, RequestArrives(h) \/ RequestFails(h) PROVE Goal
    <2>1. UNCHANGED phase /\ call[h] \in {"none", "request"}
          /\ \E what \in {"none", "request"} : call' = [call EXCEPT ![h] = what]
        BY <1>6 DEF RequestArrives, RequestFails, Return, Idle, entry
    <2>2. StopComing => StopComing'
        BY <2>1, StopStaysComing
    <2>3. UNCHANGED <<watchdog, enabled>>
        BY <1>6 DEF RequestArrives, RequestFails, control, entry
    <2> QED BY <1>6, <2>2, <2>3, OtherSteps
<1>7. CASE Enable \/ ReleaseService \/ PauseService \/ EngineStep
    <2>1. UNCHANGED <<call, phase, watchdog>> /\ enabled' \in {enabled, TRUE}
        BY <1>7 DEF Enable, ReleaseService, PauseService, EngineStep, control, lock, entry
    <2> QED BY <1>7, <2>1, OtherSteps DEF StopComing
<1>8. CASE WatchdogEnds
    BY <1>8, OtherSteps DEF WatchdogEnds
<1>9. CASE BeginUnload \/ Detach
    BY <1>9 DEF BeginUnload, Detach, StopComing
<1>10. CASE UNCHANGED vars
    <2>1. UNCHANGED <<call, phase, watchdog, enabled>>
        BY <1>10 DEF vars, control, lock, entry
    <2> QED BY <1>10, <2>1, OtherSteps DEF StopComing
<1> QED BY <1>2, <1>3, <1>4, <1>5, <1>6, <1>7, <1>8, <1>9, <1>10 DEF Next

\* A start leaves a stop on its way, and everything else too if sync is disabled or it
\* has to get in line; otherwise the session has a sleeping watchdog.
LEMMA StartSteps ==
    ASSUME TypeOK, P!IInv, TeardownHasLock,
           \/ \E h \in Requests : TvStart(h)
           \/ \E h \in Callers : call[h] = "start" /\ Acquire(h)
    PROVE  /\ StopComing => StopComing'
           /\ UNCHANGED enabled
           /\ \/ UNCHANGED <<active, watchdog>>
              \/ enabled /\ watchdog' = "asleep"
<1>1. /\ watchdog \in {"none", "asleep", "teardown"}
      /\ holder = NoCaller \/ active => watchdog # "teardown"
    BY NamesOfCalls DEF TypeOK, TeardownHasLock, P!IInv, P!RestoringIsInactive
<1>2. EnsureWatchdog /\ watchdog # "teardown" => watchdog' = "asleep"
    BY <1>1 DEF EnsureWatchdog
<1>3. ASSUME NEW h \in Requests, TvStart(h)
      PROVE  /\ StopComing => StopComing'
             /\ UNCHANGED enabled
             /\ UNCHANGED <<active, watchdog>> \/ (enabled /\ watchdog' = "asleep")
    <2>1. /\ call[h] = "request" /\ UNCHANGED <<enabled, phase>>
          /\ \E what \in {"none", "start"} : call' = [call EXCEPT ![h] = what]
        BY <1>3 DEF TvStart, Return, Enqueue
    <2>2. StopComing => StopComing'
        BY <2>1, StopStaysComing
    <2>3. \/ UNCHANGED <<engine, watchdog>>
          \/ enabled /\ EnsureWatchdog /\ (holder = NoCaller \/ active)
        BY <1>3 DEF TvStart, Connected, LockIsFree
    <2> QED BY <1>1, <1>2, <2>1, <2>2, <2>3, EngineEffects
<1>4. ASSUME NEW h \in Callers, call[h] = "start", Acquire(h)
      PROVE  /\ StopComing => StopComing'
             /\ UNCHANGED enabled
             /\ UNCHANGED <<active, watchdog>> \/ (enabled /\ watchdog' = "asleep")
    <2>1. UNCHANGED <<enabled, phase>> /\ call' = [call EXCEPT ![h] = "none"]
        BY <1>4 DEF Acquire
    <2>2. StopComing => StopComing'
        BY <1>4, <2>1, StopStaysComing
    <2>3. UNCHANGED <<engine, watchdog>> \/ (enabled /\ EnsureWatchdog /\ holder = NoCaller)
        BY <1>4 DEF Acquire, StartLocked
    <2> QED BY <1>1, <1>2, <2>1, <2>2, <2>3, EngineEffects
<1> QED BY <1>3, <1>4

\* A session that is disabled has its stop on the way, whatever the step.
LEMMA NextDisabled ==
    TypeOK /\ P!IInv /\ TeardownHasLock /\ DisabledIsStopped /\ [Next]_vars
        => DisabledIsStopped'
<1> SUFFICES ASSUME TypeOK, P!IInv, TeardownHasLock, DisabledIsStopped, [Next]_vars
             PROVE  DisabledIsStopped'
    OBVIOUS
<1> USE DEF DisabledIsStopped
<1>1. CASE ~active' \/ StopComing'
    BY <1>1
<1>2. CASE ~StopComing /\ UNCHANGED active /\ enabled' \in {enabled, TRUE}
    <2>1. CASE enabled' = enabled
        BY <1>2, <2>1
    <2>2. CASE enabled' = TRUE
        BY <2>2
    <2> QED BY <1>2, <2>1, <2>2
<1>3. CASE \/ \E h \in Requests : TvStart(h)
           \/ \E h \in Callers : call[h] = "start" /\ Acquire(h)
    BY <1>3, StartSteps
<1>4. CASE Unloaded
    BY <1>4, OtherSteps DEF Unloaded, control, lock, StopComing
<1> QED BY <1>1, <1>2, <1>3, <1>4, StopSteps

\* A session is watched, whatever the step, but for one started under a finished unload.
LEMMA NextWatched ==
    ASSUME Standalone, TypeOK, P!IInv, TeardownHasLock, CloseIsLast, SessionIsWatched,
           [Next]_vars
    PROVE  SessionIsWatched'
<1> USE DEF SessionIsWatched
<1>1. CASE ~active' \/ StopComing'
    BY <1>1
<1>2. CASE ~StopComing /\ UNCHANGED <<active, watchdog>>
    BY <1>2
<1>3. CASE \/ \E h \in Requests : TvStart(h)
           \/ \E h \in Callers : call[h] = "start" /\ Acquire(h)
    BY <1>3, StartSteps
<1>4. CASE Unloaded
    BY <1>4, OtherSteps DEF Unloaded, CloseIsLast
<1> QED BY <1>1, <1>2, <1>3, <1>4, StopSteps

\* A watchdog in its teardown keeps the lock, whatever the step.
LEMMA NextTeardown ==
    TypeOK /\ P!IInv /\ TeardownHasLock /\ [Next]_vars => TeardownHasLock'
<1> SUFFICES ASSUME TypeOK, P!IInv, TeardownHasLock, [Next]_vars, watchdog' = "teardown"
             PROVE  holder' = "watchdog" /\ restore' # "none"
    BY DEF TeardownHasLock
<1> DEFINE Goal == holder' = "watchdog" /\ restore' # "none"
<1>1. watchdog = "teardown" => ~LockIsFree /\ holder = "watchdog" /\ restore # "none"
    BY NamesOfCalls DEF TeardownHasLock, LockIsFree
<1>2. watchdog = "teardown" /\ UNCHANGED <<holder, restore>> => Goal
    BY <1>1
<1>3. ASSUME NEW h \in Requests, TvStart(h) PROVE Goal
    <2>1. watchdog = "teardown"
        BY <1>3 DEF TvStart, EnsureWatchdog
    <2>2. UNCHANGED <<engine, holder>>
        BY <1>1, <1>3, <2>1 DEF TvStart, Return, Enqueue
    <2> QED BY <1>2, <2>1, <2>2, EngineEffects
<1>4. ASSUME NEW h \in Requests, TvStop(h) \/ Disable(h) PROVE Goal
    BY <1>4 DEF TvStop, Disable, CancelWatchdog
<1>5. ASSUME NEW h \in Callers, Acquire(h) PROVE Goal
    BY <1>1, <1>5, NamesOfCalls DEF Acquire, StartLocked, EnsureWatchdog
<1>6. CASE WatchdogFires
    BY <1>6, EngineEffects DEF WatchdogFires, Stop, StopLocked
<1>7. CASE Close
    BY <1>1, <1>2, <1>7, StopEffects DEF Close
<1>8. CASE ContinueRestore
    <2>1. CASE restore' = "none"
        BY <1>1, <1>8, <2>1 DEF ContinueRestore, LeaveLock
    <2>2. CASE restore' # "none"
        BY <1>1, <1>8, <2>2 DEF ContinueRestore
    <2> QED BY <2>1, <2>2
<1>9. CASE EndRestore \/ AbandonRestore
    BY <1>1, <1>9 DEF EndRestore, AbandonRestore, LeaveLock
<1>10. CASE BeginUnload \/ Unloaded \/ WatchdogEnds
    BY <1>10 DEF BeginUnload, Unloaded, WatchdogEnds, CancelWatchdog
<1>11. CASE \/ \E h \in Requests : RequestArrives(h) \/ RequestFails(h)
            \/ Enable \/ ReleaseService \/ PauseService \/ Detach \/ EngineStep \/ UNCHANGED vars
    <2>1. UNCHANGED watchdog
        BY <1>11 DEF RequestArrives, RequestFails, Enable, ReleaseService, PauseService,
            Detach, EngineStep, vars, entry
    <2> QED BY <1>2, <1>11, <2>1, OtherSteps
<1> QED BY <1>3, <1>4, <1>5, <1>6, <1>7, <1>8, <1>9, <1>10, <1>11 DEF Next

\* A restore begins with the lock and ends with it, whatever the step.
LEMMA NextRestore ==
    RestoreHasLock /\ [Next]_vars => RestoreHasLock'
<1> SUFFICES ASSUME RestoreHasLock, [Next]_vars PROVE RestoreHasLock'
    OBVIOUS
<1> USE DEF RestoreHasLock
<1>1. CASE UNCHANGED <<holder, restore>>
    BY <1>1
<1>2. ASSUME NEW h \in Callers, NEW what, StopLocked(h, what) PROVE RestoreHasLock'
    BY <1>1, <1>2, EngineEffects, NamesOfCalls DEF StopLocked
<1>3. ASSUME NEW h \in Callers, NEW what, Stop(h, what) PROVE RestoreHasLock'
    BY <1>1, <1>2, <1>3, EngineEffects DEF Stop, Enqueue
<1>4. ASSUME NEW h \in Requests, RequestArrives(h) \/ RequestFails(h) PROVE RestoreHasLock'
    BY <1>1, <1>4, OtherSteps DEF RequestArrives, RequestFails, Return
<1>5. ASSUME NEW h \in Requests, TvStart(h) PROVE RestoreHasLock'
    <2>1. holder' = holder
        BY <1>5 DEF TvStart, Return, Enqueue
    <2>2. UNCHANGED restore
        BY <1>5, EngineEffects DEF TvStart
    <2> QED BY <1>1, <2>1, <2>2
<1>6. ASSUME NEW h \in Requests, TvStop(h) PROVE RestoreHasLock'
    BY <1>3, <1>6, NamesOfCalls DEF TvStop
<1>7. ASSUME NEW h \in Requests, Disable(h) PROVE RestoreHasLock'
    BY <1>3, <1>7, NamesOfCalls DEF Disable
<1>8. ASSUME NEW h \in Callers, Acquire(h) PROVE RestoreHasLock'
    <2>1. CASE StartLocked /\ holder' = holder
        BY <1>1, <2>1, EngineEffects DEF StartLocked
    <2> QED BY <1>2, <1>8, <2>1 DEF Acquire
<1>9. CASE WatchdogFires \/ Close
    BY <1>3, <1>9, NamesOfCalls DEF WatchdogFires, Close
<1>10. CASE ContinueRestore
    <2>1. holder # NoCaller
        BY <1>10, EngineEffects DEF ContinueRestore
    <2> QED BY <1>10, <2>1 DEF ContinueRestore, LeaveLock
<1>11. CASE EndRestore \/ AbandonRestore
    BY <1>11 DEF EndRestore, AbandonRestore, LeaveLock, S!EndRestore
<1>12. CASE Enable \/ WatchdogEnds \/ ReleaseService \/ PauseService \/ BeginUnload
            \/ Detach \/ Unloaded \/ EngineStep \/ UNCHANGED vars
    <2>1. UNCHANGED holder
        BY <1>12 DEF Enable, WatchdogEnds, ReleaseService, PauseService, BeginUnload, Detach,
            Unloaded, EngineStep, vars, lock
    <2> QED BY <1>1, <1>12, <2>1, OtherSteps
<1> QED BY <1>4, <1>5, <1>6, <1>7, <1>8, <1>9, <1>10, <1>11, <1>12 DEF Next

\* The CancelledError of a cancelled watchdog meets no restore but the watchdog's own,
\* whatever the step: whoever keeps the lock next finds no restore doomed.
LEMMA NextDoomed ==
    ASSUME RestoreHasLock, TeardownHasLock, DoomedIsWatchdog, [Next]_vars
    PROVE  DoomedIsWatchdog'
<1> USE DEF DoomedIsWatchdog
<1>1. doomed \/ watchdog = "teardown" => holder = "watchdog" /\ ~LockIsFree
    BY NamesOfCalls DEF TeardownHasLock, LockIsFree
<1>2. ASSUME UNCHANGED <<holder, restore, doomed>>, watchdog' \in {watchdog, "asleep", "none"}
      PROVE  DoomedIsWatchdog'
    BY <1>2
<1>3. ASSUME UNCHANGED <<holder, restore>>, CancelWatchdog PROVE DoomedIsWatchdog'
    BY <1>1, <1>3 DEF CancelWatchdog
<1>4. ASSUME ~doomed, UNCHANGED doomed PROVE DoomedIsWatchdog'
    BY <1>4
<1>5. ASSUME NEW h, NEW what, doomed \/ watchdog = "teardown", Stop(h, what)
      PROVE  UNCHANGED <<holder, restore>>
    BY <1>1, <1>5, StopEffects
<1>6. ASSUME NEW h \in Requests, TvStart(h) PROVE DoomedIsWatchdog'
    <2>1. doomed' = doomed /\ watchdog' \in {watchdog, "asleep"}
        BY <1>6 DEF TvStart, EnsureWatchdog
    <2>2. doomed => UNCHANGED <<holder, restore>>
        BY <1>1, <1>6, EngineEffects DEF TvStart, Return, Enqueue
    <2> QED BY <1>2, <1>4, <2>1, <2>2
<1>7. ASSUME NEW h \in Requests, TvStop(h) \/ Disable(h) PROVE DoomedIsWatchdog'
    <2>1. CancelWatchdog /\ \E what : Stop(h, what)
        BY <1>7 DEF TvStop, Disable
    <2>2. ~doomed /\ watchdog # "teardown" => ~doomed'
        BY <2>1 DEF CancelWatchdog
    <2> QED BY <1>3, <1>5, <2>1, <2>2
<1>8. ASSUME NEW h \in Callers, Acquire(h) PROVE DoomedIsWatchdog'
    <2>1. ~doomed /\ UNCHANGED doomed
        BY <1>1, <1>8, NamesOfCalls DEF Acquire
    <2> QED BY <1>4, <2>1
<1>9. CASE WatchdogFires
    <2>1. ~doomed /\ UNCHANGED doomed
        BY <1>1, <1>9 DEF WatchdogFires
    <2> QED BY <1>4, <2>1
<1>10. CASE Close
    <2>1. UNCHANGED <<doomed, watchdog>> /\ Stop("unload", "close")
        BY <1>10 DEF Close
    <2> QED BY <1>2, <1>4, <1>5, <2>1
<1>11. CASE ContinueRestore
    <2>1. restore = "joining"
        BY <1>11 DEF ContinueRestore, S!ContinueRestore
    <2>2. ~doomed /\ ~doomed'
        BY <1>11, <2>1 DEF ContinueRestore, LeaveLock
    <2> QED BY <2>2
<1>12. CASE EndRestore \/ AbandonRestore
    BY <1>12 DEF EndRestore, AbandonRestore, LeaveLock
<1>13. CASE BeginUnload \/ Unloaded
    <2>1. CancelWatchdog
        BY <1>13 DEF BeginUnload, Unloaded
    <2> QED BY <1>3, <1>13, <2>1, OtherSteps
<1>14. CASE \/ \E h \in Requests : RequestArrives(h) \/ RequestFails(h)
            \/ Enable \/ WatchdogEnds \/ ReleaseService \/ PauseService \/ Detach \/ EngineStep
            \/ UNCHANGED vars
    <2>1. UNCHANGED doomed /\ watchdog' \in {watchdog, "none"}
        BY <1>14 DEF RequestArrives, RequestFails, Enable, WatchdogEnds, ReleaseService,
            PauseService, Detach, EngineStep, vars, entry
    <2> QED BY <1>2, <1>14, <2>1, OtherSteps
<1> QED BY <1>6, <1>7, <1>8, <1>9, <1>10, <1>11, <1>12, <1>13, <1>14 DEF Next

-----------------------------------------------------------------------------
(* The unload *)

\* Once nobody is left to start a session and the API takes no requests, that stays so.
LEMMA NobodyComesBack ==
    ASSUME TypeOK, NobodyStarts, phase \notin {"loaded", "unloading"}, [Next]_vars
    PROVE  NobodyStarts'
<1> USE DEF NobodyStarts
<1>1. LockOK
    BY DEF TypeOK, LockOK, Calls
<1>2. ASSUME NEW h \in Callers, NEW what \in Calls, call' = [call EXCEPT ![h] = what],
             h \notin Requests \/ what \in {"none", call[h]}
      PROVE  NobodyStarts'
    BY <1>1, <1>2, CallOfOne, NamesOfCalls
<1>3. ASSUME NEW h \in Requests,
             RequestArrives(h) \/ RequestFails(h) \/ TvStart(h) \/ TvStop(h) \/ Disable(h)
      PROVE  FALSE
    BY <1>3 DEF RequestArrives, RequestFails, TvStart, TvStop, Disable
<1>4. ASSUME NEW h \in Callers, Acquire(h) PROVE NobodyStarts'
    <2>1. \E what \in {"none", call[h]} : call' = [call EXCEPT ![h] = what]
        BY <1>4 DEF Acquire, StopLocked
    <2> QED BY <1>1, <1>2, <2>1, NamesOfCalls DEF LockOK
<1>5. ASSUME NEW h \in {"watchdog", "unload"}, NEW what \in {"watchdog", "close"}, Stop(h, what)
      PROVE  NobodyStarts'
    <2>1. \E w \in {"none", what} : call' = [call EXCEPT ![h] = w]
        BY <1>5 DEF Stop, StopLocked, Enqueue
    <2> QED BY <1>2, <1>5, <2>1, NamesOfCalls, CallerAssumption
<1>6. CASE WatchdogFires \/ Close
    BY <1>5, <1>6 DEF WatchdogFires, Close
<1>7. CASE ContinueRestore \/ EndRestore \/ AbandonRestore
    <2>1. UNCHANGED call \/ call' = [call EXCEPT ![holder] = "none"]
        BY <1>7 DEF ContinueRestore, EndRestore, AbandonRestore, LeaveLock
    <2> QED BY <1>1, <2>1, CallOfOne, NamesOfCalls
<1>8. CASE Enable \/ WatchdogEnds \/ ReleaseService \/ PauseService \/ BeginUnload \/ Detach
             \/ Unloaded \/ EngineStep \/ UNCHANGED vars
    <2>1. UNCHANGED call
        BY <1>8 DEF Enable, WatchdogEnds, ReleaseService, PauseService, BeginUnload, Detach,
            Unloaded, EngineStep, vars, lock
    <2> QED BY <2>1
<1> QED BY <1>3, <1>4, <1>6, <1>7, <1>8 DEF Next

\* The controller's close begins when nobody is left to start a session, and the last of
\* its stops ends the session there is.
LEMMA NextClose ==
    ASSUME Standalone, TypeOK, P!IInv, LineIsOrdered, CallersHaveRoles, CloseIsLast, [Next]_vars
    PROVE  CloseIsLast'
<1> DEFINE Closing == call["unload"] = "close"
           Closed == phase \in {"saving", "unloaded"}
           Goal == (Closing => phase = "detached" /\ NobodyStarts)
                   /\ (Closed => NobodyStarts /\ ~active)
<1>1. Goal /\ LockOK
    BY DEF CloseIsLast, TypeOK, LockOK, Calls
<1>2. (Closing \/ Closed) => NobodyStarts'
    BY <1>1, NobodyComesBack
<1>3. SUFFICES Goal'
    BY DEF CloseIsLast
<1>4. ASSUME UNCHANGED <<phase, active>>, UNCHANGED call \/ call'["unload"] = call["unload"]
      PROVE  Goal'
    BY <1>1, <1>2, <1>4
<1>5. ASSUME NEW h \in Callers, NEW what \in Calls, h # "unload",
             call' = [call EXCEPT ![h] = what]
      PROVE  call'["unload"] = call["unload"]
    BY <1>1, <1>5, CallOfOne, NamesOfCalls
<1>6. ASSUME NEW h \in Requests, RequestArrives(h) \/ RequestFails(h) PROVE Goal'
    <2>1. UNCHANGED phase /\ \E what \in {"none", "request"} : call' = [call EXCEPT ![h] = what]
        BY <1>6 DEF RequestArrives, RequestFails, Return, entry
    <2> QED BY <1>4, <1>5, <1>6, <2>1, OtherSteps, NamesOfCalls, CallerAssumption
<1>7. ASSUME NEW h \in Requests, TvStart(h) \/ TvStop(h) \/ Disable(h) PROVE Goal'
    <2>1. h # "unload" /\ h \in Callers
        BY NamesOfCalls, CallerAssumption
    <2>2. ~Closing /\ ~Closed
        BY <1>1, <1>7 DEF TvStart, TvStop, Disable, NobodyStarts
    <2>3. UNCHANGED phase
        BY <1>7, <2>1 DEF TvStart, TvStop, Disable, Stop, StopLocked
    <2>4. \E what \in {"none", "start", "stop", "disable"} : call' = [call EXCEPT ![h] = what]
        BY <1>7 DEF TvStart, TvStop, Disable, Stop, StopLocked, Return, Enqueue
    <2>5. call'["unload"] = call["unload"]
        BY <1>5, <2>1, <2>4, NamesOfCalls
    <2> QED BY <2>2, <2>3, <2>5
<1>8. ASSUME NEW h \in Callers, Acquire(h) PROVE Goal'
    <2>1. call[h] \notin {"none", "request"}
        BY <1>1, <1>8 DEF Acquire, LineIsOrdered, LockOK
    <2>2. CASE h = "unload"
        <3>1. Closing /\ phase = "detached" /\ NobodyStarts'
            BY <1>1, <1>2, <2>1, <2>2 DEF CallersHaveRoles
        <3>2. StopLocked(h, "close")
            BY <1>8, <2>2, <3>1 DEF Acquire
        <3>3. CASE active
            BY <3>1, <3>2, <3>3 DEF StopLocked
        <3>4. CASE ~active
            <4>1. ~active' /\ call' = [call EXCEPT !["unload"] = "none"]
                BY <2>2, <3>2, <3>4, EngineEffects DEF StopLocked
            <4>2. call'["unload"] = "none"
                BY <1>1, <4>1, CallOfOne, NamesOfCalls
            <4> QED BY <3>1, <4>1, <4>2
        <3> QED BY <3>3, <3>4
    <2>3. CASE h # "unload"
        <3>1. UNCHANGED phase /\ \E what \in {"none", call[h]} : call' = [call EXCEPT ![h] = what]
            BY <1>8, <2>3 DEF Acquire, StopLocked
        <3>2. call[h] = "start" => h \in Requests
            BY <2>3 DEF CallersHaveRoles, Callers
        <3>3. Closed => ~active'
            BY <1>1, <1>8, <3>2, EngineEffects DEF Acquire, StopLocked, NobodyStarts
        <3>4. call'["unload"] = call["unload"]
            BY <1>1, <1>5, <2>3, <3>1, NamesOfCalls DEF LockOK
        <3> QED BY <1>1, <1>2, <3>1, <3>3, <3>4
    <2> QED BY <2>2, <2>3
<1>9. CASE WatchdogFires
    <2>1. UNCHANGED phase /\ \E what \in {"none", "watchdog"} : call' = [call EXCEPT !["watchdog"] = what]
        BY <1>9 DEF WatchdogFires, Stop, StopLocked, Enqueue
    <2>2. ~Closed
        BY <1>1, <1>9 DEF WatchdogFires
    <2>3. call'["unload"] = call["unload"]
        BY <1>5, <2>1, NamesOfCalls
    <2> QED BY <1>1, <1>2, <2>1, <2>2, <2>3
<1>10. CASE Close
    <2>1. phase = "detached" /\ ~UnderWay /\ Stop("unload", "close")
        BY <1>10 DEF Close
    <2>2. NobodyStarts
        BY <2>1 DEF UnderWay, NobodyStarts
    <2>3. NobodyStarts'
        BY <2>1, <2>2, NobodyComesBack
    <2>4. CASE LockIsFree /\ StopLocked("unload", "close") /\ ~active
        <3>1. ~active' /\ call' = [call EXCEPT !["unload"] = "none"]
            BY <2>4, EngineEffects DEF StopLocked
        <3>2. call'["unload"] = "none"
            BY <1>1, <3>1, CallOfOne, NamesOfCalls
        <3> QED BY <2>3, <3>1, <3>2
    <2>5. CASE UNCHANGED phase
        BY <2>1, <2>3, <2>5
    <2> QED BY <2>1, <2>4, <2>5 DEF Stop, StopLocked
<1>11. CASE ContinueRestore \/ EndRestore \/ AbandonRestore
    <2>1. ~active' /\ ~active
        BY <1>11, EngineEffects DEF ContinueRestore, EndRestore, AbandonRestore, P!IInv,
            P!RestoringIsInactive
    <2>2. UNCHANGED <<phase, call>> \/ LeaveLock
        BY <1>11 DEF ContinueRestore, EndRestore, AbandonRestore
    <2>3. CASE UNCHANGED <<phase, call>>
        BY <1>1, <1>2, <2>1, <2>3
    <2>4. CASE LeaveLock /\ holder = "unload"
        <3>1. Closing
            BY <2>4, NamesOfCalls DEF LineIsOrdered, CallersHaveRoles
        <3>2. call'["unload"] = "none"
            BY <1>1, <2>4, CallOfOne, NamesOfCalls DEF LeaveLock
        <3> QED BY <1>2, <2>1, <3>1, <3>2
    <2>5. CASE LeaveLock /\ holder # "unload"
        <3>1. UNCHANGED phase /\ call'["unload"] = call["unload"]
            BY <1>1, <2>5, CallOfOne, NamesOfCalls DEF LeaveLock
        <3> QED BY <1>1, <1>2, <2>1, <3>1
    <2> QED BY <2>2, <2>3, <2>4, <2>5
<1>12. CASE Enable \/ WatchdogEnds \/ ReleaseService \/ PauseService \/ EngineStep
              \/ UNCHANGED vars
    <2>1. UNCHANGED <<phase, call>>
        BY <1>12 DEF Enable, WatchdogEnds, ReleaseService, PauseService, EngineStep, vars, lock,
            entry
    <2> QED BY <1>4, <1>12, <2>1, OtherSteps
<1>13. CASE BeginUnload \/ Detach
    <2>1. UNCHANGED call /\ phase \in {"loaded", "unloading"}
          /\ phase' \in {"unloading", "detached"}
        BY <1>13 DEF BeginUnload, Detach, lock
    <2> QED BY <1>1, <2>1
<1>14. CASE Unloaded
    <2>1. UNCHANGED call /\ phase = "saving" /\ ~active'
        BY <1>1, <1>14, OtherSteps DEF Unloaded, lock
    <2> QED BY <1>1, <1>2, <2>1
<1> QED BY <1>6, <1>7, <1>8, <1>9, <1>10, <1>11, <1>12, <1>13, <1>14 DEF Next

-----------------------------------------------------------------------------
(* The theorems *)

\* The initial state satisfies the inductive invariant.
LEMMA InitIInv == Init => IInv
<1> SUFFICES ASSUME Init PROVE IInv
    OBVIOUS
<1>1. P!SceneAssumption
    BY SceneAssumption DEF P!SceneAssumption
<1>2. P!Init
    BY DEF Init, S!Init, P!Init
<1>3. P!IInv
    BY <1>1, <1>2, P!InitIInv
<1>4. S!TypeOK
    BY <1>3 DEF P!IInv, P!TypeOK, S!TypeOK
<1>5. call = [h \in Callers |-> "none"] /\ waiting = <<>> /\ holder = NoCaller
    BY DEF Init
<1>6. waiting \in Seq(Callers)
    BY <1>5
<1>7. TypeOK
    BY <1>4, <1>5, <1>6 DEF Init, TypeOK
<1>8. ~active
    BY DEF Init, S!Init
<1>9. SidesAgree /\ DisabledIsStopped /\ LineIsOrdered /\ TeardownHasLock /\ SessionIsWatched
    BY <1>5, <1>8
        DEF Init, SidesAgree, DisabledIsStopped, LineIsOrdered, TeardownHasLock, SessionIsWatched
<1>10. RestoreHasLock /\ DoomedIsWatchdog /\ NoCallIsLost
    BY <1>5 DEF Init, S!Init, RestoreHasLock, DoomedIsWatchdog, NoCallIsLost
<1>11. CallersHaveRoles /\ CloseIsLast
    BY <1>5, NamesOfCalls DEF Init, CallersHaveRoles, CloseIsLast
<1> QED BY <1>3, <1>7, <1>9, <1>10, <1>11 DEF IInv

\* Every step preserves it.
LEMMA NextIInv == IInv /\ [Next]_vars => IInv'
<1> SUFFICES ASSUME IInv, [Next]_vars PROVE IInv'
    OBVIOUS
<1> USE DEF IInv
<1>1. TypeOK' /\ P!IInv'
    BY NextTypeOK, NextEngine
<1>2. LineIsOrdered' /\ CallersHaveRoles' /\ NoCallIsLost'
    BY NextLine, NextRoles, NextHeard DEF TypeOK, LockOK, Calls
<1>3. SidesAgree' /\ DisabledIsStopped' /\ TeardownHasLock'
    BY NextSides, NextDisabled, NextTeardown
<1>4. RestoreHasLock' /\ DoomedIsWatchdog'
    BY NextRestore, NextDoomed
<1>5. CloseIsLast'
    BY NextClose DEF CloseIsLast
<1>6. Standalone => SessionIsWatched'
    BY NextWatched
<1> QED BY <1>1, <1>2, <1>3, <1>4, <1>5, <1>6

\* Together: the inductive invariant holds in every state.
LEMMA Invariance == Spec => []IInv
BY InitIInv, NextIInv, PTL DEF Spec

\* The variables of the engine, the controller, its lock and the entry have their types.
THEOREM TypeCorrect == Spec => []TypeOK
<1>1. IInv => TypeOK
    BY DEF IInv
<1> QED BY Invariance, <1>1, PTL

\* The controller's flag and the engine's, written by different steps of either, agree
\* whenever another coroutine can look.
THEOREM SidesNeverDisagree == Spec => []SidesAgree
<1>1. IInv => SidesAgree
    BY DEF IInv
<1> QED BY Invariance, <1>1, PTL

\* However starts, stops and the switch overlap, a disabled sync drives no lights, or its
\* stop is on the way: a start that waited for the lock asks for the switch again.
THEOREM DisabledStops == Spec => []DisabledIsStopped
<1>1. IInv => DisabledIsStopped
    BY DEF IInv
<1> QED BY Invariance, <1>1, PTL

\* With an API server of its own, no session is left to itself: watchdogs are created and
\* cancelled outside of the lock, but never for one session by the stop of another.
THEOREM NoSessionUnwatched ==
    ASSUME Standalone
    PROVE  Spec => []SessionIsWatched
<1>1. IInv => SessionIsWatched
    BY DEF IInv
<1> QED BY Invariance, <1>1, PTL

\* With an API server of its own, no session outlives the unload: the server has let its
\* requests finish when the controller is closed.
THEOREM NoSessionUnloaded ==
    ASSUME Standalone
    PROVE  Spec => []UnloadedIsStopped
<1>1. IInv => UnloadedIsStopped
    BY DEF IInv, CloseIsLast, UnloadedIsStopped
<1> QED BY Invariance, <1>1, PTL

\* Nobody who asked for the lock is forgotten, and the lock is kept for a restore only: what
\* EveryCallEnds rests on, besides fairness.
THEOREM CallersAreHeard == Spec => [](RestoreHasLock /\ NoCallIsLost)
<1>1. IInv => RestoreHasLock /\ NoCallIsLost
    BY DEF IInv
<1> QED BY Invariance, <1>1, PTL

\* A teardown for the TV, the switch or the unload always restores the lights to the end:
\* the one that a cancelled watchdog cuts off is its own.
THEOREM OnlyWatchdogIsCutOff == Spec => OthersAreNotCutOff
<1>1. IInv /\ [Next]_vars => [AbandonRestore => holder = "watchdog"]_vars
    BY DEF IInv, DoomedIsWatchdog, AbandonRestore
<1> QED BY Invariance, <1>1, PTL DEF Spec, OthersAreNotCutOff

\* The callers of the controller do to the engine what EngineSession allows, so that what
\* is proved of EngineSession's steps holds of the composed system: the safety part of
\* ImplementsEngineSession.
THEOREM RefinesEngineSession == Spec => S!Init /\ [][S!Next]_(S!vars)
<1>1. Init => S!Init
    BY DEF Init
<1> QED BY <1>1, EngineSteps, PTL DEF Spec

\* Among it: a release under way in the composed system has someone to end it, and
\* outranks a pause.
THEOREM ReleaseIsResolved == Spec => [](S!ReleaseHasResolver /\ S!ReleaseOutranksPause)
<1>1. IInv => S!ReleaseHasResolver /\ S!ReleaseOutranksPause
    BY DEF IInv, P!IInv, P!ReleaseHasResolver, P!ReleaseOutranksPause, S!ReleaseHasResolver,
        S!ReleaseOutranksPause
<1> QED BY Invariance, <1>1, PTL
=============================================================================
