---------------------------- MODULE EngineProofs ----------------------------
(***************************************************************************)
(* What TLC checks of Engine for two lights and two tasks, proved for any  *)
(* number of lights and tasks, any colours and bodies: the types, that a   *)
(* suppression flushes the slots and silences the drain loop, that an      *)
(* "off" is queued alone, and that the flag, the reference and the drain   *)
(* tasks agree, so that no queued command is stranded.                     *)
(***************************************************************************)
EXTENDS Engine, TLAPS

SessionOK == S!TypeOK

SlotsOK ==
    /\ slot \in [Lights -> Payloads]
    /\ explicit \in [Lights -> BOOLEAN]
    /\ last \in [Lights -> Colours \cup {NoColour}]
    /\ wanted \in [Lights -> Colours \cup {NoColour}]

Jobs ==
    [pc : {"none", "new", "waiting", "sending", "cancelled", "unborn", "done"},
     light : 0 .. NLights, payload : Payloads, idle : {"unset", "since", "over"}]

DrainOK ==
    /\ drainTask \in Tasks \cup {NoTask}
    /\ drainRunning \in BOOLEAN
    /\ task \in [Tasks -> Jobs]

\* A call being awaited has its light.
CallsHaveLights == \A t \in Tasks : task[t].pc = "sending" => task[t].light \in Lights

LightsOK ==
    /\ available \subseteq Lights
    /\ shown \in [Lights -> Colours \cup {NoColour}]

\* A restore under way has ended its session, and keeps the next one out.
RestoringIsInactive == restore # "none" => ~active

Ending(t) == task[t].pc \in {"cancelled", "unborn", "done"}

\* A task that was cancelled and not yet collected is the one a restore waits for.
EndingIsJoined ==
    \A t \in Tasks : Ending(t) => restore = "joining" /\ \A u \in Tasks : Ending(u) => u = t

\* The inductive invariant.
IInv ==
    /\ SessionOK /\ SlotsOK /\ DrainOK /\ CallsHaveLights /\ LightsOK
    /\ SuppressedIsFlushed
    /\ OffStandsAlone
    /\ RestoringIsInactive
    /\ EndingIsJoined
    /\ FlagHasTask
    /\ SessionHasDrain
    /\ NothingStranded

\* The conjuncts on single components are the type invariant of Engine.
LEMMA Types == TypeOK <=> SessionOK /\ SlotsOK /\ DrainOK /\ LightsOK
BY DEF TypeOK, SessionOK, SlotsOK, DrainOK, LightsOK, Jobs

-----------------------------------------------------------------------------
(* The session *)

\* The session's variables stay in their types, and a session and a restore apart.
LEMMA NextSession ==
    SessionOK /\ RestoringIsInactive /\ [Next]_vars => SessionOK' /\ RestoringIsInactive'
<1> DEFINE Goal == SessionOK /\ RestoringIsInactive
<1> SUFFICES ASSUME Goal, [Next]_vars PROVE Goal'
    OBVIOUS
<1> USE DEF SessionOK, RestoringIsInactive, S!TypeOK
<1> USE DEF S!session, S!request, S!restoring
<1>1. CASE Snapshot
    <2> S!Snapshot
        BY <1>1 DEF Snapshot
    <2>1. CASE releasing
        BY <2>1 DEF S!Snapshot, S!CancelRelease
    <2>2. CASE ~releasing
        BY <2>2 DEF S!Snapshot
    <2> QED BY <2>1, <2>2
<1>2. CASE BeginRestore
    BY <1>2 DEF BeginRestore, S!BeginRestore, S!CancelRelease
<1>3. ASSUME NEW t \in Tasks, ContinueRestore(t) PROVE Goal'
    BY <1>3 DEF ContinueRestore, S!ContinueRestore
<1>4. CASE EndRestore
    BY <1>4 DEF EndRestore, S!EndRestore
<1>5. CASE Pause
    BY <1>5 DEF Pause, S!Pause
<1>6. CASE Release
    BY <1>6 DEF Release, S!Release, S!CancelPause
<1>7. CASE SessionStep
    <2>1. CASE S!Resume
        BY <2>1 DEF S!Resume, S!CancelPause
    <2>2. CASE S!PauseElapses
        BY <2>2 DEF S!PauseElapses
    <2>3. CASE S!OnPauseExpired
        BY <2>3 DEF S!OnPauseExpired, S!CancelPause
    <2>4. CASE S!OnReleaseGraceExpired
        BY <2>4 DEF S!OnReleaseGraceExpired
    <2>5. CASE S!SilenceElapses
        BY <2>5 DEF S!SilenceElapses
    <2> QED BY <1>7, <2>1, <2>2, <2>3, <2>4, <2>5 DEF SessionStep
<1>8. ASSUME NEW f \in [Lights -> Colours], Frame(f) PROVE Goal'
    BY <1>8 DEF Frame, S!FrameArrives
<1>9. CASE UNCHANGED session
    BY <1>9 DEF session
<1>10. ASSUME NEW t \in Tasks, DrainStep(t) PROVE UNCHANGED session
    BY <1>10 DEF DrainStep, Start, Wake, Sent, IdleElapses, Unwind, Continue
<1>11. ASSUME NEW l \in Lights, NEW body \in Bodies, LightCommand(l, body)
       PROVE  UNCHANGED session
    BY <1>11 DEF LightCommand
<1>12. ASSUME NEW l \in Lights, Drop(l) \/ Return(l) PROVE UNCHANGED session
    BY <1>12 DEF Drop, Return
<1>13. CASE UNCHANGED vars
    BY <1>9, <1>13 DEF vars
<1> QED BY <1>1, <1>2, <1>3, <1>4, <1>5, <1>6, <1>7, <1>8, <1>9, <1>10, <1>11,
           <1>12, <1>13 DEF Next

-----------------------------------------------------------------------------
(* The slots *)

\* Every step leaves the slots alone, resets them, takes some, or fills them while
\* nothing suppresses it.
LEMMA SlotSteps ==
    ASSUME [Next]_vars
    PROVE  \/ UNCHANGED slots
           \/ ResetMappings /\ UNCHANGED explicit
           \/ UNCHANGED <<last, wanted>> /\ \E ls \in SUBSET Lights : Take(ls)
           \/ \E f \in [Lights -> Colours] : Frame(f) /\ OutputIsOn
           \/ \E l \in Lights, body \in Bodies : LightCommand(l, body)
<1> DEFINE Taken == UNCHANGED <<last, wanted>> /\ \E ls \in SUBSET Lights : Take(ls)
<1>1. CASE Snapshot \/ Pause \/ Release \/ \E t \in Tasks : ContinueRestore(t)
    BY <1>1 DEF Snapshot, Pause, Release, ContinueRestore
<1>2. CASE BeginRestore \/ EndRestore \/ SessionStep
    BY <1>2 DEF BeginRestore, EndRestore, SessionStep
<1>3. ASSUME NEW f \in [Lights -> Colours], Frame(f), ~OutputIsOn PROVE UNCHANGED slots
    BY <1>3 DEF Frame, slots
<1>4. ASSUME NEW t \in Tasks, NEW i, NEW idle, Continue(t, i, idle) PROVE Taken
    <2>1. CASE SendNext(t, i)
        <3> PICK l \in Lights : Take({l} \cup {m \in Dirty : Distance(i, m) < Distance(i, l)})
            BY <2>1 DEF SendNext
        <3> {l} \cup {m \in Dirty : Distance(i, m) < Distance(i, l)} \in SUBSET Lights
            BY DEF Dirty
        <3> QED BY <1>4 DEF Continue
    <2>2. CASE Rest(t, idle)
        <3> Dirty \in SUBSET Lights
            BY DEF Dirty
        <3> QED BY <1>4, <2>2 DEF Rest, Continue
    <2> QED BY <1>4, <2>1, <2>2 DEF Continue
<1>5. ASSUME NEW t \in Tasks, DrainStep(t) PROVE Taken \/ UNCHANGED slots
    BY <1>4, <1>5 DEF DrainStep, Start, Wake, Sent, IdleElapses, Unwind
<1>6. ASSUME NEW l \in Lights, Drop(l) \/ Return(l) PROVE UNCHANGED slots
    BY <1>6 DEF Drop, Return
<1>7. CASE UNCHANGED vars
    BY <1>7 DEF vars
<1> QED BY <1>1, <1>2, <1>3, <1>5, <1>6, <1>7 DEF Next

\* What LightCommand queues is a payload, and an "off" in it stands alone.
LEMMA MergedBody ==
    ASSUME SlotsOK, NEW l \in Lights, NEW body \in Bodies
    PROVE  /\ Merged(l, body) \in Payloads
           /\ "off" \in Merged(l, body) => Merged(l, body) = {"off"}
<1>1. Pending(l) \in Payloads /\ body \in Payloads
    BY DEF SlotsOK, Pending, Clean, Payloads
<1> QED BY <1>1 DEF Merged, Payloads

\* The slots stay in their types.
LEMMA NextSlots == SlotsOK /\ [Next]_vars => SlotsOK'
<1> SUFFICES ASSUME SlotsOK, [Next]_vars PROVE SlotsOK'
    OBVIOUS
<1> USE DEF SlotsOK
<1> Clean \in Payloads
    BY DEF Clean, Payloads
<1>1. CASE UNCHANGED slots
    BY <1>1 DEF slots
<1>2. CASE ResetMappings /\ UNCHANGED explicit
    BY <1>2 DEF ResetMappings, ForgetWanted
<1>3. ASSUME UNCHANGED <<last, wanted>>, NEW ls \in SUBSET Lights, Take(ls) PROVE SlotsOK'
    BY <1>3 DEF Take
<1>4. ASSUME NEW f \in [Lights -> Colours], Frame(f), OutputIsOn PROVE SlotsOK'
    <2>1. \A l \in Lights : Scheduled(f, l) \in Payloads
        BY DEF Scheduled, Payloads
    <2>2. \A l \in Lights : Remembered(f, l) \in Colours \cup {NoColour}
        BY DEF Remembered
    <2>3. f \in [Lights -> Colours \cup {NoColour}]
        OBVIOUS
    <2> QED BY <1>4, <2>1, <2>2, <2>3 DEF Frame
<1>5. ASSUME NEW l \in Lights, NEW body \in Bodies, LightCommand(l, body) PROVE SlotsOK'
    BY <1>5, MergedBody DEF LightCommand
<1> QED BY <1>1, <1>2, <1>3, <1>4, <1>5, SlotSteps

\* No step begins a suppression without flushing the slots.
LEMMA SuppressionSteps ==
    ASSUME [Next]_vars, S!Suppressed'
    PROVE  S!Suppressed \/ ResetMappings
<1> USE DEF S!Suppressed, S!IsPaused, S!session, S!request, S!restoring
<1>1. CASE Snapshot \/ Pause \/ Release \/ \E t \in Tasks : ContinueRestore(t)
    BY <1>1 DEF Snapshot, Pause, Release, ContinueRestore
<1>2. CASE BeginRestore
    BY <1>2 DEF BeginRestore, S!BeginRestore, S!CancelRelease
<1>3. CASE EndRestore
    BY <1>3 DEF EndRestore, S!EndRestore
<1>4. CASE SessionStep
    BY <1>4 DEF SessionStep, S!Resume, S!CancelPause, S!PauseElapses, S!OnPauseExpired,
        S!OnReleaseGraceExpired, S!SilenceElapses
<1>5. ASSUME NEW f \in [Lights -> Colours], Frame(f) PROVE S!Suppressed
    BY <1>5 DEF Frame, S!FrameArrives
<1>6. CASE UNCHANGED session
    BY <1>6 DEF session
<1>7. ASSUME NEW t \in Tasks, DrainStep(t) PROVE UNCHANGED session
    BY <1>7 DEF DrainStep, Start, Wake, Sent, IdleElapses, Unwind, Continue
<1>8. ASSUME NEW l \in Lights, NEW body \in Bodies, LightCommand(l, body)
      PROVE  UNCHANGED session
    BY <1>8 DEF LightCommand
<1>9. ASSUME NEW l \in Lights, Drop(l) \/ Return(l) PROVE UNCHANGED session
    BY <1>9 DEF Drop, Return
<1>10. CASE UNCHANGED vars
    BY <1>6, <1>10 DEF vars
<1> QED BY <1>1, <1>2, <1>3, <1>4, <1>5, <1>6, <1>7, <1>8, <1>9, <1>10 DEF Next

\* A suppression finds the slots flushed, and keeps them so.
LEMMA NextFlushed == SuppressedIsFlushed /\ [Next]_vars => SuppressedIsFlushed'
<1> SUFFICES ASSUME SuppressedIsFlushed, [Next]_vars, S!Suppressed'
             PROVE  \A l \in Lights : slot'[l] = Clean /\ last'[l] = NoColour
    BY DEF SuppressedIsFlushed, Clean
<1>1. CASE ResetMappings
    BY <1>1 DEF ResetMappings
<1>2. CASE S!Suppressed
    <2> USE <1>2 DEF SuppressedIsFlushed
    <2>1. CASE UNCHANGED slots
        BY <2>1 DEF slots
    <2>2. ASSUME UNCHANGED <<last, wanted>>, NEW ls \in SUBSET Lights, Take(ls)
          PROVE  \A l \in Lights : slot'[l] = Clean /\ last'[l] = NoColour
        BY <2>2 DEF Take
    <2>3. ~OutputIsOn
        BY DEF OutputIsOn
    <2>4. \A l \in Lights, body \in Bodies : ~LightCommand(l, body)
        BY DEF LightCommand
    <2> QED BY <1>1, <2>1, <2>2, <2>3, <2>4, SlotSteps
<1> QED BY <1>1, <1>2, SuppressionSteps

\* An "off" is queued alone, and what is taken leaves nothing of it.
LEMMA NextOff == SlotsOK /\ OffStandsAlone /\ [Next]_vars => OffStandsAlone'
<1> SUFFICES ASSUME SlotsOK, OffStandsAlone, [Next]_vars,
                    NEW l \in Lights, "off" \in slot'[l]
             PROVE  slot'[l] = {"off"}
    BY DEF OffStandsAlone
<1> USE DEF OffStandsAlone, Clean
<1>1. CASE UNCHANGED slots
    BY <1>1 DEF slots
<1>2. CASE ResetMappings
    BY <1>2 DEF ResetMappings
<1>3. ASSUME NEW ls \in SUBSET Lights, Take(ls) PROVE slot'[l] = {"off"}
    BY <1>3 DEF Take
<1>4. ASSUME NEW f \in [Lights -> Colours], Frame(f), OutputIsOn PROVE slot'[l] = {"off"}
    <2>1. slot'[l] = Scheduled(f, l)
        BY <1>4 DEF Frame
    <2> QED BY <2>1 DEF Scheduled
<1>5. ASSUME NEW k \in Lights, NEW body \in Bodies, LightCommand(k, body)
      PROVE  slot'[l] = {"off"}
    <2>1. slot'[l] = IF l = k THEN Merged(k, body) ELSE slot[l]
        BY <1>5 DEF LightCommand, SlotsOK
    <2> QED BY <2>1, MergedBody
<1> QED BY <1>1, <1>2, <1>3, <1>4, <1>5, SlotSteps

-----------------------------------------------------------------------------
(* The drain tasks *)

\* EnsureDrainTask leaves a running task be, or makes a new one the drain task.
LEMMA EnsuredTask ==
    ASSUME DrainOK, EnsureDrainTask
    PROVE  /\ DrainOK'
           /\ drainRunning'
           /\ \/ drainRunning /\ UNCHANGED <<drainTask, task>>
              \/ \E t \in Tasks : /\ task[t].pc = "none"
                                  /\ drainTask' = t
                                  /\ task'[t].pc = "new"
                                  /\ \A u \in Tasks : u # t => task'[u] = task[u]
<1>1. CASE drainRunning
    BY <1>1 DEF DrainOK, EnsureDrainTask, drain
<1>2. CASE ~drainRunning
    <2>1. PICK t \in Tasks : /\ task[t].pc = "none"
                             /\ task' = [task EXCEPT ![t].pc = "new"]
                             /\ drainTask' = t
                             /\ drainRunning'
        BY <1>2 DEF EnsureDrainTask
    <2>2. task[t] \in Jobs
        BY DEF DrainOK
    <2>3. [task[t] EXCEPT !.pc = "new"] \in Jobs /\ [task[t] EXCEPT !.pc = "new"].pc = "new"
        BY <2>2 DEF Jobs
    <2>4. task' = [task EXCEPT ![t] = [task[t] EXCEPT !.pc = "new"]]
        BY <2>1
    <2>5. /\ task'[t] = [task[t] EXCEPT !.pc = "new"]
          /\ \A u \in Tasks : u # t => task'[u] = task[u]
          /\ task' \in [Tasks -> Jobs]
        BY <2>3, <2>4 DEF DrainOK
    <2> QED BY <2>1, <2>3, <2>5 DEF DrainOK
<1> QED BY <1>1, <1>2

\* What a step of the loop makes of its task: it sends, waits, or ends while no
\* session is active; and after a wait or an end nothing is queued.
LEMMA ContinuedTask ==
    ASSUME DrainOK, SlotsOK, NEW t \in Tasks, NEW i, NEW idle \in {"unset", "since", "over"},
           Continue(t, i, idle)
    PROVE  /\ DrainOK'
           /\ \A u \in Tasks : u # t => task'[u] = task[u]
           /\ \/ /\ task'[t].pc = "sending" /\ task'[t].light \in Lights
                 /\ Dirty # {}
                 /\ UNCHANGED <<drainTask, drainRunning>>
              \/ task'[t].pc = "waiting" /\ UNCHANGED <<drainTask, drainRunning>>
              \/ /\ task'[t].pc = "none" /\ ~active /\ ~drainRunning'
                 /\ Dirty' = {}
<1> USE DEF DrainOK
<1>1. CASE SendNext(t, i)
    <2>1. PICK l \in Lights :
            /\ l \in Dirty
            /\ task' = [task EXCEPT ![t] =
                 [pc |-> "sending", light |-> l, payload |-> slot[l], idle |-> "unset"]]
        BY <1>1 DEF SendNext, IsNext
    <2>2. [pc |-> "sending", light |-> l, payload |-> slot[l], idle |-> "unset"] \in Jobs
        <3> l \in 0 .. NLights
            BY EngineAssumption DEF Lights
        <3> QED BY DEF Jobs, SlotsOK
    <2> QED BY <1>1, <2>1, <2>2 DEF SendNext
<1>2. CASE Rest(t, idle)
    <2>1. Clean \in Payloads /\ 0 \in 0 .. NLights
        BY EngineAssumption DEF Clean, Payloads
    <2>2. CASE ~active /\ idle = "over"
        <3>1. NoJob \in Jobs /\ NoJob.pc = "none"
            BY <2>1 DEF NoJob, Jobs
        <3>2. Dirty' = {}
            BY <1>2 DEF Rest, Take, Dirty
        <3> QED BY <1>2, <2>2, <3>1, <3>2 DEF Rest, Exit
    <2>3. CASE ~(~active /\ idle = "over")
        <3> DEFINE job == [pc |-> "waiting", light |-> 0, payload |-> Clean,
                           idle |-> IF active \/ idle # "unset" THEN idle ELSE "since"]
        <3>1. job \in Jobs /\ job.pc = "waiting"
            BY <2>1 DEF Jobs
        <3>2. task' = [task EXCEPT ![t] = job] /\ UNCHANGED <<drainTask, drainRunning>>
            BY <1>2, <2>3 DEF Rest
        <3> HIDE DEF job
        <3> QED BY <3>1, <3>2
    <2> QED BY <2>2, <2>3
<1> QED BY <1>1, <1>2 DEF Continue

\* BeginRestore changes the place of the drain task, and of no other.
LEMMA CancelledTask ==
    ASSUME DrainOK, BeginRestore
    PROVE  /\ DrainOK' /\ drainTask \in Tasks
           /\ task'[drainTask].pc \in {"unborn", "cancelled"}
           /\ \A u \in Tasks : u # drainTask => task'[u] = task[u]
<1>1. drainTask \in Tasks /\ task[drainTask] \in Jobs
    BY DEF BeginRestore, DrainOK
<1> DEFINE job == [task[drainTask] EXCEPT !.pc =
                      IF task[drainTask].pc = "new" THEN "unborn" ELSE "cancelled"]
<1>2. job \in Jobs /\ job.pc \in {"unborn", "cancelled"}
    BY <1>1 DEF Jobs
<1>3. task' = [task EXCEPT ![drainTask] = job] /\ UNCHANGED <<drainTask, drainRunning>>
    BY DEF BeginRestore
<1> HIDE DEF job
<1> QED BY <1>1, <1>2, <1>3 DEF DrainOK

\* Unwind ends a cancelled task.
LEMMA UnwoundTask ==
    ASSUME DrainOK, NEW t \in Tasks, Unwind(t)
    PROVE  /\ DrainOK'
           /\ task'[t].pc = "done"
           /\ \A u \in Tasks : u # t => task'[u] = task[u]
<1> DEFINE job == [NoJob EXCEPT !.pc = "done"]
<1>1. job \in Jobs /\ job.pc = "done"
    <2> Clean \in Payloads /\ 0 \in 0 .. NLights
        BY EngineAssumption DEF Clean, Payloads
    <2> QED BY DEF NoJob, Jobs
<1>2. task' = [task EXCEPT ![t] = job] /\ UNCHANGED drainTask /\ drainRunning' \in BOOLEAN
    BY DEF Unwind
<1> HIDE DEF job
<1> QED BY <1>1, <1>2 DEF DrainOK

\* IdleElapses changes nothing but the idle clock of a waiting task.
LEMMA IdleTask ==
    ASSUME DrainOK, NEW t \in Tasks, IdleElapses(t)
    PROVE  /\ DrainOK'
           /\ task'[t].pc = "waiting" /\ UNCHANGED <<drainTask, drainRunning>>
           /\ \A u \in Tasks : u # t => task'[u] = task[u]
<1> DEFINE job == [task[t] EXCEPT !.idle = "over"]
<1>1. job \in Jobs /\ job.pc = "waiting"
    BY DEF IdleElapses, DrainOK, Jobs
<1>2. task' = [task EXCEPT ![t] = job] /\ UNCHANGED <<drainTask, drainRunning>>
    BY DEF IdleElapses
<1> HIDE DEF job
<1> QED BY <1>1, <1>2 DEF DrainOK

\* ContinueRestore collects a task.
LEMMA CollectedTask ==
    ASSUME DrainOK, NEW t \in Tasks, ContinueRestore(t)
    PROVE  /\ DrainOK'
           /\ task'[t].pc = "none"
           /\ \A u \in Tasks : u # t => task'[u] = task[u]
<1>1. NoJob \in Jobs /\ NoJob.pc = "none"
    <2> Clean \in Payloads /\ 0 \in 0 .. NLights
        BY EngineAssumption DEF Clean, Payloads
    <2> QED BY DEF NoJob, Jobs
<1> QED BY <1>1 DEF ContinueRestore, DrainOK

-----------------------------------------------------------------------------
(* The life cycle of the drain tasks *)

\* The steps, by what they do to the session, the restore and the tasks.
LEMMA TaskSteps ==
    ASSUME [Next]_vars
    PROVE  \/ Snapshot \/ BeginRestore \/ EndRestore
           \/ \E t \in Tasks : ContinueRestore(t)
           \/ UNCHANGED <<active, restore, drain>>
           \/ Bodies # {} /\ UNCHANGED <<active, restore>> /\ EnsureDrainTask
           \/ UNCHANGED <<active, restore>> /\ \E t \in Tasks : DrainStep(t)
<1> USE DEF S!session, S!request, S!restoring, session
<1>1. CASE Pause
    BY <1>1 DEF Pause, S!Pause
<1>2. CASE Release
    BY <1>2 DEF Release, S!Release
<1>3. CASE SessionStep
    BY <1>3 DEF SessionStep, S!Resume, S!PauseElapses, S!OnPauseExpired,
        S!OnReleaseGraceExpired, S!SilenceElapses
<1>4. ASSUME NEW f \in [Lights -> Colours], Frame(f) PROVE UNCHANGED <<active, restore, drain>>
    BY <1>4 DEF Frame, S!FrameArrives
<1>5. ASSUME NEW l \in Lights, NEW body \in Bodies, LightCommand(l, body)
      PROVE  Bodies # {} /\ UNCHANGED <<active, restore>> /\ EnsureDrainTask
    BY <1>5 DEF LightCommand
<1>6. ASSUME NEW t \in Tasks, DrainStep(t) PROVE UNCHANGED <<active, restore>>
    BY <1>6 DEF DrainStep, Start, Wake, Sent, IdleElapses, Unwind, Continue
<1>7. ASSUME NEW l \in Lights, Drop(l) \/ Return(l) PROVE UNCHANGED <<active, restore, drain>>
    BY <1>7 DEF Drop, Return
<1>8. CASE UNCHANGED vars
    BY <1>8 DEF vars
<1> QED BY <1>1, <1>2, <1>3, <1>4, <1>5, <1>6, <1>7, <1>8 DEF Next

\* What a step of a task makes of it: it goes on, ends without a session, or is done.
LEMMA DrainStepped ==
    ASSUME DrainOK, SlotsOK, NEW t \in Tasks, DrainStep(t)
    PROVE  /\ DrainOK'
           /\ \A u \in Tasks : u # t => task'[u] = task[u]
           /\ \/ /\ task'[t].pc = "sending" /\ task'[t].light \in Lights
                 /\ Live(t) /\ Dirty # {}
                 /\ UNCHANGED <<drainTask, drainRunning>>
              \/ task'[t].pc = "waiting" /\ Live(t) /\ UNCHANGED <<drainTask, drainRunning>>
              \/ task'[t].pc = "none" /\ Live(t) /\ ~active /\ ~drainRunning' /\ Dirty' = {}
              \/ /\ task'[t].pc = "done" /\ Ending(t)
                 /\ UNCHANGED drainTask /\ (drainRunning' => drainRunning)
<1>1. CASE Start(t)
    <2> Continue(t, 0, "unset") /\ Live(t)
        BY <1>1 DEF Start, Live
    <2> QED BY ContinuedTask
<1>2. CASE Wake(t)
    <2>1. Continue(t, 0, task[t].idle) /\ Live(t)
        BY <1>2 DEF Wake, Live
    <2>2. task[t].idle \in {"unset", "since", "over"}
        BY DEF DrainOK, Jobs
    <2> QED BY <2>1, <2>2, ContinuedTask
<1>3. CASE Sent(t)
    <2> Continue(t, task[t].light, "unset") /\ Live(t)
        BY <1>3 DEF Sent, Live
    <2> QED BY ContinuedTask
<1>4. CASE IdleElapses(t)
    <2> Live(t)
        BY <1>4 DEF IdleElapses, Live
    <2> QED BY <1>4, IdleTask
<1>5. CASE Unwind(t)
    <2> Ending(t) /\ UNCHANGED drainTask /\ (drainRunning' => drainRunning)
        BY <1>5 DEF Unwind, Ending
    <2> QED BY <1>5, UnwoundTask
<1> QED BY <1>1, <1>2, <1>3, <1>4, <1>5 DEF DrainStep

\* The tasks stay in their types.
LEMMA NextTasks ==
    DrainOK /\ CallsHaveLights /\ SlotsOK /\ [Next]_vars => DrainOK' /\ CallsHaveLights'
<1> DEFINE Goal == DrainOK /\ CallsHaveLights
<1> SUFFICES ASSUME Goal, SlotsOK, [Next]_vars PROVE Goal'
    OBVIOUS
<1> USE DEF CallsHaveLights
<1>1. CASE UNCHANGED drain
    BY <1>1 DEF drain, DrainOK
<1>2. CASE EnsureDrainTask
    BY <1>2, EnsuredTask
<1>3. CASE BeginRestore
    BY <1>3, CancelledTask
<1>4. ASSUME NEW t \in Tasks, ContinueRestore(t) PROVE Goal'
    BY <1>4, CollectedTask
<1>5. ASSUME NEW t \in Tasks, DrainStep(t) PROVE Goal'
    BY <1>5, DrainStepped
<1> QED BY <1>1, <1>2, <1>3, <1>4, <1>5, TaskSteps DEF Snapshot, EndRestore

\* A restore waits for the task it cancelled, and for no other.
LEMMA NextEnding ==
    DrainOK /\ SlotsOK /\ EndingIsJoined /\ [Next]_vars => EndingIsJoined'
<1> SUFFICES ASSUME DrainOK, SlotsOK, EndingIsJoined, [Next]_vars PROVE EndingIsJoined'
    OBVIOUS
<1> USE DEF EndingIsJoined, Ending
<1>1. CASE UNCHANGED <<restore, drain>>
    BY <1>1 DEF drain
<1>2. CASE UNCHANGED restore /\ EnsureDrainTask
    BY <1>2, EnsuredTask
<1>3. CASE BeginRestore
    <2> restore = "none" /\ restore' = "joining"
        BY <1>3 DEF BeginRestore, S!BeginRestore
    <2> QED BY <1>3, CancelledTask
<1>4. ASSUME NEW t \in Tasks, ContinueRestore(t) PROVE EndingIsJoined'
    <2> Ending(t)
        BY <1>4 DEF ContinueRestore
    <2> QED BY <1>4, CollectedTask
<1>5. ASSUME UNCHANGED restore, NEW t \in Tasks, DrainStep(t) PROVE EndingIsJoined'
    BY <1>5, DrainStepped DEF Live
<1>6. CASE Snapshot
    BY <1>2, <1>6 DEF Snapshot, S!Snapshot, S!restoring
<1>7. CASE EndRestore
    BY <1>7 DEF EndRestore, S!EndRestore, drain
<1> QED BY <1>1, <1>2, <1>3, <1>4, <1>5, <1>6, <1>7, TaskSteps

\* EnsureDrainTask does ensure it, unless a restore is about to reset the flag.
LEMMA Ensured ==
    ASSUME DrainOK, FlagHasTask, EnsureDrainTask
    PROVE  /\ drainRunning' /\ drainTask' # NoTask
           /\ Live(drainTask)' \/ restore = "joining"
           /\ \A t \in Tasks : Live(t) => Live(t)'
<1> USE EngineAssumption, EnsuredTask DEF FlagHasTask, DrainOK, Live
<1>1. CASE drainRunning /\ UNCHANGED <<drainTask, task>>
    BY <1>1
<1>2. ASSUME NEW t \in Tasks, task[t].pc = "none", drainTask' = t, task'[t].pc = "new",
             \A u \in Tasks : u # t => task'[u] = task[u]
      PROVE  /\ drainTask' # NoTask /\ Live(drainTask)'
             /\ \A u \in Tasks : Live(u) => Live(u)'
    BY <1>2
<1> QED BY <1>1, <1>2

\* The flag has a task, and so has a session.
LEMMA NextFlag ==
    DrainOK /\ SlotsOK /\ RestoringIsInactive /\ EndingIsJoined
      /\ FlagHasTask /\ SessionHasDrain /\ [Next]_vars
    => FlagHasTask' /\ SessionHasDrain'
<1> DEFINE Goal == FlagHasTask /\ SessionHasDrain
<1> SUFFICES ASSUME DrainOK, SlotsOK, RestoringIsInactive, EndingIsJoined, Goal, [Next]_vars
             PROVE  Goal'
    OBVIOUS
<1> USE EngineAssumption DEF FlagHasTask, SessionHasDrain, RestoringIsInactive
<1>1. CASE UNCHANGED <<active, restore, drain>>
    BY <1>1 DEF drain, Live
<1>2. CASE UNCHANGED <<active, restore>> /\ EnsureDrainTask
    BY <1>2, Ensured
<1>3. CASE Snapshot
    <2> restore = "none" /\ restore' = "none" /\ EnsureDrainTask
        BY <1>3 DEF Snapshot, S!Snapshot, S!restoring
    <2> QED BY Ensured
<1>4. CASE BeginRestore
    <2> ~active' /\ restore' = "joining" /\ drainTask' = drainTask /\ drainTask # NoTask
        BY <1>4 DEF BeginRestore, S!BeginRestore
    <2> QED OBVIOUS
<1>5. CASE EndRestore
    <2> restore = "reproducing" /\ UNCHANGED active /\ UNCHANGED drain
        BY <1>5 DEF EndRestore, S!EndRestore, S!session
    <2> QED BY DEF drain, Live
<1>6. ASSUME NEW t \in Tasks, ContinueRestore(t) PROVE Goal'
    <2> ~active /\ UNCHANGED active /\ ~drainRunning'
        BY <1>6 DEF ContinueRestore, S!ContinueRestore
    <2> QED OBVIOUS
<1>7. ASSUME UNCHANGED <<active, restore>>, NEW t \in Tasks, DrainStep(t) PROVE Goal'
    <2>1. CASE Ending(t)
        <3> restore = "joining" /\ ~active /\ UNCHANGED drainTask
              /\ (drainRunning' => drainRunning)
            BY <1>7, <2>1, DrainStepped DEF EndingIsJoined, Ending, Live
        <3> QED BY <1>7
    <2>2. CASE ~Ending(t)
        <3>1. drainRunning' => Live(t)' /\ UNCHANGED <<drainTask, drainRunning>>
            BY <1>7, <2>2, DrainStepped DEF Live
        <3>2. drainRunning' /\ Live(drainTask) => Live(drainTask)'
            BY <1>7, <3>1, DrainStepped DEF Live, DrainOK
        <3>3. active => UNCHANGED <<drainTask, drainRunning>>
            BY <1>7, <2>2, DrainStepped
        <3> QED BY <1>7, <3>1, <3>2, <3>3
    <2> QED BY <2>1, <2>2
<1> QED BY <1>1, <1>2, <1>3, <1>4, <1>5, <1>6, <1>7, TaskSteps

\* Slots are filled by a running session, or by a command that ensures a task.
LEMMA DirtySteps ==
    ASSUME [Next]_vars, Dirty' # {}
    PROVE  \/ Dirty # {} /\ ~ResetMappings
           \/ active /\ UNCHANGED <<active, restore, drain>>
           \/ UNCHANGED restore /\ EnsureDrainTask
<1> USE DEF Dirty, Clean
<1>1. ~ResetMappings
    BY DEF ResetMappings
<1>2. CASE UNCHANGED slots
    BY <1>1, <1>2 DEF slots
<1>3. ASSUME NEW ls \in SUBSET Lights, Take(ls) PROVE Dirty # {}
    BY <1>3 DEF Take
<1>4. ASSUME NEW f \in [Lights -> Colours], Frame(f), OutputIsOn
      PROVE  active /\ UNCHANGED <<active, restore, drain>>
    BY <1>4 DEF Frame, OutputIsOn, S!FrameArrives, S!restoring
<1>5. ASSUME NEW l \in Lights, NEW body \in Bodies, LightCommand(l, body)
      PROVE  UNCHANGED restore /\ EnsureDrainTask
    BY <1>5 DEF LightCommand, session
<1> QED BY <1>1, <1>2, <1>3, <1>4, <1>5, SlotSteps

\* No command is left without a task that will look at it.
LEMMA NextStranded ==
    DrainOK /\ SlotsOK /\ FlagHasTask /\ SessionHasDrain /\ NothingStranded /\ [Next]_vars
    => NothingStranded'
<1> SUFFICES ASSUME DrainOK, SlotsOK, FlagHasTask, SessionHasDrain, NothingStranded,
                    [Next]_vars, Dirty' # {}
             PROVE  restore' = "joining" \/ \E t \in Tasks : Live(t)'
    BY DEF NothingStranded, Live
<1> DEFINE Goal == restore' = "joining" \/ \E t \in Tasks : Live(t)'
<1>1. CASE UNCHANGED restore /\ EnsureDrainTask
    <2> (drainTask \in Tasks \cup {NoTask})'
        BY <1>1, EnsuredTask DEF DrainOK
    <2> QED BY <1>1, Ensured
<1>2. CASE active /\ UNCHANGED <<active, restore, drain>>
    BY <1>2 DEF SessionHasDrain, DrainOK, drain, Live
<1>3. CASE Dirty # {} /\ ~ResetMappings
    <2> USE <1>3 DEF NothingStranded
    <2>1. CASE UNCHANGED <<active, restore, drain>>
        BY <2>1 DEF drain, Live
    <2>2. CASE Snapshot \/ \E t \in Tasks : ContinueRestore(t)
        BY <2>2 DEF Snapshot, ContinueRestore
    <2>3. CASE BeginRestore
        BY <2>3 DEF BeginRestore, S!BeginRestore
    <2>4. CASE EndRestore
        BY <2>4 DEF EndRestore, S!EndRestore, drain, Live
    <2>5. ASSUME UNCHANGED <<active, restore>>, NEW t \in Tasks, DrainStep(t) PROVE Goal
        <3>1. CASE restore = "joining"
            BY <2>5, <3>1
        <3>2. ASSUME NEW u \in Tasks, Live(u) PROVE Live(u)'
            BY <2>5, <3>2, DrainStepped DEF Live, Ending
        <3> QED BY <3>1, <3>2
    <2> QED BY <1>1, <2>1, <2>2, <2>3, <2>4, <2>5, TaskSteps
<1> QED BY <1>1, <1>2, <1>3, DirtySteps

\* A call shows a stream colour, none, or what the light showed before.
LEMMA LookOfCall ==
    ASSUME LightsOK, NEW j, j.light \in Lights
    PROVE  Look(j) \in Colours \cup {NoColour}
<1> DEFINE colours == j.payload \cap Colours
<1>1. colours # {} => (CHOOSE c \in Colours : c \in colours) \in Colours
    OBVIOUS
<1>2. shown[j.light] \in Colours \cup {NoColour}
    BY DEF LightsOK
<1> QED BY <1>1, <1>2 DEF Look

\* The lights show stream colours or none.
LEMMA NextLights ==
    DrainOK /\ CallsHaveLights /\ LightsOK /\ [Next]_vars => LightsOK'
<1> SUFFICES ASSUME DrainOK, CallsHaveLights, LightsOK, [Next]_vars PROVE LightsOK'
    OBVIOUS
<1> USE DEF LightsOK
<1>1. CASE UNCHANGED lights
    BY <1>1 DEF lights
<1>2. CASE Snapshot \/ BeginRestore \/ Pause \/ Release \/ SessionStep
           \/ \E t \in Tasks : ContinueRestore(t)
    BY <1>1, <1>2 DEF Snapshot, BeginRestore, Pause, Release, SessionStep, ContinueRestore
<1>3. CASE EndRestore
    BY <1>3 DEF EndRestore
<1>4. CASE \/ \E f \in [Lights -> Colours] : Frame(f)
           \/ \E l \in Lights, body \in Bodies : LightCommand(l, body)
    BY <1>1, <1>4 DEF Frame, LightCommand
<1>5. ASSUME NEW t \in Tasks, DrainStep(t) PROVE LightsOK'
    <2>1. UNCHANGED available
        BY <1>5 DEF DrainStep, Start, Wake, Sent, IdleElapses, Unwind, Continue, lights
    <2>2. CASE UNCHANGED shown
        BY <2>1, <2>2
    <2>3. CASE /\ task[t].light \in Lights
               /\ shown' = [shown EXCEPT ![task[t].light] = Look(task[t])]
        BY <2>1, <2>3, LookOfCall
    <2>4. CASE Sent(t)
        BY <2>2, <2>3, <2>4 DEF Sent, CallsHaveLights
    <2>5. CASE Unwind(t)
        <3> task[t].light # 0 => task[t].light \in Lights
            BY EngineAssumption DEF DrainOK, Jobs, Lights
        <3> QED BY <2>2, <2>3, <2>5 DEF Unwind
    <2> QED BY <1>5, <2>2, <2>4, <2>5 DEF DrainStep, Start, Wake, IdleElapses, lights
<1>6. ASSUME NEW l \in Lights, Drop(l) \/ Return(l) PROVE LightsOK'
    BY <1>6 DEF Drop, Return
<1>7. CASE UNCHANGED vars
    BY <1>1, <1>7 DEF vars
<1> QED BY <1>2, <1>3, <1>4, <1>5, <1>6, <1>7 DEF Next

-----------------------------------------------------------------------------
(* The theorems *)

\* The initial states satisfy the inductive invariant.
LEMMA InitIInv == Init => IInv
<1> SUFFICES ASSUME Init PROVE IInv
    OBVIOUS
<1> USE DEF Init
<1>1. SessionOK /\ RestoringIsInactive
    BY DEF SessionOK, S!TypeOK, S!Init, RestoringIsInactive
<1>2. SlotsOK /\ LightsOK /\ SuppressedIsFlushed /\ OffStandsAlone /\ Dirty = {}
    BY DEF SlotsOK, LightsOK, SuppressedIsFlushed, OffStandsAlone, Dirty, Clean, Payloads
<1>3. NoJob \in Jobs /\ NoJob.pc = "none"
    BY EngineAssumption DEF NoJob, Jobs, Clean, Payloads
<1>4. DrainOK /\ CallsHaveLights /\ EndingIsJoined
    BY <1>3 DEF DrainOK, CallsHaveLights, EndingIsJoined, Ending
<1>5. FlagHasTask /\ SessionHasDrain /\ NothingStranded
    BY <1>2 DEF FlagHasTask, SessionHasDrain, NothingStranded, S!Init
<1> QED BY <1>1, <1>2, <1>4, <1>5 DEF IInv

\* Every step preserves it.
LEMMA NextIInv == IInv /\ [Next]_vars => IInv'
BY NextSession, NextSlots, NextFlushed, NextOff, NextTasks, NextEnding, NextFlag,
   NextStranded, NextLights DEF IInv

\* It holds in every reachable state.
THEOREM Invariant == Spec => []IInv
BY InitIInv, NextIInv, PTL DEF Spec

\* The variables of the engine stay in their types, for any number of lights and tasks.
THEOREM TypeCorrect == Spec => []TypeOK
<1>1. IInv => TypeOK
    BY Types DEF IInv
<1> QED BY <1>1, Invariant, PTL

\* A pause or a release leaves no command queued and no colour remembered.
THEOREM SuppressionFlushes == Spec => []SuppressedIsFlushed
<1>1. IInv => SuppressedIsFlushed
    BY DEF IInv
<1> QED BY <1>1, Invariant, PTL

\* No light.turn_off is sent with the attributes of another command.
THEOREM OffIsAlone == Spec => []OffStandsAlone
<1>1. IInv => OffStandsAlone
    BY DEF IInv
<1> QED BY <1>1, Invariant, PTL

\* A running session has the drain task that a restore will cancel; and a set flag has
\* a task, so that it never keeps a new one from being created for good.
THEOREM DrainLives == Spec => [](SessionHasDrain /\ FlagHasTask)
<1>1. IInv => SessionHasDrain /\ FlagHasTask
    BY DEF IInv
<1> QED BY <1>1, Invariant, PTL

\* Whatever is queued has a task to look at it, or a restore to drop it.
THEOREM NoCommandStranded == Spec => []NothingStranded
<1>1. IInv => NothingStranded
    BY DEF IInv
<1> QED BY <1>1, Invariant, PTL

\* Under a suppression no task begins a call.
LEMMA SuppressedStep ==
    ASSUME IInv, [Next]_vars, S!Suppressed, NEW t \in Tasks, task'[t].pc = "sending"
    PROVE  task'[t] = task[t]
<1>1. Dirty = {}
    BY DEF IInv, SuppressedIsFlushed, Dirty
<1>2. CASE UNCHANGED drain
    BY <1>2 DEF drain
<1>3. CASE EnsureDrainTask
    BY <1>3, EnsuredTask DEF IInv
<1>4. CASE BeginRestore
    BY <1>4, CancelledTask DEF IInv
<1>5. ASSUME NEW u \in Tasks, ContinueRestore(u) PROVE task'[t] = task[t]
    BY <1>5, CollectedTask DEF IInv
<1>6. ASSUME NEW u \in Tasks, DrainStep(u) PROVE task'[t] = task[t]
    BY <1>1, <1>6, DrainStepped DEF IInv
<1> QED BY <1>2, <1>3, <1>4, <1>5, <1>6, TaskSteps DEF Snapshot, EndRestore

\* A paused or released engine sends nothing new, for any number of lights and tasks.
THEOREM SuppressionSilences == Spec => SuppressedSendsNothing
<1> DEFINE Silent == \A t \in Tasks :
               S!Suppressed /\ task'[t].pc = "sending" => task'[t] = task[t]
<1>1. IInv /\ [Next]_vars => [Silent]_vars
    BY SuppressedStep
<1> QED BY <1>1, Invariant, PTL DEF Spec, SuppressedSendsNothing

-----------------------------------------------------------------------------
(* The round *)

\* A remainder of what is less than twice the divisor.
LEMMA Remainder ==
    ASSUME NEW n \in Nat \ {0}, NEW x \in 0 .. (2 * n - 1)
    PROVE  x % n = IF x < n THEN x ELSE x - n
OBVIOUS

\* Distance counts the lights between, past the last one if need be.
LEMMA DistanceIs ==
    ASSUME NEW i \in 0 .. NLights, NEW l \in Lights
    PROVE  /\ Distance(i, l) = IF l > i THEN l - i - 1 ELSE l + NLights - i - 1
           /\ Distance(i, l) \in Nat
<1>1. NLights \in Nat \ {0} /\ l \in 1 .. NLights
    BY EngineAssumption DEF Lights
<1> DEFINE x == l + NLights - i - 1
<1>2. x \in 0 .. (2 * NLights - 1)
    BY <1>1
<1>3. x % NLights = IF x < NLights THEN x ELSE x - NLights
    <2> HIDE DEF x
    <2> QED BY <1>1, <1>2, Remainder
<1> QED BY <1>1, <1>3 DEF Distance

\* From the nearest of two lights it is less far to the other.
LEMMA Nearer ==
    ASSUME NEW i \in 0 .. NLights, NEW m \in Lights, NEW l \in Lights, l # m,
           ~(Distance(i, l) < Distance(i, m))
    PROVE  Distance(m, l) \in Nat /\ Distance(m, l) < Distance(i, l)
<1>1. NLights \in Nat /\ l \in 1 .. NLights /\ m \in 1 .. NLights /\ m \in 0 .. NLights
    BY EngineAssumption DEF Lights
<1> QED BY <1>1, DistanceIs

\* Where in the round a task is: at the light it drives, or at the start.
Place(t) == IF task[t].pc = "sending" THEN task[t].light ELSE 0

\* A step of the loop that leaves a light's command in its slot begins a call to a light
\* that comes before it.
LEMMA ContinueComesNearer ==
    ASSUME DrainOK, NEW t \in Tasks, NEW i \in 0 .. NLights, NEW idle, Continue(t, i, idle),
           NEW l \in Lights, slot'[l] # Clean
    PROVE  /\ task'[t].pc = "sending"
           /\ Distance(task'[t].light, l) \in Nat /\ Distance(task'[t].light, l) < Distance(i, l)
<1>1. CASE SendNext(t, i)
    <2>1. PICK m \in Lights :
            /\ Take({m} \cup {k \in Dirty : Distance(i, k) < Distance(i, m)})
            /\ task' = [task EXCEPT ![t] =
                 [pc |-> "sending", light |-> m, payload |-> slot[m], idle |-> "unset"]]
        BY <1>1 DEF SendNext
    <2>2. task'[t].pc = "sending" /\ task'[t].light = m
        BY <2>1 DEF DrainOK
    <2>3. l # m /\ ~(Distance(i, l) < Distance(i, m))
        BY <2>1 DEF Take, Dirty
    <2> QED BY <2>2, <2>3, Nearer
<1>2. CASE Rest(t, idle)
    BY <1>2 DEF Rest, Take, Dirty
<1> QED BY <1>1, <1>2 DEF Continue

\* Each time a task goes on, a light's command is taken, or the round comes nearer to it.
RoundComesNearer ==
    [][\A t \in Tasks, l \in Lights :
         (Start(t) \/ Wake(t) \/ Sent(t)) /\ slot'[l] # Clean =>
             /\ task'[t].pc = "sending"
             /\ Distance(Place(t)', l) \in Nat /\ Distance(Place(t)', l) < Distance(Place(t), l)]_vars

\* _drain_loop starves no light, however many there are and however often frames fill the
\* slots of others: while a light's command waits, each other light gets one call at most.
THEOREM RoundIsFair == Spec => RoundComesNearer
<1> DEFINE Comes ==
        \A t \in Tasks, l \in Lights :
            (Start(t) \/ Wake(t) \/ Sent(t)) /\ slot'[l] # Clean =>
                /\ task'[t].pc = "sending"
                /\ Distance(Place(t)', l) \in Nat /\ Distance(Place(t)', l) < Distance(Place(t), l)
<1>1. ASSUME IInv, NEW t \in Tasks, NEW l \in Lights, Start(t) \/ Wake(t) \/ Sent(t),
             slot'[l] # Clean
      PROVE  /\ task'[t].pc = "sending"
             /\ Distance(Place(t)', l) \in Nat /\ Distance(Place(t)', l) < Distance(Place(t), l)
    <2>1. DrainOK /\ CallsHaveLights
        BY <1>1 DEF IInv
    <2>2. 0 \in 0 .. NLights /\ \A m \in Lights : m \in 0 .. NLights
        BY EngineAssumption DEF Lights
    <2>3. PICK idle : Continue(t, Place(t), idle)
        BY <1>1 DEF Start, Wake, Sent, Place
    <2>4. Place(t) \in 0 .. NLights
        BY <2>1, <2>2 DEF Place, CallsHaveLights
    <2>5. /\ task'[t].pc = "sending"
          /\ Distance(task'[t].light, l) \in Nat
          /\ Distance(task'[t].light, l) < Distance(Place(t), l)
        BY <1>1, <2>1, <2>3, <2>4, ContinueComesNearer
    <2> QED BY <2>5 DEF Place
<1>2. IInv /\ [Next]_vars => [Comes]_vars
    BY <1>1
<1> QED BY <1>2, Invariant, PTL DEF Spec, RoundComesNearer

-----------------------------------------------------------------------------
(* Streaming only: the TV sends no classic-mode commands *)

\* Every task is the session's.
OneTask ==
    \A t \in Tasks : task[t].pc # "none" => t = drainTask /\ (active \/ restore = "joining")

LEMMA NextOneTask ==
    ASSUME Bodies = {}, IInv, OneTask, [Next]_vars PROVE OneTask'
<1> USE DEF OneTask
<1>1. DrainOK /\ SlotsOK
    BY DEF IInv
<1>2. CASE UNCHANGED <<active, restore, drain>>
    BY <1>2 DEF drain
<1>3. CASE Snapshot
    <2>1. EnsureDrainTask /\ active' /\ restore = "none"
        BY <1>3 DEF Snapshot, S!Snapshot
    <2>2. ~drainRunning => \A t \in Tasks : task[t].pc = "none"
        BY <2>1 DEF IInv, SessionHasDrain
    <2>3. CASE drainRunning /\ UNCHANGED <<drainTask, task>>
        BY <2>1, <2>3
    <2>4. ASSUME ~drainRunning, NEW t \in Tasks, drainTask' = t,
                 \A u \in Tasks : u # t => task'[u] = task[u]
          PROVE  OneTask'
        BY <2>1, <2>2, <2>4
    <2>5. drainRunning => UNCHANGED <<drainTask, task>>
        BY <2>1 DEF EnsureDrainTask, drain
    <2> QED BY <1>1, <2>1, <2>3, <2>4, <2>5, EnsuredTask
<1>4. CASE BeginRestore
    <2> restore' = "joining" /\ UNCHANGED drainTask
        BY <1>4 DEF BeginRestore, S!BeginRestore
    <2> QED BY <1>1, <1>4, CancelledTask
<1>5. CASE EndRestore
    BY <1>5 DEF EndRestore, S!EndRestore, S!session, drain
<1>6. ASSUME NEW t \in Tasks, ContinueRestore(t) PROVE OneTask'
    <2> task[t].pc = "done"
        BY <1>6 DEF ContinueRestore
    <2> QED BY <1>1, <1>6, CollectedTask
<1>7. ASSUME UNCHANGED <<active, restore>>, NEW t \in Tasks, DrainStep(t) PROVE OneTask'
    <2>1. task[t].pc # "none"
        BY <1>7 DEF DrainStep, Start, Wake, Sent, IdleElapses, Unwind
    <2> QED BY <1>1, <1>7, <2>1, DrainStepped
<1> QED BY <1>2, <1>3, <1>4, <1>5, <1>6, <1>7, TaskSteps

\* "One Zigbee command at a time" is true of a stream: run two_drain_loops needs a
\* classic-mode command between the end of a drain task and its collection.
THEOREM OneLoopPerStream ==
    ASSUME Bodies = {} PROVE Spec => []OneCommandAtATime
<1>1. Init => OneTask
    BY DEF Init, OneTask, NoJob
<1>2. IInv /\ OneTask /\ [Next]_vars => OneTask'
    BY NextOneTask
<1>3. OneTask => OneCommandAtATime
    BY DEF OneTask, OneCommandAtATime
<1> QED BY <1>1, <1>2, <1>3, Invariant, PTL DEF Spec

\* A task is sending colour c, and nothing else, to light l.
Carries(t, l, c) == task[t].pc = "sending" /\ task[t].light = l /\ task[t].payload = {c}

\* A call is on its way to light l.
IsCalled(l) == \E t \in Tasks : task[t].pc = "sending" /\ task[t].light = l

\* The colour that was the last to pass the tolerance check is queued, being sent, or
\* shown.
OnItsWay(l) ==
    last[l] # NoColour =>
        \/ slot[l] = {last[l]}
        \/ slot[l] = Clean /\ \E t \in Tasks : Carries(t, l, last[l])
        \/ slot[l] = Clean /\ shown[l] = last[l] /\ ~IsCalled(l)

\* While a session is active, that is so for each light that is always available.
ColourOnItsWay == active => \A l \in Lights \ Flaky : OnItsWay(l)

\* The other lights do not drop out.
Steady == Lights \ Flaky \subseteq available

LEMMA NextSteady == Steady /\ [Next]_vars => Steady'
<1> SUFFICES ASSUME Steady, [Next]_vars PROVE Steady'
    OBVIOUS
<1> USE DEF Steady
<1>1. CASE UNCHANGED available
    BY <1>1
<1>2. CASE \/ Snapshot \/ BeginRestore \/ EndRestore \/ Pause \/ Release \/ SessionStep
           \/ \E t \in Tasks : ContinueRestore(t)
    BY <1>1, <1>2 DEF Snapshot, BeginRestore, EndRestore, Pause, Release, SessionStep,
        ContinueRestore, lights
<1>3. CASE \/ \E f \in [Lights -> Colours] : Frame(f)
           \/ \E l \in Lights, body \in Bodies : LightCommand(l, body)
    BY <1>1, <1>3 DEF Frame, LightCommand, lights
<1>4. ASSUME NEW t \in Tasks, DrainStep(t) PROVE UNCHANGED available
    BY <1>4 DEF DrainStep, Start, Wake, Sent, IdleElapses, Unwind, Continue, lights
<1>5. ASSUME NEW l \in Lights, Drop(l) \/ Return(l) PROVE Steady'
    BY <1>5 DEF Drop, Return
<1>6. CASE UNCHANGED vars
    BY <1>1, <1>6 DEF vars, lights
<1> QED BY <1>1, <1>2, <1>3, <1>4, <1>5, <1>6 DEF Next

\* A step of the loop takes an available light's command to send it, or leaves it and
\* sends nothing to that light.
LEMMA ContinueTakesToSend ==
    ASSUME DrainOK, NEW t \in Tasks, NEW i \in 0 .. NLights, NEW idle, Continue(t, i, idle),
           NEW l \in Lights, l \in available
    PROVE  /\ UNCHANGED last
           /\ \A u \in Tasks : u # t => task'[u] = task[u]
           /\ \/ /\ slot'[l] = slot[l]
                 /\ ~(task'[t].pc = "sending" /\ task'[t].light = l)
              \/ slot[l] # Clean /\ slot'[l] = Clean
                   /\ task'[t].pc = "sending" /\ task'[t].light = l /\ task'[t].payload = slot[l]
<1>1. CASE SendNext(t, i)
    <2>1. PICK m \in Lights :
            /\ IsNext(i, m)
            /\ Take({m} \cup {k \in Dirty : Distance(i, k) < Distance(i, m)})
            /\ task' = [task EXCEPT ![t] =
                 [pc |-> "sending", light |-> m, payload |-> slot[m], idle |-> "unset"]]
        BY <1>1 DEF SendNext
    <2>2. /\ task'[t].pc = "sending" /\ task'[t].light = m /\ task'[t].payload = slot[m]
          /\ \A u \in Tasks : u # t => task'[u] = task[u]
        BY <2>1 DEF DrainOK
    <2>3. CASE l = m
        <3>1. slot[l] # Clean /\ slot'[l] = Clean
            BY <2>1, <2>3 DEF IsNext, Dirty, Take
        <3> QED BY <2>2, <2>3, <3>1 DEF Continue
    <2>4. CASE l # m
        <3>1. l \in Dirty => Distance(i, m) <= Distance(i, l)
            BY <2>1 DEF IsNext
        <3>2. Distance(i, m) \in Nat /\ Distance(i, l) \in Nat
            BY DistanceIs
        <3>3. l \notin {m} \cup {k \in Dirty : Distance(i, k) < Distance(i, m)}
            BY <2>4, <3>1, <3>2
        <3>4. slot'[l] = slot[l]
            BY <2>1, <3>3 DEF Take
        <3> QED BY <2>2, <2>4, <3>4 DEF Continue
    <2> QED BY <2>3, <2>4
<1>2. CASE Rest(t, idle)
    <2>1. l \notin Dirty /\ slot'[l] = slot[l]
        BY <1>2 DEF Rest, Take, Dirty
    <2>2. \A u \in Tasks : u # t => task'[u] = task[u]
        BY <1>2 DEF Rest, Exit, DrainOK
    <2>3. task'[t].pc # "sending"
        BY <1>2 DEF Rest, Exit, DrainOK, NoJob
    <2> QED BY <1>2, <2>1, <2>2, <2>3 DEF Continue
<1> QED BY <1>1, <1>2 DEF Continue

\* What a call that carries a colour makes of its light.
LEMMA CarriedIsShown ==
    ASSUME NEW t \in Tasks, NEW l, NEW c \in Colours, Carries(t, l, c)
    PROVE  Look(task[t]) = c
<1>1. task[t].payload \cap Colours = {c} /\ task[t].payload \subseteq Colours
    BY DEF Carries
<1>2. (CHOOSE d \in Colours : d \in {c}) = c
    OBVIOUS
<1> QED BY <1>1, <1>2 DEF Look

\* A step of the loop keeps the last colour on its way.
LEMMA LoopKeepsColour ==
    ASSUME Bodies = {}, ~SendsMayFail, IInv, OneTask, Steady, NEW t \in Tasks,
           Start(t) \/ Wake(t) \/ Sent(t), NEW l \in Lights \ Flaky, OnItsWay(l)
    PROVE  OnItsWay(l)'
<1>1. DrainOK /\ SlotsOK /\ LightsOK /\ CallsHaveLights
    BY DEF IInv
<1>2. SUFFICES ASSUME last'[l] # NoColour PROVE OnItsWay(l)'
    BY DEF OnItsWay
<1>3. PICK idle : Continue(t, Place(t), idle)
    BY DEF Start, Wake, Sent, Place
<1>4. Place(t) \in 0 .. NLights /\ l \in available
    BY <1>1, EngineAssumption DEF Place, CallsHaveLights, Lights, Steady
<1>5. /\ last'[l] = last[l]
      /\ \A u \in Tasks : u # t => task'[u] = task[u]
      /\ \/ /\ slot'[l] = slot[l]
            /\ ~(task'[t].pc = "sending" /\ task'[t].light = l)
         \/ slot[l] # Clean /\ slot'[l] = Clean
              /\ task'[t].pc = "sending" /\ task'[t].light = l /\ task'[t].payload = slot[l]
    BY <1>1, <1>3, <1>4, ContinueTakesToSend
<1>6. task[t].pc # "none" /\ \A u \in Tasks : u # t => task[u].pc = "none"
    BY DEF OneTask, Start, Wake, Sent
<1>7. last[l] \in Colours
    BY <1>1, <1>2, <1>5 DEF SlotsOK
<1>8. CASE slot[l] = {last[l]}
    BY <1>5, <1>8 DEF OnItsWay, Carries
<1>9. ASSUME slot[l] = Clean, shown'[l] = last[l] PROVE OnItsWay(l)'
    <2>1. slot'[l] = Clean /\ ~(task'[t].pc = "sending" /\ task'[t].light = l)
        BY <1>5, <1>9
    <2>2. ~IsCalled(l)'
        BY <1>5, <1>6, <2>1 DEF IsCalled
    <2> QED BY <1>5, <1>9, <2>1, <2>2 DEF OnItsWay
<1>10. ASSUME NEW u \in Tasks, Carries(u, l, last[l]) PROVE shown'[l] = last[l]
    <2>1. u = t
        BY <1>6, <1>10 DEF Carries
    <2>2. Sent(t) /\ task[t].light = l
        BY <1>10, <2>1 DEF Carries, Start, Wake
    <2>3. Look(task[t]) = last[l]
        BY <1>7, <1>10, <2>1, CarriedIsShown
    <2>4. shown' = [shown EXCEPT ![l] = last[l]]
        BY <2>2, <2>3 DEF Sent
    <2> QED BY <1>1, <2>4 DEF LightsOK
<1>11. ASSUME shown[l] = last[l], ~IsCalled(l) PROVE shown'[l] = last[l]
    <2>1. CASE Sent(t)
        <3>1. shown' = [shown EXCEPT ![task[t].light] = Look(task[t])]
            BY <2>1 DEF Sent
        <3>2. task[t].light # l
            BY <1>11, <2>1 DEF Sent, IsCalled
        <3> QED BY <1>1, <1>11, <3>1, <3>2 DEF LightsOK
    <2>2. CASE Start(t) \/ Wake(t)
        BY <1>11, <2>2 DEF Start, Wake
    <2> QED BY <2>1, <2>2
<1> QED BY <1>2, <1>5, <1>8, <1>9, <1>10, <1>11 DEF OnItsWay

\* What happens besides the loop keeps it, too, or ends the session.
LEMMA NextColour ==
    ASSUME Bodies = {}, ~SendsMayFail, IInv, OneTask, Steady, ColourOnItsWay, [Next]_vars
    PROVE  ColourOnItsWay'
<1>1. DrainOK /\ SlotsOK /\ LightsOK
    BY DEF IInv
<1> SUFFICES ASSUME active', NEW l \in Lights \ Flaky, last'[l] # NoColour PROVE OnItsWay(l)'
    BY DEF ColourOnItsWay, OnItsWay
<1> DEFINE Same == slot'[l] = slot[l] /\ last'[l] = last[l] /\ shown'[l] = shown[l] /\ task' = task
<1>2. CASE active /\ Same
    BY <1>2 DEF ColourOnItsWay, OnItsWay, Carries, IsCalled
<1>3. CASE ResetMappings
    BY <1>3 DEF ResetMappings
<1>4. CASE Snapshot \/ Pause \/ Release \/ \E t \in Tasks : ContinueRestore(t)
    BY <1>3, <1>4 DEF Snapshot, Pause, Release, ContinueRestore
<1>5. CASE BeginRestore \/ EndRestore
    BY <1>5 DEF BeginRestore, S!BeginRestore, EndRestore, S!EndRestore, S!session, IInv,
        RestoringIsInactive
<1>6. CASE SessionStep
    <2> active
        BY <1>6 DEF SessionStep, S!Resume, S!PauseElapses, S!OnPauseExpired,
            S!OnReleaseGraceExpired, S!SilenceElapses, S!session
    <2> QED BY <1>2, <1>6 DEF SessionStep, slots, drain, lights
<1>7. ASSUME NEW f \in [Lights -> Colours], Frame(f) PROVE OnItsWay(l)'
    <2>1. active /\ UNCHANGED <<drain, lights>>
        BY <1>7 DEF Frame, S!FrameArrives
    <2>2. CASE ~OutputIsOn
        BY <1>2, <1>7, <2>1, <2>2 DEF Frame, drain, lights
    <2>3. CASE OutputIsOn
        <3>1. slot'[l] = Scheduled(f, l) /\ last'[l] = Remembered(f, l)
            BY <1>7, <2>3 DEF Frame
        <3>2. CASE WithinTolerance(f[l], last[l])
            BY <1>2, <2>1, <3>1, <3>2 DEF Scheduled, Remembered, drain, lights
        <3>3. CASE ~WithinTolerance(f[l], last[l])
            BY <3>1, <3>3 DEF Scheduled, Remembered, OnItsWay
        <3> QED BY <3>2, <3>3
    <2> QED BY <2>2, <2>3
<1>8. ASSUME NEW t \in Tasks, DrainStep(t) PROVE OnItsWay(l)'
    <2>1. active
        BY <1>8 DEF DrainStep, Start, Wake, Sent, IdleElapses, Unwind, Continue, session
    <2>2. OnItsWay(l)
        BY <2>1 DEF ColourOnItsWay
    <2>3. CASE Start(t) \/ Wake(t) \/ Sent(t)
        BY <2>2, <2>3, LoopKeepsColour
    <2>4. CASE IdleElapses(t)
        <3>1. /\ task[t].pc = "waiting" /\ task'[t].pc = "waiting"
              /\ \A u \in Tasks : u # t => task'[u] = task[u]
            BY <1>1, <2>4, IdleTask DEF IdleElapses
        <3>2. UNCHANGED <<slots, lights>>
            BY <2>4 DEF IdleElapses
        <3> QED BY <2>2, <3>1, <3>2 DEF OnItsWay, Carries, IsCalled, slots, lights
    <2>5. CASE Unwind(t)
        BY <2>1, <2>5 DEF Unwind, IInv, EndingIsJoined, Ending, RestoringIsInactive
    <2> QED BY <1>8, <2>3, <2>4, <2>5 DEF DrainStep
<1>9. ASSUME NEW k \in Lights, Drop(k) \/ Return(k) PROVE OnItsWay(l)'
    <2>1. active /\ UNCHANGED <<slots, drain>>
        BY <1>9 DEF Drop, Return, session
    <2>2. shown'[l] = shown[l]
        BY <1>1, <1>9 DEF Drop, Return, Steady, LightsOK
    <2> QED BY <1>2, <2>1, <2>2 DEF slots, drain
<1>10. CASE UNCHANGED vars
    BY <1>2, <1>10 DEF vars, session, slots, drain, lights
<1> QED BY <1>4, <1>5, <1>6, <1>7, <1>8, <1>9, <1>10 DEF Next

\* A frame's colour is the one remembered for its light, or is held back.
WantedIsRemembered == \A l \in Lights : wanted[l] = last[l] \/ HeldBack(l)

LEMMA NextWanted == SlotsOK /\ WantedIsRemembered /\ [Next]_vars => WantedIsRemembered'
<1> SUFFICES ASSUME SlotsOK, WantedIsRemembered, [Next]_vars, NEW l \in Lights
             PROVE  wanted'[l] = last'[l] \/ HeldBack(l)'
    BY DEF WantedIsRemembered
<1> USE DEF WantedIsRemembered, HeldBack
<1>1. CASE UNCHANGED <<last, wanted>>
    BY <1>1
<1>2. CASE ResetMappings
    BY <1>2 DEF ResetMappings, ForgetWanted
<1>3. ASSUME NEW f \in [Lights -> Colours], Frame(f), OutputIsOn
      PROVE  wanted'[l] = last'[l] \/ HeldBack(l)'
    <2>1. wanted'[l] = f[l] /\ last'[l] = Remembered(f, l)
        BY <1>3 DEF Frame
    <2> QED BY <2>1 DEF Remembered, WithinTolerance
<1>4. ASSUME NEW k \in Lights, NEW body \in Bodies, LightCommand(k, body)
      PROVE  UNCHANGED <<last, wanted>>
    BY <1>4 DEF LightCommand
<1> QED BY <1>1, <1>2, <1>3, <1>4, SlotSteps DEF slots

\* The colour that the last frame asked of light l is in its slot, in the call to it, or
\* shown with no call that could undo it.
IsUnderWay(l) ==
    \/ slot[l] = {wanted[l]}
    \/ slot[l] = Clean /\ \E t \in Tasks : Carries(t, l, wanted[l])
    \/ slot[l] = Clean /\ shown[l] = wanted[l] /\ ~IsCalled(l)

\* Nothing was asked of light l since the reset, or that is under way; or it is a dark
\* colour with no other before it, which the tolerance check drops.
WantedIsNotLost ==
    active => \A l \in Lights \ Flaky : wanted[l] = NoColour \/ HeldBack(l) \/ IsUnderWay(l)

\* "Lights always get the most recent colour", as far as safety goes and the code keeps it:
\* while a session is active, what the last frame asked of a light that stays available is
\* in its slot, in the call to it, or shown with no call that could undo it, if no
\* classic-mode command replaces it and calls succeed.  The exception is HeldBack: a dark
\* colour that comes first after a reset (run dark_first_frame).  That the colour does not
\* stay in the slot is fairness, and RoundIsFair.
THEOREM LastColourIsNotLost ==
    ASSUME Bodies = {}, ~SendsMayFail PROVE Spec => []WantedIsNotLost
<1> DEFINE Inv == OneTask /\ Steady /\ ColourOnItsWay /\ WantedIsRemembered
<1>1. Init => Inv
    BY DEF Init, S!Init, OneTask, NoJob, Steady, ColourOnItsWay, WantedIsRemembered
<1>2. IInv /\ Inv /\ [Next]_vars => Inv'
    BY NextOneTask, NextSteady, NextColour, NextWanted DEF IInv
<1>3. Inv => WantedIsNotLost
    BY DEF ColourOnItsWay, OnItsWay, WantedIsRemembered, WantedIsNotLost, IsUnderWay
<1> QED BY <1>1, <1>2, <1>3, Invariant, PTL DEF Spec

\* Of a stream that has no dark colours, in XY mode for one, nothing is held back: what
\* the last frame asked is always under way.
THEOREM ExactStreamIsNotLost ==
    ASSUME Bodies = {}, ~SendsMayFail, Dark = {}
    PROVE  Spec => [](active => \A l \in Lights \ Flaky : wanted[l] = NoColour \/ IsUnderWay(l))
<1>1. WantedIsNotLost
        => (active => \A l \in Lights \ Flaky : wanted[l] = NoColour \/ IsUnderWay(l))
    BY DEF WantedIsNotLost, HeldBack
<1>2. Spec => []WantedIsNotLost
    BY LastColourIsNotLost
<1> QED BY <1>1, <1>2, PTL
=============================================================================
