------------------------------- MODULE Engine -------------------------------
(***************************************************************************)
(* EntertainmentEngine in full: the session and its services (module       *)
(* EngineSession) with the per-light slots that frames and classic-mode    *)
(* commands fill and the drain loop empties, one light.* call at a time.   *)
(*                                                                         *)
(* A task of the drain loop runs from one await to the next in one step.   *)
(* Its awaits are the blocking service call ("sending") and the wait for   *)
(* new work ("waiting"), which times out after CLASSIC_DRAIN_IDLE, so that *)
(* a waiting task can always go on.                                        *)
(***************************************************************************)
EXTENDS Naturals

CONSTANTS
    Scenes, NoScene,     \* see EngineSession
    NLights,             \* the mapped lights are 1 .. NLights, in mapping order
    Colours, NoColour,   \* stream colours, far enough apart to pass the tolerance
    Dark,                \* the colours within the tolerance of "none yet", which is
                         \* stored as -1: black in an RGB stream, none in an XY one
    Bodies,              \* the v1 bodies the TV sends, as sets of attributes
    Tasks, NoTask,       \* identities for drain tasks; bounds how many live at once
    Flaky,               \* the lights that may become unavailable
    SendsMayFail         \* whether a service call may raise

ASSUME EngineAssumption ==
    /\ NLights \in Nat \ {0}
    /\ NoTask \notin Tasks
    /\ NoColour \notin Colours
    /\ Dark \subseteq Colours
    /\ Flaky \subseteq 1 .. NLights

VARIABLES
    active, saved, silent,                                  \* EngineSession's
    releasing, forcing, graceTimer, pausedUntil, pauseTimer,
    restore, target, scene,
    slot,                \* pending_data and dirty: the attributes queued, {} if clean
    explicit,            \* explicit_transition
    last,                \* last_r/g/b: the last colour that passed the tolerance check
    wanted,              \* history: the last colour a frame brought since the reset
    drainTask,           \* _drain_task, NoTask when None or done
    drainRunning,        \* _drain_running
    task,                \* every drain task there is, _drain_task or not
    available,           \* external: the lights not reported unavailable
    shown                \* external: the stream colour a light shows, or NoColour

S == INSTANCE EngineSession

session == <<active, saved, silent, releasing, forcing, graceTimer,
             pausedUntil, pauseTimer, restore, target, scene>>
slots == <<slot, explicit, last, wanted>>
drain == <<drainTask, drainRunning, task>>
lights == <<available, shown>>
vars == <<session, slots, drain, lights>>

Lights == 1 .. NLights
Clean == {}                               \* the content of a slot that is not dirty

NoJob == [pc |-> "none", light |-> 0, payload |-> Clean, idle |-> "unset"]

Init ==
    /\ S!Init
    /\ slot = [l \in Lights |-> Clean]
    /\ explicit = [l \in Lights |-> FALSE]
    /\ last = [l \in Lights |-> NoColour]
    /\ wanted = [l \in Lights |-> NoColour]
    /\ drainTask = NoTask
    /\ drainRunning = FALSE
    /\ task = [t \in Tasks |-> NoJob]
    /\ available = Lights
    /\ shown = [l \in Lights |-> NoColour]

Live(t) == task[t].pc \in {"new", "waiting", "sending"}

\* Nothing was asked of any light yet; no guard reads this.
ForgetWanted == wanted' = [l \in Lights |-> NoColour]

\* Erroneous variants: only the tolerance is reset; only the slots are.
ResetToleranceOnly == last' = [l \in Lights |-> NoColour] /\ ForgetWanted /\ UNCHANGED slot
ResetSlotsOnly == slot' = [l \in Lights |-> Clean] /\ ForgetWanted /\ UNCHANGED last

ResetMappings ==
    /\ slot' = [l \in Lights |-> Clean]
    /\ last' = [l \in Lights |-> NoColour]
    /\ ForgetWanted

\* A new task is created, but does not run yet; no effect if the flag says one runs.
EnsureDrainTask ==
    IF drainRunning THEN UNCHANGED drain ELSE
        \E t \in Tasks :
            /\ task[t].pc = "none"
            /\ task' = [task EXCEPT ![t].pc = "new"]
            /\ drainTask' = t
            /\ drainRunning' = TRUE

-----------------------------------------------------------------------------
(* Sessions and services: what they do to the slots and the drain task *)

Snapshot ==
    /\ S!Snapshot
    /\ ResetMappings
    /\ EnsureDrainTask
    /\ UNCHANGED <<explicit, lights>>

\* The drain task is cancelled; one that never ran yet will never run its finally.
BeginRestore ==
    /\ drainTask # NoTask
    /\ S!BeginRestore
    /\ task' = [task EXCEPT ![drainTask].pc = IF @ = "new" THEN "unborn" ELSE "cancelled"]
    /\ UNCHANGED <<slots, drainTask, drainRunning, lights>>

\* Erroneous variant: the flag is left to the finally of the drain loop.
ContinueRestoreTrustingFinally(t) ==
    /\ task[t].pc = "done"
    /\ S!ContinueRestore
    /\ ResetMappings
    /\ task' = [task EXCEPT ![t] = NoJob]
    /\ drainTask' = NoTask
    /\ UNCHANGED <<drainRunning, explicit, lights>>

\* The awaited task is done; the flag, the reference and the slots are reset.
ContinueRestore(t) ==
    /\ task[t].pc = "done"
    /\ S!ContinueRestore
    /\ ResetMappings
    /\ task' = [task EXCEPT ![t] = NoJob]
    /\ drainTask' = NoTask
    /\ drainRunning' = FALSE
    /\ UNCHANGED <<explicit, lights>>

EndRestore ==
    /\ S!EndRestore
    /\ shown' = [l \in Lights |-> NoColour]
    /\ UNCHANGED <<slots, drain, available>>

Pause == S!Pause /\ ResetMappings /\ UNCHANGED <<explicit, drain, lights>>
Release == S!Release /\ ResetMappings /\ UNCHANGED <<explicit, drain, lights>>

\* What else happens to the session leaves slots and tasks alone.
SessionStep ==
    /\ \/ S!Resume \/ S!PauseElapses \/ S!OnPauseExpired
       \/ S!OnReleaseGraceExpired \/ S!SilenceElapses
    /\ UNCHANGED <<slots, drain, lights>>

-----------------------------------------------------------------------------
(* Input *)

\* The tolerance check against what is stored as the last colour; -1, which stands
\* for none, takes part in it like a component of a colour.
WithinTolerance(c, stored) == c = stored \/ (stored = NoColour /\ c \in Dark)

\* A frame's colour that is not within the tolerance replaces what is in the slot.
Scheduled(f, l) == IF WithinTolerance(f[l], last[l]) THEN slot[l] ELSE {f[l]}
Remembered(f, l) == IF WithinTolerance(f[l], last[l]) THEN last[l] ELSE f[l]

\* Erroneous variant: the gate does not ask for a suppression.
OutputIsOnUnasked == active

\* The gate of the controller; EngineSession's and the controller's sessions agree.
OutputIsOn == active /\ ~S!Suppressed

\* A frame, one colour per light.  Behind the gate only its arrival counts.
Frame(f) ==
    /\ S!FrameArrives
    /\ IF OutputIsOn
       THEN /\ slot' = [l \in Lights |-> Scheduled(f, l)]
            /\ last' = [l \in Lights |-> Remembered(f, l)]
            /\ wanted' = f
       ELSE UNCHANGED <<slot, last, wanted>>
    /\ UNCHANGED <<explicit, drain, lights>>

\* What is queued for a classic-mode light, if it can be merged with.
Pending(l) == IF explicit[l] THEN slot[l] ELSE Clean

\* Erroneous variant: colour tweaks are merged into a queued "off".
MergedIgnoringOff(l, body) == IF "off" \in body THEN {"off"} ELSE Pending(l) \cup body

\* Successive bodies accumulate; an "off" drops what was queued before it, and an
\* explicit "on" drops a queued "off".
Merged(l, body) ==
    IF "off" \in body THEN {"off"}
    ELSE IF "off" \in Pending(l) THEN body ELSE Pending(l) \cup body

\* handle_light_command: dropped while suppressed.  Tweaks of a light that is being
\* turned off are dropped too, and start no drain task.
LightCommand(l, body) ==
    /\ ~S!Suppressed
    /\ "off" \in Pending(l) => body \cap {"on", "off"} # {}
    /\ slot' = [slot EXCEPT ![l] = Merged(l, body)]
    /\ explicit' = [explicit EXCEPT ![l] = TRUE]
    /\ EnsureDrainTask
    /\ UNCHANGED <<session, last, wanted, lights>>

-----------------------------------------------------------------------------
(* The drain loop *)

\* How many lights the round-robin passes between light i and light l.
Distance(i, l) == (l + NLights - i - 1) % NLights

Dirty == {l \in Lights : slot[l] # Clean}

\* The slots of the lights in ls are taken.
Take(ls) ==
    /\ slot' = [l \in Lights |-> IF l \in ls THEN Clean ELSE slot[l]]
    /\ explicit' = [l \in Lights |-> IF l \in ls THEN FALSE ELSE explicit[l]]

\* The first light after i, in turn, that has a command and is available.
IsNext(i, l) ==
    /\ l \in Dirty \cap available
    /\ \A m \in Dirty \cap available : Distance(i, l) <= Distance(i, m)

\* Erroneous variant: the place in the round is one too far.
SendNextOffByOne(t, i) ==
    \E l \in Lights :
        /\ IsNext(i, l)
        /\ Take({l} \cup {m \in Dirty : Distance(i, m) < Distance(i, l)})
        /\ task' = [task EXCEPT ![t] =
                 [pc |-> "sending", light |-> l + 1, payload |-> slot[l], idle |-> "unset"]]
        /\ UNCHANGED <<drainTask, drainRunning>>

\* Erroneous variant: after each call the round starts over.
SendNextFromStart(t, i) ==
    \E l \in Lights :
        /\ IsNext(0, l)
        /\ Take({l} \cup {m \in Dirty : Distance(0, m) < Distance(0, l)})
        /\ task' = [task EXCEPT ![t] =
                 [pc |-> "sending", light |-> l, payload |-> slot[l], idle |-> "unset"]]
        /\ UNCHANGED <<drainTask, drainRunning>>

\* Task t takes the next command and awaits the service call; what is queued for
\* the unavailable lights it passes on the way is dropped.
SendNext(t, i) ==
    \E l \in Lights :
        /\ IsNext(i, l)
        /\ Take({l} \cup {m \in Dirty : Distance(i, m) < Distance(i, l)})
        /\ task' = [task EXCEPT ![t] =
                      [pc |-> "sending", light |-> l, payload |-> slot[l], idle |-> "unset"]]
        /\ UNCHANGED <<drainTask, drainRunning>>

\* The flag is cleared in the finally of the loop, whichever task runs it.
Exit(t) ==
    /\ task' = [task EXCEPT ![t] = NoJob]
    /\ drainTask' = IF drainTask = t THEN NoTask ELSE drainTask
    /\ drainRunning' = FALSE

\* Erroneous variant: an idle loop ends in mid-session too.
RestExitingAnyway(t, idle) ==
    /\ Dirty \cap available = {}
    /\ Take(Dirty)
    /\ IF idle = "over"
       THEN Exit(t)
       ELSE /\ task' = [task EXCEPT ![t] =
                 [pc |-> "waiting", light |-> 0, payload |-> Clean, idle |-> "since"]]
            /\ UNCHANGED <<drainTask, drainRunning>>

\* Nothing can be sent: wait for work, or end when classic mode was idle for a while.
Rest(t, idle) ==
    /\ Dirty \cap available = {}
    /\ Take(Dirty)
    /\ IF ~active /\ idle = "over"
       THEN Exit(t)
       ELSE /\ task' = [task EXCEPT ![t] =
                 [pc |-> "waiting", light |-> 0, payload |-> Clean,
                  idle |-> IF active \/ idle # "unset" THEN idle ELSE "since"]]
            /\ UNCHANGED <<drainTask, drainRunning>>

\* One step of the loop, from its place in the round to its next await.
Continue(t, i, idle) ==
    /\ SendNext(t, i) \/ Rest(t, idle)
    /\ UNCHANGED <<session, last, wanted, available>>

\* The first step of a new task.
Start(t) == task[t].pc = "new" /\ Continue(t, 0, "unset") /\ UNCHANGED shown

\* A waiting task is woken, or its wait times out.
Wake(t) == task[t].pc = "waiting" /\ Continue(t, 0, task[t].idle) /\ UNCHANGED shown

\* What the light of job j shows once the call succeeded.  Home Assistant rejects a
\* call that mixes an rgb_color with the attributes of a classic-mode command.
Look(j) ==
    LET colours == j.payload \cap Colours
    IN  CASE colours = {} -> NoColour
          [] colours # {} /\ j.payload \subseteq Colours -> CHOOSE c \in Colours : c \in colours
          [] OTHER -> shown[j.light]

\* The service call returns, or raises and is logged; the round goes on.
Sent(t) ==
    /\ task[t].pc = "sending"
    /\ \/ shown' = [shown EXCEPT ![task[t].light] = Look(task[t])]
       \/ SendsMayFail /\ UNCHANGED shown
    /\ Continue(t, task[t].light, "unset")

\* More than CLASSIC_DRAIN_IDLE has passed since the loop found nothing to do.
IdleElapses(t) ==
    /\ task[t].pc = "waiting"
    /\ task[t].idle = "since"
    /\ task' = [task EXCEPT ![t].idle = "over"]
    /\ UNCHANGED <<session, slots, drainTask, drainRunning, lights>>

\* A cancelled task unwinds through its finally, unless its body never started; a
\* call it was waiting for may have reached the light.
Unwind(t) ==
    /\ task[t].pc \in {"cancelled", "unborn"}
    /\ task' = [task EXCEPT ![t] = [NoJob EXCEPT !.pc = "done"]]
    /\ drainRunning' = (drainRunning /\ task[t].pc = "unborn")
    /\ \/ task[t].light # 0 /\ shown' = [shown EXCEPT ![task[t].light] = Look(task[t])]
       \/ UNCHANGED shown
    /\ UNCHANGED <<session, slots, drainTask, available>>

-----------------------------------------------------------------------------

\* A light becomes unavailable to Home Assistant, or returns with a look of its own.
Drop(l) ==
    /\ l \in Flaky \cap available
    /\ available' = available \ {l}
    /\ UNCHANGED <<session, slots, drain, shown>>

Return(l) ==
    /\ l \notin available
    /\ available' = available \cup {l}
    /\ shown' = [shown EXCEPT ![l] = NoColour]
    /\ UNCHANGED <<session, slots, drain>>

DrainStep(t) == Start(t) \/ Wake(t) \/ Sent(t) \/ IdleElapses(t) \/ Unwind(t)

Next ==
    \/ Snapshot \/ BeginRestore \/ EndRestore \/ Pause \/ Release \/ SessionStep
    \/ \E f \in [Lights -> Colours] : Frame(f)
    \/ \E l \in Lights, body \in Bodies : LightCommand(l, body)
    \/ \E t \in Tasks : ContinueRestore(t) \/ DrainStep(t)
    \/ \E l \in Lights : Drop(l) \/ Return(l)

\* Every task of the loop gets its turn, and Home Assistant's calls return.
Fairness ==
    /\ \A t \in Tasks :
        /\ WF_vars(Start(t))
        /\ WF_vars(Wake(t))
        /\ WF_vars(Sent(t))
        /\ WF_vars(IdleElapses(t))
        /\ WF_vars(Unwind(t))
        /\ WF_vars(ContinueRestore(t))
    /\ WF_vars(EndRestore)

Spec == Init /\ [][Next]_vars /\ Fairness

-----------------------------------------------------------------------------
(* Properties *)

Payloads == SUBSET (Colours \cup UNION Bodies)

\* The type invariant of the slots, the tasks and the lights.
TypeOK ==
    /\ S!TypeOK
    /\ slot \in [Lights -> Payloads]
    /\ explicit \in [Lights -> BOOLEAN]
    /\ last \in [Lights -> Colours \cup {NoColour}]
    /\ wanted \in [Lights -> Colours \cup {NoColour}]
    /\ drainTask \in Tasks \cup {NoTask}
    /\ drainRunning \in BOOLEAN
    /\ task \in [Tasks ->
        [pc : {"none", "new", "waiting", "sending", "cancelled", "unborn", "done"},
         light : 0 .. NLights, payload : Payloads, idle : {"unset", "since", "over"}]]
    /\ available \subseteq Lights
    /\ shown \in [Lights -> Colours \cup {NoColour}]

\* A paused or released light gets no new command, whatever was queued, arrives or
\* is in progress: only a call already being awaited may still reach it.
SuppressedSendsNothing ==
    [][\A t \in Tasks : S!Suppressed /\ task'[t].pc = "sending" => task'[t] = task[t]]_vars

\* What makes it so: under a suppression no slot is dirty, and the colour before it is
\* forgotten, so that the tolerance check does not drop the same colour after it.
SuppressedIsFlushed ==
    S!Suppressed => \A l \in Lights : slot[l] = Clean /\ last[l] = NoColour

\* A queued command has a task that will look at it, or a restore that will drop it:
\* the flag never keeps a needed task from being created.
NothingStranded == Dirty # {} => restore = "joining" \/ \E t \in Tasks : Live(t)

\* As long as a session is active its drain task lives and is the one a restore
\* will cancel; frames rely on it, they start none.
SessionHasDrain == active => drainRunning /\ drainTask # NoTask /\ Live(drainTask)

\* The sensor does not report "classic" forever: the flag is never left set by a task
\* that is gone.
FlagHasTask ==
    drainRunning => /\ drainTask # NoTask
                    /\ Live(drainTask) \/ restore = "joining"

\* Round-robin: no light starves behind one that is re-dirtied by every frame.
NoStarvation == \A l \in Lights : slot[l] # Clean ~> slot[l] = Clean

\* A queued "off" stands alone: light.turn_off rejects the attributes of other
\* commands, so one merged with them would leave the light on.
OffStandsAlone == \A l \in Lights : "off" \in slot[l] => slot[l] = {"off"}

\* A dark colour that nothing but dark colours preceded since the reset: the check
\* takes it for the colour that is stored.
HeldBack(l) == wanted[l] \in Dark /\ last[l] = NoColour

\* A running session's light that stays available, is never again suppressed, and is
\* asked for c by the last frame that brings it another colour.
StaysWanted(l, c) == active /\ ~S!Suppressed /\ l \in available /\ wanted[l] = c

\* A colour that stays the last one a session asks of a light is reached, a dark one
\* at its beginning or right after a suppression excepted.
RecentColourIsShown ==
    \A l \in Lights, c \in Colours :
        <>[](StaysWanted(l, c) /\ ~HeldBack(l)) => <>[](shown[l] = c)

\* "Lights always get the most recent colour", and of what a session starts with,
\* "always a big change": no colour is excepted.
MostRecentColour ==
    \A l \in Lights, c \in Colours : <>[]StaysWanted(l, c) => <>[](shown[l] = c)

\* "One Zigbee command at a time": there is one drain loop, at most.
OneCommandAtATime ==
    \A t, u \in Tasks : task[t].pc = "sending" /\ task[u].pc = "sending" => t = u

\* A classic-mode command is merged with classic-mode commands only ("a stream-mode
\* slot: start fresh"), never with the colour of a frame.
ModesNotMixed == \A l \in Lights : slot[l] \cap Colours # {} => slot[l] \subseteq Colours
=============================================================================
