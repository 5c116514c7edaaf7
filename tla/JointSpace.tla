------------------------------ MODULE JointSpace ------------------------------
(***************************************************************************)
(* The JointSpace input on the physical Hue output: the polling of the TV, *)
(* its back-off and inactivity check, and the unload of the entry, around  *)
(* HueOutput.                                                              *)
(*                                                                         *)
(* What a frame shows is the subject of Ambilight.  An unload closes the   *)
(* source, whose polls are the only starts, before the controller.         *)
(***************************************************************************)
EXTENDS Naturals, Sequences

CONSTANT MaxWaiting     \* bounds the calls that wait for the controller's lock

ASSUME MaxWaitingAssumption == MaxWaiting \in Nat \ {0}

VARIABLES
    enabled, active, session, restart, doing, waiting, closing, bridgeUp,   \* HueOutput's
    source,           \* "topology" asked for first, "polling", "backoff", "closed"
    outputActive,     \* PhilipsJointSpaceSource._output_active
    quiet,            \* the inactivity timeout has passed since the last frame
    tv                \* "on", "dark" if it answers without colours, "off"

output == <<enabled, active, session, restart, doing, waiting, closing, bridgeUp>>
vars == <<output, source, outputActive, quiet, tv>>

O == INSTANCE HueOutput

Init ==
    /\ O!Init
    /\ source = "topology"
    /\ outputActive = FALSE
    /\ quiet = FALSE
    /\ tv \in {"on", "dark", "off"}

HasRoom == Len(waiting) < MaxWaiting

\* _async_topology; a failure is tried again after a back-off.
ReadTopology ==
    /\ source = "topology" /\ tv # "off"
    /\ source' = "polling"
    /\ UNCHANGED <<output, outputActive, quiet, tv>>

\* A poll that yields colours.
PollFrame(dropped) ==
    /\ source = "polling" /\ tv = "on"
    /\ HasRoom
    /\ O!Frame(dropped)
    /\ outputActive' = TRUE
    /\ quiet' = FALSE
    /\ UNCHANGED <<source, tv>>

\* A poll without colours goes on with the next one, past the check of inactivity.

PollFails ==
    /\ source = "polling" /\ tv = "off"
    /\ source' = "backoff"
    /\ UNCHANGED <<output, outputActive, quiet, tv>>

\* Erroneous variant: a failed poll, too, goes on past the check.
BackoffEndsUnchecked ==
    /\ source = "backoff"
    /\ source' = "polling"
    /\ UNCHANGED <<output, outputActive, quiet, tv>>

\* After the back-off inactivity is checked: a task stops the output.
BackoffEnds ==
    /\ source = "backoff"
    /\ source' = "polling"
    /\ IF outputActive /\ quiet
       THEN /\ HasRoom
            /\ outputActive' = FALSE
            /\ O!Stop(FALSE)
            /\ UNCHANGED <<enabled, session, restart, bridgeUp>>
       ELSE UNCHANGED <<output, outputActive>>
    /\ UNCHANGED <<quiet, tv>>

TimePasses ==
    /\ ~quiet
    /\ quiet' = TRUE
    /\ UNCHANGED <<output, source, outputActive, tv>>

TvChanges ==
    /\ tv' \in {"on", "dark", "off"} \ {tv}
    /\ UNCHANGED <<output, source, outputActive, quiet>>

\* The light entity, until its platform is unloaded.
Switch ==
    /\ source # "closed"
    /\ (O!Disable /\ HasRoom) \/ O!Enable
    /\ UNCHANGED <<source, outputActive, quiet, tv>>

CloseSource ==
    /\ source # "closed"
    /\ source' = "closed"
    /\ UNCHANGED <<output, outputActive, quiet, tv>>

Ending == doing = "ending" \/ \E i \in DOMAIN waiting : waiting[i] = "end"

CloseOutput ==
    /\ closing = "no" /\ ~Ending
    /\ O!Stop(TRUE)
    /\ UNCHANGED <<enabled, session, restart, bridgeUp, source, outputActive, quiet, tv>>

\* Erroneous variant: the source is left to poll while the controller is closed.
CloseControlFirst == CloseOutput

CloseControl == source = "closed" /\ CloseOutput

input == <<source, outputActive, quiet, tv>>

Acquire == O!Acquire /\ UNCHANGED input
Returns == O!Returns /\ UNCHANGED input
Saved == O!Saved /\ UNCHANGED input
BridgeToggles == O!BridgeToggles /\ UNCHANGED input
StreamBreaks == O!StreamBreaks /\ UNCHANGED input

Next ==
    \/ ReadTopology \/ PollFails \/ BackoffEnds \/ \E dropped \in BOOLEAN : PollFrame(dropped)
    \/ TimePasses \/ TvChanges \/ Switch \/ CloseSource \/ CloseControl
    \/ Acquire \/ Returns \/ Saved \/ BridgeToggles \/ StreamBreaks

\* HueOutput's fairness; the source's loop and an unload go on and time passes; not every
\* frame of a TV that stays on is dropped.
Fairness ==
    /\ WF_vars(Acquire)
    /\ WF_vars(Returns)
    /\ SF_vars(O!Closed /\ UNCHANGED input)
    /\ SF_vars(O!Opened /\ UNCHANGED input)
    /\ WF_vars(ReadTopology) /\ WF_vars(PollFails) /\ WF_vars(BackoffEnds) /\ WF_vars(TimePasses)
    /\ WF_vars(CloseControl)
    /\ SF_vars(PollFrame(FALSE))

Spec == Init /\ [][Next]_vars /\ Fairness

-----------------------------------------------------------------------------
(* Properties *)

\* The type invariant of the output and of the source.
TypeOK ==
    /\ O!TypeOK
    /\ source \in {"topology", "polling", "backoff", "closed"}
    /\ outputActive \in BOOLEAN /\ quiet \in BOOLEAN
    /\ tv \in {"on", "dark", "off"}

\* See HueOutput: nothing is driven while sync is disabled.
DisabledIsStopped == O!DisabledIsStopped

\* A closed entry has no session, and no call is left that could make one.
UnloadedIsClosed ==
    closing = "closed" =>
        session = "none" /\ ~active /\ \A i \in DOMAIN waiting : waiting[i] # "start"

\* A TV that is switched off is noticed by the failing polls, and the stream is stopped
\* whatever starts were under way.
TvOffStopsOutput == <>[](tv = "off") => <>[]~active

\* "Bridge may be offline; next TV start retries": with the TV on and the bridge back, a
\* stream that broke or would not open is replaced by one that works.
Recovers ==
    <>[](tv = "on" /\ bridgeUp /\ enabled /\ source # "closed")
        => <>[](active /\ session = "streaming")

\* "Stop a direct output session when the TV stops yielding valid frames", which a TV
\* that answers without colours does as well.
DarkTvStopsOutput == <>[](tv = "dark") => <>[]~active
=============================================================================
