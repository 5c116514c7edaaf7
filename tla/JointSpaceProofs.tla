--------------------------- MODULE JointSpaceProofs ---------------------------
(***************************************************************************)
(* What TLC checks of JointSpace with at most three waiting calls, proved  *)
(* for any number: nothing is driven while sync is disabled, and a closed  *)
(* entry has no session and no call that could make one.                   *)
(*                                                                         *)
(* What it checks of Ambilight for one TV and five channels, proved for    *)
(* any number of zones, channels and colours and any mappings: every       *)
(* channel shows what was measured where its mapping says.                 *)
(***************************************************************************)
EXTENDS JointSpace, Ambilight, FiniteSetTheorems, WellFoundedInduction, TLAPS

\* Whoever awaits the bridge under the lock has taken the output out of use.
AwaitingIsInactive == doing # "none" => ~active

\* The close waits behind every other call ...
EndIsLast == \A i \in DOMAIN waiting : waiting[i] = "end" => i = Len(waiting)

\* ... and none comes after it, since it begins when the source is closed.
CloseIsFinal ==
    /\ Ending \/ closing # "no" => source = "closed"
    /\ doing = "ending" \/ closing # "no" => waiting = <<>>
    /\ closing # "no" => doing = "none" /\ ~active
    /\ closing = "closed" => session = "none"

\* The inductive invariant.
IInv ==
    /\ TypeOK
    /\ DisabledIsStopped
    /\ AwaitingIsInactive
    /\ EndIsLast
    /\ CloseIsFinal

\* The initial state satisfies the inductive invariant.
LEMMA InitIInv == Init => IInv
<1> SUFFICES ASSUME Init PROVE IInv
    OBVIOUS
<1> USE DEF Init, O!Init
<1>1. TypeOK
    <2>1. waiting \in Seq({"start", "stop", "end"})
        OBVIOUS
    <2> QED BY <2>1 DEF TypeOK, O!TypeOK
<1>2. DisabledIsStopped /\ AwaitingIsInactive /\ EndIsLast /\ CloseIsFinal
    BY DEF DisabledIsStopped, O!DisabledIsStopped, AwaitingIsInactive, EndIsLast, CloseIsFinal,
        Ending
<1> QED BY <1>1, <1>2 DEF IInv

\* What a step of the source does to the output, and when.
LEMMA OutputSteps ==
    [Next]_vars =>
        \/ UNCHANGED output
        \/ /\ source # "closed" /\ UNCHANGED <<enabled, session, restart, bridgeUp>>
           /\ O!Stop(FALSE)
        \/ source # "closed" /\ (O!Disable \/ O!Enable)
        \/ source # "closed" /\ \E dropped \in BOOLEAN : O!Frame(dropped)
        \/ CloseControl
        \/ O!Acquire
        \/ O!Returns
        \/ O!Saved
        \/ O!BridgeToggles \/ O!StreamBreaks
BY DEF Next, vars, ReadTopology, PollFails, BackoffEnds, PollFrame, TimePasses, TvChanges, Switch,
    CloseSource, Acquire, Returns, Saved, BridgeToggles, StreamBreaks

\* A closed source stays closed.
LEMMA ClosedStaysClosed == [Next]_vars /\ source = "closed" => source' = "closed"
BY DEF Next, vars, ReadTopology, PollFails, BackoffEnds, PollFrame, TimePasses, TvChanges, Switch,
    CloseSource, CloseControl, CloseOutput, Acquire, Returns, Saved, BridgeToggles,
    StreamBreaks, input

-----------------------------------------------------------------------------
(* Type correctness *)

\* async_start up to its first await, from the gate or as the lock is handed over.
LEMMA StartLockedTypes ==
    ASSUME O!TypeOK, O!StartLocked
    PROVE  /\ active' \in BOOLEAN
           /\ session' \in {"none", "fresh", "idle", "streaming", "broken", "dead"}
           /\ doing' \in {"none", "closing", "opening", "undoing", "stopping", "ending"}
           /\ doing' \in {"closing", "opening"} => session' # "none" \/ doing' = doing
           /\ session # "none" => session' # "none"
<1> USE DEF O!TypeOK, O!StartLocked
<1>1. CASE ~enabled \/ O!Connected
    BY <1>1
<1>2. CASE ~(~enabled \/ O!Connected) /\ O!BackendConnected
    BY <1>2
<1>3. CASE ~(~enabled \/ O!Connected) /\ ~O!BackendConnected
    BY <1>3 DEF O!Opening
<1> QED BY <1>1, <1>2, <1>3

\* async_stop up to its first await.
LEMMA StopLockedTypes ==
    ASSUME O!TypeOK, NEW last \in BOOLEAN, O!StopLocked(last)
    PROVE  /\ active' = FALSE
           /\ doing' \in {doing, "ending", "stopping"}
           /\ closing' \in {closing, "saving"}
BY DEF O!StopLocked

\* A call that has to wait for the lock is one of the three.
LEMMA AppendTypes ==
    ASSUME O!TypeOK, NEW c \in {"start", "stop", "end"}
    PROVE  Append(waiting, c) \in Seq({"start", "stop", "end"})
BY DEF O!TypeOK

\* A stop leaves the types alone.
LEMMA StopTypes ==
    ASSUME O!TypeOK, NEW last \in BOOLEAN, O!Stop(last)
    PROVE  /\ active' \in BOOLEAN
           /\ doing' \in {doing, "ending", "stopping"}
           /\ closing' \in {closing, "saving"}
           /\ waiting' \in Seq({"start", "stop", "end"})
<1>1. CASE O!LockIsFree /\ O!StopLocked(last) /\ UNCHANGED waiting
    BY <1>1, StopLockedTypes DEF O!TypeOK
<1>2. CASE /\ waiting' = Append(waiting, IF last THEN "end" ELSE "stop")
           /\ UNCHANGED <<active, doing, closing>>
    BY <1>2, AppendTypes DEF O!TypeOK
<1> QED BY <1>1, <1>2 DEF O!Stop

\* So does a start.
LEMMA StartTypes ==
    ASSUME O!TypeOK, O!Start
    PROVE  /\ active' \in BOOLEAN
           /\ session' \in {"none", "fresh", "idle", "streaming", "broken", "dead"}
           /\ doing' \in {"none", "closing", "opening", "undoing", "stopping", "ending"}
           /\ doing' \in {"closing", "opening"} => session' # "none" \/ doing' = doing
           /\ session # "none" => session' # "none"
           /\ waiting' \in Seq({"start", "stop", "end"})
<1>1. CASE UNCHANGED <<active, session, O!lock>>
    BY <1>1 DEF O!TypeOK, O!lock
<1>2. CASE O!StartLocked /\ UNCHANGED waiting
    BY <1>2, StartLockedTypes DEF O!TypeOK
<1>3. CASE waiting' = Append(waiting, "start") /\ UNCHANGED <<active, session, doing>>
    BY <1>3, AppendTypes DEF O!TypeOK
<1> QED BY <1>1, <1>2, <1>3 DEF O!Start

\* The variables of the output stay in their types.
LEMMA NextOutputTypes == IInv /\ [Next]_vars => O!TypeOK'
<1> SUFFICES ASSUME IInv, [Next]_vars PROVE O!TypeOK'
    OBVIOUS
<1>1. O!TypeOK
    BY DEF IInv, TypeOK
<1>2. CASE UNCHANGED output
    BY <1>1, <1>2 DEF output, O!TypeOK
<1>3. CASE O!Stop(FALSE) /\ UNCHANGED <<enabled, session, restart, bridgeUp>>
    BY <1>1, <1>3, StopTypes DEF O!TypeOK
<1>4. CASE O!Disable
    BY <1>1, <1>4, StopTypes DEF O!TypeOK, O!Disable
<1>5. CASE O!Enable
    BY <1>1, <1>5 DEF O!TypeOK, O!Enable, O!lock
<1>6. ASSUME NEW dropped \in BOOLEAN, O!Frame(dropped) PROVE O!TypeOK'
    <2>1. restart' \in BOOLEAN
        BY <1>1, <1>6 DEF O!TypeOK, O!Frame, O!SendFrame
    <2> QED BY <1>1, <1>6, <2>1, StartTypes DEF O!TypeOK, O!Frame
<1>7. CASE CloseControl
    BY <1>1, <1>7, StopTypes DEF O!TypeOK, CloseControl, CloseOutput
<1>8. CASE O!Acquire
    <2>1. waiting' \in Seq({"start", "stop", "end"})
        BY <1>1, <1>8 DEF O!TypeOK, O!Acquire
    <2>2. CASE O!StartLocked /\ UNCHANGED closing
        BY <1>1, <1>8, <2>1, <2>2, StartLockedTypes DEF O!TypeOK, O!Acquire
    <2>3. CASE O!StopLocked(Head(waiting) = "end") /\ UNCHANGED session
        BY <1>1, <1>8, <2>1, <2>3, StopLockedTypes DEF O!TypeOK, O!Acquire
    <2> QED BY <1>8, <2>2, <2>3 DEF O!Acquire
<1>9. CASE O!Returns
    <2> USE <1>1 DEF O!TypeOK
    <2>1. CASE O!Closed
        BY <2>1 DEF O!Closed
    <2>2. CASE O!CloseFails
        BY <2>2 DEF O!CloseFails
    <2>3. CASE O!Opened
        BY <2>3 DEF O!Opened
    <2>4. CASE O!OpenFails
        BY <2>4 DEF O!OpenFails
    <2>5. CASE O!Stopped
        BY <2>5 DEF O!Stopped
    <2>6. CASE O!StopFails
        BY <2>6 DEF O!StopFails
    <2> QED BY <1>9, <2>1, <2>2, <2>3, <2>4, <2>5, <2>6 DEF O!Returns
<1>10. CASE O!Saved
    BY <1>1, <1>10 DEF O!TypeOK, O!Saved, O!lock
<1>11. CASE O!BridgeToggles
    BY <1>1, <1>11 DEF O!TypeOK, O!BridgeToggles, O!lock
<1>12. CASE O!StreamBreaks
    BY <1>1, <1>12 DEF O!TypeOK, O!StreamBreaks, O!lock
<1> QED BY <1>2, <1>3, <1>4, <1>5, <1>6, <1>7, <1>8, <1>9, <1>10, <1>11, <1>12, OutputSteps

\* So do those of the source.
LEMMA NextTypeOK == IInv /\ [Next]_vars => TypeOK'
<1> SUFFICES ASSUME IInv, [Next]_vars PROVE TypeOK'
    OBVIOUS
<1>1. O!TypeOK'
    BY NextOutputTypes
<1>2. /\ source' \in {"topology", "polling", "backoff", "closed"}
      /\ outputActive' \in BOOLEAN /\ quiet' \in BOOLEAN
      /\ tv' \in {"on", "dark", "off"}
    BY DEF IInv, TypeOK, Next, vars, ReadTopology, PollFails, BackoffEnds, PollFrame, TimePasses,
        TvChanges, Switch, CloseSource, CloseControl, CloseOutput, Acquire, Returns, Saved,
        BridgeToggles, StreamBreaks, input
<1> QED BY <1>1, <1>2 DEF TypeOK

-----------------------------------------------------------------------------
(* The order of the calls *)

\* A call other than the close goes to the end of a queue without a close.
LEMMA AppendKeepsNoEnd ==
    ASSUME O!TypeOK, ~Ending, NEW c \in {"start", "stop"}, waiting' = Append(waiting, c)
    PROVE  \A i \in DOMAIN waiting' : waiting'[i] # "end"
<1>1. waiting \in Seq({"start", "stop", "end"})
    BY DEF O!TypeOK
<1>2. \A i \in 1..Len(waiting) : waiting[i] # "end"
    BY <1>1 DEF Ending
<1> QED BY <1>1, <1>2

\* The order is kept by a step after which the close neither waits nor is under way.
LEMMA NoCloseNoOrder ==
    ASSUME doing' # "ending", \A i \in DOMAIN waiting' : waiting'[i] # "end", closing' = "no"
    PROVE  EndIsLast' /\ CloseIsFinal'
BY DEF EndIsLast, CloseIsFinal, Ending

\* While the source is open, the close neither waits nor is under way.
LEMMA OpenHasNoClose ==
    ASSUME IInv, source # "closed"
    PROVE  /\ ~Ending /\ closing = "no" /\ doing # "ending"
           /\ \A i \in DOMAIN waiting : waiting[i] # "end"
BY DEF IInv, CloseIsFinal, Ending

\* A stop of an open source does not begin the close.
LEMMA StopKeepsOrder ==
    ASSUME IInv, source # "closed", O!Stop(FALSE)
    PROVE  EndIsLast' /\ CloseIsFinal'
<1>1. O!TypeOK
    BY DEF IInv, TypeOK
<1>2. CASE O!StopLocked(FALSE) /\ UNCHANGED waiting
    BY <1>2, OpenHasNoClose, NoCloseNoOrder DEF O!StopLocked
<1>3. CASE waiting' = Append(waiting, "stop") /\ UNCHANGED <<active, doing, closing>>
    BY <1>1, <1>3, OpenHasNoClose, AppendKeepsNoEnd, NoCloseNoOrder
<1> QED BY <1>2, <1>3 DEF O!Stop

\* Nor does a start.
LEMMA StartKeepsOrder ==
    ASSUME IInv, source # "closed", O!Start, UNCHANGED closing
    PROVE  EndIsLast' /\ CloseIsFinal'
<1>1. O!TypeOK
    BY DEF IInv, TypeOK
<1>2. CASE UNCHANGED <<active, session, O!lock>>
    BY <1>2, OpenHasNoClose, NoCloseNoOrder DEF O!lock
<1>3. CASE O!StartLocked /\ UNCHANGED waiting
    <2>1. doing' # "ending"
        BY <1>3, OpenHasNoClose DEF O!StartLocked, O!Opening
    <2> QED BY <1>3, <2>1, OpenHasNoClose, NoCloseNoOrder
<1>4. CASE waiting' = Append(waiting, "start") /\ UNCHANGED <<active, session, doing>>
    BY <1>1, <1>4, OpenHasNoClose, AppendKeepsNoEnd, NoCloseNoOrder
<1> QED BY <1>2, <1>3, <1>4 DEF O!Start

\* The close is the last call, whatever the step.
LEMMA NextOrder == IInv /\ [Next]_vars => EndIsLast' /\ CloseIsFinal'
<1> DEFINE Goal == EndIsLast /\ CloseIsFinal
<1> SUFFICES ASSUME IInv, [Next]_vars PROVE Goal'
    OBVIOUS
<1>1. O!TypeOK /\ AwaitingIsInactive /\ EndIsLast /\ CloseIsFinal
    BY DEF IInv, TypeOK
<1>2. CASE UNCHANGED output
    BY <1>1, <1>2, ClosedStaysClosed DEF output, EndIsLast, CloseIsFinal, Ending
<1>3. CASE source # "closed" /\ O!Stop(FALSE)
    BY <1>3, StopKeepsOrder
<1>4. CASE source # "closed" /\ O!Disable
    BY <1>4, StopKeepsOrder DEF O!Disable
<1>5. CASE O!Enable \/ O!BridgeToggles
    BY <1>1, <1>5, ClosedStaysClosed DEF O!Enable, O!BridgeToggles, O!lock, EndIsLast,
        CloseIsFinal, Ending
<1>6. CASE source # "closed" /\ \E dropped \in BOOLEAN : O!Frame(dropped)
    BY <1>6, StartKeepsOrder DEF O!Frame
<1>7. CASE CloseControl
    <2> USE <1>1, <1>7 DEF CloseControl, CloseOutput
    <2>1. CASE O!LockIsFree /\ O!StopLocked(TRUE) /\ UNCHANGED waiting
        BY <2>1 DEF O!LockIsFree, O!StopLocked, EndIsLast, CloseIsFinal, Ending
    <2>2. CASE waiting' = Append(waiting, "end") /\ UNCHANGED <<active, doing, closing>>
        <3>1. waiting \in Seq({"start", "stop", "end"})
            BY DEF O!TypeOK
        <3>2. \A i \in 1..Len(waiting) : waiting[i] # "end"
            BY <3>1 DEF Ending
        <3>3. EndIsLast'
            BY <2>2, <3>1, <3>2 DEF EndIsLast
        <3>4. CloseIsFinal'
            BY <2>2 DEF CloseIsFinal, Ending
        <3> QED BY <3>3, <3>4
    <2> QED BY <2>1, <2>2 DEF O!Stop
<1>8. CASE O!Acquire
    <2> USE <1>8 DEF O!Acquire
    <2>1. waiting \in Seq({"start", "stop", "end"}) /\ waiting # <<>>
        BY <1>1 DEF O!TypeOK
    <2>2. closing = "no" /\ doing = "none"
        BY <1>1, <2>1 DEF CloseIsFinal
    <2>3. \A i \in 1..Len(waiting) : waiting[i] = "end" => i = Len(waiting)
        BY <1>1, <2>1 DEF EndIsLast
    <2>4. EndIsLast'
        BY <2>1, <2>3 DEF EndIsLast
    <2>5. Ending' => source' = "closed"
        <3>1. (\E i \in DOMAIN waiting' : waiting'[i] = "end") => Ending
            BY <2>1 DEF Ending
        <3>2. doing' = "ending" => Ending
            BY <2>1, <2>2 DEF Ending, O!StartLocked, O!Opening, O!StopLocked
        <3> QED BY <1>1, <3>1, <3>2, ClosedStaysClosed DEF Ending, CloseIsFinal
    <2>6. CASE Head(waiting) = "end"
        <3>1. waiting' = <<>>
            BY <2>1, <2>3, <2>6
        <3>2. Ending
            BY <2>1, <2>6 DEF Ending
        <3> QED BY <1>1, <2>2, <2>4, <2>5, <2>6, <3>1, <3>2, ClosedStaysClosed
                DEF CloseIsFinal, O!StopLocked
    <2>7. CASE Head(waiting) # "end"
        <3>1. closing' = "no" /\ doing' # "ending"
            BY <2>2, <2>7 DEF O!StartLocked, O!Opening, O!StopLocked
        <3> QED BY <2>4, <2>5, <3>1 DEF CloseIsFinal
    <2> QED BY <2>6, <2>7
<1>9. CASE O!Returns
    <2>1. doing # "none" /\ closing = "no" /\ ~active /\ UNCHANGED waiting
        BY <1>1, <1>9 DEF O!Returns, O!Closed, O!CloseFails, O!Opened, O!OpenFails, O!Stopped,
            O!StopFails, CloseIsFinal, AwaitingIsInactive
    <2>2. CASE O!Closed \/ O!CloseFails \/ O!Opened \/ O!OpenFails
        BY <1>1, <2>1, <2>2, ClosedStaysClosed DEF O!Closed, O!CloseFails, O!Opened,
            O!OpenFails, EndIsLast, CloseIsFinal, Ending
    <2>3. CASE O!Stopped \/ O!StopFails
        BY <1>1, <2>1, <2>3, ClosedStaysClosed DEF O!Stopped, O!StopFails, EndIsLast,
            CloseIsFinal, Ending
    <2> QED BY <1>9, <2>2, <2>3 DEF O!Returns
<1>10. CASE O!Saved
    BY <1>1, <1>10, ClosedStaysClosed DEF O!Saved, O!lock, EndIsLast, CloseIsFinal, Ending
<1>11. CASE O!StreamBreaks
    BY <1>1, <1>11, ClosedStaysClosed DEF O!StreamBreaks, O!lock, EndIsLast, CloseIsFinal,
        Ending
<1> QED BY <1>2, <1>3, <1>4, <1>5, <1>6, <1>7, <1>8, <1>9, <1>10, <1>11, OutputSteps

-----------------------------------------------------------------------------
(* Sync that is disabled *)

\* A stop takes the output out of use, or will.
LEMMA StopComes ==
    ASSUME O!TypeOK, NEW last \in BOOLEAN, O!Stop(last), UNCHANGED session
    PROVE  /\ (~active' /\ session' # "streaming") \/ O!StopComing'
           /\ ~active' \/ UNCHANGED <<active, doing>>
<1>1. CASE O!LockIsFree /\ O!StopLocked(last) /\ UNCHANGED waiting
    BY <1>1 DEF O!StopLocked, O!StopComing
<1>2. CASE /\ waiting' = Append(waiting, IF last THEN "end" ELSE "stop")
           /\ UNCHANGED <<active, doing, closing>>
    <2>1. waiting \in Seq({"start", "stop", "end"})
        BY DEF O!TypeOK
    <2>2. Len(waiting) + 1 \in DOMAIN waiting' /\ waiting'[Len(waiting) + 1] # "start"
        BY <1>2, <2>1
    <2> QED BY <1>2, <2>2 DEF O!StopComing
<1> QED BY <1>1, <1>2 DEF O!Stop

\* A stop that waits goes on waiting behind a new call.
LEMMA StopStillComes ==
    ASSUME O!TypeOK, NEW c \in {"start", "stop", "end"}, O!StopComing, UNCHANGED doing,
           waiting' = Append(waiting, c)
    PROVE  O!StopComing'
<1>1. waiting \in Seq({"start", "stop", "end"})
    BY DEF O!TypeOK
<1>2. ASSUME NEW i \in DOMAIN waiting, waiting[i] # "start"
      PROVE  i \in DOMAIN waiting' /\ waiting'[i] # "start"
    BY <1>1, <1>2
<1> QED BY <1>2 DEF O!StopComing

\* While sync is disabled a start does nothing, and no other step brings the output into
\* use: whatever the step.
LEMMA NextDisabled == IInv /\ [Next]_vars => DisabledIsStopped' /\ AwaitingIsInactive'
<1> DEFINE Goal == DisabledIsStopped /\ AwaitingIsInactive
<1> SUFFICES ASSUME IInv, [Next]_vars PROVE Goal'
    OBVIOUS
<1>1. O!TypeOK /\ O!DisabledIsStopped /\ AwaitingIsInactive
    BY DEF IInv, TypeOK, DisabledIsStopped
<1> USE DEF DisabledIsStopped, O!DisabledIsStopped, AwaitingIsInactive
<1>2. CASE UNCHANGED output
    BY <1>1, <1>2 DEF output, O!StopComing
<1>3. CASE O!Stop(FALSE) /\ UNCHANGED <<enabled, session, restart, bridgeUp>>
    BY <1>1, <1>3, StopComes
<1>4. CASE O!Disable
    BY <1>1, <1>4, StopComes DEF O!Disable
<1>5. CASE O!Enable
    BY <1>1, <1>5 DEF O!Enable, O!lock
<1>6. ASSUME NEW dropped \in BOOLEAN, O!Frame(dropped) PROVE Goal'
    <2> USE <1>6 DEF O!Frame
    <2>1. CASE UNCHANGED <<active, session, O!lock>>
        BY <1>1, <2>1 DEF O!lock, O!StopComing
    <2>2. CASE enabled /\ O!LockIsFree /\ O!StartLocked
        BY <1>1, <2>2 DEF O!LockIsFree, O!StartLocked, O!Opening
    <2>3. CASE enabled /\ UNCHANGED <<active, session, doing>>
        BY <1>1, <2>3
    <2> QED BY <2>1, <2>2, <2>3 DEF O!Start
<1>7. CASE CloseControl
    BY <1>1, <1>7, StopComes DEF CloseControl, CloseOutput
<1>8. CASE O!Acquire
    <2>1. waiting \in Seq({"start", "stop", "end"}) /\ waiting # <<>> /\ waiting' = Tail(waiting)
        BY <1>1, <1>8 DEF O!TypeOK, O!Acquire
    <2>2. CASE Head(waiting) = "start" /\ O!StartLocked
        <3>1. CASE enabled
            BY <1>1, <1>8, <2>2, <3>1 DEF O!Acquire, O!StartLocked, O!Opening
        <3>2. CASE ~enabled
            <4>1. UNCHANGED <<enabled, active, session, doing>>
                BY <1>8, <2>2, <3>2 DEF O!Acquire, O!StartLocked
            <4>2. ASSUME NEW i \in DOMAIN waiting, waiting[i] # "start"
                  PROVE  i - 1 \in DOMAIN waiting' /\ waiting'[i - 1] # "start"
                BY <2>1, <2>2, <4>2
            <4> QED BY <1>1, <4>1, <4>2 DEF O!StopComing
        <3> QED BY <3>1, <3>2
    <2>3. CASE O!StopLocked(Head(waiting) = "end") /\ UNCHANGED session
        BY <2>3 DEF O!StopLocked, O!StopComing
    <2> QED BY <1>8, <2>2, <2>3 DEF O!Acquire
<1>9. CASE O!Returns
    <2>1. ~active /\ UNCHANGED <<enabled, waiting>>
        BY <1>1, <1>9 DEF O!Returns, O!Closed, O!CloseFails, O!Opened, O!OpenFails, O!Stopped,
            O!StopFails
    <2>2. CASE O!Closed \/ O!CloseFails \/ O!OpenFails
        BY <1>1, <2>1, <2>2 DEF O!Closed, O!CloseFails, O!OpenFails, O!StopComing
    <2>3. CASE O!Opened
        BY <1>1, <2>1, <2>3 DEF O!Opened, O!StopComing
    <2>4. CASE O!Stopped
        BY <1>1, <2>1, <2>4 DEF O!Stopped
    <2>5. CASE O!StopFails
        BY <1>1, <2>1, <2>5 DEF O!StopFails
    <2> QED BY <1>9, <2>2, <2>3, <2>4, <2>5 DEF O!Returns
<1>10. CASE O!Saved
    BY <1>1, <1>10 DEF O!Saved, O!lock, O!StopComing
<1>11. CASE O!BridgeToggles
    BY <1>1, <1>11 DEF O!BridgeToggles, O!lock, O!StopComing
<1>12. CASE O!StreamBreaks
    BY <1>1, <1>12 DEF O!StreamBreaks, O!lock, O!StopComing
<1> QED BY <1>2, <1>3, <1>4, <1>5, <1>6, <1>7, <1>8, <1>9, <1>10, <1>11, <1>12, OutputSteps

-----------------------------------------------------------------------------
(* The theorems *)

\* Together: the inductive invariant holds in every state.
LEMMA Invariance == Spec => []IInv
<1>1. IInv /\ [Next]_vars => IInv'
    BY NextTypeOK, NextOrder, NextDisabled DEF IInv
<1> QED BY InitIInv, <1>1, PTL DEF Spec

\* The variables of the source and of the output have their types, and a start that awaits
\* the bridge has a session to await, however many calls wait.
THEOREM TypeCorrectness == Spec => []TypeOK
<1>1. IInv => TypeOK
    BY DEF IInv
<1> QED BY Invariance, <1>1, PTL

\* With the switch off nothing is driven unless a stop is on its way: a start that awaited
\* the bridge while sync was disabled stops the stream it opened.
THEOREM DisabledStops == Spec => []DisabledIsStopped
<1>1. IInv => DisabledIsStopped
    BY DEF IInv
<1> QED BY Invariance, <1>1, PTL

\* A closed entry has no session and no call that could make one: the close is the last
\* call for the lock, and its source has asked for the last start before.
THEOREM CloseEndsAll == Spec => []UnloadedIsClosed
<1>1. IInv => UnloadedIsClosed
    BY DEF IInv, CloseIsFinal, UnloadedIsClosed
<1> QED BY Invariance, <1>1, PTL

-----------------------------------------------------------------------------
(* Arithmetic *)

\* A set of natural numbers has a least element.
LEMMA LeastNumber ==
    ASSUME NEW T, T \subseteq Nat, T # {}
    PROVE  \E x \in T : \A y \in T : x <= y
<1> DEFINE R == {ss \in Nat \X Nat : ss[1] < ss[2]}
<1>1. IsWellFoundedOn(R, Nat)
  BY NatLessThanWellFounded DEF OpToRel
<1>2. PICK x \in T : \A y \in T : ~ (<<y, x>> \in R)
  BY <1>1, WFMin, Zenon
<1>3. ASSUME NEW y \in T PROVE x <= y
  <2>1. x \in Nat /\ y \in Nat OBVIOUS
  <2>2. ~ (y < x)
    BY <1>2, <2>1
  <2> QED
    BY <2>1, <2>2
<1> QED
  BY <1>3

\* round() is never more than half away.
LEMMA RoundIsNearest ==
    ASSUME NEW a \in Int, NEW b \in Nat \ {0}
    PROVE  /\ Round(a, b) \in Int
           /\ 2 * (b * Round(a, b)) - 2 * a <= b
           /\ 2 * a - 2 * (b * Round(a, b)) <= b
<1> DEFINE q == a \div b
           r == a % b
<1>1. q \in Int /\ r \in 0..(b - 1) /\ a = b * q + r
  OBVIOUS
<1>2. Round(a, b) = IF 2 * r > b \/ (2 * r = b /\ q % 2 = 1) THEN q + 1 ELSE q
  BY DEF Round
<1> HIDE DEF q, r
<1>3. CASE Round(a, b) = q + 1 /\ 2 * r >= b
  <2>1. b * (q + 1) = b * q + b /\ b * q \in Int
    BY <1>1
  <2> QED
    BY <1>1, <1>3, <2>1
<1>4. CASE Round(a, b) = q /\ 2 * r <= b
  <2>1. b * q \in Int
    BY <1>1
  <2> QED
    BY <1>1, <1>4, <2>1
<1> QED
  BY <1>1, <1>2, <1>3, <1>4

\* A whole number is its own.
LEMMA RoundOfWhole ==
    ASSUME NEW a \in Int PROVE Round(a, 1) = a
<1>1. Round(a, 1) \in Int /\ 2 * Round(a, 1) - 2 * a <= 1 /\ 2 * a - 2 * Round(a, 1) <= 1
  BY RoundIsNearest
<1> QED
  BY <1>1

\* _scale_channels keeps a colour in its 16 bits and as near to the share as possible.
THEOREM ScalingIsExact ==
    ASSUME NEW c \in Nat, c <= 65535, NEW n \in 0..4
    PROVE  IsScaled(IF n >= 4 THEN c ELSE Round(c * n, 4), c, n)
<1> DEFINE v == IF n >= 4 THEN c ELSE Round(c * n, 4)
<1>1. CASE n = 4
  BY <1>1 DEF IsScaled, Absolute
<1>2. CASE n \in 0..3
  <2>1. c * n \in Int /\ 0 <= c * n /\ c * n <= 3 * 65535 /\ c * n = n * c
    <3>1. n = 0 \/ n = 1 \/ n = 2 \/ n = 3
      BY <1>2
    <3> QED
      BY <3>1
  <2>2. /\ Round(c * n, 4) \in Int
        /\ 2 * (4 * Round(c * n, 4)) - 2 * (c * n) <= 4
        /\ 2 * (c * n) - 2 * (4 * Round(c * n, 4)) <= 4
    BY <2>1, RoundIsNearest
  <2> DEFINE m == Round(c * n, 4)
             w == n * c
  <2>3. v = m
    BY <1>2
  <2>4. w \in Int /\ 0 <= w /\ w <= 3 * 65535 /\ m \in Int /\ 8 * m - 2 * w <= 4 /\ 2 * w - 8 * m <= 4
    BY <2>1, <2>2
  <2> HIDE DEF v, m, w
  <2>5. 4 * m - w <= 2 /\ w - 4 * m <= 2
    BY <2>4
  <2>6. m \in Nat /\ m <= 65535
    BY <2>4
  <2>7. 4 * v - w \in Int /\ Absolute(4 * v - w) <= 2
    BY <2>3, <2>4, <2>5 DEF Absolute
  <2>8. IsScaled(v, c, n)
    BY <2>3, <2>6, <2>7 DEF IsScaled, w
  <2> QED
    BY <2>8 DEF v
<1> QED
  BY <1>1, <1>2

-----------------------------------------------------------------------------
(* Sums.  The library's induction is over an operator; here it is over a   *)
(* set, by its least number.                                               *)

\* The sums of the subsets of S that are in D.
Sums(p, D, it) ==
    [s \in D |-> IF s = {} THEN 0
                 ELSE LET x == CHOOSE x \in s : TRUE IN p[x] + it[s \ {x}]]

\* The subsets of at most n elements.
UpTo(S, n) == {s \in SUBSET S : Cardinality(s) <= n}

\* An element less.
LEMMA OneLess ==
    ASSUME NEW S, IsFiniteSet(S), NEW s \in SUBSET S, s # {}
    PROVE  LET x == CHOOSE x \in s : TRUE
           IN  /\ x \in s /\ s \ {x} \in SUBSET S
               /\ Cardinality(s) \in Nat /\ Cardinality(s \ {x}) \in Nat
               /\ Cardinality(s) = Cardinality(s \ {x}) + 1
<1> DEFINE x == CHOOSE x \in s : TRUE
<1>1. x \in s
  OBVIOUS
<1> HIDE DEF x
<1>2. IsFiniteSet(s)
  BY FS_Subset
<1>3. IsFiniteSet(s \ {x}) /\ Cardinality(s \ {x}) = Cardinality(s) - 1
  BY <1>1, <1>2, FS_RemoveElement
<1>4. Cardinality(s) \in Nat /\ Cardinality(s \ {x}) \in Nat
  BY <1>2, <1>3, FS_CardinalityType
<1> QED
  BY <1>1, <1>3, <1>4 DEF x

\* There is such a function, for as many elements as one likes.
LEMMA SumsExist ==
    ASSUME NEW S, IsFiniteSet(S), NEW p, NEW n \in Nat
    PROVE  \E it : it = Sums(p, UpTo(S, n), it)
<1> DEFINE T == {k \in Nat : ~ \E it : it = Sums(p, UpTo(S, k), it)}
<1>1. SUFFICES ASSUME T # {} PROVE FALSE
  OBVIOUS
<1>2. T \subseteq Nat
  OBVIOUS
<1>3. PICK m \in T : \A k \in T : m <= k
  <2> HIDE DEF T
  <2> QED
    BY <1>1, <1>2, LeastNumber
<1>4. m # 0
  <2> DEFINE it == [s \in UpTo(S, 0) |-> 0]
  <2>1. \A s \in UpTo(S, 0) : s = {}
    <3>1. ASSUME NEW s \in SUBSET S, Cardinality(s) <= 0 PROVE s = {}
      BY <3>1, FS_Subset, FS_EmptySet, FS_CardinalityType
    <3> QED
      BY <3>1 DEF UpTo
  <2>2. it = Sums(p, UpTo(S, 0), it)
    BY <2>1 DEF Sums
  <2> QED
    BY <2>2
<1>5. m \in Nat /\ m - 1 \in Nat
  BY <1>4
<1>6. m - 1 \notin T
  BY <1>3, <1>5
<1>7. PICK f : f = Sums(p, UpTo(S, m - 1), f)
  BY <1>5, <1>6
<1> DEFINE g == [s \in UpTo(S, m) |->
                   IF s = {} THEN 0
                   ELSE LET x == CHOOSE x \in s : TRUE IN p[x] + f[s \ {x}]]
<1>8. \A s \in UpTo(S, m - 1) : s \in UpTo(S, m) /\ g[s] = f[s]
  <2>1. ASSUME NEW s \in UpTo(S, m - 1) PROVE s \in UpTo(S, m)
    <3>1. s \in SUBSET S /\ Cardinality(s) \in Nat /\ Cardinality(s) <= m - 1
      BY FS_Subset, FS_CardinalityType DEF UpTo
    <3> QED
      BY <1>5, <3>1 DEF UpTo
  <2>2. ASSUME NEW s \in UpTo(S, m - 1)
        PROVE  f[s] = IF s = {} THEN 0
                      ELSE LET x == CHOOSE x \in s : TRUE IN p[x] + f[s \ {x}]
    BY <1>7 DEF Sums
  <2> QED
    BY <2>1, <2>2
<1>9. ASSUME NEW s \in UpTo(S, m)
      PROVE  g[s] = IF s = {} THEN 0
                    ELSE LET x == CHOOSE x \in s : TRUE IN p[x] + g[s \ {x}]
  <2>1. CASE s = {}
    BY <2>1
  <2>2. CASE s # {}
    <3> DEFINE x == CHOOSE x \in s : TRUE
    <3>1. s \in SUBSET S /\ Cardinality(s) <= m
      BY DEF UpTo
    <3>2. /\ s \ {x} \in SUBSET S
          /\ Cardinality(s) \in Nat /\ Cardinality(s \ {x}) \in Nat
          /\ Cardinality(s) = Cardinality(s \ {x}) + 1
      BY <2>2, <3>1, OneLess
    <3>3. s \ {x} \in UpTo(S, m - 1)
      BY <1>5, <3>1, <3>2 DEF UpTo
    <3>4. g[s \ {x}] = f[s \ {x}]
      BY <1>8, <3>3
    <3> QED
      BY <2>2, <3>4
  <2> QED
    BY <2>1, <2>2
<1>10. g = Sums(p, UpTo(S, m), g)
  <2>1. g = [s \in UpTo(S, m) |-> g[s]]
    OBVIOUS
  <2> HIDE DEF g
  <2> QED
    BY <1>9, <2>1 DEF Sums
<1> QED
  BY <1>10

\* What FoldFunctionOnSet computes.
LEMMA TotalIsSum ==
    ASSUME NEW S, IsFiniteSet(S), NEW p
    PROVE  \E it : it = Sums(p, SUBSET S, it) /\ Total(p, S) = it[S]
<1>1. Total(p, S) = (CHOOSE it : it = Sums(p, SUBSET S, it))[S]
  BY DEF Total, Sums, FoldFunctionOnSet, MapThenFoldSet
<1>2. Cardinality(S) \in Nat
  BY FS_CardinalityType
<1>3. UpTo(S, Cardinality(S)) = SUBSET S
  BY FS_Subset DEF UpTo
<1>4. \E it : it = Sums(p, SUBSET S, it)
  BY <1>2, <1>3, SumsExist
<1> QED
  BY <1>1, <1>4

\* The sum of a single colour.
LEMMA TotalOfOne ==
    ASSUME NEW p, NEW z, p[z] \in Int
    PROVE  Total(p, {z}) = p[z]
<1>1. IsFiniteSet({z})
  BY FS_Singleton
<1>2. PICK it : it = Sums(p, SUBSET {z}, it) /\ Total(p, {z}) = it[{z}]
  BY <1>1, TotalIsSum
<1>3. it[{}] = 0
  BY <1>2 DEF Sums
<1>4. (CHOOSE x \in {z} : TRUE) = z
  OBVIOUS
<1>5. it[{z}] = LET x == CHOOSE x \in {z} : TRUE IN p[x] + it[{z} \ {x}]
  BY <1>2 DEF Sums
<1>6. {z} \ {z} = {}
  OBVIOUS
<1>7. it[{z}] = p[z] + it[{}]
  BY <1>4, <1>5, <1>6
<1> QED
  BY <1>2, <1>3, <1>7

\* The sum of n colours is at most n times the brightest.
LEMMA TotalIsBounded ==
    ASSUME NEW S, IsFiniteSet(S), NEW p, \A z \in S : p[z] \in 0..255
    PROVE  Total(p, S) \in Int /\ 0 <= Total(p, S) /\ Total(p, S) <= 255 * Cardinality(S)
<1>1. PICK it : it = Sums(p, SUBSET S, it) /\ Total(p, S) = it[S]
  BY TotalIsSum
<1> DEFINE Bounded(s) == it[s] \in Int /\ 0 <= it[s] /\ it[s] <= 255 * Cardinality(s)
           T == {k \in Nat : \E s \in SUBSET S : Cardinality(s) = k /\ ~ Bounded(s)}
<1>2. SUFFICES ASSUME T # {} PROVE FALSE
  <2>1. Cardinality(S) \in Nat
    BY FS_CardinalityType
  <2> QED
    BY <1>1, <2>1
<1>3. T \subseteq Nat
  OBVIOUS
<1>4. PICK m \in T : \A k \in T : m <= k
  <2> HIDE DEF T
  <2> QED
    BY <1>2, <1>3, LeastNumber
<1>5. PICK s \in SUBSET S : Cardinality(s) = m /\ ~ Bounded(s)
  OBVIOUS
<1>6. CASE s = {}
  <2>1. it[s] = 0
    BY <1>1, <1>6 DEF Sums
  <2>2. Cardinality(s) = 0
    BY <1>6, FS_EmptySet
  <2> QED
    BY <1>5, <2>1, <2>2
<1>7. CASE s # {}
  <2> DEFINE x == CHOOSE x \in s : TRUE
  <2>1. it[s] = p[x] + it[s \ {x}]
    BY <1>1, <1>7 DEF Sums
  <2>2. /\ x \in s /\ s \ {x} \in SUBSET S
        /\ Cardinality(s) \in Nat /\ Cardinality(s \ {x}) \in Nat
        /\ Cardinality(s) = Cardinality(s \ {x}) + 1
    BY <1>7, OneLess
  <2> HIDE DEF x
  <2>3. Cardinality(s \ {x}) \notin T
    <3>1. ~ (m <= Cardinality(s \ {x}))
      BY <1>5, <2>2
    <3> HIDE DEF T
    <3> QED
      BY <1>4, <3>1
  <2> DEFINE c == Cardinality(s \ {x})
             rest == it[s \ {x}]
  <2>4. rest \in Int /\ 0 <= rest /\ rest <= 255 * c
    BY <2>2, <2>3
  <2>5. p[x] \in 0..255 /\ c \in Nat /\ Cardinality(s) = c + 1
    BY <2>2
  <2> HIDE DEF c, rest
  <2>6. it[s] = p[x] + rest
    BY <2>1 DEF rest
  <2> QED
    BY <1>5, <2>4, <2>5, <2>6
<1> QED
  BY <1>6, <1>7

\* The colours of measured zones.
IsPoints(p) ==
    /\ IsFiniteSet(DOMAIN p)
    /\ \A z \in DOMAIN p : z \in Edges \X Nat /\ z[2] < Topology[z[1]] /\ p[z] \in 0..255

\* An average of colours is a colour, and within half of the exact one.
LEMMA AverageIsNearest ==
    ASSUME NEW p, IsPoints(p), NEW S, S \subseteq DOMAIN p, S # {}
    PROVE  /\ Average(p, S) \in 0..255
           /\ 2 * Absolute(Average(p, S) * Cardinality(S) - Total(p, S)) <= Cardinality(S)
<1> DEFINE t == Total(p, S)
           b == Cardinality(S)
           a == Average(p, S)
<1>1. IsFiniteSet(S)
  BY FS_Subset DEF IsPoints
<1>2. b \in Nat /\ b # 0
  BY <1>1, FS_CardinalityType, FS_EmptySet
<1>3. t \in Int /\ 0 <= t /\ t <= 255 * b
  BY <1>1, TotalIsBounded DEF IsPoints
<1>4. a = Round(t, b)
  BY DEF Average
<1> HIDE DEF a, b, t
<1>5. a \in Int /\ 2 * (b * a) - 2 * t <= b /\ 2 * t - 2 * (b * a) <= b
  BY <1>2, <1>3, <1>4, RoundIsNearest
<1>6. a >= 0
  <2>1. ASSUME a <= -1 PROVE FALSE
    <3>1. b * a <= b * (-1)
      BY <1>2, <1>5, <2>1
    <3> QED
      BY <1>2, <1>3, <1>5, <3>1
  <2> QED
    BY <1>5, <2>1
<1>7. a <= 255
  <2>1. ASSUME a >= 256 PROVE FALSE
    <3>1. b * a >= b * 256
      BY <1>2, <1>5, <2>1
    <3> QED
      BY <1>2, <1>3, <1>5, <3>1
  <2> QED
    BY <1>5, <2>1
<1>8. a * b = b * a /\ b * a \in Int
  BY <1>2, <1>5
<1>9. 2 * Absolute(a * b - t) <= b
  BY <1>2, <1>3, <1>5, <1>8 DEF Absolute
<1> QED
  BY <1>5, <1>6, <1>7, <1>9 DEF a, b, t

\* The average of one zone is its colour.
LEMMA AverageOfOne ==
    ASSUME NEW p, NEW z, p[z] \in 0..255
    PROVE  Average(p, {z}) = p[z]
<1>1. Total(p, {z}) = p[z]
  BY TotalOfOne
<1>2. Cardinality({z}) = 1
  BY FS_Singleton
<1> QED
  BY <1>1, <1>2, RoundOfWhole DEF Average

-----------------------------------------------------------------------------
(* Where a zone is *)

IsZone(z) == z \in Edges \X Nat /\ z[2] < Topology[z[1]]

\* On an edge of one zone it is at the end, on others as many equal steps from there as
\* its height, twice the unit being the whole.
LEMMA CoordinateOfHeight ==
    ASSUME NEW e \in Edges
    PROVE  \E k \in Nat \ {0} :
             /\ Topology[e] > 1 => k * (Topology[e] - 1) = 2 * Unit
             /\ \A z : IsZone(z) /\ z[1] = e =>
                  /\ Height(z) \in 0..(Topology[e] - 1)
                  /\ Coordinate(z[1], z[2]) = k * Height(z) - Unit
<1> DEFINE n == Topology[e]
<1>1. n \in Nat /\ Unit \in Nat \ {0} /\ (n > 1 => (2 * Unit) % (n - 1) = 0)
  BY AmbilightAssumption
<1>2. ASSUME NEW z, IsZone(z), z[1] = e
      PROVE  /\ Height(z) \in 0..(n - 1)
             /\ Coordinate(z[1], z[2]) = ((2 * Unit * Height(z)) \div Largest(n - 1, 1)) - Unit
  <2>1. z[2] \in 0..(n - 1)
    BY <1>1, <1>2 DEF IsZone
  <2>2. Height(z) \in 0..(n - 1)
    BY <1>1, <1>2, <2>1 DEF Height
  <2>3. Coordinate(z[1], z[2]) = ((2 * Unit * Height(z)) \div Largest(n - 1, 1)) - Unit
    BY <1>2 DEF Coordinate, Height
  <2> QED
    BY <2>2, <2>3
<1>3. CASE n <= 1
  <2>1. ASSUME NEW z, IsZone(z), z[1] = e
        PROVE  Height(z) \in 0..(n - 1) /\ Coordinate(z[1], z[2]) = 1 * Height(z) - Unit
    <3>1. Height(z) = 0 /\ Largest(n - 1, 1) = 1
      BY <1>1, <1>2, <1>3, <2>1 DEF Largest
    <3>2. 2 * Unit * Height(z) = 0
      BY <1>1, <3>1
    <3> QED
      BY <1>1, <1>2, <2>1, <3>1, <3>2
  <2> QED
    BY <1>1, <1>3, <2>1
<1>4. CASE n > 1
  <2> DEFINE k == (2 * Unit) \div (n - 1)
  <2>1. k \in Int /\ k * (n - 1) = 2 * Unit
    BY <1>1, <1>4
  <2> HIDE DEF k
  <2>2. k \in Nat \ {0}
    <3>1. ASSUME k <= 0 PROVE FALSE
      <4>1. k * (n - 1) <= 0
        BY <1>1, <1>4, <2>1, <3>1
      <4> QED
        BY <1>1, <2>1, <4>1
    <3> QED
      BY <2>1, <3>1
  <2>3. ASSUME NEW z, IsZone(z), z[1] = e
        PROVE  Height(z) \in 0..(n - 1) /\ Coordinate(z[1], z[2]) = k * Height(z) - Unit
    <3> DEFINE h == Height(z)
    <3>1. h \in 0..(n - 1) /\ Largest(n - 1, 1) = n - 1
      BY <1>1, <1>2, <1>4, <2>3 DEF Largest
    <3> HIDE DEF h
    <3>2. 2 * Unit * h = (k * h) * (n - 1) /\ k * h \in Int
      BY <1>1, <1>4, <2>1, <2>2, <3>1
    <3>3. ((k * h) * (n - 1)) \div (n - 1) = k * h
      BY <1>1, <1>4, <3>2
    <3> QED
      BY <1>2, <2>3, <3>1, <3>2, <3>3 DEF h
  <2> QED
    BY <1>4, <2>1, <2>2, <2>3
<1> QED
  BY <1>1, <1>3, <1>4

\* The reference and the code put a zone at the same place.
LEMMA PlaceIsPosition ==
    ASSUME NEW z, IsZone(z)
    PROVE  /\ Place(z)[1] \in Int /\ Place(z)[2] \in Int
           /\ ZonePosition(z)[1] = Place(z)[1]
           /\ ZonePosition(z)[2] = Place(z)[2]
           /\ ZonePosition(z)[3] = 0
<1> DEFINE e == z[1]
           n == Topology[e]
           step == (2 * Unit) \div Largest(n - 1, 1)
           along == Height(z) * step - Unit
<1>1. e \in Edges /\ n \in Nat /\ Unit \in Nat \ {0}
  BY AmbilightAssumption DEF IsZone
<1>2. PICK k \in Nat \ {0} :
        /\ n > 1 => k * (n - 1) = 2 * Unit
        /\ Height(z) \in 0..(n - 1)
        /\ Coordinate(z[1], z[2]) = k * Height(z) - Unit
  BY <1>1, CoordinateOfHeight
<1>3. along = Coordinate(z[1], z[2]) /\ along \in Int
  <2>1. CASE n > 1
    <3>1. Largest(n - 1, 1) = n - 1 /\ k * (n - 1) = 2 * Unit
      BY <1>1, <1>2, <2>1 DEF Largest
    <3>2. (k * (n - 1)) \div (n - 1) = k
      BY <1>1, <1>2, <2>1
    <3>3. step = k
      BY <3>1, <3>2
    <3> QED
      BY <1>1, <1>2, <3>3
  <2>2. CASE n <= 1
    <3>1. Height(z) = 0 /\ Largest(n - 1, 1) = 1
      BY <1>1, <1>2, <2>2 DEF Largest
    <3>2. step \in Int
      BY <1>1, <3>1
    <3> QED
      BY <1>1, <1>2, <3>1, <3>2
  <2> QED
    BY <1>1, <2>1, <2>2
<1>4. Place(z) = CASE z[1] = "left" -> <<-Unit, along>>
                   [] z[1] = "right" -> <<Unit, along>>
                   [] z[1] = "top" -> <<along, Unit>>
                   [] z[1] = "bottom" -> <<along, -Unit>>
  BY DEF Place
<1> HIDE DEF along
<1> QED
  BY <1>1, <1>3, <1>4 DEF ZonePosition, Edges

\* What is nearest by squared distance in space is so by the gap in the plane.
LEMMA NearestIsNearest ==
    ASSUME NEW Z, \A y \in Z : IsZone(y), NEW c \in Channels, NEW z \in Z,
           \A y \in Z : SquareDistance(ZonePosition(z), Position[c])
                           <= SquareDistance(ZonePosition(y), Position[c])
    PROVE  IsNearest(z, Z, Position[c])
<1> DEFINE p == Position[c]
           d == (0 - p[3]) * (0 - p[3])
<1>1. p[1] \in Int /\ p[2] \in Int /\ p[3] \in Int
  BY AmbilightAssumption
<1>2. d \in Int
  BY <1>1
<1>3. ASSUME NEW y \in Z
      PROVE  SquareDistance(ZonePosition(y), p) = Gap(y, p) + d /\ Gap(y, p) \in Int
  <2>1. /\ Place(y)[1] \in Int /\ Place(y)[2] \in Int
        /\ ZonePosition(y)[1] = Place(y)[1]
        /\ ZonePosition(y)[2] = Place(y)[2]
        /\ ZonePosition(y)[3] = 0
    BY PlaceIsPosition
  <2>2. Gap(y, p) \in Int
    BY <1>1, <2>1 DEF Gap
  <2> QED
    BY <2>1, <2>2 DEF SquareDistance, Gap
<1> HIDE DEF p, d
<1>4. ASSUME NEW y \in Z PROVE Gap(z, p) <= Gap(y, p)
  <2>1. SquareDistance(ZonePosition(z), p) <= SquareDistance(ZonePosition(y), p)
    BY DEF p
  <2> QED
    BY <1>2, <1>3, <2>1
<1> QED
  BY <1>4 DEF IsNearest, p

-----------------------------------------------------------------------------
(* Which zone a mapping selects *)

OnEdge(Z, e) == {z \in Z : z[1] = e}

At(z) == Coordinate(z[1], z[2])

Off(z, target) == Absolute(At(z) - target)

Near(S, target) == {z \in S : \A y \in S : Off(z, target) <= Off(y, target)}

Lowest(S) == {z \in S : \A y \in S : At(z) <= At(y)}

SideMappings ==
    {"left_top", "left_middle", "left_bottom", "right_top", "right_middle", "right_bottom"}

\* The edge and the height of each segment.
LEMMA SegmentsAre ==
    /\ DOMAIN Segments = SideMappings
    /\ \A m \in SideMappings :
         /\ Segments[m][1] \in {"left", "right"}
         /\ m \in {"left_top", "right_top"} => Segments[m][2] = Unit
         /\ m \in {"left_bottom", "right_bottom"} => Segments[m][2] = -Unit
         /\ m \in {"left_middle", "right_middle"} => Segments[m][2] = 0
<1>1. DOMAIN Segments = SideMappings
  BY DEF Segments, SideMappings
<1>2. /\ Segments["left_top"] = <<"left", Unit>> /\ Segments["left_middle"] = <<"left", 0>>
      /\ Segments["left_bottom"] = <<"left", -Unit>>
  BY DEF Segments
<1>3. /\ Segments["right_top"] = <<"right", Unit>> /\ Segments["right_middle"] = <<"right", 0>>
      /\ Segments["right_bottom"] = <<"right", -Unit>>
  BY DEF Segments
<1> QED
  BY <1>1, <1>2, <1>3 DEF SideMappings

\* All of the top or of the bottom is selected, if anything of it was measured.
LEMMA SelectionsOfEdge ==
    ASSUME NEW Z, NEW m \in {"top", "bottom"}, m \notin DOMAIN Segments
    PROVE  Selections(Z, m) = {OnEdge(Z, m)} \ {{}}
  BY DEF Selections, OnEdge

\* Of a side, the lowest of the zones that are nearest to the segment.
LEMMA SelectionsOfSide ==
    ASSUME NEW Z, NEW m \in SideMappings
    PROVE  Selections(Z, m) =
             {{z} : z \in Lowest(Near(OnEdge(Z, Segments[m][1]), Segments[m][2]))}
<1>1. m \notin {"top", "bottom"} /\ m \in DOMAIN Segments
  BY SegmentsAre DEF SideMappings
<1> QED
  BY <1>1 DEF Selections, Nearest, Lowest, Near, Off, At, OnEdge

\* The least value of a function that is bounded from below.
LEMMA LeastValue ==
    ASSUME NEW S, S # {}, NEW d \in [S -> Int], NEW b \in Int, \A z \in S : b <= d[z]
    PROVE  \E z \in S : \A y \in S : d[z] <= d[y]
<1> DEFINE T == {d[z] - b : z \in S}
<1>1. T \subseteq Nat /\ T # {}
  OBVIOUS
<1>2. PICK x \in T : \A y \in T : x <= y
  <2> HIDE DEF T
  <2> QED
    BY <1>1, LeastNumber
<1>3. PICK z \in S : x = d[z] - b
  OBVIOUS
<1>4. ASSUME NEW y \in S PROVE d[z] <= d[y]
  <2>1. x <= d[y] - b
    BY <1>2
  <2>2. d[y] \in Int /\ d[z] \in Int
    OBVIOUS
  <2> QED
    BY <1>3, <2>1, <2>2
<1> QED
  BY <1>4

\* A zone is somewhere, and not below the end of its edge.
LEMMA AtIsBounded ==
    ASSUME NEW z, IsZone(z)
    PROVE  At(z) \in Int /\ At(z) >= -Unit
<1>1. z[1] \in Edges
  BY DEF IsZone
<1>2. PICK k \in Nat \ {0} : Height(z) \in 0..(Topology[z[1]] - 1) /\ At(z) = k * Height(z) - Unit
  BY <1>1, CoordinateOfHeight DEF At
<1>3. Topology[z[1]] \in Nat /\ Unit \in Nat
  BY <1>1, AmbilightAssumption
<1>4. Height(z) \in Nat
  BY <1>2, <1>3
<1>5. k * Height(z) \in Nat
  BY <1>4
<1> QED
  BY <1>2, <1>3, <1>5

\* An edge with a measured zone has a selected one.
LEMMA SomeIsSelected ==
    ASSUME NEW S, S # {}, \A z \in S : IsZone(z), NEW target \in Int
    PROVE  Lowest(Near(S, target)) # {}
<1>1. \A z \in S : At(z) \in Int /\ At(z) >= -Unit
  BY AtIsBounded
<1>2. \A z \in S : Off(z, target) \in Int /\ 0 <= Off(z, target)
  BY <1>1 DEF Off, Absolute
<1>3. Near(S, target) # {}
  <2> DEFINE d == [z \in S |-> Off(z, target)]
  <2>1. d \in [S -> Int] /\ \A z \in S : 0 <= d[z]
    BY <1>2
  <2>2. PICK z \in S : \A y \in S : d[z] <= d[y]
    <3> HIDE DEF d
    <3> QED
      BY <2>1, LeastValue
  <2> QED
    BY <2>2 DEF Near
<1> DEFINE N == Near(S, target)
<1>4. N \subseteq S /\ N # {}
  BY <1>3 DEF Near
<1> HIDE DEF N
<1>5. Lowest(N) # {}
  <2> DEFINE d == [z \in N |-> At(z)]
  <2>1. d \in [N -> Int] /\ \A z \in N : -Unit <= d[z]
    BY <1>1, <1>4
  <2>2. -Unit \in Int
    BY AmbilightAssumption
  <2>3. PICK z \in N : \A y \in N : d[z] <= d[y]
    <3> HIDE DEF d
    <3> QED
      BY <1>4, <2>1, <2>2, LeastValue
  <2> QED
    BY <2>3 DEF Lowest
<1> QED
  BY <1>5 DEF N

\* Multiplying by a positive number keeps the order.
LEMMA Cancel ==
    ASSUME NEW k \in Nat \ {0}, NEW a \in Int, NEW b \in Int, k * a <= k * b
    PROVE  a <= b
<1>1. ASSUME b < a PROVE FALSE
  <2>1. k * (a - b) >= k * 1
    BY <1>1
  <2>2. k * (a - b) = k * a - k * b
    OBVIOUS
  <2>3. k * a \in Int /\ k * b \in Int
    OBVIOUS
  <2> QED
    BY <2>1, <2>2, <2>3
<1> QED
  BY <1>1

\* How far a zone is from the middle of its edge, in half zones.
Skew(z) == Absolute(2 * Height(z) - (Topology[z[1]] - 1))

\* Being nearest by coordinate, which is what the code compares, is being highest, lowest or
\* in the middle by number.
LEMMA NearestByHeight ==
    ASSUME NEW e \in Edges, NEW z, IsZone(z), z[1] = e, NEW y, IsZone(y), y[1] = e
    PROVE  /\ Off(z, Unit) <= Off(y, Unit) => Height(y) <= Height(z)
           /\ Off(z, -Unit) <= Off(y, -Unit) => Height(z) <= Height(y)
           /\ Off(z, 0) <= Off(y, 0) => Skew(z) <= Skew(y)
<1> DEFINE n == Topology[e]
           h == Height(z)
           g == Height(y)
<1>1. PICK k \in Nat \ {0} :
        /\ n > 1 => k * (n - 1) = 2 * Unit
        /\ h \in 0..(n - 1) /\ At(z) = k * h - Unit
        /\ g \in 0..(n - 1) /\ At(y) = k * g - Unit
  BY CoordinateOfHeight DEF At
<1>2. n \in Nat /\ Unit \in Nat \ {0}
  BY AmbilightAssumption
<1>3. Skew(z) = Absolute(2 * h - (n - 1)) /\ Skew(y) = Absolute(2 * g - (n - 1))
  BY DEF Skew
<1> HIDE DEF n, h, g
<1>4. CASE n <= 1
  <2>1. h = 0 /\ g = 0
    BY <1>1, <1>2, <1>4
  <2> QED
    BY <1>2, <1>3, <2>1 DEF h, g, Absolute
<1>5. CASE n > 1
  <2>1. k * h \in Int /\ k * g \in Int /\ 0 <= k * h /\ 0 <= k * g
    BY <1>1, <1>2
  <2>2. k * h <= 2 * Unit /\ k * g <= 2 * Unit
    <3>1. ASSUME NEW i \in 0..(n - 1) PROVE k * i <= k * (n - 1)
      BY <1>2, <3>1
    <3> QED
      BY <1>1, <1>5, <3>1
  <2>3. Off(z, Unit) = 2 * Unit - k * h /\ Off(y, Unit) = 2 * Unit - k * g
    BY <1>1, <1>2, <2>1, <2>2 DEF Off, Absolute
  <2>4. Off(z, -Unit) = k * h /\ Off(y, -Unit) = k * g
    BY <1>1, <1>2, <2>1 DEF Off, Absolute
  <2>5. h \in Int /\ g \in Int
    BY <1>1, <1>2
  <2>6. ASSUME Off(z, Unit) <= Off(y, Unit) PROVE g <= h
    <3>1. k * g <= k * h
      BY <1>2, <2>1, <2>3, <2>6
    <3> QED
      BY <2>5, <3>1, Cancel
  <2>7. ASSUME Off(z, -Unit) <= Off(y, -Unit) PROVE h <= g
    BY <2>4, <2>5, <2>7, Cancel
  <2>8. ASSUME NEW i \in 0..(n - 1)
        PROVE  2 * Absolute(k * i - Unit) = k * Absolute(2 * i - (n - 1))
    <3> DEFINE j == 2 * i - (n - 1)
    <3>1. j \in Int /\ i \in Int
      BY <1>2
    <3>2. k * j = 2 * (k * i) - 2 * Unit /\ k * i \in Int
      BY <1>1, <1>2, <1>5, <3>1
    <3> HIDE DEF j
    <3>3. CASE j < 0
      <4>1. k * (-j) = -(k * j) /\ k * j < 0
        BY <3>1, <3>3
      <4>2. k * i - Unit < 0
        BY <1>2, <3>2, <4>1
      <4>3. 2 * (-(k * i - Unit)) = k * (-j)
        BY <1>2, <3>2, <4>1
      <4> QED
        BY <3>3, <4>2, <4>3 DEF j, Absolute
    <3>4. CASE j >= 0
      <4>1. k * j >= 0
        BY <3>1, <3>4
      <4>2. ~ (k * i - Unit < 0) /\ ~ (j < 0)
        BY <1>2, <3>1, <3>2, <3>4, <4>1
      <4>3. 2 * (k * i - Unit) = k * j
        BY <1>2, <3>2
      <4> QED
        BY <4>2, <4>3 DEF j, Absolute
    <3> QED
      BY <3>1, <3>3, <3>4
  <2>9. ASSUME Off(z, 0) <= Off(y, 0) PROVE Skew(z) <= Skew(y)
    <3>1. Off(z, 0) = Absolute(k * h - Unit) /\ Off(y, 0) = Absolute(k * g - Unit)
      BY <1>1, <1>2, <2>1 DEF Off
    <3>2. 2 * Off(z, 0) = k * Skew(z) /\ 2 * Off(y, 0) = k * Skew(y)
      BY <1>1, <1>3, <2>8, <3>1
    <3>3. Skew(z) \in Int /\ Skew(y) \in Int
      BY <1>2, <1>3, <2>5 DEF Absolute
    <3>4. Off(z, 0) \in Int /\ Off(y, 0) \in Int
      BY <1>2, <2>1, <3>1 DEF Absolute
    <3>5. k * Skew(z) <= k * Skew(y)
      BY <2>9, <3>2, <3>4
    <3> QED
      BY <3>3, <3>5, Cancel
  <2> QED
    BY <2>6, <2>7, <2>9 DEF h, g
<1> QED
  BY <1>2, <1>4, <1>5

\* Every zone selected for a segment of an edge may stand for it.
LEMMA SelectedStandFor ==
    ASSUME NEW p, IsPoints(p), NEW m \in SideMappings,
           NEW z \in Lowest(Near(OnEdge(DOMAIN p, Segments[m][1]), Segments[m][2]))
    PROVE  z \in OnEdge(DOMAIN p, Segments[m][1]) /\ StandsFor(z, DOMAIN p, m)
<1> DEFINE e == Segments[m][1]
           S == OnEdge(DOMAIN p, e)
           target == Segments[m][2]
<1>1. z \in S /\ \A y \in S : Off(z, target) <= Off(y, target)
  BY DEF Lowest, Near
<1>2. e \in Edges /\ \A y \in S : IsZone(y) /\ y[1] = e
  BY SegmentsAre DEF Edges, OnEdge, IsPoints, IsZone
<1>3. z[1] = e /\ S = {y \in DOMAIN p : y[1] = z[1]}
  BY <1>1 DEF OnEdge
<1> HIDE DEF S
<1>4. \A y \in S : /\ Off(z, Unit) <= Off(y, Unit) => Height(y) <= Height(z)
                   /\ Off(z, -Unit) <= Off(y, -Unit) => Height(z) <= Height(y)
                   /\ Off(z, 0) <= Off(y, 0) => Skew(z) <= Skew(y)
  BY <1>1, <1>2, NearestByHeight
<1>5. CASE m \in {"left_top", "right_top"}
  <2>1. target = Unit
    BY <1>5, SegmentsAre
  <2>2. \A y \in S : Height(y) <= Height(z)
    BY <1>1, <1>4, <2>1
  <2> QED
    BY <1>1, <1>3, <1>5, <2>2 DEF StandsFor, S
<1>6. CASE m \in {"left_bottom", "right_bottom"}
  <2>1. target = -Unit
    BY <1>6, SegmentsAre
  <2>2. \A y \in S : Height(z) <= Height(y)
    BY <1>1, <1>4, <2>1
  <2>3. \A y \in S : Height(y) >= Height(z)
    <3>1. ASSUME NEW y \in S PROVE Height(y) \in Int /\ Height(z) \in Int
      BY <1>1, <1>2, CoordinateOfHeight
    <3> QED
      BY <2>2, <3>1
  <2> QED
    BY <1>1, <1>3, <1>6, <2>3 DEF StandsFor, S
<1>7. CASE m \in {"left_middle", "right_middle"}
  <2>1. target = 0
    BY <1>7, SegmentsAre
  <2>2. \A y \in S : Skew(z) <= Skew(y)
    BY <1>1, <1>4, <2>1
  <2>3. \A y \in S : Skew(y) >= Skew(z)
    <3>1. ASSUME NEW y \in S PROVE Height(y) \in Int /\ Topology[y[1]] \in Int
      BY <1>2, CoordinateOfHeight, AmbilightAssumption
    <3>2. \A y \in S : Skew(y) \in Int
      BY <3>1 DEF Skew, Absolute
    <3> QED
      BY <1>1, <2>2, <3>2
  <2> QED
    BY <1>1, <1>3, <1>7, <2>3 DEF StandsFor, S, Skew
<1> QED
  BY <1>5, <1>6, <1>7 DEF SideMappings

-----------------------------------------------------------------------------
(* What a channel shows *)

\* A colour's own value, at the intensity.
Share(v, n) == IF n >= 4 THEN v ELSE Round(v * n, 4)

\* A colour of a channel, 257 times that of the TV, is scaled as it should be.
LEMMA ShareIsScaled ==
    ASSUME NEW a \in 0..255, NEW n \in 0..4
    PROVE  IsScaled(Share(257 * a, n), 257 * a, n)
<1>1. 257 * a \in Nat /\ 257 * a <= 65535
  OBVIOUS
<1> QED
  BY <1>1, ScalingIsExact DEF Share

\* A mapping that selects nothing leaves the nearest zone.
LEMMA NothingSelected ==
    ASSUME NEW p, IsPoints(p), NEW c \in Channels, NEW n \in 0..4,
           Selections(DOMAIN p, Mapping[c]) = {}, NEW v \in ChannelColours(p, c)
    PROVE  \E z \in DOMAIN p : /\ IsNearest(z, DOMAIN p, Position[c])
                              /\ IsScaled(Share(v, n), 257 * p[z], n)
<1>1. PICK z \in DOMAIN p :
        /\ v = 257 * Average(p, {z})
        /\ \A y \in DOMAIN p : SquareDistance(ZonePosition(z), Position[c])
                                 <= SquareDistance(ZonePosition(y), Position[c])
  BY DEF ChannelColours, Nearest
<1>2. p[z] \in 0..255 /\ \A y \in DOMAIN p : IsZone(y)
  BY DEF IsPoints, IsZone
<1>3. IsNearest(z, DOMAIN p, Position[c])
  BY <1>1, <1>2, NearestIsNearest
<1> QED
  BY <1>1, <1>2, <1>3, AverageOfOne, ShareIsScaled

\* A mapping that selects zones leaves one of the averages it selects.
LEMMA SomethingSelected ==
    ASSUME NEW p, NEW c \in Channels,
           Selections(DOMAIN p, Mapping[c]) # {}, NEW v \in ChannelColours(p, c)
    PROVE  \E s \in Selections(DOMAIN p, Mapping[c]) : v = 257 * Average(p, s)
  BY DEF ChannelColours

\* When nothing is measured where the mapping says, the nearest zone is shown, ...
LEMMA ShowsNearest ==
    ASSUME NEW v, NEW c, NEW n, NEW p, NEW e,
           e = IF Mapping[c] \in DOMAIN Segments THEN Segments[Mapping[c]][1] ELSE Mapping[c],
           OnEdge(DOMAIN p, e) = {},
           \E z \in DOMAIN p : IsNearest(z, DOMAIN p, Position[c]) /\ IsScaled(v, 257 * p[z], n)
    PROVE  Shows(v, c, n, p)
<1>1. {z \in DOMAIN p : z[1] = e} = {}
  BY DEF OnEdge
<1> QED
  BY <1>1, Zenon DEF Shows

\* ... the average of a whole edge, ...
LEMMA ShowsEdge ==
    ASSUME NEW v, NEW c, NEW n, NEW p, Mapping[c] \notin DOMAIN Segments,
           NEW S, S = OnEdge(DOMAIN p, Mapping[c]), S # {}, NEW a \in 0..255,
           2 * Absolute(a * Cardinality(S) - Total(p, S)) <= Cardinality(S),
           IsScaled(v, 257 * a, n)
    PROVE  Shows(v, c, n, p)
<1>1. S = {z \in DOMAIN p : z[1] = Mapping[c]}
  BY DEF OnEdge
<1> QED
  BY <1>1 DEF Shows

\* ... and a zone that stands for its segment.
LEMMA ShowsSegment ==
    ASSUME NEW v, NEW c, NEW n, NEW p, Mapping[c] \in DOMAIN Segments,
           NEW e, e = Segments[Mapping[c]][1], e # Mapping[c],
           NEW S, S = OnEdge(DOMAIN p, e), NEW z \in S,
           StandsFor(z, DOMAIN p, Mapping[c]),
           IsScaled(v, 257 * p[z], n)
    PROVE  Shows(v, c, n, p)
<1>1. S = {x \in DOMAIN p : x[1] = e}
  BY DEF OnEdge
<1> QED
  BY <1>1 DEF Shows

\* Whatever the mapping, a channel shows what it should.
LEMMA ColoursAreShown ==
    ASSUME NEW p, IsPoints(p), NEW c \in Channels, NEW n \in 0..4,
           NEW v \in ChannelColours(p, c)
    PROVE  Shows(Share(v, n), c, n, p)
<1> DEFINE m == Mapping[c]
           w == Share(v, n)
<1>1. m \in {"auto", "top", "bottom"} \cup SideMappings
  BY AmbilightAssumption DEF TV_RELATIVE_POSITIONS, SideMappings
<1>2. CASE m \in {"top", "bottom"}
  <2> DEFINE S == OnEdge(DOMAIN p, m)
  <2>1. m \notin DOMAIN Segments
    BY <1>2, SegmentsAre DEF SideMappings
  <2>2. Selections(DOMAIN p, m) = {S} \ {{}}
    BY <1>2, <2>1, SelectionsOfEdge
  <2>3. CASE S = {}
    <3>1. \E z \in DOMAIN p : IsNearest(z, DOMAIN p, Position[c]) /\ IsScaled(w, 257 * p[z], n)
      BY <2>2, <2>3, NothingSelected
    <3> QED
      BY <2>1, <2>3, <3>1, ShowsNearest
  <2>4. CASE S # {}
    <3>1. v = 257 * Average(p, S)
      BY <2>2, <2>4, SomethingSelected
    <3>2. S \subseteq DOMAIN p
      BY DEF OnEdge
    <3> DEFINE a == Average(p, S)
    <3>3. a \in 0..255 /\ 2 * Absolute(a * Cardinality(S) - Total(p, S)) <= Cardinality(S)
      <4> HIDE DEF S
      <4> QED
        BY <2>4, <3>2, AverageIsNearest
    <3>4. IsScaled(w, 257 * a, n)
      BY <3>1, <3>3, ShareIsScaled
    <3> HIDE DEF a
    <3> QED
      BY <2>1, <2>4, <3>3, <3>4, ShowsEdge
  <2> QED
    BY <2>3, <2>4
<1>3. CASE m \in SideMappings
  <2> DEFINE e == Segments[m][1]
             S == OnEdge(DOMAIN p, e)
             L == Lowest(Near(S, Segments[m][2]))
  <2>1. m \in DOMAIN Segments /\ m # e
    BY <1>3, SegmentsAre DEF SideMappings
  <2>2. Selections(DOMAIN p, m) = {{z} : z \in L}
    BY <1>3, SelectionsOfSide
  <2>3. CASE S = {}
    <3>1. L = {}
      BY <2>3 DEF Lowest, Near
    <3>2. \E z \in DOMAIN p : IsNearest(z, DOMAIN p, Position[c]) /\ IsScaled(w, 257 * p[z], n)
      BY <2>2, <3>1, NothingSelected
    <3> QED
      BY <2>1, <2>3, <3>2, ShowsNearest
  <2>4. CASE S # {}
    <3>1. L # {}
      <4>1. \A z \in S : IsZone(z)
        BY DEF OnEdge, IsPoints, IsZone
      <4>2. Segments[m][2] \in Int
        BY <1>3, SegmentsAre, AmbilightAssumption DEF SideMappings
      <4> HIDE DEF S
      <4> QED
        BY <2>4, <4>1, <4>2, SomeIsSelected
    <3>2. PICK z \in L : v = 257 * Average(p, {z})
      <4> HIDE DEF L
      <4>1. PICK s \in Selections(DOMAIN p, m) : v = 257 * Average(p, s)
        <5>1. PICK z \in L : TRUE
          BY <3>1
        <5>2. {z} \in Selections(DOMAIN p, m)
          BY <2>2
        <5> QED
          BY <5>2, SomethingSelected
      <4>2. PICK z \in L : s = {z}
        BY <2>2
      <4> QED
        BY <4>1, <4>2
    <3>3. z \in S /\ StandsFor(z, DOMAIN p, m)
      BY <1>3, SelectedStandFor
    <3>4. p[z] \in 0..255
      BY <3>3 DEF OnEdge, IsPoints
    <3>5. IsScaled(w, 257 * p[z], n)
      BY <3>2, <3>4, AverageOfOne, ShareIsScaled
    <3> HIDE DEF L
    <3> QED
      BY <2>1, <3>3, <3>5, ShowsSegment
  <2> QED
    BY <2>3, <2>4
<1>4. CASE m = "auto"
  <2>1. m \notin DOMAIN Segments
    BY <1>4, SegmentsAre DEF SideMappings
  <2>2. OnEdge(DOMAIN p, m) = {}
    BY <1>4 DEF IsPoints, Edges, OnEdge
  <2>3. Selections(DOMAIN p, m) = {}
    BY <1>4, <2>1 DEF Selections
  <2>4. \E z \in DOMAIN p : IsNearest(z, DOMAIN p, Position[c]) /\ IsScaled(w, 257 * p[z], n)
    BY <2>3, NothingSelected
  <2> QED
    BY <2>1, <2>2, <2>4, ShowsNearest
<1> QED
  BY <1>1, <1>2, <1>3, <1>4

-----------------------------------------------------------------------------
(* The theorem *)

\* What the TV may have reported, and the intensity's quarters.
MeasuredInv ==
    /\ DOMAIN measured \subseteq Zones
    /\ measured = [z \in DOMAIN measured |-> measured[z]]
    /\ \A z \in DOMAIN measured : measured[z] \in Int
    /\ intensity \in 0..4

\* measured_points keeps what lies on the edges, as colours.
LEMMA MeasuredIsPoints == MeasuredInv => IsPoints(Measured(measured))
<1> SUFFICES ASSUME MeasuredInv PROVE IsPoints(Measured(measured))
  OBVIOUS
<1> DEFINE p == Measured(measured)
<1>1. DOMAIN p = {z \in DOMAIN measured : z[2] \in 0..Topology[z[1]] - 1}
  BY DEF Measured
<1>2. IsFiniteSet(DOMAIN p)
  <2>1. DOMAIN p \subseteq Zones
    BY <1>1 DEF MeasuredInv
  <2> HIDE DEF p
  <2> QED
    BY <2>1, FS_Subset, AmbilightAssumption
<1>3. ASSUME NEW z \in DOMAIN p
      PROVE  z \in Edges \X Nat /\ z[2] < Topology[z[1]] /\ p[z] \in 0..255
  <2>1. z \in Edges \X Nat /\ measured[z] \in Int /\ z[2] \in 0..Topology[z[1]] - 1
    BY <1>1, AmbilightAssumption DEF MeasuredInv
  <2>2. Topology[z[1]] \in Nat
    BY <2>1, AmbilightAssumption
  <2>3. p[z] = Largest(0, Smallest(255, measured[z]))
    BY <1>1 DEF Measured
  <2>4. p[z] \in 0..255
    BY <2>1, <2>3 DEF Largest, Smallest
  <2> QED
    BY <2>1, <2>2, <2>4
<1> QED
  BY <1>2, <1>3 DEF IsPoints

\* map_points_to_channels and _scale_channels: whatever zones the TV has and leaves out,
\* whichever end their edges count from, and however many channels are mapped to them, each
\* channel shows what was measured where its mapping says, scaled by the intensity.
THEOREM FramesShowTheirZones == AmbilightSpec => []ChannelsShowTheirZones
<1>1. AmbilightInit => MeasuredInv
  BY DEF AmbilightInit, MeasuredInv
<1>2. MeasuredInv /\ [AmbilightNext]_ambilight => MeasuredInv'
  <2> SUFFICES ASSUME MeasuredInv, [AmbilightNext]_ambilight PROVE MeasuredInv'
    OBVIOUS
  <2>1. CASE SetIntensity
    BY <2>1 DEF SetIntensity, MeasuredInv
  <2>2. ASSUME NEW z \in Zones, ZoneChanges(z) PROVE MeasuredInv'
    BY <2>2, AmbilightAssumption DEF ZoneChanges, MeasuredInv
  <2>3. CASE UNCHANGED ambilight
    BY <2>3 DEF ambilight, MeasuredInv
  <2> QED
    BY <2>1, <2>2, <2>3 DEF AmbilightNext
<1>3. MeasuredInv => ChannelsShowTheirZones
  <2> SUFFICES ASSUME MeasuredInv, NEW f \in FramesOf(measured), NEW c \in Channels
               PROVE  Shows(Scaled(f, intensity)[c], c, intensity, Measured(measured))
    BY DEF ChannelsShowTheirZones
  <2> DEFINE p == Measured(measured)
  <2>1. IsPoints(p) /\ intensity \in 0..4
    BY MeasuredIsPoints DEF MeasuredInv
  <2>2. DOMAIN f = Channels /\ f[c] \in ChannelColours(p, c)
    BY DEF FramesOf
  <2>3. Scaled(f, intensity)[c] = Share(f[c], intensity)
    BY <2>2 DEF Scaled, Share
  <2> HIDE DEF p
  <2>4. Shows(Share(f[c], intensity), c, intensity, p)
    BY <2>1, <2>2, ColoursAreShown
  <2> QED
    BY <2>3, <2>4 DEF p
<1> QED
  BY <1>1, <1>2, <1>3, PTL DEF AmbilightSpec
=============================================================================
