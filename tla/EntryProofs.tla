------------------------------ MODULE EntryProofs ------------------------------
(***************************************************************************)
(* What TLC checks of Entry with the code's time-outs, proved for any: the *)
(* thread never meets a freed context, and an entry that is not loaded     *)
(* serves nothing.  Both rest on how short a join is.                      *)
(***************************************************************************)
EXTENDS Entry, TLAPS

\* A thread that lives has its context, whether it uses it yet or not.
ThreadHasContext == D!Alive => ctx

\* A thread past its bind has a socket, which async_stop then closes.
ThreadHasSocket == thread \in {"check", "listen", "handshake", "read"} => sock # "none"

\* A thread that is joined ends within the blocking call it is in, which lasts less than
\* two ticks: it finds the server stopped, and cannot listen with success.
JoinIsShort ==
    /\ joining => stopper = "dtls" /\ ~running
    /\ joining /\ D!Alive =>
        /\ joined <= 1
        /\ D!Blocking /\ joined = 1 => aged
        /\ thread = "listen" => sock = "closed"

\* A start that has not come to the DTLS server finds it without a thread.
StartIsFirst ==
    /\ starter \in {"deferred", "api"} => ~D!Alive /\ ~joining /\ ~running
    /\ entry = "setup" => starter \in {"api", "discovery"}

\* Once an unload has overtaken a start, there is no other.
OvertakenOnce == overtaken => entry \in {"unloading", "unloaded"} \/ hass = "stopping"

\* Unless an unload overtakes a start, one follows the other, and each of them leaves
\* behind what the next one relies on.
EntryIsOrdered ==
    ~overtaken =>
        /\ entry \in {"unloaded", "retry"} => stopper = "none" /\ starter \in {"none", "reload"}
        /\ entry = "setup" => stopper = "none"
        /\ starter = "none" \/ entry \in {"setup", "loaded"} \/ hass = "stopping"
        /\ stopper # "none" => starter = "none" \/ (starter = "reload" /\ hass = "stopping")
        /\ starter \in {"deferred", "api", "reload"} => ~api /\ ~mdns /\ ~D!Alive
        /\ starter = "discovery" => ~mdns
        /\ stopper = "dtls" /\ ~joining => ~D!Alive
        /\ stopper \in {"api", "discovery"} => ~D!Alive
        /\ stopper = "discovery" => ~api

\* The inductive invariant.
IInv ==
    /\ TypeOK
    /\ ThreadHasContext
    /\ ThreadHasSocket
    /\ JoinIsShort
    /\ StartIsFirst
    /\ OvertakenOnce
    /\ EntryIsOrdered
    /\ UnloadedServesNothing

\* The times that the servers count begin with 0, and a join lasts for two ticks.
LEMMA Times == 0 \in 0..ReadTimeout /\ 0 \in 0..JoinTimeout /\ JoinTimeout \in Nat /\ JoinTimeout > 1
BY TimeoutAssumption

\* The initial state satisfies the inductive invariant.
LEMMA InitIInv == Init => IInv
<1> SUFFICES ASSUME Init PROVE IInv
    OBVIOUS
<1>1. D!TypeOK
    BY Times DEF Init, D!Init, D!TypeOK
<1>2. TypeOK
    BY <1>1 DEF Init, TypeOK
<1>3. ThreadHasContext /\ ThreadHasSocket /\ JoinIsShort
    BY DEF Init, D!Init, ThreadHasContext, ThreadHasSocket, JoinIsShort, D!Alive
<1>4. StartIsFirst /\ OvertakenOnce /\ EntryIsOrdered /\ UnloadedServesNothing
    BY DEF Init, D!Init, StartIsFirst, OvertakenOnce, EntryIsOrdered, UnloadedServesNothing, D!Alive
<1> QED BY <1>2, <1>3, <1>4 DEF IInv

\* What a step of the entry does to the DTLS server, and when.
LEMMA DtlsSteps ==
    [Next]_vars =>
        \/ Setup
        \/ starter = "api" /\ D!Start /\ UNCHANGED stopper
        \/ D!BeginStop /\ ((starter = "api" /\ UNCHANGED stopper) \/ stopper' = "dtls")
        \/ stopper = "dtls" /\ D!EndStop
        \/ UNCHANGED dtls /\ (stopper # "dtls" \/ ~joining \/ UNCHANGED stopper)
        \/ ThreadStep \/ Tick \/ TvToggles
<1> SUFFICES ASSUME [Next]_vars
             PROVE  \/ Setup
                    \/ starter = "api" /\ D!Start /\ UNCHANGED stopper
                    \/ D!BeginStop /\ ((starter = "api" /\ UNCHANGED stopper) \/ stopper' = "dtls")
                    \/ stopper = "dtls" /\ D!EndStop
                    \/ UNCHANGED dtls /\ (stopper # "dtls" \/ ~joining \/ UNCHANGED stopper)
                    \/ ThreadStep \/ Tick \/ TvToggles
    OBVIOUS
<1>1. CASE HassStarts \/ Announced \/ AnnouncementFails
    BY <1>1 DEF HassStarts, Announced, AnnouncementFails
<1>2. CASE ApiStarted \/ ApiFails
    BY <1>2 DEF ApiStarted, ApiFails
<1>3. CASE BeginUnload \/ HassStops
    BY <1>3 DEF BeginUnload, HassStops
<1>4. CASE DtlsStopped
    BY <1>4 DEF DtlsStopped
<1>5. CASE ApiStopped \/ Withdrawn
    BY <1>5 DEF ApiStopped, Withdrawn
<1>6. CASE UNCHANGED vars
    BY <1>6 DEF vars
<1> QED BY <1>1, <1>2, <1>3, <1>4, <1>5, <1>6 DEF Next

\* The variables stay in their types.
LEMMA NextTypeOK == IInv /\ [Next]_vars => TypeOK'
<1> SUFFICES ASSUME IInv, [Next]_vars PROVE TypeOK'
    OBVIOUS
<1>1. D!TypeOK'
    <2>1. D!TypeOK
        BY DEF IInv, TypeOK
    <2> USE <2>1 DEF D!TypeOK
    <2>2. CASE Setup
        BY <2>2 DEF Setup
    <2>3. CASE D!Start
        BY <2>3 DEF D!Start
    <2>4. CASE D!BeginStop
        BY <2>4, Times DEF D!BeginStop
    <2>5. CASE stopper = "dtls" /\ D!EndStop
        <3>1. ~running
            BY <2>5 DEF D!EndStop, IInv, JoinIsShort
        <3> QED BY <2>5, <3>1 DEF D!EndStop
    <2>6. CASE UNCHANGED dtls
        BY <2>6 DEF dtls
    <2>7. CASE ThreadStep
        <3>1. D!Bind \/ D!Check \/ D!ListenReturns \/ D!HandshakeReturns \/ D!ReadReturns
            BY <2>7 DEF ThreadStep, D!ThreadStep
        <3>2. idle' \in {idle, 0} /\ UNCHANGED <<running, ctx, joining, joined, talking>>
            BY <3>1 DEF D!Bind, D!Check, D!ListenReturns, D!HandshakeReturns, D!ReadReturns
        <3>3. /\ thread' \in {"check", "listen", "handshake", "read", "ended"}
              /\ aged' = FALSE
              /\ sock' \in {sock, "open"}
            BY <3>1 DEF D!Bind, D!Check, D!ListenReturns, D!HandshakeReturns, D!ReadReturns,
                D!Goes
        <3> QED BY <3>2, <3>3, Times
    <2>8. CASE Tick
        BY <2>8, TimeoutAssumption DEF Tick, D!Tick, D!Blocking, D!InSession
    <2>9. CASE TvToggles
        BY <2>9 DEF TvToggles, D!TvToggles
    <2> QED BY <2>2, <2>3, <2>4, <2>5, <2>6, <2>7, <2>8, <2>9, DtlsSteps
<1> USE <1>1 DEF IInv, TypeOK
<1>2. CASE Setup \/ HassStarts \/ Announced \/ AnnouncementFails
    BY <1>2 DEF Setup, HassStarts, Announced, AnnouncementFails
<1>3. CASE ApiStarted \/ ApiFails
    BY <1>3 DEF ApiStarted, ApiFails
<1>4. CASE BeginUnload \/ HassStops
    <2>1. overtaken' = (starter \in {"api", "discovery"})
        BY <1>4 DEF BeginUnload, HassStops
    <2>2. overtaken' \in BOOLEAN
        <3> HIDE DEF IInv, TypeOK
        <3> QED BY <2>1
    <2> QED BY <1>4, <2>2 DEF BeginUnload, HassStops
<1>5. CASE DtlsStopped
    BY <1>5 DEF DtlsStopped
<1>6. CASE ApiStopped \/ Withdrawn
    BY <1>6 DEF ApiStopped, Withdrawn
<1>7. CASE ThreadStep \/ Tick \/ TvToggles
    BY <1>7 DEF ThreadStep, Tick, TvToggles, wiring
<1>8. CASE UNCHANGED vars
    BY <1>8 DEF vars
<1> QED BY <1>2, <1>3, <1>4, <1>5, <1>6, <1>7, <1>8 DEF Next

\* A join does not outlast the thread's last blocking call, so that the context is freed
\* after the thread, whatever the step.
LEMMA NextThread == IInv /\ [Next]_vars => ThreadHasContext' /\ ThreadHasSocket' /\ JoinIsShort'
<1> DEFINE Goal == ThreadHasContext /\ ThreadHasSocket /\ JoinIsShort
<1> SUFFICES ASSUME IInv, [Next]_vars PROVE Goal'
    OBVIOUS
<1>1. D!TypeOK /\ ThreadHasContext /\ ThreadHasSocket /\ JoinIsShort /\ StartIsFirst
    BY DEF IInv, TypeOK
<1> USE <1>1, Times DEF D!TypeOK, ThreadHasContext, ThreadHasSocket,
        JoinIsShort, D!Alive, D!Blocking, D!InSession
<1>2. CASE Setup
    BY <1>2 DEF Setup
<1>3. CASE starter = "api" /\ D!Start /\ UNCHANGED stopper
    BY <1>3 DEF D!Start, StartIsFirst
<1>4. CASE D!BeginStop /\ starter = "api" /\ UNCHANGED stopper
    BY <1>4 DEF D!BeginStop, StartIsFirst
<1>5. CASE D!BeginStop /\ stopper' = "dtls"
    BY <1>5 DEF D!BeginStop
<1>6. CASE stopper = "dtls" /\ D!EndStop
    BY <1>6 DEF D!EndStop
<1>7. CASE UNCHANGED dtls /\ (stopper # "dtls" \/ ~joining \/ UNCHANGED stopper)
    BY <1>7 DEF dtls
<1>8. CASE ThreadStep
    <2> USE <1>8 DEF ThreadStep, wiring, D!Goes
    <2>1. CASE D!Bind
        BY <2>1 DEF D!Bind
    <2>2. CASE D!Check
        BY <2>2 DEF D!Check
    <2>3. CASE D!ListenReturns
        BY <2>3 DEF D!ListenReturns
    <2>4. CASE D!HandshakeReturns
        BY <2>4 DEF D!HandshakeReturns
    <2>5. CASE D!ReadReturns
        BY <2>5 DEF D!ReadReturns
    <2> QED BY <1>8, <2>1, <2>2, <2>3, <2>4, <2>5 DEF D!ThreadStep
<1>9. CASE Tick
    BY <1>9 DEF Tick, D!Tick, wiring
<1>10. CASE TvToggles
    BY <1>10 DEF TvToggles, D!TvToggles, wiring
<1> QED BY <1>2, <1>3, <1>4, <1>5, <1>6, <1>7, <1>8, <1>9, <1>10, DtlsSteps

\* The start, the unload and the entry's state agree, whatever the step.
LEMMA NextWiring ==
    IInv /\ [Next]_vars =>
        StartIsFirst' /\ OvertakenOnce' /\ EntryIsOrdered' /\ UnloadedServesNothing'
<1> DEFINE Goal == StartIsFirst /\ OvertakenOnce /\ EntryIsOrdered /\ UnloadedServesNothing
<1> SUFFICES ASSUME IInv, [Next]_vars PROVE Goal'
    OBVIOUS
<1> USE DEF IInv, TypeOK, D!TypeOK, JoinIsShort, StartIsFirst,
        OvertakenOnce, EntryIsOrdered, UnloadedServesNothing, D!Alive
<1>1. CASE Setup
    BY <1>1 DEF Setup
<1>2. CASE HassStarts
    BY <1>2 DEF HassStarts, dtls
<1>3. CASE ApiStarted
    BY <1>3 DEF ApiStarted, D!Start
<1>4. CASE ApiFails
    BY <1>4 DEF ApiFails, D!BeginStop
<1>5. CASE Announced
    BY <1>5 DEF Announced, dtls
<1>6. CASE AnnouncementFails
    BY <1>6 DEF AnnouncementFails, dtls
<1>7. CASE BeginUnload
    <2>1. stopper' = "dtls" /\ ~running' /\ (~joining' => ~D!Alive')
        BY <1>7 DEF BeginUnload, D!BeginStop
    <2>2. ~overtaken' => starter' \in {"none", "reload"} /\ starter \in {"none", "deferred", "reload"}
        BY <1>7 DEF BeginUnload
    <2>3. entry' = "unloading" /\ starter' # "reload" /\ entry = "loaded" /\ UNCHANGED <<hass, api, mdns>>
        BY <1>7 DEF BeginUnload
    <2>4. starter' \in {starter, "none"} /\ (starter' # "none" => starter' # "deferred")
        BY <1>7 DEF BeginUnload
    <2>5. (starter' = "api" => UNCHANGED joining) /\ UNCHANGED thread
        BY <1>7 DEF BeginUnload, D!BeginStop
    <2>6. ~overtaken
        BY <1>7 DEF BeginUnload
    <2>7. StartIsFirst' /\ OvertakenOnce' /\ UnloadedServesNothing'
        BY <2>1, <2>2, <2>3, <2>4, <2>5, <2>6
    <2>8. EntryIsOrdered'
        BY <2>1, <2>2, <2>3, <2>4, <2>5, <2>6
    <2> QED BY <2>7, <2>8
<1>8. CASE HassStops
    <2>1. stopper' = "dtls" /\ ~running' /\ (~joining' => ~D!Alive')
        BY <1>8 DEF HassStops, D!BeginStop
    <2>2. ~overtaken' => starter' \in {"none", "reload"} /\ starter \in {"none", "deferred", "reload"}
        BY <1>8 DEF HassStops
    <2>3. UNCHANGED <<entry, api, mdns>> /\ entry = "loaded" /\ hass' = "stopping"
        BY <1>8 DEF HassStops
    <2>4. starter' \in {starter, "none"} /\ (starter' # "none" => starter' # "deferred")
        BY <1>8 DEF HassStops
    <2>5. (starter' = "api" => UNCHANGED joining) /\ UNCHANGED thread
        BY <1>8 DEF HassStops, D!BeginStop
    <2>6. ~overtaken
        BY <1>8 DEF HassStops
    <2>7. StartIsFirst' /\ OvertakenOnce' /\ UnloadedServesNothing'
        BY <2>1, <2>2, <2>3, <2>4, <2>5, <2>6
    <2>8. EntryIsOrdered'
        BY <2>1, <2>2, <2>3, <2>4, <2>5, <2>6
    <2> QED BY <2>7, <2>8
<1>9. CASE DtlsStopped
    <2>1. StartIsFirst' /\ OvertakenOnce' /\ UnloadedServesNothing'
        BY <1>9 DEF DtlsStopped, D!EndStop, dtls
    <2>2. joining => ~D!Alive \/ joined # JoinTimeout
        BY Times
    <2>3. EntryIsOrdered'
        BY <1>9, <2>2 DEF DtlsStopped, D!EndStop, dtls
    <2> QED BY <2>1, <2>3
<1>10. CASE ApiStopped
    BY <1>10 DEF ApiStopped, dtls
<1>11. CASE Withdrawn
    <2>1. StartIsFirst' /\ OvertakenOnce' /\ UnloadedServesNothing'
        BY <1>11 DEF Withdrawn, dtls
    <2>2. EntryIsOrdered'
        BY <1>11 DEF Withdrawn, dtls
    <2> QED BY <2>1, <2>2
<1>12. CASE ThreadStep
    <2>1. D!Bind \/ D!Check \/ D!ListenReturns \/ D!HandshakeReturns \/ D!ReadReturns
        BY <1>12 DEF ThreadStep, D!ThreadStep
    <2>2. D!Alive /\ UNCHANGED <<running, joining>>
        BY <2>1 DEF D!Bind, D!Check, D!ListenReturns, D!HandshakeReturns, D!ReadReturns
    <2> QED BY <1>12, <2>2 DEF ThreadStep, wiring
<1>13. CASE Tick
    BY <1>13 DEF Tick, D!Tick, wiring
<1>14. CASE TvToggles
    BY <1>14 DEF TvToggles, D!TvToggles, wiring
<1>15. CASE UNCHANGED vars
    BY <1>15 DEF vars, dtls
<1> QED BY <1>1, <1>2, <1>3, <1>4, <1>5, <1>6, <1>7, <1>8, <1>9, <1>10, <1>11, <1>12,
           <1>13, <1>14, <1>15 DEF Next

\* Together: the inductive invariant holds in every state.
LEMMA Invariance == Spec => []IInv
<1>1. IInv /\ [Next]_vars => IInv'
    BY NextTypeOK, NextThread, NextWiring DEF IInv
<1> QED BY InitIInv, <1>1, PTL DEF Spec

\* The variables of the entry and of its DTLS server have their types, for any time-outs.
THEOREM TypeCorrectness == Spec => []TypeOK
<1>1. IInv => TypeOK
    BY DEF IInv
<1> QED BY Invariance, <1>1, PTL

\* async_stop frees the context only after the thread is past OpenSSL, although its join
\* may time out: with a join of two poll intervals or more it does not.
THEOREM ContextIsNotFreedUnderThread == Spec => []ContextOutlivesThread
<1>1. IInv => ContextOutlivesThread
    BY DEF IInv, ThreadHasContext, ContextOutlivesThread, D!ContextOutlivesThread, D!Alive,
        D!Blocking, D!InSession
<1> QED BY Invariance, <1>1, PTL

\* An entry that is unloaded, or was refused a port, leaves no thread, server or
\* announcement, in whichever order starts, failures, unloads and the end of Home Assistant
\* come, as long as no unload overtakes a start.
THEOREM NothingIsLeftServing == Spec => []UnloadedServesNothing
<1>1. IInv => UnloadedServesNothing
    BY DEF IInv
<1> QED BY Invariance, <1>1, PTL
=============================================================================
