--------------------------------- MODULE Entry ---------------------------------
(***************************************************************************)
(* The set-up and the unload of an entry with the HueStream input: the API *)
(* server, the DTLS server and the mDNS announcement, started in that      *)
(* order at once or when Home Assistant has started, stopped by an unload  *)
(* or by the end of Home Assistant.                                        *)
(*                                                                         *)
(* A step of a coroutine runs from one await to the next.  What the entry  *)
(* serves is Session's subject, where the controller is closed as well.    *)
(***************************************************************************)
EXTENDS Naturals

CONSTANTS ReadTimeout, JoinTimeout       \* see DtlsServer

ASSUME TimeoutAssumption == ReadTimeout \in Nat \ {0} /\ JoinTimeout \in Nat \ {0, 1}

VARIABLES
    running, thread, sock, ctx, aged, idle, joining, joined, talking,   \* DtlsServer's
    hass,          \* Home Assistant is "starting", "running" or "stopping"
    entry,         \* ConfigEntry.state
    starter,       \* _async_start: "none", "deferred" to the event, or what it awaits
    stopper,       \* async_unload_entry or _async_stop: "none", or what it awaits
    api,           \* the API is served
    mdns,          \* the bridge is announced
    overtaken      \* an unload began while the deferred start was under way

dtls == <<running, thread, sock, ctx, aged, idle, joining, joined, talking>>
vars == <<dtls, hass, entry, starter, stopper, api, mdns, overtaken>>

D == INSTANCE DtlsServer

Init ==
    /\ D!Init
    /\ hass \in {"starting", "running"}
    /\ entry = "unloaded"
    /\ starter = "none"
    /\ stopper = "none"
    /\ api = FALSE
    /\ mdns = FALSE
    /\ overtaken = FALSE

\* A set-up makes new servers; it starts them at once if Home Assistant is running.
Setup ==
    /\ entry \in {"unloaded", "retry"} /\ hass # "stopping" /\ ~overtaken
    /\ stopper = "none"
    /\ running' = FALSE /\ thread' = "none" /\ sock' = "none" /\ ctx' = FALSE
    /\ IF hass = "running" THEN entry' = "setup" /\ starter' = "api"
                           ELSE entry' = "loaded" /\ starter' = "deferred"
    /\ UNCHANGED <<aged, idle, joining, joined, talking, hass, stopper, api, mdns, overtaken>>

\* EVENT_HOMEASSISTANT_STARTED, for which a deferred start waits.
HassStarts ==
    /\ hass = "starting"
    /\ hass' = "running"
    /\ starter' = IF starter = "deferred" THEN "api" ELSE starter
    /\ UNCHANGED <<dtls, entry, stopper, api, mdns, overtaken>>

\* api_server.async_start returns; the DTLS server's start does not await.
ApiStarted ==
    /\ starter = "api"
    /\ api' = TRUE
    /\ D!Start
    /\ starter' = "discovery"
    /\ UNCHANGED <<hass, entry, stopper, mdns, overtaken>>

\* The port is in use: both servers are stopped, of which neither runs.  Too late to
\* fail, a deferred start has the entry reloaded.
ApiFails ==
    /\ starter = "api"
    /\ D!BeginStop
    /\ api' = FALSE
    /\ starter' = IF entry = "setup" THEN "none" ELSE "reload"
    /\ entry' = IF entry = "setup" THEN "retry" ELSE entry
    /\ UNCHANGED <<hass, stopper, mdns, overtaken>>

Announced ==
    /\ starter = "discovery"
    /\ mdns' = TRUE
    /\ starter' = "none"
    /\ entry' = IF entry = "setup" THEN "loaded" ELSE entry
    /\ UNCHANGED <<dtls, hass, stopper, api, overtaken>>

\* The registration raises, and nobody stops the servers.
AnnouncementFails ==
    /\ starter = "discovery"
    /\ starter' = "none"
    /\ entry' = IF entry = "setup" THEN "error" ELSE entry
    /\ UNCHANGED <<dtls, hass, stopper, api, mdns, overtaken>>

-----------------------------------------------------------------------------
(* Stopping: the DTLS server, the API, the announcement *)

\* An unload, or the reload a failed start asked for, drops a start still deferred.
BeginUnload ==
    /\ entry = "loaded" /\ stopper = "none" /\ hass # "stopping"
    /\ entry' = "unloading"
    /\ starter' = IF starter \in {"deferred", "reload"} THEN "none" ELSE starter
    /\ overtaken' = (starter \in {"api", "discovery"})
    /\ D!BeginStop
    /\ stopper' = "dtls"
    /\ UNCHANGED <<hass, api, mdns>>

\* EVENT_HOMEASSISTANT_STOP; a start still deferred never comes.
HassStops ==
    /\ hass # "stopping" /\ entry = "loaded" /\ stopper = "none"
    /\ hass' = "stopping"
    /\ starter' = IF starter = "deferred" THEN "none" ELSE starter
    /\ overtaken' = (starter \in {"api", "discovery"})
    /\ D!BeginStop
    /\ stopper' = "dtls"
    /\ UNCHANGED <<entry, api, mdns>>

DtlsStopped ==
    /\ stopper = "dtls"
    /\ \/ ~joining /\ UNCHANGED dtls
       \/ D!EndStop
    /\ stopper' = "api"
    /\ UNCHANGED <<hass, entry, starter, api, mdns, overtaken>>

ApiStopped ==
    /\ stopper = "api"
    /\ api' = FALSE
    /\ stopper' = "discovery"
    /\ UNCHANGED <<dtls, hass, entry, starter, mdns, overtaken>>

\* Then the controller is closed.
Withdrawn ==
    /\ stopper = "discovery"
    /\ mdns' = FALSE
    /\ stopper' = "none"
    /\ entry' = "unloaded"
    /\ UNCHANGED <<dtls, hass, starter, api, overtaken>>

wiring == <<hass, entry, starter, stopper, api, mdns, overtaken>>

ThreadStep == D!ThreadStep /\ UNCHANGED wiring
Tick == D!Tick /\ UNCHANGED wiring
TvToggles == D!TvToggles /\ UNCHANGED wiring

Next ==
    \/ Setup \/ HassStarts \/ ApiStarted \/ ApiFails \/ Announced \/ AnnouncementFails
    \/ BeginUnload \/ HassStops \/ DtlsStopped \/ ApiStopped \/ Withdrawn
    \/ ThreadStep \/ Tick \/ TvToggles

\* The thread runs and time passes.
Fairness == WF_vars(ThreadStep) /\ WF_vars(Tick)

Spec == Init /\ [][Next]_vars /\ Fairness

-----------------------------------------------------------------------------
(* Properties *)

\* The type invariant of the entry and its DTLS server.
TypeOK ==
    /\ D!TypeOK
    /\ hass \in {"starting", "running", "stopping"}
    /\ entry \in {"unloaded", "setup", "loaded", "retry", "error", "unloading"}
    /\ starter \in {"none", "deferred", "api", "discovery", "reload"}
    /\ stopper \in {"none", "dtls", "api", "discovery"}
    /\ api \in BOOLEAN /\ mdns \in BOOLEAN /\ overtaken \in BOOLEAN

\* See DtlsServer: the context is not freed under the thread.
ContextOutlivesThread == D!ContextOutlivesThread

\* See DtlsServer: a session that went silent ends.
IdleSessionEnds == D!IdleSessionEnds

\* "The DTLS thread must not outlive the event loop": an unloaded entry, or one whose
\* start was refused a port, leaves no thread, no server and no announcement, unless the
\* unload overtook a deferred start.
UnloadedServesNothing ==
    entry \in {"unloaded", "retry"} /\ ~overtaken => ~api /\ ~mdns /\ ~D!Alive
=============================================================================
