------------------------------ MODULE DtlsServer ------------------------------
(***************************************************************************)
(* DTLSPSKServer: the thread that binds, listens, shakes hands and reads,  *)
(* against async_start and async_stop on the event loop.                   *)
(*                                                                         *)
(* A tick is a poll_interval, the longest a blocking call may take.  The   *)
(* thread is assumed to be scheduled: what it does between two blocking    *)
(* calls takes no tick, and each of them returns before a second one.      *)
(***************************************************************************)
EXTENDS Naturals

CONSTANTS
    ReadTimeout,      \* read_timeout, in ticks
    JoinTimeout       \* how long async_stop waits for the thread, in ticks

VARIABLES
    running,     \* _running
    thread,      \* where the thread is, "none" before it is made
    sock,        \* _sock: "none", "open", "closed"
    ctx,         \* _ssl_ctx is not NULL
    aged,        \* the thread's blocking call has lasted for a tick
    idle,        \* ticks since the handshake began, or since the last frame
    joining,     \* async_stop awaits the join
    joined,      \* for how many ticks
    talking      \* the TV sends something

vars == <<running, thread, sock, ctx, aged, idle, joining, joined, talking>>

InSession == thread \in {"handshake", "read"}
Blocking == InSession \/ thread = "listen"
Alive == thread \notin {"none", "ended"}

Init ==
    /\ running = FALSE
    /\ thread = "none"
    /\ sock = "none"
    /\ ctx = FALSE
    /\ aged = FALSE
    /\ idle = 0
    /\ joining = FALSE
    /\ joined = 0
    /\ talking \in BOOLEAN

-----------------------------------------------------------------------------
(* The event loop *)

\* Erroneous variant: the context is made by the constructor and gone after a stop.
StartWithoutContext ==
    /\ IF running THEN UNCHANGED <<running, thread>> ELSE running' = TRUE /\ thread' = "bind"
    /\ UNCHANGED <<ctx, sock, aged, idle, joining, joined, talking>>

Start ==
    /\ IF running THEN UNCHANGED <<running, thread, ctx>>
                  ELSE running' = TRUE /\ ctx' = TRUE /\ thread' = "bind"
    /\ UNCHANGED <<sock, aged, idle, joining, joined, talking>>

\* Erroneous variant: only a server that has its socket has a thread to wait for.
BeginStopOfListening ==
    /\ running' = FALSE
    /\ sock' = IF sock = "open" THEN "closed" ELSE sock
    /\ IF Alive /\ sock = "open" THEN joining' = TRUE /\ UNCHANGED ctx
                                 ELSE ctx' = FALSE /\ UNCHANGED joining
    /\ joined' = 0
    /\ UNCHANGED <<thread, aged, idle, talking>>

\* async_stop: a socket that is there is closed, a thread that lives is joined.
BeginStop ==
    /\ running' = FALSE
    /\ sock' = IF sock = "open" THEN "closed" ELSE sock
    /\ IF Alive THEN joining' = TRUE /\ UNCHANGED ctx ELSE ctx' = FALSE /\ UNCHANGED joining
    /\ joined' = 0
    /\ UNCHANGED <<thread, aged, idle, talking>>

\* The context is freed, also if the thread did not end in time.
EndStop ==
    /\ joining
    /\ ~Alive \/ joined = JoinTimeout
    /\ joining' = FALSE
    /\ ctx' = FALSE
    /\ UNCHANGED <<running, thread, sock, aged, idle, joined, talking>>

-----------------------------------------------------------------------------
(* The thread *)

Goes(to) == thread' = to /\ aged' = FALSE

\* The socket is there even if it cannot be bound, which ends the thread.
Bind ==
    /\ thread = "bind"
    /\ sock' = "open"
    /\ Goes("check") \/ Goes("ended")
    /\ UNCHANGED <<running, ctx, idle, joining, joined, talking>>

Check ==
    /\ thread = "check"
    /\ IF running THEN Goes("listen") ELSE Goes("ended")
    /\ UNCHANGED <<running, sock, ctx, idle, joining, joined, talking>>

\* DTLSv1_listen times out or fails, or a client says hello.
ListenReturns ==
    /\ thread = "listen"
    /\ \/ Goes("check") /\ UNCHANGED idle
       \/ talking /\ sock = "open" /\ Goes("handshake") /\ idle' = 0
    /\ UNCHANGED <<running, sock, ctx, joining, joined, talking>>

\* Erroneous variant: a handshake under way is not stopped.
HandshakeReturnsUnasked ==
    /\ thread = "handshake"
    /\ \/ talking /\ Goes(IF running THEN "read" ELSE "check") /\ idle' = 0
       \/ idle < ReadTimeout /\ Goes("handshake") /\ UNCHANGED idle
       \/ idle = ReadTimeout /\ Goes("check") /\ UNCHANGED idle
    /\ UNCHANGED <<running, sock, ctx, joining, joined, talking>>

\* SSL_do_handshake succeeds, times out before the deadline, or it is given up.
HandshakeReturns ==
    /\ thread = "handshake"
    /\ \/ talking /\ Goes(IF running THEN "read" ELSE "check") /\ idle' = 0
       \/ running /\ idle < ReadTimeout /\ Goes("handshake") /\ UNCHANGED idle
       \/ Goes("check") /\ UNCHANGED idle
    /\ UNCHANGED <<running, sock, ctx, joining, joined, talking>>

\* Erroneous variant: a time-out counts as a sign of life.
ReadReturnsRefreshed ==
    /\ thread = "read"
    /\ \/ Goes(IF running THEN "read" ELSE "check") /\ idle' = 0
       \/ talking /\ Goes("check") /\ UNCHANGED idle
    /\ UNCHANGED <<running, sock, ctx, joining, joined, talking>>

\* SSL_read yields a frame, times out, or the client is gone.
ReadReturns ==
    /\ thread = "read"
    /\ \/ talking /\ Goes(IF running THEN "read" ELSE "check") /\ idle' = 0
       \/ Goes(IF running /\ idle < ReadTimeout THEN "read" ELSE "check") /\ UNCHANGED idle
       \/ talking /\ Goes("check") /\ UNCHANGED idle
    /\ UNCHANGED <<running, sock, ctx, joining, joined, talking>>

ThreadStep == Bind \/ Check \/ ListenReturns \/ HandshakeReturns \/ ReadReturns

\* A poll_interval passes.
Tick ==
    /\ ~aged /\ thread \notin {"bind", "check"}
    /\ aged' = Blocking
    /\ idle' = IF InSession /\ idle < ReadTimeout THEN idle + 1 ELSE idle
    /\ joined' = IF joining /\ joined < JoinTimeout THEN joined + 1 ELSE joined
    /\ UNCHANGED <<running, thread, sock, ctx, joining, talking>>

TvToggles ==
    /\ talking' = ~talking
    /\ UNCHANGED <<running, thread, sock, ctx, aged, idle, joining, joined>>

-----------------------------------------------------------------------------
(* Properties *)

\* The types; and a running server has a context to make sessions of.
TypeOK ==
    /\ running \in BOOLEAN /\ ctx \in BOOLEAN /\ aged \in BOOLEAN
    /\ joining \in BOOLEAN /\ talking \in BOOLEAN
    /\ thread \in {"none", "bind", "check", "listen", "handshake", "read", "ended"}
    /\ sock \in {"none", "open", "closed"}
    /\ idle \in 0..ReadTimeout /\ joined \in 0..JoinTimeout
    /\ running => ctx

\* The context is freed after a join that may have timed out: no thread may be left that
\* hands it, or a session made of it, to OpenSSL.
ContextOutlivesThread == Blocking => ctx

\* A TV that is switched off without a goodbye does not keep the only session there is.
IdleSessionEnds == <>[]~talking => <>[]~InSession
=============================================================================
