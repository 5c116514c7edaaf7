-------------------------------- MODULE Pairing --------------------------------
(***************************************************************************)
(* How a TV gets its credentials and keeps them: POST /api on the config   *)
(* flow's temporary server and on the entry's, the link button, the        *)
(* UserStore, its import of the users paired before, reloads and crashes.  *)
(*                                                                         *)
(* A user is <<devicetype, number>>, the number standing for the username  *)
(* and the clientkey drawn for it.  The servers are the integration's own, *)
(* which finish the requests under way when they are stopped.              *)
(***************************************************************************)
EXTENDS Naturals, Sequences, SequencesExt

CONSTANTS
    Devicetypes, Requests,
    MaxUsers       \* bounds the users that are made

ASSUME MaxUsersAssumption == MaxUsers \in Nat

VARIABLES
    phase,       \* "none", the flow is "pairing" or "closing" its server, the entry is
                 \* "created" or "loaded"
    users,       \* UserStore._users of the server there is, oldest first
    disk,        \* what the Store has written
    initial,     \* "initial_users" of the entry's data
    link,        \* _link_button_active
    request,     \* request -> where its handler is, and the devicetype
    given,       \* the answers: the user, and whether it was on disk by then
    made         \* number of users made

vars == <<phase, users, disk, initial, link, request, given, made>>

NoRequest == [at |-> "none", user |-> <<>>]

Init ==
    /\ phase = "none"
    /\ users = <<>> /\ disk = <<>> /\ initial = <<>>
    /\ link = FALSE
    /\ request = [r \in Requests |-> NoRequest]
    /\ given = {}
    /\ made = 0

NoneUnderWay == \A r \in Requests : request[r].at = "none"

\* Erroneous variant: the oldest user of the devicetype is found.
ExistingOldest(t) == {users[i] : i \in {SelectInSeq(users, LAMBDA u : u[1] = t)} \ {0}}

\* get_by_devicetype: the most recently added user, if any.
Existing(t) == {users[i] : i \in {SelectLastInSeq(users, LAMBDA u : u[1] = t)} \ {0}}

-----------------------------------------------------------------------------
(* POST /api *)

RequestArrives(r, t) ==
    /\ phase \in {"pairing", "loaded"}
    /\ request[r].at = "none"
    /\ request' = [request EXCEPT ![r] = [at |-> "body", user |-> <<t>>]]
    /\ UNCHANGED <<phase, users, disk, initial, link, given, made>>

\* No JSON, or the link button is not pressed.
Refused(r) ==
    /\ request[r].at = "body"
    /\ request' = [request EXCEPT ![r] = NoRequest]
    /\ UNCHANGED <<phase, users, disk, initial, link, given, made>>

Answer(r, u, saved) ==
    /\ given' = given \cup {[user |-> u, saved |-> saved]}
    /\ request' = [request EXCEPT ![r] = NoRequest]

\* A devicetype that paired before, or is just being saved, gets the same credentials.
AnswerExisting(r) ==
    /\ request[r].at = "body" /\ link
    /\ \E u \in Existing(request[r].user[1]) : Answer(r, u, FALSE)
    /\ UNCHANGED <<phase, users, disk, initial, link, made>>

\* A new user is added, and saved, for which only the entry's store has a file.
CreateUser(r) ==
    LET u == <<request[r].user[1], made + 1>>
    IN  /\ request[r].at = "body" /\ link
        /\ Existing(u[1]) = {}
        /\ made < MaxUsers /\ made' = made + 1
        /\ users' = Append(users, u)
        /\ IF phase = "loaded"
           THEN request' = [request EXCEPT ![r] = [at |-> "saving", user |-> u]] /\ UNCHANGED given
           ELSE Answer(r, u, FALSE)
        /\ UNCHANGED <<phase, disk, initial, link>>

\* A snapshot with the user is written, the one of this save or of one that followed;
\* the Store writes one after the other.
Saved(r) ==
    /\ request[r].at = "saving"
    /\ \E n \in DOMAIN users :
         /\ n >= Len(disk) /\ request[r].user \in ToSet(SubSeq(users, 1, n))
         /\ disk' = SubSeq(users, 1, n)
    /\ Answer(r, request[r].user, TRUE)
    /\ UNCHANGED <<phase, users, initial, link, made>>

LinkExpires ==
    /\ link
    /\ link' = FALSE
    /\ UNCHANGED <<phase, users, disk, initial, request, given, made>>

-----------------------------------------------------------------------------
(* The flows and the entry *)

\* The config flow's pairing step: a server with a store in memory, the button pressed.
OpenWindow ==
    /\ phase = "none"
    /\ phase' = "pairing" /\ users' = <<>> /\ link' = TRUE
    /\ UNCHANGED <<disk, initial, request, given, made>>

\* _wait_for_new_user has seen a user, or its time is over.
WindowEnds ==
    /\ phase = "pairing"
    /\ phase' = "closing"
    /\ UNCHANGED <<users, disk, initial, link, request, given, made>>

\* Erroneous variant: the users are copied while the server is being stopped.
CreateEntryEarly ==
    /\ phase = "closing"
    /\ phase' = "created" /\ initial' = users
    /\ UNCHANGED <<users, disk, link, request, given, made>>

\* The server is stopped, then the entry is created with the users that paired.
CreateEntry ==
    /\ phase = "closing" /\ NoneUnderWay
    /\ phase' = "created" /\ initial' = users
    /\ UNCHANGED <<users, disk, link, request, given, made>>

\* Erroneous variant: the devicetype is not imported, and defaults to "unknown".
ImportUntyped(stored) == stored \o [i \in DOMAIN initial |-> <<"unknown", initial[i][2]>>]

\* The users of the entry's data are added one by one, unless the store knows them.
Import(stored) ==
    LET after[n \in 0..Len(initial)] ==
            IF n = 0 THEN stored
            ELSE IF initial[n] \in ToSet(after[n - 1]) THEN after[n - 1]
            ELSE Append(after[n - 1], initial[n])
    IN  after[Len(initial)]

\* The set-up up to the start of the API: the store is loaded, and saved if it imports.
SetUp ==
    /\ phase = "created"
    /\ phase' = "loaded" /\ link' = FALSE
    /\ users' = Import(disk)
    /\ disk' = IF initial = <<>> THEN disk ELSE users'
    /\ given' = {[g EXCEPT !.saved = TRUE] : g \in given}
    /\ UNCHANGED <<initial, request, made>>

\* The options flow's pairing step.
PressLink ==
    /\ phase = "loaded"
    /\ link' = TRUE
    /\ UNCHANGED <<phase, users, disk, initial, request, given, made>>

Reload ==
    /\ phase = "loaded" /\ NoneUnderWay
    /\ phase' = "created"
    /\ UNCHANGED <<users, disk, initial, link, request, given, made>>

\* The entry is removed, the file stays.  The TV has to pair again.
RemoveEntry ==
    /\ phase = "loaded" /\ NoneUnderWay
    /\ phase' = "none" /\ initial' = <<>> /\ given' = {}
    /\ UNCHANGED <<users, disk, link, request, made>>

\* Home Assistant is killed.  Answers that overtook their save are lost, and the TV has
\* to pair again with that devicetype.
Crash ==
    /\ phase = "loaded"
    /\ phase' = "created"
    /\ request' = [r \in Requests |-> NoRequest]
    /\ given' = {g \in given : g.saved \/ \E i \in DOMAIN disk : disk[i] = g.user}
    /\ UNCHANGED <<users, disk, initial, link, made>>

Next ==
    \/ \E r \in Requests :
         \/ \E t \in Devicetypes : RequestArrives(r, t)
         \/ Refused(r) \/ AnswerExisting(r) \/ CreateUser(r) \/ Saved(r)
    \/ LinkExpires \/ OpenWindow \/ WindowEnds \/ CreateEntry \/ SetUp \/ PressLink
    \/ Reload \/ RemoveEntry \/ Crash

Spec == Init /\ [][Next]_vars

-----------------------------------------------------------------------------
(* Properties *)

IsUser(u) == u \in Devicetypes \X (1..MaxUsers)

\* The types; and the stores are dictionaries, no user is in them twice.
TypeOK ==
    /\ phase \in {"none", "pairing", "closing", "created", "loaded"}
    /\ \A s \in {users, disk, initial} :
         IsInjective(s) /\ \A i \in DOMAIN s : IsUser(s[i])
    /\ link \in BOOLEAN
    /\ \A r \in Requests : request[r].at \in {"none", "body", "saving"}
    /\ \A g \in given : IsUser(g.user) /\ g.saved \in BOOLEAN
    /\ made \in 0..MaxUsers

\* "Every response carries the same username/clientkey so the TV gets consistent
\* credentials regardless of which response it uses", in a burst as well as across the
\* temporary server, the import, reloads, and files left by an entry before.
BurstIsConsistent == \A g, h \in given : g.user[1] = h.user[1] => g.user = h.user

\* Whatever the TV was told to use is known to the loaded entry, after reloads and, if it
\* was saved before the answer, after crashes.
AnsweredIsKnown == phase = "loaded" => \A g \in given : g.user \in ToSet(users)
=============================================================================
