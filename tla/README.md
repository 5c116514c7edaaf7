# Verification of ha-ambilight-hue-sync

TLA+ models of the Home Assistant integration `hue_entertainment`, which drives lights from
a TV's Ambilight. It shows itself to the TV as a Philips Hue Bridge and receives a stream,
or polls the TV's JointSpace API; it drives lights of Home Assistant or a physical Hue
Bridge. The models follow `custom_components/hue_entertainment/`; `PROJECT.json` maps every
definition to the lines it stands for. TLC checks small instances, TLAPS proves what is
said under [Proofs](#4-proofs) for every instance.

1. [The system](#1-the-system)
2. [The modules](#2-the-modules)
3. [The runs](#3-the-runs): what each shows, bounds, fairness, known deviations
4. [Proofs](#4-proofs)
5. [What is not modelled](#5-what-is-not-modelled)

## 1. The system

| Component | State it keeps | Operations | Talks to | Module |
|---|---|---|---|---|
| `FrameMailbox` | latest frame, "scheduled" flag, counter | `put`, `_deliver` | DTLS thread -> event loop -> engine | FrameMailbox |
| `EntertainmentEngine`, session | active, snapshot, pause deadline, release flags, two timers | snapshot, restore, pause, resume, release, expiries | controller, services, HA timers | EngineSession |
| `EntertainmentEngine`, lights | a slot per light, tolerance values, drain task and its flag | frame, v1 light command, drain loop | HA `light.*` services | Engine |
| `SyncController` | enabled, active, lock, intensity | start, stop, set_enabled, close, gate and scaling of frames | output backend, engine | Session, HueOutput, Ambilight |
| `HueEntertainmentBackend` | library session, restart_required, lock | start, send, stop, close | physical Hue bridge | HueOutput |
| `PhilipsJointSpaceSource` | running, task, back-off, output_active | topology, poll loop, inactivity, zones to channels | TV, controller | JointSpace, Ambilight |
| Frame watchdog (`__init__.py`) | one task | sleeps, tears a silent session down | controller | Session |
| `HueAPIServer` | entertainment flag and owner, link button | stream PUTs, light PUTs, `POST /api` | callbacks into the controller, `UserStore` | Session, Pairing |
| `DTLSPSKServer` | running, thread, socket, TLS context | start, stop, serve loop | OpenSSL, mailbox | DtlsServer |
| Entry wiring (`__init__.py`) | entry state, unload hooks | set-up, deferred start, unload, shutdown, services | all of the above | Entry, Session, JointSpace |
| Pairing, `UserStore` | users, file, link button's deadline, flow's task | create user, save, import | HA Store, flows | Pairing |
| Config and options flows | the answers so far; entry data and options | every form | TV, Hue bridge, HA config entries | Configuration |
| Discovery | registered service | start, stop | zeroconf | Entry |

Four kinds of concurrency meet here. The DTLS thread shares the mailbox, its socket and the
TLS context with the event loop. On the event loop everything from one `await` to the next
is atomic, and every `await` lets HTTP requests, timers, services, the watchdog, the poll
loop and the drain task in between. `SyncController` queues starts and stops on an
`asyncio.Lock`. And Home Assistant may start, unload, stop or be killed at any of these
points.

What is hard, and what each component has to get right:

- **Mailbox.** The locked sections interleave with the unlocked calls between them. At
  most one callback, no frame stranded, the freshest frame wins, exact counter.
- **Session and services.** Two timers that may outlive what they were armed for, a
  restore with two awaits in which anything else may happen. The contract of
  `docs/pause-release.md`; every release ends; one restore per snapshot.
- **Slots and drain loop.** A task is cancelled before, in or after its first step; a
  flag stands for it that it clears itself; slots are filled by two modes. Nothing is
  sent under a suppression, nothing queued is forgotten, no light starves, one command
  at a time.
- **Controller, watchdog, API.** The flag is written when a request arrives, the session
  under the lock, watchdogs are created and cancelled outside of it. No session without
  its watchdog, none while disabled, none after the unload.
- **Physical output.** A start, a send, a stop and a close can each fail and leave half a
  session behind; sync may be disabled while a start is awaited; every polled frame adds a
  start to the queue. Nothing driven while disabled or after the unload, a stream again
  when the bridge is back, none when the TV is off.
- **DTLS thread.** It may be anywhere between its birth and OpenSSL when it is stopped,
  and the join has a time-out, after which the context is freed. No use after free, no
  thread left behind, no dead session that blocks the next one.
- **Set-up and unload.** Three servers are started in order, at once or on an event, and
  may be refused a port. An entry that is not loaded serves nothing.
- **Pairing.** Bursts of requests, answers that overtake their save, a temporary server
  whose users are handed to the entry, imports at every set-up, crashes. A TV is told one
  pair of credentials, and they keep working.
- **Flows.** Two dozen forms write host, key, area, channels and TV settings in any order,
  to data or options. What set-up reads belongs together.
- **Zones.** Either direction, missing zones, one-zone edges, rounding thrice. A channel
  shows what its mapping promises.

`PROJECT.json` lists every hazard with its line, and the properties that cover it.

## 2. The modules

```
LatestFrame   <-- implements -- FrameMailbox   <- FrameMailboxProofs
YieldContract <-- implements -- EngineSession  <- EngineSessionProofs
                                 ^         ^
                     INSTANCE S  |         |  INSTANCE S, implemented by
             EngineProofs ->   Engine    Session   <- SessionProofs
                                         (implements EngineSession's Spec)

HueOutput  <-- INSTANCE O -- JointSpace <- JointSpaceProofs -> Ambilight
DtlsServer <-- INSTANCE D -- Entry      <- EntryProofs

Pairing <- PairingProofs     Configuration <- ConfigurationProofs
```

Each `MC...` module extends the one it is named after and gives a small instance.
Definitions called "Erroneous variant" are plausible bugs of the one below them. The
specifications do not use them; they show that a property would notice.

**FrameMailbox.** `pc[t]` is where thread t is in `put`: the critical section (`Put`),
`call_soon_threadsafe` (`Wake`), the handler of its `RuntimeError` (`Unschedule`). The
loop runs `Deliver` (critical section of `_deliver`) and `Handle`. A frame is the number
of its put. The code has one producer thread; the model has any number, which the class
allows for. **LatestFrame** is the register it implements.

**EngineSession.** The session half of the engine. A step runs from await to await, so
`async_restore_lights` is `BeginRestore` (to `await self._drain_task`),
`ContinueRestore` (to `async_reproduce_state`) and `EndRestore`; all else is one step.
Time is abstracted to the comparisons the code makes: `pausedUntil` is a deadline in the
future or the past, `silent` says that FRAME_TIMEOUT has passed without a frame that
counts. What the mapped lights look like together is a scene. **YieldContract** states
the docstrings' contract without timers, flags and tasks; `EngineSession` implements it
with `yield` derived from `releasing` and the pause's deadline.

**Engine.** Adds slots, tolerance and the drain loop around `EngineSession`'s actions.
A slot holds the set of attributes queued. A colour of a frame is one attribute, and two
colours differ by more than the tolerance. `Dark` are the colours within the tolerance of the
-1 that stands for "none yet", which an RGB stream drops when they come first
(`WithinTolerance`); an XY stream has none. `wanted` is a history variable: the last colour a
frame brought to the light since the reset, dispatched or not. `task[t]` records every drain
task there is, whether `_drain_task` refers to it or not: `new` (created, not run), `waiting`,
`sending` (in the blocking call), `cancelled`, `unborn` (cancelled before its first step, so that
its `finally` never runs), `done`. The wake-up event is abstracted: a waiting task may go
on at any time, since its wait times out anyway. `Take` includes the slots of unavailable
lights, which the loop empties in passing. An exception out of the loop other than the
cancellation is not modelled; a failing service call is.

**Session.** `SyncController` with the Home Assistant light output, the watchdog, the API
flag, the services and the unload. Callers are the requests, `"watchdog"` and `"unload"`;
`holder` keeps the lock across an await, `waiting` is the queue. A released lock is
handed over one turn later (`Acquire`), with other steps in between. Since the start of
this output has no await inside, a start that has the lock is one step. `CancelWatchdog`
distinguishes a sleeping watchdog from one in its own teardown: cancelled in the first
await the restore swallows the `CancelledError`, in the second it is cut off (`doomed`).
A request arrives, awaits its body, and may never get it. `Standalone` tells a server of
its own, which finishes the requests under way before the unload goes on, from Home
Assistant's, which forwards no new ones. The controller's gate also asks `_enabled`;
`Engine` leaves that out and so lets more frames in than the code does. `SidesAgree`
justifies that `Engine` has one `active`.

**HueOutput** and **JointSpace.** `SyncController` again, now with the physical bridge,
whose every call awaits and may fail. `doing` is what the lock's holder awaits; the
backend has a lock of its own, which it only takes under the controller's, so one is
modelled. `session` is the library's session as the backend knows it: `fresh`, `idle`,
`streaming`, `broken` (it counts as streaming and cannot send) or `dead` (it neither
streams nor starts again). `Opened` contains the check for a disabled switch after the
await and `undoing` the stop it makes; `SendFrame` is the frame sent by the task that has
just called the start. `JointSpace` is what calls it: the poll loop with its
back-off, the inactivity check at the end of the back-off only (a poll without colours
takes the `continue` past it), and the unload, which closes the source first. `quiet` says
that the inactivity time-out has passed since the last frame.

**DtlsServer** and **Entry.** Time is in poll intervals: `Tick` is the longest a blocking
OpenSSL call lasts, `aged` that the current one has lasted for a tick already, so that no
call lasts two. That is what makes the race with the join's time-out a question at all.
`BeginStop` closes a socket that is there and joins a thread that lives; `EndStop` frees
the context whether or not the thread has ended. `Entry` starts and stops it together with
the API and the mDNS announcement: `starter` and `stopper` are what `_async_start` and the
unload (or the shutdown) await. `overtaken` is a history variable: an unload began while a
deferred start was under way.

**Pairing.** `request[r]` is a handler of `POST /api`, which awaits its body and then,
if it makes a user on the entry's server, the save. A user is `<<devicetype, number>>`.
`users` is the store in memory, `disk` its file, `initial` the "initial_users" in the
entry's data. `given` remembers what the TV was told, and whether it was on disk by then:
an answer from the existing user does not wait for that user's save. `Import` is the loop
of `async_setup_entry` as a recursive function of the rounds done.

**Configuration.** A step is the submission of a form. `self` holds the flow's attributes,
`data` and `options` are the entry's dictionaries, with their keys present or absent as in
the code, so that `Current` is its `options.get(key, data.get(key, default))`. The
operators after `Spec` are what `async_setup_entry` makes of them. The HTTP mode is left out
(see section 5). A key is identified with the bridge that issued it, an
area with its bridge, a login with its TV.

**Ambilight.** A measurement, the frame made of it and its scaling, in integers: 1.0 is
`Unit` units, the intensity is in quarters, and `Round` is Python's rounding to even. Where
the code's choice depends on the order of the TV's answer, any choice is taken. The
reference is stated by zone numbers (`StandsFor`, `Place`, `Shows`), not by the coordinates
that the code computes: a mapping without measured zones, and "auto", show a zone that no other
is nearer than (`IsNearest`). Its
specification has names of its own (`AmbilightSpec`), because one module proves about it and
about `JointSpace`, the other half of the same source.

## 3. The runs

| Run | Instance | Shows |
|---|---|---|
| `frame_mailbox` | 2 threads, 6 frames | one callback at a time, no stranded frame, an exact count; it implements `LatestFrame` |
| `engine_session` | 2 scenes | the pause/release contract, the restore, every release ends |
| `engine` | 2 lights, 1 colour, classic mode, 2 tasks, light 1 flaky, calls may fail | suppression, life cycle of the drain task, merging |
| `engine_lights` | 2 lights, a blue and a black, streaming only | no starvation; the last colour is reached, a black one that comes first excepted |
| `session` | 2 requests, watchdog, unload | watched, stopped when disabled, sides agree, unloaded is stopped, no restore is cut off but the watchdog's, calls end, implements `EngineSession` |
| `hue_output` | 3 waiting calls | stopped when disabled, closed when unloaded, a TV that is off ends the stream, a bridge that is back gets a new one |
| `entry` | the code's time-outs: 30 and 5 poll intervals | the context outlives the thread, an entry not loaded serves nothing, a silent session ends |
| `pairing` | 2 device types, 3 requests, 3 users | one pair of credentials per device type, which the loaded entry knows |
| `configuration` | 2 bridges, 3 areas, 2 TVs, 2 ports | what set-up reads belongs together, a section of the options leaves the others alone |
| `ambilight` | 8 reported zones, 5 channels (one "auto"), 2 colours, 5 intensities | each channel shows what its mapping promises, the nearest zone where it names none |

Two runs expect a violation: each states what the documentation says and shows how the code
departs from it.

| Run | What happens |
|---|---|
| `two_drain_loops` | a command in the turn between the cancelled task's `finally` and the restore's next step: the restore forgets the new task, the next command starts a second loop |
| `dark_first_frame` | 1 light, an RGB stream that begins with black: -1 means "none yet" and is within the tolerance of 0, so the frame is dropped before it reaches the slot, and the light stays as it was until another colour comes |

**Bounds, and why they are enough.** *Mailbox:* the invariants relate the slot, one flag
and at most one callback; two threads give every pair of positions, and three frames are
enough to supersede one, hold one and queue one, six leave room for a full cycle more.
*Session half:* finite without a bound; two scenes tell a wrong scene from the right one.
*Engine:* two lights are the least that have an order in the round, and a passed
unavailable light; two tasks are the most that live at once but for the double loop,
whose third task is out of the instance (a command that needs one is not enabled there);
one colour is enough where only emptiness and mixing matter, two where the last one does, one
of them dark.
The `VIEW` of `engine` and `two_drain_loops` hides `silent`, `shown`, `scene` and `target`:
what the lights show and how long the frames have been away decide no step of the drain loop,
and none of the properties there reads them. *Session:* two requests can be a start and a stop,
queued behind a third caller, in either order; more requests only lengthen the queue. *Hue
output:* three waiting calls are a start, a stop and a start behind a holder; a poll or a
switch that would be a fourth is not taken. *Entry:* finite, with the real numbers of poll
intervals. *Pairing:* a burst of three has one that creates, one that finds the user
before it is saved and one after; three users allow a second device type and a user of an
entry before. *Configuration:* two bridges tell a stale host or key from the right one,
one of them has two areas of different width, the TVs answer at the default port and at
another one. *Ambilight:* an edge with three zones counted backwards, one with two, one
with a single one and one with none, and a zone on either side of those the topology has;
the channels sit between zones and on top of them, and the "auto" one where the squared
distance and the sum of the differences name different zones; one colour is beyond 255.

**Fairness, and why the code justifies it.** The event loop runs ready callbacks, timers
fire after their delay, so the expiries, `Deliver`, `Acquire`, `Wake` and the watchdog
are weakly fair. An awaited reproduction is bounded by RESTORE_TIMEOUT, a cancelled task
unwinds: `ContinueRestore`, `EndRestore`, `Unwind` are too. `Sent` assumes that Home
Assistant's blocking calls return; the code has no time-out there. Nothing is assumed of
the TV: it may stop sending frames, bodies or requests, or go on for ever. Silence is
bound to come only while a release is forcing it. In `EngineSession` the fairness of
`Teardown` stands for the watchdog; `session` shows that the real one provides it
(`ImplementsEngineSession` includes `EngineSession`'s fairness).

In `JointSpace` the awaited calls to the bridge return or raise (`Returns`), the poll loop
goes on, time passes. Strong fairness is assumed of three steps: `Opened` and `Closed`, for
a bridge that is up does not refuse for ever, and `PollFrame(FALSE)`, for the frames of a
TV that stays on are not all dropped by the cap on their rate. `Recovers` needs
all three; `TvOffStopsOutput` needs none of them. In `Entry` the DTLS thread is scheduled
and time passes; nothing is assumed of the loop.

`ReleaseEnds` has a premise: callers stop calling `release` at some time. Each call
restarts the grace period by contract. The other liveness properties have theirs in the
formula: the TV stays off, on or silent from some time on.

**Deadlock** is checked except where the system really stops: a mailbox whose TV has no
more frames, an unloaded entry whose timers have run out.

### Known deviations

Besides the two runs above, the models show that some plausible promises do not hold. The
formula of each is kept in its module. To reproduce one, add it to the run's `.cfg` in
place of the properties there.

| Formula | Module | Instance | What happens |
|---|---|---|---|
| `NothingRestoredAfterRelease` (property) | EngineSession | as in `engine_session` | `release` during `async_reproduce_state` does not stop it, and the lights are restored over whoever took them |
| `ModesNotMixed` (invariant) | Engine | as in `engine`, without `VIEW` and `SYMMETRY` | `_schedule_update` leaves `explicit_transition` set: a v1 command is merged into a streamed colour |
| `RecentColourIsShown` (property) | Engine | as in `engine_lights`, `Flaky = {1}` | a colour dropped for an unavailable light counts as dispatched for the tolerance check |
| `ReconnectResolvesRelease` (invariant) | Session | as in `session` | a start during a release returns early in the controller; the engine goes on releasing |
| `RestoreIsNotCutOff` (invariant) | Session | as in `session` | a stop cancels the watchdog that is restoring the lights |
| `UnloadedIsStopped` (invariant) | Session | `Standalone = FALSE` | with Home Assistant's HTTP server a request that awaits its body starts a session after the unload |
| `SourceFindsTv` (invariant) | Configuration | as in `configuration` | port, API version and TLS setting typed in the config flow are stored in the entry's data and read from its options alone (`config_flow.py:649-651`, `__init__.py:336-339`), although the repository's `README.md:132` asks for them |
| `DarkTvStopsOutput` (property) | JointSpace | as in `hue_output` | the inactivity check says "Stop a direct output session when the TV stops yielding valid frames", but a TV that answers without colours never reaches it |

Others came up while modelling and have no formula, because they are outside the models'
abstraction or excluded in them by name:

- The flag the TV polls can stay set without a session, when a start arrives in the turn
  between a queued start and a queued stop.
- `DTLSPSKServer.async_start` replaces the `loop=None` that the entry passes on purpose
  (`__init__.py:390`), so that each frame takes a `call_soon_threadsafe` before the mailbox
  sees it: a stalled loop does accumulate callbacks. The frames in them are still
  coalesced; a put on the loop is a special case of `FrameMailbox`'s.
- An unload while the deferred start awaits the API or mDNS lets that start go on, which
  leaves a server and a thread on an unloaded entry (`overtaken` in `Entry`).
- `discovery.async_start` raising fails the set-up and leaves the API and DTLS servers
  running (`AnnouncementFails`; the entry is then in `"error"`).
- A DTLS port that cannot be bound ends the thread with a log entry. The entry is loaded
  and does not listen; the `except OSError` that names the port sees the API's only.
- A config flow that is abandoned while it pairs leaks its temporary server.
- A saved Hue output cannot be turned back into lights: no form of the options removes it
  (`UsesHue => UsesHue'` in `SectionsAreIndependent`).
- The TV positions are stored by channel number and survive the choice of another area.
- In the options flow a TV of a device type that is paired already gets its old
  credentials, and the form reports that nothing has paired.
- An answer that found a user before its save was finished is lost by a crash (`Crash` in
  `Pairing`); the TV has to pair again.
- `set_link_button` documents 30 seconds, LINK_BUTTON_TIMEOUT is 60. `measured_points`
  documents that all-black zones are ignored, and keeps them.

## 4. Proofs

TLAPS checks eight modules, for all values of the constants. Every invariant and every action
property that a passing run checks is stated by one of their theorems.

**FrameMailboxProofs**, from `MaxFrames \in Nat`. The inductive invariant adds two facts
to the checked ones: a thread is refused only by a closed loop (`RefusedByClosed`, or
`Unschedule` could clear the flag of a wake-up that works), and what the loop took is
older than what is in the slot (`Newest`, which makes `Take` take the freshest frame).
From it: `TypeOK`, `AtMostOneCallback`, `NoStrandedFrame`, `Conservation`, and that every
step is a step of `LatestFrame` or a stutter.

**EngineSessionProofs**, from `NoScene \notin Scenes`. The checked invariants need
one more, `RestoringIsInactive`: while a restore is under way no session is active, so
that `ContinueRestore` never consumes the snapshot of a session that goes on. From it:
the invariants, `SnapshotIsKept`, and that every step is a step of `YieldContract` or a
stutter; the interesting cases are `Snapshot` (a release resolved by a start needs
`ReleaseOutranksPause`: the contract knows no pause that resurfaces) and
`OnReleaseGraceExpired` (needs `ReleaseHasResolver`).

**EngineProofs**, from `EngineAssumption` alone: any number of lights and of drain tasks,
any colours and bodies, any failures. All properties of run `engine` and the type
invariant are proved. The inductive invariant adds three facts: `RestoringIsInactive`;
`EndingIsJoined`, that a task which was cancelled and not yet collected is the only one
and is what a restore waits for (or the `finally` of a stray task could clear the flag of
a session's); and `CallsHaveLights`. The properties lean on each other: `NothingStranded`
needs `SessionHasDrain` for frames, which start no task, and `FlagHasTask` for commands,
which start none if the flag is set; `SuppressedSendsNothing` follows from
`SuppressedIsFlushed`. The two drain loops of run `two_drain_loops` break none of them.
Four theorems go beyond the run:
- `RoundIsFair` is the variant under `NoStarvation`: whenever a drain task goes on and
  leaves a light's command in its slot, it begins a call to a light that is nearer to that
  one in the round (`Distance`). With n lights a command
  waits for n - 1 calls at most after the one under way.
- `OneLoopPerStream`: with `Bodies = {}`, that is without classic-mode commands, there is at
  most one task that is not done, and so one call at a time. It is the converse of
  `two_drain_loops`: only a classic-mode command starts a second loop.
- `LastColourIsNotLost`, with `Bodies = {}` and `~SendsMayFail` (the instance of
  `engine_lights`), and for lights that are not `Flaky`: while a session is active, the last
  colour a frame brought to a light is in its slot, is all that the call to it carries, or is
  shown with no call on its way that could replace it; or it is a dark one and nothing was
  dispatched since the reset (`HeldBack`). Each hypothesis is needed: `ModesNotMixed` and
  `RecentColourIsShown` below "Known deviations" fail without the first and the last, a call
  that fails loses its colour, and `dark_first_frame` is the exception.
- `ExactStreamIsNotLost`: with `Dark = {}` there is no exception, as in an XY stream.

**SessionProofs**, from `SceneAssumption` and `CallerAssumption`: any number of requests.
`EngineSteps` shows first that each step of the composition is a step of `EngineSession`
or leaves the engine alone, so that `EngineSession`'s inductive invariant is part of this
one, cited and not proved again (`P == INSTANCE EngineSessionProofs`). The rest of it is
about the lock: `LineIsOrdered`, that whoever waits has asked once and is not the holder
(or a handed-over lock could be lost, or a caller served twice); `CallersHaveRoles`;
`TeardownHasLock`, that a watchdog in its teardown is the lock's holder, without which
`CancelWatchdog` could forget one that is about to stop a session; and `CloseIsLast`, that
when the controller is closed no request is left that could start a session. From it, for
either kind of server: `TypeOK`, `SidesAgree`, `DisabledIsStopped`, the safety part of
`ImplementsEngineSession`, and with it the invariants of `EngineSession`. Under
`Standalone`: `SessionIsWatched` and `UnloadedIsStopped`. The latter is false without it
(see above); the former is only claimed for the server it was checked with.
Three more facts are inductive with the rest. `RestoreHasLock`, that the lock is kept exactly
while a restore is under way, and `NoCallIsLost`, that whoever asked for the lock keeps it or
is in line for it, are what `EveryCallEnds` rests on besides fairness (`CallersAreHeard`).
`DoomedIsWatchdog` shows how far `RestoreIsNotCutOff` fails: the restore that a
`CancelledError` cuts off is the watchdog's own, never one that a request, the switch or the
unload has asked for (`OnlyWatchdogIsCutOff` proves `OthersAreNotCutOff`).

**JointSpaceProofs**, from `MaxWaiting \in Nat \ {0}`, any number of waiting calls.
`AwaitingIsInactive` says that whoever awaits the bridge has taken the output out of use
first, so that a start which is still undone or a stop that failed leaves nothing driven;
`EndIsLast` and `CloseIsFinal` say that the close is the last in line and that nobody
queues behind it, because the source is closed before. From it: `TypeOK`,
`DisabledIsStopped`, `UnloadedIsClosed`. A stream whose stop has raised counts as `broken`, not
as driven: the code has given up on it and the bridge may still be streaming.

The same module proves `ChannelsShowTheirZones` of `Ambilight` (`FramesShowTheirZones`), from
`AmbilightAssumption`: any topology whose zones are a whole number of units apart, any finite
set of reported zones, negative and excessive indices included, any channels, positions,
mappings and colours. The invariant of the state is only that the measurement is a function
from zones to colours. The rest is about the operators:
- `Round` and so an average are within a half of the exact quotient (`RoundIsNearest`,
  `AverageIsNearest`); scaling is exact to half a step and stays in 16 bits
  (`ScalingIsExact`, a theorem of its own).
- `Total`, a fold, is the sum. The folds of the library choose their recursive function, so
  that it exists has to be shown: by induction over the number of zones.
- Coordinates and zone numbers order the zones of an edge alike (`Height`), reversed or not,
  so that the nearest by coordinate is the one `StandsFor` names by number.
- Every set that `Selections` may return is one that `StandsFor` allows, and the nearest zone
  is taken exactly where a mapping selects none. That it is the nearest one is proved too:
  the coordinates computed are those of `Place` (`PlaceIsPosition`), and the one that the code
  picks has the least `Gap` (`NearestIsNearest`).

**EntryProofs**, from `ReadTimeout > 0` and `JoinTimeout > 1`. The thread may outlive its
stop only within the blocking call it is in. `JoinIsShort` counts that: a thread that is
joined has been waited for one tick at most, and after it its call is `aged`. So the join
never times out with a thread alive, which is why `EndStop` may free the context. With a
`JoinTimeout` of one it could. `ThreadHasSocket` is why a listening thread cannot accept a
client after the stop. `StartIsFirst`, `OvertakenOnce` and `EntryIsOrdered` say how starts
and stops follow each other and what each leaves behind. From it: `TypeOK`,
`ContextOutlivesThread`, `UnloadedServesNothing`.

**ConfigurationProofs**, from `ConfigurationAssumption`: any bridges, areas, TVs, ports and
lights. The inductive invariant states what each form knows of the forms before it
(`CreatingIsConsistent`, `ChangingIsConsistent`): a flow past the pairing form has its key
from its own host, one past the area form an area of that host, one that asks about the
stored area a host that is the stored key's. `Creatable` and `Savable` are what a flow must
satisfy to become an entry or options, and a lemma for each of the five writers says which
keys of the dictionaries it writes. From it: `TypeOK`, `EntryIsConsistent`,
`SectionsAreIndependent`.

**PairingProofs**, from `Pairing`'s assumption: any device types, requests and number of users. The
inductive invariant speaks of the order in which users were made, which the stores keep
(`StoresAreOrdered`): `get_by_devicetype` searches from the youngest, so that a device type
is told the youngest of its users (`Latest`), and both checked properties say that this
one is never lost from view. Three conjuncts carry it through the life of an entry:
- `ImportsAreYounger`: the users of a temporary server are younger than those of the file
  that an entry before has left, so that the import, which appends what the file lacks,
  keeps the order; the file of a loaded entry is a beginning of its store.
- `SavesAreUnderWay`: what the file lacks is being saved by a request that has not answered,
  and that user is the youngest of its device type. Without it a crash could bring back an
  older user of a device type that was told a younger one.
- `GivenAreLatest`: what a TV was told is the youngest of its device type among the users
  that are known, or will be once the entry is set up; and was saved, if the answer said so.

From it: `TypeOK`, `BurstIsConsistent`, `AnsweredIsKnown` and `SavedSurviveCrashes`: while the
entry is loaded, its file lacks only users whose save is under way, and none that a TV was
told after its save.

**Induction over data.** The library's induction theorems take an operator, which the provers
cannot instantiate. A set of natural numbers does as well: `LeastNumber` follows from the
well-foundedness of `<` (`NatLessThanWellFounded`, `WFMin`), and an induction is the least
counterexample of a set defined by the formula. That is how the rounds of `Import`, the
searches of `SelectLastInSeq` and the sums of `Ambilight` are reasoned about.

**Only model-checked:** liveness, and the fairness part of every refinement (out of the
prover's reach, as is ENABLED): `ReleaseEnds`, `NoStarvation`, `RecentColourIsShown`,
`EveryCallEnds`, `TvOffStopsOutput`, `Recovers`, `IdleSessionEnds`. The safety arguments
under three of them are proved: `RoundIsFair`, `LastColourIsNotLost`, `CallersAreHeard`. The
two properties that runs expect to be violated are not theorems, nor are the formulas under
"Known deviations".

## 5. What is not modelled

- *Frame parsing, the v1 body's translation, `_adjust` and `_as_rgb`*, the scaling of
  classic-mode brightness: pure functions of one input without state, which unit tests
  reach.
- *Read-only HTTP handlers, entities, diagnostics*: they compute views of modelled state.
  The light entity's switch and intensity are modelled. *`HueHttpHost`'s* views and its
  filter of requests are left out; what its detach means for the requests under way is
  `Standalone = FALSE`.
- *Hue streaming from the TV to a physical Hue output* (a HueStream source with a Hue backend).
  `Session` has that source with the lights of Home Assistant, `HueOutput` and `JointSpace` that
  output with the polled source. In the pair left out a stop of the backend that raises
  (`control.py:201`) ends `async_stop` before the engine's restore: the engine keeps an active
  session that the controller has given up. `SidesAgree` speaks of Home Assistant's lights only.
- *The HTTP mode*, which `_options()` writes back from the flow's attribute
  (`config_flow.py:1218-1219`) although that holds the default unless the flow's first form
  asked. It decides how the Hue API is served, which the entries that form belongs to (a
  polled TV with a Hue output) do not do.
- *The bound of a forced release in seconds.* Time in `EngineSession` is a comparison; that
  the watchdog polls every 2 s on top of the documented `seconds` + 5 s is not stated.
- *The delayed save of the switch and the intensity* (Home Assistant's `Store`).
- *Pairing with Home Assistant's HTTP server*, where a `POST /api` that awaits its body
  outlives the clean-up of the flow: `Pairing` has the standalone server, which finishes
  its requests.
- *OpenSSL, zeroconf, the Hue library, Home Assistant itself* are external; what the code
  relies on is in the definitions marked so in `PROJECT.json`.
- *Brand assets, translations, scripts, CI*: no run-time behaviour.

What could be added next: a timed watchdog for the bound above, the requests of Home
Assistant's server in `Pairing`, and the safety arguments under `TvOffStopsOutput` and
`IdleSessionEnds`.
