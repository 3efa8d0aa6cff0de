# A verification project for the realme 5x device tree

This directory holds TLA+ models of the stateful programs in this repository,
TLC configurations that check them on small instances, and proofs that TLAPS
checks for every value of the constants. Paths are relative to the repository.

The repository is an Android device tree. Most of it is configuration; the
programs with logic of their own are the GNSS HAL (`gps/`, about 30 000 lines of
C++), the fingerprint service (`aidl/fingerprint/`) and a settings application.
The GNSS HAL multiplexes many clients onto one modem, with two message threads,
timers, callbacks from a framework and a modem that may restart: that is where
unit tests reach least, and what most of the models are about.

## 1. Inventory

### How the parts interact

```
 framework / apps
      |  HIDL calls (binder threads)            fingerprint framework
 android/2.1/*  ->  LocationAPIClientBase            |  AIDL calls
      |  calls, callbacks                        aidl/fingerprint: Fingerprint,
 LocationAPI  ->  GnssAdapter, BatchingAdapter,      Session, LockoutTracker
      |           GeofenceAdapter
      |  messages, one queue and thread for all adapters   utils: MsgTask, LocTimer,
 LocApiBase (requests)  <->  modem (answers, SSR)                LocHeap, msg_q
      |
 Agps state machines  <->  framework's data connections; PDN lookup (WDS library)
 SystemStatusOsObserver  <->  data items of the system (networks, settings)
```

Commands of clients arrive on binder threads, are packed into a `LocMsg` and sent
to the message thread of the adapters. That thread runs every handler to its end.
Requests to the modem are messages to a second thread, of `LocApiBase`; the modem's
answer is a message back. So between a command and its answer any other command,
answer, or restart of the modem can be handled, and the lambda that handles the
answer has captured values of the time of the command.

### Components

| Component | State | Operations | What is hard | What makes it correct |
|---|---|---|---|---|
| Tracking sessions of `GnssAdapter` (`gps/gnss/GnssAdapter.cpp` 2432–3450, `gps/core/LocApiBase.cpp`, `LocAdapterBase.cpp`) | `mClientData`, `mTimeBasedTrackingSessions`, `mDistanceBasedTrackingSessions`, `mIsEngineCapabilitiesKnown`, `mPendingMsgs`; the modem's fix session | add, update and remove a client; start, update and stop a session; engine up; restart; answers | answers that arrive after the session changed; restart between request and answer; commands held until the engine is up; sessions that move between two maps | the modem's one session serves every client's session, and stops with the last; each command gets one response; nothing survives its client |
| AGPS data connections (`gps/gnss/Agps.cpp`) | per interface: state, subscriber list, type | requestATL, releaseATL, open/failed/closed reports of the framework, PDN type reports, SSR | reports that are late, of a connection that is gone; requests during a release; handles that survive the modem | the subscriber list matches the state; an open handle has a connection; every request is answered |
| Timers (`gps/utils/LocTimer.cpp`) | per timer: its delegate; per container: heap, timerfd, poll thread | start, stop, expire, push, remove, poll | stop against expiry on another thread; two threads that set and disarm one fd; delegates deleted by message | a started timer expires or was stopped; the fd is set to the soonest time; no deleted delegate is used |
| Heap (`gps/utils/LocHeap.cpp`) | a binary tree with sizes | push, pop, peek, remove | equal ranks; removing what is not there; sizes along a path | none outranks the top; nothing lost or duplicated |
| Fingerprint service (`aidl/fingerprint/`) | session, lockout tracker, current cancellation, a detached timer thread | authenticate, enroll, close, resetLockout, lockoutTimerExpired, acquisitions of the device | the timer outlives session and reset; a session closed twice; death of the client | lockout after the failures the tracker counts, ended once by the timer or the reset; one session at a time |
| LocationAPI and client base (`gps/location/`) | global map of clients, callbacks waiting for destruction, request queues, bidirectional id maps | create, destroy, start/stop of tracking, batching, geofences; responses | destruction waits for up to three interfaces, whose calls come on other threads | the instance goes after the last confirmation, never before; each response finds the request it is for |
| System status observer (`gps/core/SystemStatusOsObserver.cpp`) | subscriptions by client and by data item, a cache, network reference counts | subscribe, unsubscribe, notify, turnOn/turnOff | the two maps must stay inverses; counts for a network that is turned off while requests arrive | notified are exactly the subscribers; the framework is told on the first and the last |
| Batching (`gps/batching/`) | batching and trip sessions, id maps | start, stop, update, trip completion, restart | trips that complete while they are stopped | like tracking |
| Geofences (`gps/geofence/`) | two maps, client key and modem id | add, remove, modify, pause, resume, breach, restart | some of a list fail; the maps are rebuilt on restart | the maps are inverse to each other |
| Message queue (`gps/utils/msg_q.c`, `LocThread.cpp`) | a list, a mutex, a condition, an unblocked flag | send, receive, unblock, flush, destroy | a receiver that waits while the queue is destroyed | FIFO, every message handled once or dropped |
| ODCPI and NI (`GnssAdapter.cpp` 3700–3900, 4870–5060) | active request and its timer; sessions with a thread that waits for an answer | request, timer, response, injection | the timer expires while a new request is handled | one timer at a time; one answer to each NI request |
| XTRA observer (`gps/gnss/XtraSystemStatusObserver.cpp`) | status, a socket, one timer | relays | start order of the peer | the peer is told the last status |
| Reports and configuration, HIDL services, utilities, `libinit`, camera, power, RealmeParts, build files | little or none | conversions, input and output | — | — |

`PROJECT.json` lists the same components with their sources and status, and under
`hazards` the lines at which each of these difficulties bites.

## 2. Modules

| Module | Models | Relation |
|---|---|---|
| `GnssTracking` | tracking sessions, their clients, engine-up and restart, the modem's sessions | |
| `Agps` | the AGPS state machines, with modem, framework and PDN lookup as environment | |
| `RankedHeap` | what `LocHeap.h` promises: a set with a top that none outranks | abstract specification |
| `LocHeap` | the tree of `LocHeap.cpp`, node by node | implements `RankedHeap` (`IsRankedHeap`, TLC) |
| `LocTimer` | timers, delegates, message thread, poll thread, timerfd | uses `RankedHeap`'s operations as its heap |
| `LocationApi` | instances of `LocationAPI` from creation to the end of destruction, and what the adapters know of them | |
| `Batching` | `BatchingAdapter`: sessions, trips that share one batch of the modem, restart | |
| `Geofence` | `LocationAPIClientBase`'s queue and dictionary, `GeofenceAdapter`'s maps, the modem's geofences | client, adapter and modem composed |
| `Fingerprint` | sessions, lockout with its timers, cancellation | |
| `Subscriptions` | what a client of `SystemStatusOsObserver` is promised: one relation between clients and data items, and the framework asked for what is in it | abstract for the observer; also its operations |
| `NetworkTable` | the collation of network events in `SystemStatus` | pure operators, used by `SystemStatus` |
| `SystemStatus` | observer, cache, networks, `NativeAgpsHandler`, XTRA observer and daemon | extends the two above; implements `Subscriptions` (proved) |
| `ModemRequests` | NI requests with their slots and threads, ODCPI with its timer | |
| `MC…` | instances for TLC | extend the above |
| `…_proofs` | theorems about `GnssTracking`, `Agps`, `LocTimer`, `LocationApi`, `Geofence`, `Fingerprint`, `SystemStatus` (with `Subscriptions`), `ModemRequests` | extend these and `TLAPS` |

Several modules have a constant `Loads`: each behaviour begins by choosing one load, which
says what its environment does in it (which clients and commands, how many restarts,
refusals or deaths). Several small instances of different shape are so explored by one run.
History variables (marked so where they are declared) record what a property speaks of or
excludes; no handler reads them.

### GnssTracking

*State.* `time` and `dist` are the two session maps (an absent key is `NoOptions`);
`reg` is `mClientData`; `inbox` the adapter's queue; `api` the queue of requests to
the modem; `known`, `pending` are `mIsEngineCapabilitiesKnown`, `mPendingMsgs`.
`up`, `engine`, `engineDist` are the modem. `phase` is what the client knows of a
session, and `owed` a history: commands of a session minus responses to it.

*Actions.* One action is one handler on one of the two threads. Each lambda that is
given to the modem with a request is an action of its own (`StartAnswered`,
`UpdateAnswered`, …), chosen by the name the request carries in `then`, together
with what the lambda captured (`s`, `opts`, `old`). `HandleStart`, `HandleUpdate`,
`HandleStop` are the `proc()` of the three messages, used by the client's step and by
`HandleHeldCommand`, which handles those messages that `handleEngineUpEvent` sent
again. `RemoveClient` stops the sessions one after the other, each multiplexed over
the map without those before it, as `stopClientSessions` does.

*The modem.* It may refuse what it is asked (`EngineFails`), and also to be opened (`Open`); the code does not try
that again (`LocApiBase.cpp:100`, :122). In the run it does neither; `Batching` is the same.

*Abstractions.* Options are interval, power mode and whether a distance is asked for;
`tbm` and the raising of an interval to the minimum the modem supports
are taken as done before a command comes. NHz sessions, DGNSS and the engine hub (a stub in
this tree) are left out. Invalid option sizes, which are answered without any state change,
are left out. A command is handled in the step in which the client sends it: the queue is
FIFO, so the order of commands with respect to answers is the order of the steps, and the
only reorderings lost are between a command in the queue and its sender, who does not look
at the adapter's state.

### Agps

*State.* Per interface ("agnss" for SUPL and emergency SUPL, "internet" for WWAN):
`state`, the subscriber list `subs` (absent, active or `mIsInactive`), the type, what
the framework still has to do (`fw`), its connection (`conn`), lookups of the PDN type
under way. `inbox` holds the reports on the adapter's queue; `modem` what the modem
was told last about each handle.

*Actions.* `requestATL` and `releaseATL` with the whole of `processAgpsEvent…`; the four
handlers of reports; the framework's answers, its loss of a connection, and the path on
which `dataConnOpenCommand` refuses an APN and sends RELEASED to the state machine on the
caller's thread. `modemRestart` changes nothing in the adapter, because no code calls
`handleModemSSR`; the modem forgets its handles and uses them anew.

*Abstractions.* A report to the modem of a handle for which no state machine exists is
not a change. The modem does not release a handle it was told the end of. The refused
APN is taken as one step, although it runs on the framework's thread without a lock.

### RankedHeap, LocHeap and LocTimer

`LocHeap` keeps the tree as the code does: nodes never move, push and pop swap data
along a path, `mSize` counts the subtree, the search of `remove` is cut where the node
is outranked. Its operators are recursive, so nothing is proved in that module; that it
implements `RankedHeap` is checked by TLC. `RankedHeap` leaves open which of several
elements of the same rank comes to the top, so `LocTimer` is checked with each of them.

`LocTimer` models one `LocTimerContainer`. The code of a thread is cut at each system call
and around the client's callback: the message thread does
`push | remove | expire -> pop … -> add or remove poll -> settime`, the poll thread
`epoll_wait -> disarm -> removePoll -> send expire`. `mTimer` changes under the timer's
lock, so start and stop are single steps. `LocTimerDelegate::expire` reads `mClient`
without the lock, in the step that pops the delegate. Delegates are allocated from a finite
set of addresses and freed when the remove message is handled, so an address may be reused
while an old message still names it. The destruction of a `LocTimer`, the C wrapper
(`loc_timer_start`) and the second container (wake and no-wake timers do not share state)
are left out.

### LocationApi

*State.* `object` is the memory of an instance; `clientData`, `destroyData`, `loaded`,
`refCount` and `framework` are the members of `gData`; `mClientData` and `known` what each
adapter keeps; `inbox` the one queue of the adapters, `pending` the requests an adapter
holds until its engine is up. *Actions*: `createInstance`, `updateCallbacks`, `destroy`
(each under `gDataMutex`), the adapters' handlers of add, remove and capability requests,
and the confirmation of a removal, the last of which deletes the instance. *Abstractions*:
the callbacks of a client are the set of adapters it needs; an interface whose library is
missing is tried once. The calls that only pass a request to an interface are left out, and so
is a destruction in the midst of a callback of the instance.

### Batching

*State.* `adapter` is the record of `BatchingAdapter`'s fields: the sessions and trips with
their distances, the ongoing batch, the two dropped flags, the batch-full registration.
`inbox` and `api` are the queues as in `GnssTracking`. The modem runs sessions (`running`)
and one `batch`, which has an odometer.

*Actions.* Start, stop and update of a session of any of the three kinds, each with the
lambdas it leaves behind; the multiplexing of trips (query the distance, restart the batch
with new minima), its completion (`reportCompletedTrips`), removal of clients, engine up and
restart. Distances are unsigned with a width (`Wrap` stands for 2^32), because the
accumulated distance is a difference of odometers. *Abstractions*: the reports of positions,
the position modes and the sizes of batches.

### Geofence

A client calls under its mutex in one action: it enters the request in `queue`
(`mRequestQueues`) and its id in `dict`. The adapter's handlers, the calls on `LocApi`'s
thread and the answers are the other actions. Answers carry no id: the client pops the
oldest request, as `LocationAPIClientBase::geofenceResponse` does, and the history
`misheard` notes when that was another one. The other histories are `mishaps`, `toldPaused`, `breached`,
`lost` (geofences removed while they were being added) and `refused` (those of which a removal failed). *Abstractions*: a geofence is its owner, whether it is paused and which of two
options it has; callers pass one geofence at a time, as `GeofenceAPIClient` does.

### Fingerprint

*State.* For each session its `tracker` (count and mode), the two flags of its timer and
whether it is closed; the `thread` of the binder and that of the device's callback, with
the step at which each is; the detached `timer` threads with the time they have left; the
operation of the device. *Actions*: the calls authenticate, resetLockout, close and cancel,
the reports of the device, and the steps into which a handler is cut where it reads or
writes what another thread may change. A `LockoutTracker` has no constructor, so its mode
begins as any of `Uninitialised`. *Abstractions*: hardware-auth tokens, enrolment,
enumeration and removal, which pass their arguments to the device.

### Subscriptions, NetworkTable and SystemStatus

`Subscriptions` has the two maps of the observer, with `LocUnorderedSetMap`'s operations,
and what the framework was asked for; the framework object may be set late.
`NetworkTable` has `SystemStatusNetworkInfo::collate` and `setIteminReport`. `SystemStatus`
adds the cache, the events and their delivery to the observers, `NativeAgpsHandler` with the
connectivity it keeps, `XtraSystemStatusObserver` with its daemon, and the death of the
framework: `resetNetworkInfo` runs over the reports on a thread of its own, one report a
step. The daemon says with its request whether its status is updated; if so it is sent nothing
(`XtraSystemStatusObserver.cpp:215`), also when it has just restarted. *Abstractions*: the data items are networks and one that stands for those with a plain
value; a handle stands for its network.

### ModemRequests

*NI.* Two slots (`mNiData.session` and `sessionEs`), each with the request, id, response and
flag of `NiSession`; a thread for each request that waits, takes the response and informs
the modem; the answer of the user, matched by id without the locks. A handler of the
message thread that locks a slot is cut there (`todo`). Verdicts without the user
(`requestNotify`: NFW lock, emergency override, control plane) are `Verdict`.
*ODCPI.* The state mask, the stored request and the timer of `GnssAdapter`; START and STOP
of the modem, the expiry message, the callback of the framework, the emergency call that
SystemStatus is told of, and a restart of the modem. *Abstractions*: time-outs may happen
whenever they are set; thread creation succeeds.

## 3. Runs

| Run | Shows | Bounds |
|---|---|---|
| `GnssTracking_sessions` | the modem serves every session with a short enough interval and runs nothing for nobody; each command has exactly one response, in the end; commands held until engine-up are released; no session is in both maps | two clients with a session each, two intervals, three messages in the queues. Loads: time based sessions, two unanswered commands a session and one restart; both kinds of sessions, one unanswered command, no restart |
| `Agps_restart` | subscriber list and state agree through restarts, refusals, losses, lookups and bad APNs; until a restart an open handle keeps its connection | three handles, SUPL and emergency SUPL, one restart, one lookup at a time, three queued; handles symmetric |
| `Agps_shared` | what is acquired is connected, what waits is waited for, every request is answered and every release ends | two handles on both interfaces (SUPL, WWAN), two queued |
| `LocTimer_expiry` | running timers are held, no delegate is used after its deletion, the fd is set to the soonest time, every timer expires or is stopped | two timers, two addresses of delegates, delays 1 and 2, time up to 3 |
| `LocHeap_refines` | the tree is a heap with right sizes and implements `RankedHeap` | six elements (symmetric), three ranks |
| `LocationApi_lifecycle` | an instance outlives whatever names it; each adapter has the callbacks that are left; destruction ends | two addresses, GNSS and batching, the latter possibly missing; one message queued when a client calls |
| `Batching_sessions` | the modem runs the sessions of the map; stopped ones are gone; the batch-full event stays registered while needed; a batch exists exactly while there are trips, and none is reported early | two sessions of two clients, distances below 8 and 3 travelled, two unanswered commands, one message in flight. Loads: passed-through sessions whose commands cross, of both kinds, or of one with a restart; a restart beside a single command, or beside trips; a trip beside a session; two trips with different distances and intervals |
| `Fingerprint_lockout` | failures are counted whichever threads meet; lockouts hold and are lifted; who is cancelled is told | thresholds 2 and 3, a lockout of one tick, two timer threads, a mode that may be uninitialised. Loads: one session in every lockout; two sessions whose operations are cancelled |
| `Geofence_restart` | the maps, the modem and what clients were told stay in step; answers reach their requests; nothing is monitored for nobody; all are answered | two clients, one id, three modem ids, two adds. Loads: two clients of which one may leave, with a restart, a refusal and a breach; one client with four commands; one with two restarts |
| `ModemRequests_answers` | at most one answer to an NI request, and the user's answer to that request; every request ends; the framework is asked for what the modem wants | three NI requests or five ODCPI requests with a restart, or both kinds; answers and configuration as five loads |
| `SystemStatus_networks` | the two maps stay inverses, the framework is asked for what is subscribed, subscribers are told what is current, connectivity is true | three observers, two data items, three networks of two types, three reports kept. Loads: up to four events with a death of the framework, with and without restarts of the daemon; clients that subscribe and unsubscribe |
| `SystemStatus_apn` | **violated**: `ApnIsCurrent` | the same instance |

*Why the bounds are enough.* What the tracking properties tell apart is whether another
session exists, whether it needs a shorter interval, and what is still in the queues: two
sessions of two clients show each branch of the multiplexer, and three messages allow a
command between a request and its answer and another one behind. One restart shows each
order of the restart and the messages around it; two are allowed where the first changes what
the second finds (a geofence paused again). For AGPS, three handles give every combination of
an active and an inactive subscriber with a request that arrives in RELEASING. Six elements
give trees of three levels with a subtree that lacks a child, where pop and remove go
different ways, and three ranks give equal ranks at the top and below it. Two timers with two
addresses force the reuse of an address as soon as it is free, and so do two addresses of
`LocationAPI` objects. Two trips with crossed distances and intervals make the batch restart
for the sake of either, and a distance of 3 below a width of 8 shows a difference of odometers
that went below zero. With thresholds 2 and 3 there is an attempt before, at and between
them; two timer threads are an old lockout's and a new one's. Three networks of two types are
two of one type and another beside them, and three kept reports are fewer than the events, so
that one is dropped. Three NI requests are one in each slot and one that finds its slot
taken or just given back; five ODCPI requests are a START, a STOP and a START around an
expiry, and an emergency before or after.

Counters are bounded by `MaxInFlight`, `MaxTravel`, `MaxOwed` (tracking: `owed` of the load),
`MaxRestarts`, `MaxLookups`, `MaxQueued`, `MaxHeld`, `MaxTime`, `MaxAdds`, `MaxRequests`, and the
numbers in `Loads`. They stand in the guards of the environment's steps (a client or the modem
waits, or the world ends), never in those of a handler, except `MaxLookups`, which delays the
handling of an open report. The checks for deadlock are off where the environment may really
stop: all clients gone, all handles idle, a load used up, the clock at its end.

*Symmetry* is used where only safety is checked and the values are interchangeable: handles
of AGPS, elements of the heap. Session ids are ordered (the maps iterate in their order), so
they are integers and not symmetric.

*Fairness.* Weak fairness of the message threads (`MsgTask` loops on its queue until it is
destroyed, which it never is while the HAL runs), of the modem's answers and its coming up
again (each request gets one answer, success or error, by the contract of `LocApiResponse`), of the
framework's answers and the lookup's callback in AGPS, of the poll thread, the timer threads, the binder and
callback threads between their steps, and of time. Strong fairness once: a fingerprint device
that has been told to cancel reports it in the end, though another report may come first. No
fairness for anything a client, a user, the modem or the network may choose: starting, stopping,
answering, releasing, restarting, losing a connection. `CommandsAnswered`, `RequestsAnswered`,
`TimersExpire`, `ClientsAreServed`, `LockoutIsLifted`, `EndedIsTold`, `AllAnswered` and
`NiRequestsEnd` are checked under it.

*Exceptions.* Where a property names a condition it does not claim anything about (a restart, a history
such as `mishaps`, `raced`, `hurried`, `marks` or `faults`), the code really fails there, and
section 4 says how. The condition is as narrow as that failure allows.

## 4. Findings

`SystemStatus_apn` shows one disagreement with the documentation as a counterexample:

* **Stale APN** (`DataItemConcreteTypes.cpp:771`). A cached `NetworkInfo` never takes over the access
  point name of an event, so `NativeAgpsHandler` opens connections with that of the first network
  reported, or none. Its comment (`NativeAgpsHandler.cpp:57`) says: the preferred name when
  connected.

The others were met while modelling. Each is excluded by a named condition of a property, or appears
when the constants are changed as said.

*Tracking* (`GnssAdapter.cpp`)

* `:2994` A start or an update that only shortens the interval keeps the power mode of the session with the
  smallest interval, whereas the restart of a stop uses the least power mode (three sessions).
* `:3166` An update from distance to time based first stops the distance session. The lambda of that stop saves
  and starts the session without looking whether it, or its client, was removed meanwhile; the failed update after
  a restart brings one back as well (`NothingForNobody` excludes both).
* A client without a tracking callback that starts a session is never answered (`CallbackKinds` with `"silent"`,
  `CommandsAnswered`). After a restart a session just stopped may run on. A modem without distance based
  tracking (`DistanceSupported = FALSE`): an update from time to distance stops the fix session and keeps the time
  based entry. A refused start erases the session though the modem goes on for it (`EngineFails = TRUE`,
  `EngineServesSessions`).
* `:3184` Of a distance based session that is updated, the lambda of the stop says nothing when the stop
  fails, so the update is never answered (`AnsweredOnce` with a restart in a load with distances).
* `:3190` While such a session is restarted, an update to time based finds it in its map. If it is sent before the
  answer to the first, the lambda of the restart saves the session as distance based again and that
  of the switch as time based: it is in both maps, or in one without running (a load with distances and
  `owed` 2, `OneMap` and `EngineServesSessions`).

*AGPS*

* `GnssAdapter.cpp:5322` A PDN lookup started for a connection that has been lost is taken for the next request: the modem is told
  that a connection is open which the framework has not set up (`Agps_shared` with `PdnLookup = TRUE`,
  `AcquiredIsConnected`).
* A refused APN leaves the state machine in PENDING (`ApnMayBeBad = TRUE`, `WaitingIsAnswered`).
  After a modem restart a handle that was inactive stays inactive when it is requested again
  (`MaxRestarts = 1`, `RequestsAnswered`).

*Timers.* `LocTimer.cpp:381`: an expire message of a timer that was stopped between the poll thread's message
and its handling pops whatever is on top of the heap, though the comment says that it has a time older than now.

*LocationAPI* (`LocationAPI.cpp`)

* `:204`, `:380` The test of the destroy-complete callback is inverted: it is never invoked, so
  that `LocationAPIClientBase` objects are not deleted.
* `updateCallbacks` without a category that was there leaves the old callbacks with that adapter.
  `LocationControlAPI::destroy` does not clear the control callbacks.

*Batching* (`BatchingAdapter.cpp`)

* `:511` A stop or removal during an update finds no session: it is dropped, not answered, and the session
  runs on. `:183` Held commands are queued again behind newer ones (the same in `GnssAdapter`).
* `:533` Each update is answered twice, that of a trip too. `:516` A failed stop saves default options, without
  registering the batch-full event. The error codes that `LocationAPI.h` promises for a missing callback, a bad
  parameter or an unknown id are never answered.
* `:911` A trip that stopped or completed stays in `mBatchingSessions`. `:890` `stopTripBatchingMultiplexCommon`
  dereferences `end()` when the trip completed meanwhile. `:678` `reportCompletedTrips` uses an iterator after
  its erasure. The dropped flags are never reset.
* `:209` `restartSessions` resets the accumulated distances in a copy, so that the unsigned difference
  goes below zero after a restart; `restartTripBatching` uses minima of before; a restart of the batch
  between the question for its distance and the restart ends a trip early; a failed question drops the new trip but
  answers success.

*Fingerprint* (`aidl/fingerprint/`)

* `Session.cpp:122` The mark that aborts a timer stays: a later timed lockout is never lifted for its client. After a success a
  new lockout is ended early by the old timer; a late timer gives one attempt away.
* `OppoDevice.cpp:190` A signal of an old session cancels the operation of the new one; the late report of an
  earlier cancellation can leave it untold; a refused cancel is told as done; a cancel may be told twice.
* `LockoutTracker.h` A mode that is not initialised may disable the timed lockout. `Fingerprint.cpp:119`: each
  session has its own copy of the tracker, which forgets earlier failures. `Session.cpp:67`: authentication goes
  on though it is locked out. `:192`: the death recipient is deleted twice. `:288`, `:294`: timers outlive sessions, and race with a reset.
  `:350` A reset that meets the count of a failure is lost: the count stays too high.
* `RbsDevice::remove` reports `UNABLE_TO_REMOVE` when the query after it succeeds.

*Geofences* (`GeofenceAdapter.cpp`, `LocationAPIClientBase.cpp`)

* A failed resume is never answered, which shifts the client's queue; a command for an unknown
  id is answered before an earlier one under way, and the wrong request is popped.
* `:58`, `:351` A removal, or the destruction of the client, while an add is under way finds nothing in the maps and leaves a
  geofence that nobody can name (`NoOrphan` allows these, `lost`, and those of which a removal failed, `refused`). A client that is destroyed while a removal is under way leaves an entry that is added again after a restart.
* A modem id used after a restart may be that of another geofence. `:166` The paused flag is lost at
  the first restart, so that the second resumes the geofence. A failed modify is told as success; a failed removal cannot be
  tried again; a failed add leaves its id in the dictionary.

*System status*

* `XtraSystemStatusObserver.cpp:215` A daemon that has restarted and says that its status is updated is told nothing until
  something changes; `ConnectivityIsTrue` speaks of what it was told, or of one that asked for the status.
* `SystemStatus.h:597` When a network goes while another of its type stays, the types of all others are forgotten; the first
  event, if it is a disconnect, is stored as a connected type. `resetNetworkInfo` walks over the last reports
  rather than the connected networks, without the mutex.
* `LocUnorderedSetMap::update` returns the items kept instead of those dropped, and erases from the set it iterates.
  An item first requested is never subscribed at the framework. XTRA's destructor does not unsubscribe the TAC.
  `turnOn` before the framework object is set is lost.

*Requests of the modem* (`GnssAdapter.cpp`)

* `:4811` An ODCPI START within the time of the timer after a STOP is lost: it sets `mOdcpiRequestActive`, but
  the timer looks at `mOdcpiStateMask`. `:2607` After a restart of the modem the mask stays, so that the framework is
  asked for ever. A normal START during an emergency replaces the stored request.
* `:4562` A response that is stored when the thread has taken its request stays set and answers the next request of the slot (the
  comment there says that the flag is reset for the next session). `:4586` The id is cleared outside the lock, and may be that of
  the next request. A time-out overrides a response that was accepted; an answer after an emergency's IGNORE
  overrides it. Nothing resets NI when the modem restarts, though `:4564` says so.

## 5. Proofs

TLAPS proves for every value of the constants that satisfies the assumptions named in the
modules:

* `GnssTracking_proofs!TypeCorrect`: `Spec => []TypeOK`, from `SessionsAssumption` and the others of the
  module. The multiplexer makes options of parts of others, so that these are options again, with a power
  mode of the configuration, is the first lemma on it. The strengthening `TypeInv` says what each request
  and message carries for the lambda it will run (`SoundRequests`, `SoundMessages`).
* `GnssTracking_proofs!NeverAnsweredTwice`: `Spec => [](\A s \in Sessions : owed[s] >= 0)`, without further
  hypotheses. `Flying(s)` counts the answers in flight for `s` in all three queues (requests whose
  lambda will respond, their answers, held commands). `Due`: of a client that is there, no more are in flight than are owed. One
  lemma per side says what its steps do to both numbers (`ClientLedger`, `AdapterLedger`, `ModemLedger`).
* `GnssTracking_proofs!CommandsAnsweredOnce`: `Spec => []AnsweredOnce`, if all clients have a tracking
  callback and the modem never refuses (`NeverRefused`: the loads are time based or without restart or refusal). `Balanced` is `Due` with
  equality. The hypotheses are the two ways in which the code forgets a response (`GnssAdapter.cpp:3184`,
  section 4); `NoFailures` proves that the second does not happen then.
* `GnssTracking_proofs!NothingLeftForNobody`: `~EngineFails` implies `Spec => []NothingForNobody`, for any number of
  sessions and of open commands. `Left` is what the modem runs once it has served its queue; `Needed` says that
  this is nothing when the map is empty, and `OnlyLive` that the map has live sessions only. A handler
  may be looked at without the queue before it, because its last request for the fix session decides
  (`ConcatDecides`).
* `GnssTracking_proofs!SessionsHaveOneMap`: `Spec => []OneMap`, if the clients of each load have at most one
  command of a session open, or use no distance based ones, whatever the modem does. `Placed`: at most one change of a session
  is under way, of a kind that tells which maps the session may be in (`Sorted`). That there is at
  most one follows from `Due`. Without the hypothesis it is false: with two open commands TLC finds
  an update of a distance based session that crosses one to time based (section 4).
* `GnssTracking_proofs!EngineServesAllSessions`: `Spec => []EngineServesSessions`, restarts of the modem included, if
  it refuses nothing while it is up (`~EngineFails`), for time based loads, or loads with distance based ones that the modem supports and at
  most one open command of a session. For the fix session `FixesFollow`: the queue leaves it with an interval that serves all (`Served`), unless
  the modem is to be opened or the adapter to hear of it, upon which `restartSessions` asks for
  what serves all. For the distance based ones `DistanceFollows`: each runs once the queue
  is served, or its end is under way, or an engine-up. Both need `Recovery`: a modem that is down has a request to open it, which does not fail under `~EngineFails`, and
  a failure is followed by an engine-up. The hypotheses exclude what section 4 names, and TLC finds
  the property violated with two open commands.
* `GnssTracking_proofs!NoneHeldAfterEngineUp`: `Spec => []HeldOnlyBeforeEngineUp`. The
  property is inductive as it stands: only a handler of a start or an update adds to
  `pending`, and only while the capabilities are unknown (lemma
  `HandlersHoldBeforeEngineUp`); `HandleEngineUp` sets `known` and empties `pending` in one
  step. No assumption is needed.

  The model joins sequences with `FlattenSeq`, which is a recursive function, and the maps iterate in the order of their keys.
  What either yields for any length needs induction, and this is done as the choice of a least counterexample (`LeastExists`):
  `Flattened`, `MapOrderEnumerates`, `RemovalKeeps`. `MapOrder` is therefore defined by the rank (in `Geofence`, too)
  of a key, and `Sessions` assumed finite.
* `Agps_proofs!TypeCorrect`: `Spec => []TypeOK`, from `AgpsAssumption`.
* `Agps_proofs!ListsMatchStates`: `Spec => []SubscribersMatchState`, from `AgpsAssumption`,
  restarts included. The lemmas `…Effect` state what each event does to state, list and modem
  as functions of the state before; `StepIsEvent` shows that every step is one of a few
  event steps; `EventKeepsMatch` is then the invariance proof over those events only.
* `Agps_proofs!OpenHandlesKeepTheirConnection`: `Spec => [](OpenKeepsConnection /\
  SubscribersAreInUse)`. The two are not inductive by themselves:
  what the modem was told of a handle must be what the state machines hold of it. The
  strengthening `Views` says that of each handle, until the first restart: an idle one is
  subscribed nowhere, one that
  asked is active on an interface that is waiting, an open one active where the connection is
  acquired, a closing one inactive, and none is subscribed twice. `EventKeepsViews` proves it
  event by event.
* `Agps_proofs!AcquiredConnectionsAreUp`: `~PdnLookup` implies `Spec => []AcquiredIsConnected`, and
  `Agps_proofs!WaitingInterfacesAreAnswered`: `~PdnLookup` and `~ApnMayBeBad` imply
  `Spec => []WaitingIsAnswered`. The two hypotheses exclude what section 4 shows to break the properties
  in the code: the lookup at `GnssAdapter.cpp:5322` that answers for a connection that is gone, and the
  APN that is refused. Both are settings of the environment in which the runs are passing, too. The invariant
  speaks of the reports on the queue: one that a connection is open is true, or that of its end stands
  behind it (`OpenIsTrue`); a pending machine has a request with the framework or its answer on the queue
  (`PendingWaits`); a releasing one has the report of the end on the queue, or the
  release is the last command the framework has, with something left to end (`ReleasingWaits`).
* `LocTimer_proofs!TypeCorrect`, `NoneUsedAfterDeletion` and `RunningTimersAreHeld`:
  `Spec => []TypeOK`, `Spec => []NoDeletedDelegate`, `Spec => []RunningIsHeld`, from
  `TimerAssumption` and nothing about how often addresses are reused. Whether a delegate may
  still be used depends on which messages about it are under way, so the strengthening `IInv`
  speaks of the queue: a delegate has at most one removal in it, which stands behind its push
  and finds it without a client (`QueueInOrder`); a timer and its delegate name each other
  (`Owners`); what is in the heap or being expired is allocated (`HeapAllocated`); and what a
  timer holds is pushed, in the heap, or just expiring (`Held`). One lemma per action shows
  that it keeps `IInv` (`StartKeeps`, `StopKeeps`, `PushKeeps`, …); `Inductive` puts them
  together.
* `LocTimer_proofs!SoonestTimeIsArmed`: `Spec => []SoonestIsArmed`. What the message thread is about to
  tell the kernel is the time of the top (`Telling`); unless an expiration is under way, what it has told
  the kernel still holds while it waits (`Told`). Between the two system calls only the poll thread can
  disarm, and it then has an expiration under way.
* `LocationApi_proofs!InstancesExist`: `Spec => []InstancesOutliveUses`, and
  `LocationApi_proofs!AdaptersKnowClients`: `Spec => []ClientsAreKnown`, `TypeCorrect` besides, from
  `LocationApiAssumption` and for any number of adapters, addresses and callbacks. `IInv` says of each
  instance and each adapter what is under way between them: the removal is waited for exactly while it
  is in the queue, once, behind the last addition (`RemovedLast`); what is added goes to a loaded adapter
  (`AddedIfLoaded`); and the last a loaded adapter hears of a client are the callbacks it gave last
  (`HeardLast`). With the queue drained that is `ClientsAreKnown`. An address is used again only when
  the object at it is gone, and then nothing in the queue names it: that is part of `RemovedLast`.
* `Fingerprint_proofs!TypeCorrect`, `FailuresAreRemembered` and `LockoutsAreKept`: `Spec => []TypeOK`,
  `Spec => []NoFailureForgotten` and `Spec => []LockoutsHold`, from `FingerprintAssumption`, for any
  thresholds, duration, sessions and timers, and whatever a mode never initialised holds. Types need
  that what a starting thread remembers is a time to sleep (`Doing`). For the second, the count the thread of the
  device has read was at least the failures (`CountsFromRead`), whoever resets meanwhile. For the third, each
  session has an invariant of its own (`SessionInv`), kept as long as no two threads meet in it: the count
  is that of the failures; a lockout that was answered leaves no free attempt, and what is
  free before one is bounded by the failures (`PendingInv`, `AnsweredInv`); a permanent lockout
  has aborted the timer, or is about to (`PermanentInv`); and there is one timer exactly if
  one is marked or being started (`TimerInv`). Each step is about one session (`OnlyAbout`), and the invariant
  of the others does not depend on it (`Frame`).
* `SystemStatus_proofs!SubscriptionsInStep`: the abstract specification of the observer keeps its
  two maps inverse to each other and the framework asked for all that is subscribed and was not
  only requested, for any numbers of clients and data items.
* `SystemStatus_proofs!ObserverImplementsSubscriptions`: every behaviour of `SystemStatus`, with its
  networks, restarts and resets, is one of `Subscriptions`: each step maps to one operation
  on the subscriptions or leaves them alone. `ObserverMapsAreInverse` and `ObserverServesFramework`
  carry the two invariants over to the detailed specification, where the run checks them.
* `SystemStatus_proofs!SubscribersKnow`: `Spec => []SubscribersAreCurrent`, from `SystemStatusAssumption` and
  `NetworkTableAssumption`. It rests on the first two: that an event reaches a client needs both maps to have
  it (`MapsAreInverse`). `ToldInv` adds that nobody was told of what the cache does not have
  (`ToldIsCached`) and that each report in the table and in the queue is one of a network (`NetworkInfos`).
* `SystemStatus_proofs!ConnectivityStaysTrue`: `Spec => []ConnectivityIsTrue` for a finite set of networks, of which there are
  no more than handles (`MAX_NETWORK_HANDLES` is 10; beyond it `collate` drops the handle). That all is true once
  nothing waits follows from four facts that hold at every moment. `InStep`: the networks of the last report become the ones that are
  connected by what waits: for each network its last event in the queue says how it stands, and if there is none, the report does,
  but for what a reset has not reached yet (`Unreset`); and without a report the first event is of a network that comes, else
  the table would start with the handle of one that went. `CacheIsNewest` and `Listen`: the cache has what was last reported, and both observers are subscribed or
  have the subscription in the queue. `RelaysAll`: the last relay under way has what the XTRA observer was last told.
  `DaemonIsServed`: a daemon that has asked, as one whose status is not updated, has its request in the queue or knows what the
  observer does; one that says it is updated is only claimed to be right about what it was told. `CollateIsTrue`
  shows where each exclusion in the property is needed: types that are shared, and a shift of the reports under a reset.
* `ModemRequests_proofs!TypeCorrect`: `Spec => []TypeOK`, from `LoadsAssumption`. That a thread which waits has its
  request in a slot is part of the invariant (`RequestsAreHeld`), because the slot gives the index of the request
  that is answered.
* `ModemRequests_proofs!OdcpiIsFollowed`: `Spec => []OdcpiFollowsModem`. What the property says once all messages are
  handled follows from what each message under way will do, so `OdcpiInv` speaks of the queue:
  if a request of the modem is in it, the last one asks for what the modem wants (`IsLast`, `AsksFor`); if none is,
  the members already agree (`Agree`); and an expiry is in it only when the timer has stopped.
  One lemma per action.
* `ModemRequests_proofs!NiAnswersAreTheUsers`: `Spec => []NiAnswersAreRight`. The strengthening `NiInv` follows each request
  on its way: no two messages concern the same one (`Once`), its message comes before its thread and the answer of
  the thread after it (`MessageRight`, `RequestRight`); a slot holds a request whose thread still waits, with its id or none, and the
  response in it is for that request unless one was left from the last (`SlotRight`); what the message thread has
  still to store is for the request that is in the slot (`TodoRight`); ids and slots are not shared (`NoSharing`). A response can
  be stored after its request is gone, which is why `late` is part of the invariant.
* `Geofence_proofs!TypesAreKept`: `Spec => []Typed`, which implies `TypeOK` and says what each message under way carries.
  Each step is first put in one of a few forms (`Step`: a message is posted, handled or passed on by `LocApi`'s thread, or the modem
  restarts), and the invariants are proved
  over these. From `GeofenceAssumption`: finitely many clients and hwIds, the latter natural numbers.
* `Geofence_proofs!MapsStayInStep`: `Spec => []MapsInStep`, and `NoneIsLeft`: `Spec => []NoOrphan`, for any clients, geofences,
  refusals, restarts, breaches and clients that leave, until a call hits the geofence of another client (section 4). Who is left
  over is said key by key: only what was removed while it was being added, or of which a removal failed. The properties speak of the moment when all is answered; until
  then the modem is ahead of the maps by what the inbox holds, so the invariant `InStep` speaks of the maps as they will be once the
  first k messages are handled: the last of these that touches an entry decides it (`Ends`). `Slots`: where the
  modem has a geofence the map will have it, and where it has none the entry will be free, also at the message of each
  breach and answer. `Unique`: the geofence of a session is in one message or one entry of the map, at most. `Order`: what names a
  geofence comes behind what carries it. `Stale`, `Owned`: a geofence that one of the maps has lost, or that its client cannot name, has a
  removal under way, or its removal, or its client's, came while it was being added or failed (`lost`, `refused`). `OptionsAreHeard`, `Restarts`, `Paused`: its options, and until the second restart
  whether it is paused, are those the modem was told, or are about to be.
* `Geofence_proofs!AnswersAreHeard`: `Spec => []RightCallback`. Answers carry no id, so that a client hears the right one because its
  requests are answered in the order of its queue. `Waits` cuts the queue into five parts, oldest first: answers in the inbox,
  calls the modem has to serve, commands to be performed, those on their way through `LocApi`'s thread, and those not yet looked at; each part lists
  the messages of its stage in their order. A geofence that is unknown skips stages, and a resume that fails is
  never answered: these are the exceptions in the property. For breaches it follows from `Slots`.

Only model-checked: the four invariants and the action property of batching, whose proofs would have to follow the trips through the
queries of the distance and restarts of the batch that are under way; `checkTree` and the refinement of the heap, whose operators are
recursive; and all liveness properties, which need `ENABLED`. `OneMap`, `AnsweredOnce` and
`EngineServesSessions` have counterexamples outside the hypotheses of their theorems (section 4).

## 6. Not modelled

* Position, satellite, NMEA and measurement reports, the configuration commands of `GnssAdapter`
  and the HIDL services convert data between structures and keep no state that later calls depend on.
  They and the tables of `loc_nmea`, `gps_extended_c.h`, `loc_gps.h` and `LocationDataTypes.h` are most of the
  lines of the HAL.
* `SystemStatus.cpp` is modelled for networks and the reports it keeps of them; the rest parses debug sentences.
* `LocIpc`, `loc_cfg`, `loc_nmea`, `loc_log` and the like are input, output and text.
* The message queue (`msg_q.c`, `MsgTask`, `LocThread`) is a locked list and a condition variable: the models rely on
  its messages being handled one at a time in their order. It is destroyed only when the process ends.
* Of modelled components: NHz sessions, DGNSS, the destruction of a `LocTimer` and the C wrapper, enrolment,
  enumeration and removal of fingerprints, the calls of `LocationAPI` that pass a request on, XTRA's lock, throttle and DGNSS
  source.
* `libinit`, camera and power set properties or write device nodes in straight lines; RealmeParts is a user interface
  over the same. Build files, overlays, init scripts and policies are not programs.
