---------------------------- MODULE GnssTracking ----------------------------
(***************************************************************************)
(* Tracking sessions of the GNSS HAL (gps/gnss/GnssAdapter.cpp).           *)
(*                                                                         *)
(* Many LocationAPI clients start, update and stop tracking sessions; the  *)
(* modem knows only one time based fix session, so the adapter multiplexes *)
(* all time based sessions onto it.  Distance based sessions are passed to *)
(* the modem one by one.  Two message threads take part: the adapter's     *)
(* (commands, answers of the modem, engine-up) and the one of LocApiBase   *)
(* (requests to the modem).  Every handler runs to its end on the thread   *)
(* of its queue, so an action is one handler.  A command of a client is    *)
(* handled in the step that issues it: the order in which commands of      *)
(* different threads reach the adapter's queue is the order of the steps.  *)
(*                                                                         *)
(* The modem is external: it answers each request, in order, with success  *)
(* or an error, and may restart (subsystem restart, SSR) at any time.      *)
(***************************************************************************)
EXTENDS Integers, SequencesExt

CONSTANTS
    Clients,            \* LocationAPI instances
    Sessions,           \* session ids; the session maps are ordered by id
    Owner,              \* the client that starts a session id
    Intervals,          \* values of TrackingOptions.minInterval
    PowerModes,         \* values of TrackingOptions.powerMode
    DistanceRequests,   \* values of "minDistance > 0"
    CallbackKinds,      \* what clients register: any tracking callback, or none
    DistanceSupported,  \* LOC_API_ADAPTER_MESSAGE_DISTANCE_BASE_TRACKING
    EngineFails,        \* may the modem refuse a request while it is up, or not open?
    MaxInFlight,        \* bound: messages in the queues when a command arrives
    Loads               \* bound: what happens in a behaviour: see LoadsAssumption

ASSUME SessionsAssumption ==
    /\ Sessions \subseteq Nat \ {0} /\ IsFiniteSet(Sessions)
    /\ Owner \in [Sessions -> Clients]
ASSUME OptionsAssumption ==
    /\ Intervals \subseteq Nat \ {0}
    /\ PowerModes \subseteq 0 .. 5
    /\ DistanceRequests \subseteq BOOLEAN
ASSUME ModeAssumption ==
    /\ CallbackKinds \subseteq {"silent", "tracking"}
    /\ DistanceSupported \in BOOLEAN
    /\ EngineFails \in BOOLEAN
    /\ MaxInFlight \in Nat

\* GNSS_POWER_MODE_INVALID; M1 (most accurate) is 1, M5 is 5
PowerInvalid == 0

\* A request is normalised (minimum interval, M4 with a long tbm) before use.
Options == [interval : Intervals, power : PowerModes, distance : DistanceRequests]
\* TrackingOptions of size 0, and no session
NoOptions == [interval |-> 0, power |-> 0, distance |-> FALSE]
NoSession == 0

\* the options asked for, the commands of a session that may await their
\* response at a time, and the restarts of the modem
ASSUME LoadsAssumption ==
    \A l \in Loads : l.options \subseteq Options /\ l.owed \in Nat /\ l.crashes \in Nat

VARIABLES
    load,       \* the load of this behaviour
    reg,        \* mClientData: the client's registration
    phase,      \* the client's view of a session id
    owed,       \* history: commands of a session minus responses to it
    time,       \* mTimeBasedTrackingSessions
    dist,       \* mDistanceBasedTrackingSessions
    known,      \* mIsEngineCapabilitiesKnown
    pending,    \* mPendingMsgs: commands held until the engine is up
    inbox,      \* the adapter's message queue
    api,        \* the queue of requests to the modem
    up,         \* is the modem's location service open?
    engine,     \* the fix session the modem runs
    engineDist, \* the distance based sessions the modem runs
    crashes     \* number of modem restarts so far

vars == <<load, reg, phase, owed, time, dist, known, pending, inbox, api,
          up, engine, engineDist, crashes>>

modem == <<up, engine, engineDist, crashes>>

-----------------------------------------------------------------------------
(* Messages *)

\* A request to the modem: "then" names the LocApiResponse lambda that the
\* answer runs, "old" the options an unsuccessful update restores.
Request(op, s, o, then, old) ==
    [op |-> op, s |-> s, opts |-> o, then |-> then, old |-> old]

OpenRequest == [op |-> "open"]
Answer(r, ok) == [kind |-> "answer", then |-> r.then, s |-> r.s,
                  opts |-> r.opts, old |-> r.old, ok |-> ok]
EngineUp == [kind |-> "engineUp"]
Command(cmd, s, o) == [kind |-> cmd, s |-> s, opts |-> o]

Callbacks == {"none", "started", "updated", "stopped", "dStarted", "dStopped",
              "dRemoved", "dRestop", "dRestarted", "toTime"}
Requests ==
    [op : {"start", "stop", "startD", "stopD"}, s : Sessions \cup {NoSession},
     opts : Options \cup {NoOptions}, then : Callbacks,
     old : Options \cup {NoOptions}] \cup {OpenRequest}
Held == [kind : {"start", "update"}, s : Sessions, opts : Options]
Messages ==
    [kind : {"answer"}, then : Callbacks \ {"none"}, s : Sessions,
     opts : Options \cup {NoOptions}, old : Options \cup {NoOptions}, ok : BOOLEAN]
      \cup Held \cup {EngineUp}

TypeOK ==
    /\ load \in Loads
    /\ reg \in [Clients -> {"new", "silent", "tracking", "gone"}]
    /\ phase \in [Sessions -> {"new", "open", "closed"}]
    /\ owed \in [Sessions -> Int]
    /\ time \in [Sessions -> Options \cup {NoOptions}]
    /\ dist \in [Sessions -> Options \cup {NoOptions}]
    /\ known \in BOOLEAN
    /\ pending \in Seq(Held)
    /\ inbox \in Seq(Messages)
    /\ api \in Seq(Requests)
    /\ up \in BOOLEAN
    /\ engine \in Options \cup {NoOptions}
    /\ engineDist \in [Sessions -> Options \cup {NoOptions}]
    /\ crashes \in Nat

-----------------------------------------------------------------------------
(* The session maps *)

TimeKeys == {s \in Sessions : time[s] # NoOptions}
DistKeys == {s \in Sessions : dist[s] # NoOptions}

IsDistanceSession(o) == o.distance /\ DistanceSupported

\* saveTrackingSession
SaveTrackingSession(s, o) ==
    IF IsDistanceSession(o)
    THEN dist' = [dist EXCEPT ![s] = o] /\ time' = time
    ELSE time' = [time EXCEPT ![s] = o] /\ dist' = dist

\* Faulty variant: only one of the two maps is looked at.
EraseOnlyTimeBased(s) == time' = [time EXCEPT ![s] = NoOptions] /\ dist' = dist

\* eraseTrackingSession: a key in both maps leaves only the time based one
EraseTrackingSession(s) ==
    IF s \in TimeKeys
    THEN time' = [time EXCEPT ![s] = NoOptions] /\ dist' = dist
    ELSE dist' = [dist EXCEPT ![s] = NoOptions] /\ time' = time

\* reportResponse: dropped when the client is no longer in mClientData
ReportResponse(ow, s) ==
    IF reg[Owner[s]] \in {"silent", "tracking"} THEN [ow EXCEPT ![s] = @ - 1] ELSE ow

-----------------------------------------------------------------------------
(* The multiplexer *)

\* the first session, in map order, of the smallest interval
SmallestInterval(keys) ==
    CHOOSE s \in keys : \A t \in keys :
        \/ time[s].interval < time[t].interval
        \/ time[s].interval = time[t].interval /\ s <= t

LeastPower(keys) == Min({time[s].power : s \in keys})

\* multiplexedPowerMode after the scan in map order: the least power mode, but
\* the scan starts anew behind every session without a power mode
MultiplexedPower(keys) ==
    LET behind == {s \in keys : \A t \in keys : time[t].power = PowerInvalid => t < s}
    IN  IF behind = {} THEN PowerInvalid ELSE LeastPower(behind)

\* the options of the others, improved by what the session at hand needs more
Improved(keys, o) ==
    LET m == time[SmallestInterval(keys)]
    IN  [m EXCEPT !.interval = IF o.interval < @ THEN o.interval ELSE @,
                  !.power = IF o.power < MultiplexedPower(keys) THEN o.power ELSE @]

NeedsMore(keys, o) ==
    \/ o.interval < time[SmallestInterval(keys)].interval
    \/ o.power < MultiplexedPower(keys)

\* Each multiplexer returns the requests it sends: none when the client is to
\* be answered without waiting (reportToClientWithNoWait).
StartTimeBasedTracking(s, o) == <<Request("start", s, o, "started", NoOptions)>>
UpdateTracking(s, o) == <<Request("start", s, o, "updated", time[s])>>
StopTracking(s) == <<Request("stop", s, NoOptions, "stopped", NoOptions)>>

StartTimeBasedTrackingMultiplex(s, o) ==
    IF TimeKeys = {} THEN StartTimeBasedTracking(s, o)
    ELSE IF NeedsMore(TimeKeys, o)
         THEN StartTimeBasedTracking(s, Improved(TimeKeys, o))
         ELSE << >>

UpdateTrackingMultiplex(s, o) ==
    LET others == TimeKeys \ {s}
        changed == time[s].interval # o.interval \/ time[s].power # o.power
    IN  IF ~changed THEN << >>
        ELSE IF others = {} THEN UpdateTracking(s, o)
        ELSE IF NeedsMore(others, o) THEN UpdateTracking(s, Improved(others, o))
        ELSE << >>

\* Faulty variant: the stopped session is not skipped.
StopCountsItself(keys, s) == IF keys = {} THEN StopTracking(s) ELSE << >>

StopTimeBasedTrackingMultiplex(keys, s) ==
    LET others == keys \ {s}
    IN  IF others = {} THEN StopTracking(s)
        ELSE IF NeedsMore(others, time[s])
        THEN StartTimeBasedTracking(s, [time[SmallestInterval(others)] EXCEPT
                                          !.power = MultiplexedPower(others)])
        ELSE << >>

StartDistance(s, o, then) == Request("startD", s, o, then, NoOptions)
StopDistance(s, o, then) == Request("stopD", s, o, then, NoOptions)

-----------------------------------------------------------------------------
(* Restarting the engine *)

\* highestPowerTrackingOptions: a first session without a power mode hides the
\* power modes of all others
RestartPower(keys) ==
    IF time[Min(keys)].power = PowerInvalid THEN PowerInvalid
    ELSE LeastPower({s \in keys : time[s].power # PowerInvalid})

\* Faulty variant: the first session's options are taken.
RestartFirst ==
    IF TimeKeys = {} THEN << >>
    ELSE <<Request("start", NoSession, time[Min(TimeKeys)], "none", NoOptions)>>

\* checkAndRestartTimeBasedSession; nobody waits for the answer
RestartTimeBased ==
    IF TimeKeys = {} THEN << >>
    ELSE <<Request("start", NoSession, [time[SmallestInterval(TimeKeys)] EXCEPT
                        !.power = RestartPower(TimeKeys)], "none", NoOptions)>>

\* one request for each distance based session, in map order
MapOrder(keys) ==
    [i \in 1 .. Cardinality(keys) |->
        CHOOSE s \in keys : Cardinality({t \in keys : t <= s}) = i]
RestartDistanceBased ==
    LET keys == MapOrder(DistKeys)
    IN  [i \in DOMAIN keys |-> StartDistance(keys[i], dist[keys[i]], "none")]

RestartSessions == RestartTimeBased \o RestartDistanceBased

SuspendSessions ==
    IF TimeKeys = {} THEN << >>
    ELSE <<Request("stop", NoSession, NoOptions, "none", NoOptions)>>

-----------------------------------------------------------------------------
(* The handlers of the commands; "ow" is owed with this command counted *)

\* distance based tracking waits for the engine's capabilities
Waits(o) == o.distance /\ ~known

\* MsgStartTracking
HandleStart(s, o, ow) ==
    \/ /\ Waits(o)
       /\ pending' = Append(pending, Command("start", s, o))
       /\ owed' = ow
       /\ UNCHANGED <<time, dist, api>>
    \/ \* LOCATION_ERROR_CALLBACK_MISSING is computed and not reported
       /\ ~Waits(o) /\ reg[Owner[s]] # "tracking"
       /\ owed' = ow
       /\ UNCHANGED <<time, dist, api, pending>>
    \/ /\ ~Waits(o) /\ reg[Owner[s]] = "tracking" /\ IsDistanceSession(o)
       /\ SaveTrackingSession(s, o)
       /\ api' = Append(api, StartDistance(s, o, "dStarted"))
       /\ owed' = ow /\ UNCHANGED pending
    \/ /\ ~Waits(o) /\ reg[Owner[s]] = "tracking" /\ ~IsDistanceSession(o)
       /\ LET requests == StartTimeBasedTrackingMultiplex(s, o)
          IN  /\ api' = api \o requests
              /\ owed' = IF requests = << >> THEN ReportResponse(ow, s) ELSE ow
       /\ SaveTrackingSession(s, o)
       /\ UNCHANGED pending

\* MsgUpdateTracking; a key in both maps counts as time based first
HandleUpdate(s, o, ow) ==
    \/ /\ Waits(o)
       /\ pending' = Append(pending, Command("update", s, o))
       /\ owed' = ow
       /\ UNCHANGED <<time, dist, api>>
    \/ \* LOCATION_ERROR_ID_UNKNOWN
       /\ ~Waits(o) /\ s \notin TimeKeys \cup DistKeys
       /\ owed' = ReportResponse(ow, s)
       /\ UNCHANGED <<time, dist, api, pending>>
    \/ \* from time based to distance based
       /\ ~Waits(o) /\ s \in TimeKeys /\ o.distance
       /\ LET requests == StopTimeBasedTrackingMultiplex(TimeKeys, s)
          IN  /\ api' = api \o requests \o <<StartDistance(s, o, "none")>>
              /\ owed' = IF requests = << >> THEN ReportResponse(ow, s) ELSE ow
       /\ IF DistanceSupported
          THEN dist' = [dist EXCEPT ![s] = o] /\ time' = [time EXCEPT ![s] = NoOptions]
          ELSE time' = [time EXCEPT ![s] = o] /\ dist' = dist
       /\ UNCHANGED pending
    \/ \* from distance based to time based: goes on when the stop is answered
       /\ ~Waits(o) /\ s \in DistKeys /\ ~o.distance
       /\ EraseTrackingSession(s)
       /\ api' = Append(api, StopDistance(s, o, "toTime"))
       /\ owed' = ow /\ UNCHANGED pending
    \/ /\ ~Waits(o) /\ s \in TimeKeys \ DistKeys /\ ~o.distance
       /\ LET requests == UpdateTrackingMultiplex(s, o)
          IN  /\ api' = api \o requests
              /\ owed' = IF requests = << >> THEN ReportResponse(ow, s) ELSE ow
       /\ SaveTrackingSession(s, o)
       /\ UNCHANGED pending
    \/ /\ ~Waits(o) /\ s \in DistKeys \ TimeKeys /\ o.distance
       /\ api' = Append(api, StopDistance(s, o, "dRestop"))
       /\ owed' = ow /\ UNCHANGED <<time, dist, pending>>

\* MsgStopTracking
HandleStop(s, ow) ==
    \/ /\ s \in TimeKeys
       /\ LET requests == StopTimeBasedTrackingMultiplex(TimeKeys, s)
          IN  /\ api' = api \o requests
              /\ owed' = IF requests = << >> THEN ReportResponse(ow, s) ELSE ow
       /\ EraseTrackingSession(s)
    \/ /\ s \in DistKeys \ TimeKeys
       /\ api' = Append(api, StopDistance(s, NoOptions, "dStopped"))
       /\ owed' = ow /\ UNCHANGED <<time, dist>>
    \/ \* LOCATION_ERROR_ID_UNKNOWN
       /\ s \notin TimeKeys \cup DistKeys
       /\ owed' = ReportResponse(ow, s)
       /\ UNCHANGED <<time, dist, api>>

-----------------------------------------------------------------------------
(* Steps of the clients *)

Registered(c) == reg[c] \in {"silent", "tracking"}

\* commands arrive while the queues are not full and the session's client
\* does not have too many of them unanswered
Room == Len(api) + Len(inbox) + Len(pending) < MaxInFlight
MayCommand(s) == Registered(Owner[s]) /\ owed[s] < load.owed /\ Room
Owe(s) == [owed EXCEPT ![s] = @ + 1]

\* addClientCommand, of the constructor and of updateCallbacks
AddClient(c, kind) ==
    /\ reg[c] # "gone" /\ reg[c] # kind
    /\ reg' = [reg EXCEPT ![c] = kind]
    /\ UNCHANGED <<phase, owed, time, dist, known, pending, inbox, api, modem>>

StartTracking(s, o) ==
    /\ MayCommand(s) /\ phase[s] = "new"
    /\ phase' = [phase EXCEPT ![s] = "open"]
    /\ HandleStart(s, o, Owe(s))
    /\ UNCHANGED <<reg, known, inbox, modem>>

UpdateTrackingOptions(s, o) ==
    /\ MayCommand(s) /\ phase[s] = "open"
    /\ HandleUpdate(s, o, Owe(s))
    /\ UNCHANGED <<reg, phase, known, inbox, modem>>

StopTrackingCommand(s) ==
    /\ MayCommand(s) /\ phase[s] = "open"
    /\ phase' = [phase EXCEPT ![s] = "closed"]
    /\ HandleStop(s, Owe(s))
    /\ UNCHANGED <<reg, known, pending, inbox, modem>>

\* removeClientCommand: stopClientSessions stops the time based sessions of the
\* client one after the other, each seeing the map without those before it,
\* and asks the modem to stop the distance based ones; then eraseClient
RemoveClient(c) ==
    LET own == {s \in TimeKeys : Owner[s] = c}
        stops == [i \in 1 .. Cardinality(own) |->
                    LET s == MapOrder(own)[i]
                    IN  StopTimeBasedTrackingMultiplex(
                            TimeKeys \ {t \in own : t < s}, s)]
        distOwn == MapOrder({s \in DistKeys : Owner[s] = c})
    IN  /\ Registered(c) /\ Room
        /\ api' = api \o FlattenSeq(stops)
                      \o [i \in DOMAIN distOwn |->
                             StopDistance(distOwn[i], NoOptions, "dRemoved")]
        /\ time' = [s \in Sessions |-> IF s \in own THEN NoOptions ELSE time[s]]
        /\ reg' = [reg EXCEPT ![c] = "gone"]
        /\ UNCHANGED <<phase, owed, dist, known, pending, inbox, modem>>

\* a configuration that the modem takes only while no session runs
SuspendAndRestart ==
    /\ Room
    /\ api' = api \o SuspendSessions \o RestartSessions
    /\ UNCHANGED <<reg, phase, owed, time, dist, known, pending, inbox, modem>>

-----------------------------------------------------------------------------
(* Steps of the adapter's message thread: the head of its queue *)

\* Faulty variant: the held commands stay held.
EngineUpKeepsHeld ==
    /\ inbox # << >> /\ Head(inbox).kind = "engineUp"
    /\ known' = TRUE
    /\ api' = api \o RestartSessions
    /\ inbox' = Tail(inbox)
    /\ UNCHANGED <<reg, phase, owed, time, dist, pending, modem>>

\* handleEngineUpEvent: restart everything, resend the held commands
HandleEngineUp ==
    /\ inbox # << >> /\ Head(inbox).kind = "engineUp"
    /\ known' = TRUE
    /\ api' = api \o RestartSessions
    /\ inbox' = Tail(inbox) \o pending
    /\ pending' = << >>
    /\ UNCHANGED <<reg, phase, owed, time, dist, modem>>

HandleHeldCommand ==
    /\ inbox # << >>
    /\ LET m == Head(inbox)
       IN  \/ m.kind = "start" /\ HandleStart(m.s, m.opts, owed)
           \/ m.kind = "update" /\ HandleUpdate(m.s, m.opts, owed)
    /\ inbox' = Tail(inbox)
    /\ UNCHANGED <<reg, phase, known, modem>>

\* the LocApiResponse lambdas
Answered(then) ==
    /\ inbox # << >> /\ Head(inbox).kind = "answer" /\ Head(inbox).then = then
    /\ inbox' = Tail(inbox)
    /\ UNCHANGED <<reg, known, pending, modem>>

\* of startTimeBasedTracking and of the start of a distance based session
StartAnswered ==
    /\ Answered("started") \/ Answered("dStarted")
    /\ LET m == Head(inbox)
       IN  /\ IF m.ok THEN UNCHANGED <<time, dist>> ELSE EraseTrackingSession(m.s)
           /\ owed' = ReportResponse(owed, m.s)
    /\ UNCHANGED <<phase, api>>

\* of updateTracking: a failure restores the old options
UpdateAnswered ==
    /\ Answered("updated")
    /\ LET m == Head(inbox)
       IN  /\ IF m.ok THEN UNCHANGED <<time, dist>> ELSE SaveTrackingSession(m.s, m.old)
           /\ owed' = ReportResponse(owed, m.s)
    /\ UNCHANGED <<phase, api>>

StopAnswered ==
    /\ Answered("stopped")
    /\ owed' = ReportResponse(owed, Head(inbox).s)
    /\ UNCHANGED <<phase, time, dist, api>>

\* of the stop of a distance based session; told of an error, the client
\* knows that its session still runs
DistanceStopAnswered ==
    /\ Answered("dStopped")
    /\ LET m == Head(inbox)
       IN  /\ IF m.ok THEN EraseTrackingSession(m.s) ELSE UNCHANGED <<time, dist>>
           /\ phase' = [phase EXCEPT ![m.s] = IF m.ok THEN @ ELSE "open"]
           /\ owed' = ReportResponse(owed, m.s)
    /\ UNCHANGED api

\* of stopClientSessions
RemovedStopAnswered ==
    /\ Answered("dRemoved")
    /\ IF Head(inbox).ok THEN EraseTrackingSession(Head(inbox).s) ELSE UNCHANGED <<time, dist>>
    /\ UNCHANGED <<phase, owed, api>>

\* Faulty variant: the response is left to the modem's answer in every case.
ToTimeWithoutResponse ==
    /\ Answered("toTime")
    /\ LET m == Head(inbox)
       IN  /\ api' = api \o StartTimeBasedTrackingMultiplex(m.s, m.opts)
           /\ SaveTrackingSession(m.s, m.opts)
    /\ UNCHANGED <<phase, owed>>

\* of an update from distance based to time based, whatever the modem says
ToTimeAnswered ==
    /\ Answered("toTime")
    /\ LET m == Head(inbox)
           requests == StartTimeBasedTrackingMultiplex(m.s, m.opts)
       IN  /\ api' = api \o requests
           /\ SaveTrackingSession(m.s, m.opts)
           /\ owed' = IF requests = << >> THEN ReportResponse(owed, m.s) ELSE owed
    /\ UNCHANGED phase

\* of an update of a distance based session: after an error nothing follows
RestopAnswered ==
    /\ Answered("dRestop")
    /\ LET m == Head(inbox)
       IN  api' = IF m.ok THEN Append(api, StartDistance(m.s, m.opts, "dRestarted")) ELSE api
    /\ UNCHANGED <<phase, owed, time, dist>>

DistanceRestartAnswered ==
    /\ Answered("dRestarted")
    /\ LET m == Head(inbox)
       IN  /\ IF m.ok THEN SaveTrackingSession(m.s, m.opts) ELSE UNCHANGED <<time, dist>>
           /\ owed' = ReportResponse(owed, m.s)
    /\ UNCHANGED <<phase, api>>

-----------------------------------------------------------------------------
(* Steps of the modem (external) and of the message thread of LocApiBase *)

\* while down every request fails; distance requests need the modem's support
Outcomes(r) ==
    IF ~up \/ (r.op \in {"startD", "stopD"} /\ ~DistanceSupported) THEN {FALSE}
    ELSE IF EngineFails THEN BOOLEAN ELSE {TRUE}

ServeRequest ==
    /\ api # << >> /\ Head(api).op # "open"
    /\ LET r == Head(api)
       IN  \E ok \in Outcomes(r) :
             /\ inbox' = IF r.then = "none" THEN inbox ELSE Append(inbox, Answer(r, ok))
             /\ engine' = IF ok /\ r.op = "start" THEN r.opts
                          ELSE IF ok /\ r.op = "stop" THEN NoOptions ELSE engine
             /\ engineDist' = IF ok /\ r.op = "startD" THEN [engineDist EXCEPT ![r.s] = r.opts]
                              ELSE IF ok /\ r.op = "stopD"
                              THEN [engineDist EXCEPT ![r.s] = NoOptions] ELSE engineDist
    /\ api' = Tail(api)
    /\ UNCHANGED <<reg, phase, owed, time, dist, known, pending, up, crashes>>

\* LocOpenMsg and LocSsrMsg: open the location service, tell the adapter; one that
\* does not open is not tried again
Open ==
    /\ api # << >> /\ Head(api).op = "open"
    /\ \E ok \in IF EngineFails THEN BOOLEAN ELSE {TRUE} :
         up' = ok /\ inbox' = IF ok THEN Append(inbox, EngineUp) ELSE inbox
    /\ api' = Tail(api)
    /\ UNCHANGED <<reg, phase, owed, time, dist, known, pending, engine, engineDist, crashes>>

\* the modem restarts; handleEngineDownEvent queues a LocSsrMsg
Crash ==
    /\ up /\ crashes < load.crashes /\ Room
    /\ crashes' = crashes + 1
    /\ up' = FALSE
    /\ engine' = NoOptions
    /\ engineDist' = [s \in Sessions |-> NoOptions]
    /\ api' = Append(api, OpenRequest)
    /\ UNCHANGED <<reg, phase, owed, time, dist, known, pending, inbox>>

-----------------------------------------------------------------------------
Init ==
    /\ load \in Loads
    /\ reg = [c \in Clients |-> "new"]
    /\ phase = [s \in Sessions |-> "new"]
    /\ owed = [s \in Sessions |-> 0]
    /\ time = [s \in Sessions |-> NoOptions]
    /\ dist = [s \in Sessions |-> NoOptions]
    /\ known = FALSE
    /\ pending = << >>
    /\ inbox = << >>
    /\ api = <<OpenRequest>>
    /\ up = FALSE
    /\ engine = NoOptions
    /\ engineDist = [s \in Sessions |-> NoOptions]
    /\ crashes = 0

ClientStep ==
    /\ \/ \E c \in Clients, kind \in CallbackKinds : AddClient(c, kind)
       \/ \E s \in Sessions, o \in load.options : StartTracking(s, o)
       \/ \E s \in Sessions, o \in load.options : UpdateTrackingOptions(s, o)
       \/ \E s \in Sessions : StopTrackingCommand(s)
       \/ \E c \in Clients : RemoveClient(c)
       \/ SuspendAndRestart
    /\ UNCHANGED load

AdapterStep ==
    /\ \/ HandleEngineUp \/ HandleHeldCommand
       \/ StartAnswered \/ UpdateAnswered \/ StopAnswered
       \/ DistanceStopAnswered \/ RemovedStopAnswered \/ ToTimeAnswered
       \/ RestopAnswered \/ DistanceRestartAnswered
    /\ UNCHANGED load

ModemStep == (ServeRequest \/ Open) /\ UNCHANGED load

Next == ClientStep \/ AdapterStep \/ ModemStep \/ (Crash /\ UNCHANGED load)

\* the two message threads run as long as their queues hold messages
Spec == Init /\ [][Next]_vars /\ WF_vars(AdapterStep) /\ WF_vars(ModemStep)

-----------------------------------------------------------------------------
(* Properties *)

\* both queues are empty and the modem's location service is open
Idle == up /\ api = << >> /\ inbox = << >>

\* Once the queues are drained the modem runs every distance based session the
\* adapter has, and a fix session for all that are time based, with an interval
\* no longer than that of any of them ("find the smallest interval"): no order of
\* starts, updates, stops and restarts leaves a client without fixes.
EngineServesSessions ==
    /\ TypeOK
    /\ Idle => /\ TimeKeys # {} => engine # NoOptions
               /\ \A s \in TimeKeys : engine.interval <= time[s].interval
               /\ \A s \in DistKeys : engineDist[s] # NoOptions

\* Once the queues are drained nothing is left for nobody, as long as the modem
\* has not restarted: the modem runs no session the adapter does not have, and
\* the adapter has none of a client that is gone or has stopped it.  Not so where
\* there are distance based sessions: the update of one to time based brings it
\* back when it is stopped, or its client removed, meanwhile.
NothingForNobody ==
    Idle /\ crashes = 0 /\ (\A o \in load.options : ~o.distance) =>
      /\ engine # NoOptions => TimeKeys # {}
      /\ \A s \in TimeKeys : phase[s] = "open" /\ reg[Owner[s]] # "gone"

\* No command gets two responses, and once the queues are drained every command
\* of a client that is still there has one.
AnsweredOnce ==
    /\ \A s \in Sessions : owed[s] >= 0
    /\ Idle => \A s \in Sessions : Registered(Owner[s]) => owed[s] = 0

\* A session is in one of the two maps only.
OneMap == TimeKeys \cap DistKeys = {}

\* Commands held for the engine's capabilities are all released when it comes up.
HeldOnlyBeforeEngineUp == known => pending = << >>

\* Every command is answered in the end, or its client goes (for clients that
\* wait for the response: one that does not may owe itself one for ever).
CommandsAnswered ==
    \A s \in Sessions :
        load.owed = 1 /\ owed[s] > 0 ~> owed[s] = 0 \/ reg[Owner[s]] = "gone"

=============================================================================
