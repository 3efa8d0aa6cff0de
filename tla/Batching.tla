------------------------------ MODULE Batching ------------------------------
(***************************************************************************)
(* Batching sessions of the location HAL (gps/batching/BatchingAdapter).   *)
(*                                                                         *)
(* A routine session, or one without automatic report, is passed to the    *)
(* modem as it is.  The modem has one outdoor trip batch only, so all trip *)
(* sessions share it: the adapter asks the modem for the distance of the   *)
(* ongoing batch, and restarts the batch whenever another trip distance or *)
(* interval is needed.  The handlers run on the adapter's message thread   *)
(* and the modem answers requests in order, through the adapter's queue;   *)
(* a command is handled in the step that issues it.                        *)
(*                                                                         *)
(* The modem is external: it travels, reports a trip batch whose distance  *)
(* is reached, may refuse requests and may restart.                        *)
(***************************************************************************)
EXTENDS Integers, SequencesExt

CONSTANTS
    Clients,        \* LocationAPI instances
    Sessions,       \* session ids, in the order of the maps
    Owner,          \* the client that starts a session id
    Loads,          \* what the clients and the modem do in a behaviour: see LoadsAssumption
    Wrap,           \* bound: the values of a uint32_t (2^32)
    EngineFails,    \* may the modem refuse a request while it is up, or not open?
    MaxOwed,        \* bound: commands of a session awaiting their response
    MaxInFlight,    \* bound: messages in the queues when a command arrives
    MaxTravel       \* bound: distance travelled

Modes == {"routine", "noReport", "trip"}
ASSUME SessionsAssumption ==
    Sessions \subseteq Nat \ {0} /\ Owner \in [Sessions -> Clients]
AnyOptions == [mode : Modes, distance : 0 .. Wrap - 1, interval : 1 .. Wrap - 1]
\* the options asked for, whether commands are sent while others are under way,
\* and how often the modem restarts (a bound)
ASSUME LoadsAssumption ==
    \A l \in Loads : /\ l.options \subseteq AnyOptions
                     /\ l.hasty \in BOOLEAN
                     /\ l.crashes \in Nat
ASSUME BoundsAssumption ==
    /\ Wrap \in Nat \ {0} /\ EngineFails \in BOOLEAN
    /\ {MaxOwed, MaxInFlight, MaxTravel} \subseteq Nat

\* a session or trip that is not in its map
None == [mode |-> "none", distance |-> 0, interval |-> 0]
NoTrip == [ongoing |-> 0, thisTrip |-> 0, onRestart |-> 0, distance |-> 0, interval |-> 0]
\* what a BatchingOptions is constructed with
DefaultOptions == [mode |-> "routine", distance |-> 0, interval |-> 0]
NoBatch == [distance |-> 0, interval |-> 0, odometer |-> 0]

VARIABLES
    load,       \* the load of this behaviour
    reg,        \* clients in mClientData (with a batching callback)
    adapter,    \* the adapter's fields: see AdapterType
    known,      \* mIsEngineCapabilitiesKnown
    pending,    \* mPendingMsgs
    inbox,      \* the adapter's message queue: answers and events of the modem
    api,        \* requests on their way to the modem
    up,         \* is the modem's location service open?
    running,    \* the routine sessions the modem runs, with their options
    batch,      \* the outdoor trip batch of the modem
    travelled,  \* history: the distance since a session was last started
    asked,      \* history: the modes a session was asked for
    closed,     \* history: sessions their client has stopped
    owed,       \* history: commands of a session minus responses to it
    overlapped, \* history: has a command or the end of a trip met one under way?
    shaken,     \* history: has the device moved while a batch was to restart?
    hurried,    \* history: unsettled sessions told to stop or update
    crashes     \* number of modem restarts so far

modem == <<up, running, batch>>
history == <<asked, closed, overlapped, hurried, shaken>>
vars == <<load, reg, adapter, known, pending, inbox, api, modem, travelled, history,
          owed, crashes>>

Values == 0 .. Wrap - 1
AllOptions == load.options \cup {DefaultOptions}
AdapterType ==
    [sessions : [Sessions -> AllOptions \cup {None}],              \* mBatchingSessions
     trips : [Sessions -> [DOMAIN NoTrip -> Values]],              \* mTripSessions
     distance : Values,                                            \* mOngoingTripDistance
     interval : Values,                                            \* mOngoingTripTBFInterval
     intervalDropped : BOOLEAN,                                    \* mTripWithOngoingTBFDropped
     distanceDropped : BOOLEAN,                                    \* mTripWithOngoingTripDistanceDropped
     full : BOOLEAN]                                               \* LOC_API_ADAPTER_BIT_BATCH_FULL

TypeOK ==
    /\ load \in Loads
    /\ reg \subseteq Clients
    /\ adapter \in AdapterType
    /\ known \in BOOLEAN
    /\ \A i \in DOMAIN pending : pending[i].kind \in {"start", "update", "stop", "get"}
    /\ up \in BOOLEAN
    /\ running \in [Sessions -> AllOptions \cup {None}]
    /\ batch \in [DOMAIN NoBatch -> Values]
    /\ travelled \in [Sessions -> 0 .. MaxTravel]
    /\ asked \in [Sessions -> SUBSET Modes]
    /\ closed \subseteq Sessions
    /\ owed \in [Sessions -> Int]
    /\ overlapped \in BOOLEAN /\ shaken \in BOOLEAN
    /\ hurried \subseteq Sessions
    /\ crashes \in 0 .. load.crashes

-----------------------------------------------------------------------------
(* The adapter's fields.  A handler computes with a record "w" of the fields *)
(* (ad), the requests it sends (out) and the sessions it responds to (told). *)

Plus(x, y) == (x + y) % Wrap
Minus(x, y) == (x - y) % Wrap

SessionKeys(ad) == {s \in Sessions : ad.sessions[s] # None}
TripKeys(ad) == {s \in Sessions : ad.trips[s] # NoTrip}
InOrder(keys) == SetToSortSeq(keys, <)

\* autoReportBatchingSessionsCount: a trip may be in both maps, or in one
AutoReports(ad) ==
    Cardinality({s \in SessionKeys(ad) : ad.sessions[s].mode # "noReport"})
      + Cardinality(TripKeys(ad))

NoRequest == [op |-> "none", then |-> "none", s |-> 0, opts |-> None, old |-> None,
              restart |-> FALSE, distance |-> 0, interval |-> 0, query |-> FALSE, acc |-> 0]
Request(op, then, s, o) ==
    [NoRequest EXCEPT !.op = op, !.then = then, !.s = s, !.opts = o]
Send(w, r) == [w EXCEPT !.out = Append(@, r)]
Respond(w, s) == [w EXCEPT !.told = Append(@, s)]

\* updateEvtMask of LOC_API_ADAPTER_BIT_BATCH_FULL
SetFull(w, on) == [w EXCEPT !.ad.full = on]
FullIfNone(w, on) == IF AutoReports(w.ad) = 0 THEN SetFull(w, on) ELSE w

\* startBatching: the session is saved at once, removed if the modem refuses
StartBatching(w, s, o) ==
    LET w1 == IF o.mode = "noReport" THEN w ELSE FullIfNone(w, TRUE)
    IN  Send([w1 EXCEPT !.ad.sessions[s] = o], Request("start", "started", s, o))

\* Faulty variant: the session is left to the answer.
StopWithoutErase(w, s, restart, o) ==
    IF w.ad.sessions[s] = None THEN w
    ELSE Send(w, [Request("stop", "stopped", s, o) EXCEPT !.old = w.ad.sessions[s],
                                                          !.restart = restart])

\* stopBatching: the session is erased at once, restored if the modem refuses
StopBatching(w, s, restart, o) ==
    IF w.ad.sessions[s] = None THEN w
    ELSE Send([w EXCEPT !.ad.sessions[s] = None],
              [Request("stop", "stopped", s, o) EXCEPT !.old = w.ad.sessions[s],
                                                       !.restart = restart])

\* startTripBatchingMultiplex: only the first trip is also a batching session
StartTripBatchingMultiplex(w, s, o) ==
    IF TripKeys(w.ad) = {}
    THEN Send([FullIfNone(w, TRUE) EXCEPT
                 !.ad.sessions[s] = o,
                 !.ad.trips[s] = [NoTrip EXCEPT !.distance = o.distance,
                                                !.interval = o.interval]],
              [Request("startTrip", "tripStarted", s, o) EXCEPT
                 !.distance = o.distance, !.interval = o.interval])
    ELSE Send(w, Request("query", "tripQueried", s, o))

StartByMode(w, s, o) ==
    IF o.mode = "trip" THEN StartTripBatchingMultiplex(w, s, o) ELSE StartBatching(w, s, o)

\* the scans of all trips, in map order: zero stands for "none yet"
LeftOf(trip) == Minus(trip.distance, trip.thisTrip)
MinLeft(ad) ==
    FoldLeft(LAMBDA m, s : LET left == LeftOf(ad.trips[s])
                           IN  IF m = 0 \/ m > left THEN left ELSE m,
             0, InOrder(TripKeys(ad)))
MinInterval(ad) == Min({ad.trips[s].interval : s \in TripKeys(ad)})

\* Faulty variant: the batch is left as it is when the last trip is gone.
RestartTripIfAny(w, query, acc) ==
    IF TripKeys(w.ad) = {} THEN w
    ELSE Send(w, [Request("query", "restartQueried", 0, None) EXCEPT
                    !.distance = MinLeft(w.ad), !.interval = MinInterval(w.ad),
                    !.query = query, !.acc = acc])

\* restartTripBatching
RestartTripBatching(w, query, acc) ==
    IF TripKeys(w.ad) = {}
    THEN LET w1 == Send(w, Request("stopTrip", "none", 0, None))
         IN  FullIfNone([w1 EXCEPT !.ad.distance = 0, !.ad.interval = 0], FALSE)
    ELSE Send(w, [Request("query", "restartQueried", 0, None) EXCEPT
                    !.distance = MinLeft(w.ad), !.interval = MinInterval(w.ad),
                    !.query = query, !.acc = acc])

\* Is the trip the one that sets the interval or the distance of the batch?
\* A trip that is no longer in the map is read all the same ("garbage").
DropFlags(w, s, garbage) ==
    LET t == w.ad.trips[s]
        is(field, value) == IF t = NoTrip THEN garbage ELSE field = value
    IN  [w EXCEPT !.ad.intervalDropped = @ \/ is(t.interval, w.ad.interval),
                  !.ad.distanceDropped = @ \/ is(t.distance, w.ad.distance)]

\* stopTripBatchingMultiplexCommon: the session stays in mBatchingSessions
\* unless it is started again
StopTripBatchingMultiplexCommon(w, s, restart, o, garbage) ==
    LET w1 == [DropFlags(w, s, garbage) EXCEPT !.ad.trips[s] = NoTrip]
        w2 == IF TripKeys(w1.ad) = {} THEN [w1 EXCEPT !.ad.distance = 0, !.ad.interval = 0]
              ELSE RestartTripBatching(w1, TRUE, 0)
        w3 == IF restart THEN StartByMode([w2 EXCEPT !.ad.sessions[s] = None], s, o) ELSE w2
    IN  Respond(w3, s)

\* stopTripBatchingMultiplex
StopTripBatchingMultiplex(w, s, restart, o, garbage) ==
    IF Cardinality(TripKeys(w.ad)) = 1
    THEN Send(w, [Request("stopTrip", "tripStopped", s, o) EXCEPT !.restart = restart])
    ELSE StopTripBatchingMultiplexCommon(w, s, restart, o, garbage)

-----------------------------------------------------------------------------
(* Commands of the clients (MsgStartBatching and the other messages) *)

Quiet == known /\ inbox = << >> /\ api = << >>
Room ==
    /\ ~load.hasty => Quiet
    /\ Len(inbox) + Len(api) + Len(pending) <= MaxInFlight

\* Is the session between the stop and the start of an update, or about to be?
\* Or will a held command of it be handled behind one that comes now?
IsUnsettled(s) ==
    \/ \E m \in Range(pending) : m.kind = "update" /\ m.s = s
    \/ \E m \in Range(inbox) :
         \/ m.kind \in {"start", "update"} /\ m.s = s
         \/ m.kind = "answer" /\ m.req.restart /\ m.req.s = s
    \/ \E r \in Range(api) : r.op # "open" /\ r.restart /\ r.s = s

Begin == [ad |-> adapter, out |-> << >>, told |-> << >>]

\* w becomes the state; responses reach the clients that are still registered
Finish(w, ow) ==
    /\ adapter' = w.ad
    /\ api' = api \o w.out
    /\ owed' = [s \in Sessions |->
                  IF Owner[s] \in reg
                  THEN ow[s] - Cardinality({i \in DOMAIN w.told : w.told[i] = s})
                  ELSE ow[s]]

\* the checks and the work of a command once the capabilities are known; a
\* command that a check refuses is dropped (only "get" responds)
Work(cmd, s, o, garbage) ==
    LET w == Begin
        isTrip == adapter.trips[s] # NoTrip
    IN  CASE cmd = "start" -> IF Owner[s] \in reg THEN StartByMode(w, s, o) ELSE w
          [] cmd # "start" /\ adapter.sessions[s] = None ->
                IF cmd = "get" THEN Respond(w, s) ELSE w
          [] cmd = "get" /\ adapter.sessions[s] # None ->
                IF Owner[s] \in reg
                THEN Send(w, Request(IF isTrip THEN "getTrip" ELSE "get", "got", s, None))
                ELSE Respond(w, s)
          [] cmd \in {"update", "stop"} /\ adapter.sessions[s] # None ->
                IF isTrip
                THEN StopTripBatchingMultiplex(w, s, cmd = "update", o, garbage)
                ELSE StopBatching(w, s, cmd = "update", o)

Handle(cmd, s, o, ow) ==
    IF ~known
    THEN /\ pending' = Append(pending, [kind |-> cmd, s |-> s, opts |-> o])
         /\ owed' = ow
         /\ UNCHANGED <<adapter, api>>
    ELSE /\ \E garbage \in BOOLEAN : Finish(Work(cmd, s, o, garbage), ow)
         /\ UNCHANGED pending

Command(cmd, s, o) ==
    /\ Room /\ owed[s] < MaxOwed
    /\ Owner[s] \in reg /\ s \notin closed
    /\ Handle(cmd, s, o, [owed EXCEPT ![s] = @ + 1])
    /\ overlapped' = (overlapped \/ ~Quiet \/ (cmd = "update" /\ adapter.trips[s] # NoTrip))
    /\ UNCHANGED <<load, reg, known, inbox, modem, shaken, crashes>>

\* startBatchingCommand gives out the session id
StartBatchingCommand(s, o) ==
    /\ asked[s] = {}
    /\ Command("start", s, o)
    /\ asked' = [asked EXCEPT ![s] = {o.mode}]
    /\ travelled' = [travelled EXCEPT ![s] = 0]
    /\ UNCHANGED <<closed, hurried>>

\* (bound: no further update of a session with a response too many)
UpdateBatchingOptionsCommand(s, o) ==
    /\ asked[s] # {} /\ owed[s] >= 0
    /\ Command("update", s, o)
    /\ asked' = [asked EXCEPT ![s] = @ \cup {o.mode}]
    /\ travelled' = [travelled EXCEPT ![s] = 0]
    /\ hurried' = IF IsUnsettled(s) THEN hurried \cup {s} ELSE hurried
    /\ UNCHANGED closed

StopBatchingCommand(s) ==
    /\ asked[s] # {}
    /\ Command("stop", s, DefaultOptions)
    /\ closed' = closed \cup {s}
    /\ hurried' = IF IsUnsettled(s) THEN hurried \cup {s} ELSE hurried
    /\ UNCHANGED <<asked, travelled>>

GetBatchedLocationsCommand(s) ==
    /\ asked[s] # {}
    /\ Command("get", s, None)
    /\ UNCHANGED <<asked, closed, hurried, travelled>>

\* removeClientCommand: stopClientSessions, then eraseClient, which computes
\* the event mask anew
RemoveClient(c) ==
    /\ c \in reg /\ Room
    /\ \E garbage \in BOOLEAN :
         LET stop(w, s) ==
                 IF adapter.sessions[s].mode = "trip"
                 THEN StopTripBatchingMultiplex(w, s, FALSE, DefaultOptions, garbage)
                 ELSE StopBatching(w, s, FALSE, DefaultOptions)
             w1 == FoldLeft(stop, Begin, InOrder({s \in SessionKeys(adapter) : Owner[s] = c}))
         IN  Finish(SetFull(w1, AutoReports(w1.ad) > 0), owed)
    /\ reg' = reg \ {c}
    /\ closed' = closed \cup {s \in Sessions : Owner[s] = c}
    /\ hurried' = hurried \cup {s \in Sessions : Owner[s] = c /\ IsUnsettled(s)}
    /\ overlapped' = (overlapped \/ ~Quiet)
    /\ UNCHANGED <<load, known, pending, inbox, modem, travelled, asked, shaken, crashes>>

-----------------------------------------------------------------------------
(* Messages of the modem, on the adapter's thread *)

\* Faulty variant: only the trips are started again.
RestartTripsOnly(ad) ==
    LET w == [Begin EXCEPT !.ad.full = @ \/ AutoReports(ad) > 0]
    IN  IF TripKeys(ad) = {} THEN w
        ELSE Send([w EXCEPT !.ad.distance = MinLeft(ad), !.ad.interval = MinInterval(ad)],
                  [Request("startTrip", "tripsRestarted", 0, None) EXCEPT
                     !.distance = MinLeft(ad), !.interval = MinInterval(ad)])

\* restartSessions; the distances of the trips are reset in copies of them only
RestartSessions(ad) ==
    LET routine == InOrder({s \in SessionKeys(ad) : ad.sessions[s].mode # "trip"})
        again(s) == Request("start", "none", s, ad.sessions[s])
        w == [Begin EXCEPT !.ad.full = @ \/ AutoReports(ad) > 0,
                           !.out = [i \in DOMAIN routine |-> again(routine[i])]]
    IN  IF TripKeys(ad) = {} THEN w
        ELSE Send([w EXCEPT !.ad.distance = MinLeft(ad), !.ad.interval = MinInterval(ad)],
                  [Request("startTrip", "tripsRestarted", 0, None) EXCEPT
                     !.distance = MinLeft(ad), !.interval = MinInterval(ad)])

HandleEngineUp ==
    /\ inbox # << >> /\ Head(inbox).kind = "engineUp"
    /\ known' = TRUE
    /\ inbox' = Tail(inbox) \o pending
    /\ pending' = << >>
    /\ Finish(RestartSessions(adapter), owed)
    /\ UNCHANGED <<load, reg, modem, travelled, history, crashes>>

HandleHeldCommand ==
    /\ inbox # << >> /\ Head(inbox).kind \in {"start", "update", "stop", "get"}
    /\ LET m == Head(inbox) IN Handle(m.kind, m.s, m.opts, owed)
    /\ inbox' = Tail(inbox)
    /\ UNCHANGED <<load, reg, known, modem, travelled, history, crashes>>

\* the LocApiResponse lambdas: "w" computes what one does with its request r,
\* whether it succeeded, and the distance a query returns
Answered(then, Do(_, _, _)) ==
    /\ inbox # << >> /\ Head(inbox).kind = "answer" /\ Head(inbox).req.then = then
    /\ LET m == Head(inbox) IN Finish(Do(m.req, m.ok, m.data), owed)
    /\ inbox' = Tail(inbox)
    /\ UNCHANGED <<load, reg, known, pending, modem, travelled, history, crashes>>

Started(r, ok, data) ==
    LET w == IF ok THEN Begin ELSE [Begin EXCEPT !.ad.sessions[r.s] = None]
    IN  Respond(IF ok \/ r.opts.mode = "noReport" THEN w ELSE FullIfNone(w, FALSE), r.s)

\* Faulty variant: the event is unregistered whatever other session needs it.
StoppedWithoutCount(r, ok, data) ==
    LET w == IF ok THEN SetFull(Begin, FALSE) ELSE [Begin EXCEPT !.ad.sessions[r.s] = r.opts]
    IN  Respond(IF ok /\ r.restart THEN StartByMode(w, r.s, r.opts) ELSE w, r.s)

\* a failed stop saves the options of the update, not those it had; an update
\* responds here, and a second time when the session has been started
Stopped(r, ok, data) ==
    LET w == IF ok THEN Begin ELSE [Begin EXCEPT !.ad.sessions[r.s] = r.opts]
        w1 == IF ok /\ r.old.mode # "noReport" THEN FullIfNone(w, FALSE) ELSE w
    IN  Respond(IF ok /\ r.restart THEN StartByMode(w1, r.s, r.opts) ELSE w1, r.s)

Got(r, ok, data) == Respond(Begin, r.s)

TripStarted(r, ok, data) ==
    Respond(IF ok
            THEN [Begin EXCEPT !.ad.distance = r.distance, !.ad.interval = r.interval]
            ELSE FullIfNone([Begin EXCEPT !.ad.sessions[r.s] = None,
                                          !.ad.trips[r.s] = NoTrip], FALSE),
            r.s)

TripsRestarted(r, ok, data) ==
    IF ok THEN Begin ELSE [Begin EXCEPT !.ad.distance = 0, !.ad.interval = 0]

\* Faulty variant: the distance of the ongoing batch before the trip counts for
\* the trip.
JoiningAtZero(o, acc) == [NoTrip EXCEPT !.distance = o.distance, !.interval = o.interval]

SmallerInterval(o, interval) == o.interval < interval
JoiningTrip(o, acc) ==
    [NoTrip EXCEPT !.ongoing = acc, !.distance = o.distance, !.interval = o.interval]

\* a new trip joins: it is kept only if the query succeeds.  The batch restarts
\* if the new interval is smaller or the new distance comes first
TripQueried(r, ok, data) ==
    LET ad == adapter
        left == Minus(ad.distance, data)
        smaller == SmallerInterval(r.opts, ad.interval)
        sooner == r.opts.distance < IF ok THEN left ELSE ad.distance
        distance == IF sooner THEN r.opts.distance
                    ELSE IF ok /\ smaller THEN left ELSE ad.distance
        interval == IF smaller THEN r.opts.interval ELSE ad.interval
        w == IF ok THEN [Begin EXCEPT !.ad.trips[r.s] = JoiningTrip(r.opts, data)] ELSE Begin
        anew(t) == IF t = NoTrip THEN t
                   ELSE [t EXCEPT !.ongoing = 0, !.onRestart = t.thisTrip]
    IN  IF smaller \/ sooner
        THEN Send([w EXCEPT !.ad.distance = distance, !.ad.interval = interval,
                            !.ad.trips = [s \in Sessions |-> anew(w.ad.trips[s])]],
                  [Request("restartTrip", "tripRestarted", r.s, None) EXCEPT
                     !.distance = distance, !.interval = interval])
        ELSE Respond(w, r.s)

TripRestarted(r, ok, data) == Respond(Begin, r.s)

\* whatever the modem says, the trip is erased
TripStopped(r, ok, data, garbage) ==
    LET w == IF ok /\ AutoReports(adapter) = 1 THEN SetFull(Begin, FALSE) ELSE Begin
    IN  StopTripBatchingMultiplexCommon(w, r.s, r.restart, r.opts, garbage)

\* of restartTripBatching: with the minima of the time of the query
RestartQueried(r, ok, data) ==
    LET ad == adapter
        acc == IF r.query THEN data ELSE r.acc
        left == Minus(ad.distance, acc)
        goesOn == ~ad.distanceDropped /\ left # 0
        shorter == IF goesOn THEN r.distance < left ELSE r.distance # 0
        retimed == \/ r.interval < ad.interval
                   \/ r.interval # ad.interval /\ ad.intervalDropped
    IN  IF shorter \/ retimed
        THEN Send(Begin, [Request("restartTrip", "batchRestarted", 0, None) EXCEPT
                            !.distance = IF shorter THEN r.distance ELSE ad.distance,
                            !.interval = IF retimed THEN r.interval ELSE ad.interval,
                            !.acc = acc])
        ELSE Begin

BatchRestarted(r, ok, data) ==
    LET anew(t) ==
            LET d == Plus(t.onRestart, Minus(r.acc, t.ongoing))
            IN  IF t = NoTrip THEN t
                ELSE [t EXCEPT !.thisTrip = d, !.onRestart = d, !.ongoing = 0]
    IN  IF ~ok THEN Begin
        ELSE [Begin EXCEPT !.ad.distance = r.distance, !.ad.interval = r.interval,
                           !.ad.trips = [s \in Sessions |-> anew(adapter.trips[s])]]

AnswerStep ==
    \/ Answered("started", Started) \/ Answered("stopped", Stopped)
    \/ Answered("got", Got)
    \/ Answered("tripStarted", TripStarted) \/ Answered("tripsRestarted", TripsRestarted)
    \/ Answered("tripQueried", TripQueried) \/ Answered("tripRestarted", TripRestarted)
    \/ \E garbage \in BOOLEAN :
         LET stopped(r, ok, data) == TripStopped(r, ok, data, garbage)
         IN  Answered("tripStopped", stopped)
    \/ Answered("restartQueried", RestartQueried)
    \/ Answered("batchRestarted", BatchRestarted)

\* reportCompletedTripsEvent: the trips whose distance is reached are erased;
\* their fields are read once more after that ("garbage")
Reached(t, acc) == t.distance <= Plus(t.onRestart, Minus(acc, t.ongoing))
ReportCompletedTrips ==
    /\ inbox # << >> /\ Head(inbox).kind = "completed"
    /\ LET acc == Head(inbox).acc
           done == {s \in TripKeys(adapter) : Reached(adapter.trips[s], acc)}
           after(t) == [t EXCEPT !.thisTrip = Plus(t.onRestart, Minus(acc, t.ongoing))]
           trips == [s \in Sessions |->
                       IF s \in done \/ s \notin TripKeys(adapter) THEN NoTrip
                       ELSE after(adapter.trips[s])]
       IN  /\ \E i \in BOOLEAN, d \in BOOLEAN :
                LET w == [Begin EXCEPT !.ad.trips = trips]
                IN  IF done = {} THEN ~i /\ ~d /\ Finish(w, owed)
                    ELSE Finish(RestartTripBatching(
                                  [w EXCEPT !.ad.intervalDropped = @ \/ i,
                                            !.ad.distanceDropped = @ \/ d], FALSE, acc), owed)
           /\ closed' = closed \cup done
           /\ overlapped' = (overlapped \/ (done # {} /\ api \o Tail(inbox) # << >>))
    /\ inbox' = Tail(inbox)
    /\ UNCHANGED <<load, reg, known, pending, modem, travelled, asked, hurried, shaken,
                   crashes>>

-----------------------------------------------------------------------------
(* The modem (external) and the thread of LocApiBase *)

Outcomes == IF ~up THEN {FALSE} ELSE IF EngineFails THEN BOOLEAN ELSE {TRUE}
Effect(r) ==
    /\ running' = CASE r.op = "start" -> [running EXCEPT ![r.s] = r.opts]
                    [] r.op = "stop" -> [running EXCEPT ![r.s] = None]
                    [] OTHER -> running
    /\ batch' = CASE r.op \in {"startTrip", "restartTrip"} ->
                        [distance |-> r.distance, interval |-> r.interval, odometer |-> 0]
                  [] r.op = "stopTrip" -> NoBatch
                  [] OTHER -> batch

ServeRequest ==
    /\ api # << >> /\ Head(api).op # "open"
    /\ LET r == Head(api)
       IN  \E ok \in Outcomes :
             /\ IF ok THEN Effect(r) ELSE UNCHANGED <<running, batch>>
             /\ inbox' = IF r.then = "none" THEN inbox
                         ELSE Append(inbox, [kind |-> "answer", req |-> r, ok |-> ok,
                                             data |-> IF ok THEN batch.odometer ELSE 0])
    /\ api' = Tail(api)
    /\ UNCHANGED <<load, reg, adapter, known, pending, up, travelled, history, owed, crashes>>

Open ==
    /\ api # << >> /\ Head(api).op = "open"
    /\ \E ok \in IF EngineFails THEN BOOLEAN ELSE {TRUE} :
         up' = ok /\ inbox' = IF ok THEN Append(inbox, [kind |-> "engineUp"]) ELSE inbox
    /\ api' = Tail(api)
    /\ UNCHANGED <<load, reg, adapter, known, pending, running, batch, travelled, history,
                   owed, crashes>>

\* the device moves by one; a trip batch whose distance is reached is reported
Travel ==
    /\ up /\ Len(inbox) <= MaxInFlight
    /\ \A s \in Sessions : travelled[s] < MaxTravel
    /\ batch # NoBatch /\ batch.odometer < Wrap - 1
    /\ travelled' = [s \in Sessions |-> travelled[s] + 1]
    /\ batch' = [batch EXCEPT !.odometer = @ + 1]
    /\ inbox' = IF batch.odometer + 1 = batch.distance
                THEN Append(inbox, [kind |-> "completed", acc |-> batch.odometer + 1])
                ELSE inbox
    /\ shaken' = \/ shaken
                 \/ \E r \in Range(api) : r.op = "restartTrip"
                 \/ \E m \in Range(inbox) :
                       m.kind = "answer" /\ m.req.then \in {"tripQueried", "restartQueried"}
    /\ UNCHANGED <<load, reg, adapter, known, pending, api, up, running, asked, closed,
                   overlapped, hurried, owed, crashes>>

Crash ==
    /\ up /\ crashes < load.crashes /\ Room
    /\ crashes' = crashes + 1
    /\ up' = FALSE
    /\ running' = [s \in Sessions |-> None]
    /\ batch' = NoBatch
    /\ api' = Append(api, [op |-> "open"])
    /\ UNCHANGED <<load, reg, adapter, known, pending, inbox, travelled, history, owed>>

-----------------------------------------------------------------------------
Init ==
    /\ load \in Loads
    /\ reg = Clients
    /\ adapter = [sessions |-> [s \in Sessions |-> None], trips |-> [s \in Sessions |-> NoTrip],
                  distance |-> 0, interval |-> 0, intervalDropped |-> FALSE,
                  distanceDropped |-> FALSE, full |-> FALSE]
    /\ known = FALSE
    /\ pending = << >>
    /\ inbox = << >>
    /\ api = <<[op |-> "open"]>>
    /\ up = FALSE
    /\ running = [s \in Sessions |-> None]
    /\ batch = NoBatch
    /\ travelled = [s \in Sessions |-> 0]
    /\ asked = [s \in Sessions |-> {}]
    /\ closed = {}
    /\ owed = [s \in Sessions |-> 0]
    /\ overlapped = FALSE
    /\ hurried = {}
    /\ shaken = FALSE
    /\ crashes = 0

ClientStep ==
    \/ \E s \in Sessions, o \in load.options :
          StartBatchingCommand(s, o) \/ UpdateBatchingOptionsCommand(s, o)
    \/ \E s \in Sessions : StopBatchingCommand(s) \/ GetBatchedLocationsCommand(s)
    \/ \E c \in Clients : RemoveClient(c)

AdapterStep == HandleEngineUp \/ HandleHeldCommand \/ AnswerStep \/ ReportCompletedTrips
ModemStep == ServeRequest \/ Open

Next == ClientStep \/ AdapterStep \/ ModemStep \/ Travel \/ Crash

Spec == Init /\ [][Next]_vars

-----------------------------------------------------------------------------
(* Properties *)

Idle == up /\ Quiet
NeverTrip(s) == "trip" \notin asked[s]

\* As long as the modem refuses nothing but while it restarts: once the queues
\* are drained it runs exactly the sessions of mBatchingSessions that are no
\* trips, with the options saved there, however starts, updates, stops and
\* restarts interleave.
EngineRunsSessions ==
    /\ TypeOK
    /\ Idle => \A s \in Sessions : NeverTrip(s) => running[s] = adapter.sessions[s]

\* Without a restart of the modem, once the queues are drained: a session that
\* its client stopped is gone, and so are those of a client that left; and every
\* command of a client that is still there has its response.  Not so for trips,
\* and for a session with its update or a held command under way.
SessionsAreSettled ==
    Idle /\ crashes = 0 => \A s \in Sessions \ hurried : NeverTrip(s) =>
        /\ s \in closed => adapter.sessions[s] = None
        /\ Owner[s] \in reg => owed[s] <= 0

\* While a session that its client has not stopped wants automatic reports, the
\* batch full event is registered: what one session, of whatever kind, disables
\* when it ends, another may still need.  (Where there are trips, unless
\* commands overlapped.)
FullEventWhenNeeded ==
    crashes = 0 /\ (~overlapped \/ \A s \in Sessions : NeverTrip(s)) =>
        \A s \in Sessions \ closed :
            adapter.sessions[s].mode = "routine" \/ adapter.trips[s] # NoTrip => adapter.full

\* trips that come one at a time: neither a command nor the end of a trip met
\* another one under way (the update of a trip is a stop that meets a start), no
\* client left its trips, the modem did not restart
Orderly == ~overlapped /\ crashes = 0 /\ reg = Clients

\* Once the queues are drained the modem runs a trip batch just when there is a
\* trip, as often as any trip asks for: no sequence of starts, updates, stops and
\* completed trips leaves a trip without its batch, or the modem batching for
\* nobody.
BatchServesTrips ==
    Idle /\ Orderly =>
        /\ batch # NoBatch <=> TripKeys(adapter) # {}
        /\ \A s \in TripKeys(adapter) : batch.interval <= adapter.trips[s].interval

\* A trip is not reported ("trip is completed") before its distance, however
\* often the batch it shares was restarted by other trips, unless the device
\* moved between the question for the distance and the restart.
NoEarlyTrip ==
    [][Orderly /\ ~shaken /\ inbox # << >> /\ Head(inbox).kind = "completed" =>
         \A s \in TripKeys(adapter) :
           inbox' # inbox /\ adapter'.trips[s] = NoTrip
             => travelled[s] >= adapter.trips[s].distance]_vars

=============================================================================
