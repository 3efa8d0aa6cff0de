------------------------------ MODULE Geofence ------------------------------
(***************************************************************************)
(* Geofences, from LocationAPIClientBase with its queue of requests and    *)
(* its dictionary of ids, through GeofenceAdapter with its two maps, to    *)
(* the modem, which may restart.                                           *)
(*                                                                         *)
(* A client calls under its mutex, which is one action.  The messages of   *)
(* the adapter are handled one at a time, and so are the calls of LocApi   *)
(* on a thread of its own: addToCallQueue is only a way through that       *)
(* thread, a call of the modem goes through it as well, and the answer     *)
(* comes back as a message of the adapter.  A call after a crash fails     *)
(* until the modem is reported up.  Every caller passes one geofence at a  *)
(* time, as GeofenceAPIClient does.                                        *)
(***************************************************************************)
EXTENDS Integers, SequencesExt, FiniteSetsExt, Functions

CONSTANTS
    Clients,      \* LocationAPI objects, with their LocationAPIClientBase
    Ids,          \* ids a client gives its geofences
    HwIds,        \* ids the modem gives them
    MaxAdds,      \* bound: geofences added
    Loads         \* bound: what happens in a behaviour: the clients that call,
                  \* their commands, the restarts of the modem, the calls it
                  \* refuses while it is up, the breaches it reports

ASSUME GeofenceAssumption ==
    /\ IsFiniteSet(Clients) /\ IsFiniteSet(HwIds) /\ HwIds \subseteq Nat
    /\ MaxAdds \in Nat
    /\ Loads \subseteq [clients : SUBSET Clients, commands : Nat, crashes : Nat,
                failures : Nat, breaches : Nat]

Kinds == {"add", "remove", "pause", "resume", "modify"}
Sessions == 1 .. MaxAdds
NoSession == 0
NoHwId == -1

VARIABLES
    load,        \* the load of this behaviour
    dict,        \* mGeofenceBiDict of each client: id -> session, and back
    queue,       \* mRequestQueues[REQUEST_GEOFENCE] of each client
    clients,     \* the keys of mClientData
    mGeofences,  \* hwId -> the key, the paused flag, the options
    mGeofenceIds,\* key -> hwId
    inbox,       \* messages of the adapter
    calls,       \* messages of LocApi's thread
    modem,       \* the geofences of the modem; up or not
    next,        \* the next session id
    commands, crashes, failures, breaches,  \* what of it has happened
    misheard,    \* history: a client took an answer for that of another request
    breached,    \* history: the geofence that was last reported, and to whom
    toldPaused,  \* history: the keys a client was told are paused
    lost,        \* history: the keys that were removed, or of which the client was,
                 \* while they were being added
    refused,     \* history: the keys of which a removal failed
    mishaps      \* history: what has gone wrong in this behaviour

client == <<dict, queue>>
adapter == <<clients, mGeofences, mGeofenceIds>>
counters == <<next, commands, crashes, failures, breaches>>
history == <<load, misheard, breached, toldPaused, lost, refused, mishaps>>
vars == <<client, adapter, inbox, calls, modem, counters, history>>

Keys == Clients \X Sessions
Fence(key, paused, options) == [key |-> key, paused |-> paused, options |-> options]
Fences == [key : Keys, paused : BOOLEAN, options : {"old", "new"}]
Mishaps == Kinds \cup {"unknown", "wrong", "restart", "restarts"}

PartialFunctions(S, T) == UNION {[D -> T] : D \in SUBSET S}
TypeOK ==
    /\ load \in Loads
    /\ DOMAIN dict = Clients /\ DOMAIN queue = Clients
    /\ \A c \in Clients :
         /\ \A id \in DOMAIN dict[c] : id \in Ids /\ dict[c][id] \in Sessions
         /\ \A i \in DOMAIN queue[c] : queue[c][i].kind \in Kinds
    /\ clients \subseteq Clients
    /\ toldPaused \subseteq Keys /\ lost \subseteq Keys /\ refused \subseteq Keys
    /\ \A hw \in DOMAIN mGeofences : hw \in HwIds /\ mGeofences[hw] \in Fences
    /\ \A key \in DOMAIN mGeofenceIds : key \in Keys /\ mGeofenceIds[key] \in HwIds
    /\ modem.up \in BOOLEAN
    /\ \A hw \in DOMAIN modem.fences : hw \in HwIds /\ modem.fences[hw] \in Fences
    /\ next \in 1 .. MaxAdds + 1
    /\ mishaps \subseteq Mishaps

-----------------------------------------------------------------------------
(* A partial function with one more pair, or with one fewer; its keys.      *)

Put(f, x, y) == [z \in DOMAIN f \cup {x} |-> IF z = x THEN y ELSE f[z]]
Drop(f, x) == Restrict(f, DOMAIN f \ {x})
\* The keys of a map, in the order in which it is iterated.
MapOrder(keys) ==
    [i \in 1 .. Cardinality(keys) |->
        CHOOSE s \in keys : Cardinality({t \in keys : t <= s}) = i]

-----------------------------------------------------------------------------
(* LocationAPIClientBase: the calls of a client                            *)

\* A command message, and the item of it that goes through LocApi's thread.
Message(type, kind, c, session) ==
    [type |-> type, kind |-> kind, c |-> c, session |-> session, hw |-> NoHwId,
     paused |-> FALSE, options |-> "old", ok |-> TRUE]
Registered(c) ==
    c \in clients /\ \A i \in DOMAIN inbox : inbox[i].type = "remove client" => inbox[i].c # c
Call(c, kind, session) ==
    /\ Registered(c) /\ commands < load.commands
    /\ commands' = commands + 1
    /\ queue' = [queue EXCEPT ![c] = Append(@, [kind |-> kind, session |-> session])]
    /\ inbox' = Append(inbox, Message("command", kind, c, session))

locAPIAddGeofences(c, id) ==
    /\ next <= MaxAdds
    /\ id \notin DOMAIN dict[c]
    /\ Call(c, "add", next)
    /\ next' = next + 1
    /\ dict' = [dict EXCEPT ![c] = Put(@, id, next)]
    /\ UNCHANGED <<adapter, calls, modem, crashes, failures, breaches, history>>

\* The id is forgotten before the geofence is known to be removed.
locAPIRemoveGeofences(c, id) ==
    /\ id \in DOMAIN dict[c]
    /\ Call(c, "remove", dict[c][id])
    /\ dict' = [dict EXCEPT ![c] = Drop(@, id)]
    /\ UNCHANGED <<adapter, calls, modem, next, crashes, failures, breaches, history>>

locAPIChangeGeofences(c, id) ==
    /\ id \in DOMAIN dict[c]
    /\ \E kind \in {"pause", "resume", "modify"} : Call(c, kind, dict[c][id])
    /\ UNCHANGED <<dict, adapter, calls, modem, next, crashes, failures, breaches, history>>

\* LocationAPI::destroy, of which the adapter is told.
Destroy(c) ==
    /\ Registered(c) /\ commands < load.commands /\ commands' = commands + 1
    /\ inbox' = Append(inbox, Message("remove client", "remove", c, NoSession))
    /\ UNCHANGED <<client, adapter, calls, modem, next, crashes, failures, breaches, history>>

-----------------------------------------------------------------------------
(* GeofenceAdapter: its messages.  A handler that is not one of an answer  *)
(* leaves the history of mishaps to its own conjunct.                      *)

Received(type) == inbox # <<>> /\ Head(inbox).type = type
Done == inbox' = Tail(inbox)

\* reportResponse, LocationAPIClientBase::onCollectiveResponseCb: whatever the
\* answer is about, the request at the head of the queue gets it.
Respond(c, kind, session) ==
    IF c \in clients /\ queue[c] # <<>>
    THEN /\ queue' = [queue EXCEPT ![c] = Tail(@)]
         /\ misheard' = IF Head(queue[c]) = [kind |-> kind, session |-> session]
                        THEN misheard ELSE misheard \cup {c}
    ELSE UNCHANGED <<queue, misheard>>
Mishap(set) == mishaps' = mishaps \cup set

\* Faulty variant: one map only.
saveOneMap(hw, fence) ==
    /\ mGeofences' = Put(mGeofences, hw, fence)
    /\ mGeofenceIds' = mGeofenceIds

saveGeofenceItem(hw, fence) ==
    /\ mGeofences' = Put(mGeofences, hw, fence)
    /\ mGeofenceIds' = Put(mGeofenceIds, fence.key, hw)

removeGeofenceItem(hw) ==
    IF hw \in DOMAIN mGeofences /\ mGeofences[hw].key \in DOMAIN mGeofenceIds
    THEN /\ mGeofenceIds' = Drop(mGeofenceIds, mGeofences[hw].key)
         /\ mGeofences' = Drop(mGeofences, hw)
    ELSE UNCHANGED <<mGeofences, mGeofenceIds>>

\* pauseGeofenceItem, resumeGeofenceItem, modifyGeofenceItem
ChangeItem(kind, hw) ==
    /\ mGeofenceIds' = mGeofenceIds
    /\ mGeofences' =
         IF hw \notin DOMAIN mGeofences THEN mGeofences
         ELSE CASE kind = "pause" -> [mGeofences EXCEPT ![hw].paused = TRUE]
                [] kind = "resume" -> [mGeofences EXCEPT ![hw].paused = FALSE]
                [] kind = "modify" -> [mGeofences EXCEPT ![hw].options = "new"]

\* The command is put through LocApi's thread.
Command ==
    /\ Received("command")
    /\ calls' = Append(calls, [Head(inbox) EXCEPT !.type = "return"])
    /\ Done
    /\ UNCHANGED <<client, adapter, modem, counters, history>>

\* An add of the geofence is under way, that of a restart included.
Adding(key) ==
    \E m \in ToSet(inbox) \cup ToSet(calls) :
        m.kind = "add" /\ m.type \notin {"breach", "engine up"} /\ <<m.c, m.session>> = key

\* Back from there, the geofence is looked up; an unknown one is answered
\* at once.
Perform ==
    LET m == Head(inbox)
        key == <<m.c, m.session>>
    IN  /\ Received("perform")
        /\ IF m.kind = "add" \/ key \in DOMAIN mGeofenceIds
           THEN /\ calls' = Append(calls,
                     [m EXCEPT !.type = "call",
                               !.hw = IF m.kind = "add" THEN NoHwId ELSE mGeofenceIds[key]])
                /\ UNCHANGED <<queue, misheard, mishaps, lost>>
           ELSE /\ Respond(m.c, m.kind, m.session)
                /\ Mishap({"unknown"})
                /\ lost' = IF m.kind = "remove" /\ Adding(key) THEN lost \cup {key} ELSE lost
                /\ calls' = calls
        /\ Done
        /\ UNCHANGED <<dict, adapter, modem, counters, breached, load, toldPaused, refused>>

\* Faulty variant: an answer of the modem is reported when it is good.
AnsweredGood(m) ==
    IF m.ok THEN Respond(m.c, m.kind, m.session) ELSE UNCHANGED <<queue, misheard>>

\* A resume that failed is not reported.
Answered(m) ==
    IF m.kind # "resume" \/ m.ok THEN Respond(m.c, m.kind, m.session)
    ELSE UNCHANGED <<queue, misheard>>

Answer ==
    LET m == Head(inbox)
        fence == Fence(<<m.c, m.session>>, FALSE, m.options)
    IN  /\ Received("answer")
        /\ IF ~m.ok THEN UNCHANGED <<mGeofences, mGeofenceIds>>
           ELSE CASE m.kind = "add" -> saveGeofenceItem(m.hw, fence)
                  [] m.kind = "remove" -> removeGeofenceItem(m.hw)
                  [] OTHER -> ChangeItem(m.kind, m.hw)
        /\ Answered(m)
        /\ toldPaused' = CASE m.ok /\ m.kind = "pause" -> toldPaused \cup {fence.key}
                           [] m.ok /\ m.kind = "resume" -> toldPaused \ {fence.key}
                           [] OTHER -> toldPaused
        /\ Done
        /\ UNCHANGED <<dict, clients, calls, modem, counters, load, breached, lost, refused, mishaps>>

\* Faulty variant: the geofences of the client are only forgotten.
RemoveClientForgets ==
    LET c == Head(inbox).c
    IN  /\ Received("remove client")
        /\ mGeofenceIds' = [key \in {k \in DOMAIN mGeofenceIds : k[1] # c} |-> mGeofenceIds[key]]
        /\ clients' = clients \ {c}
        /\ Done
        /\ UNCHANGED <<client, mGeofences, calls, modem, counters, history>>

\* MsgRemoveClient: stopClientSessions asks the modem to remove the client's
\* geofences, in the order of their keys, and forgets only one map; eraseClient.
RemoveClient ==
    LET c == Head(inbox).c
        mine == MapOrder({key[2] : key \in {k \in DOMAIN mGeofenceIds : k[1] = c}})
    IN  /\ Received("remove client")
        /\ mGeofenceIds' = [key \in {k \in DOMAIN mGeofenceIds : k[1] # c} |-> mGeofenceIds[key]]
        /\ calls' = calls \o [i \in DOMAIN mine |->
                        [Message("call", "remove", c, mine[i])
                           EXCEPT !.hw = mGeofenceIds[<<c, mine[i]>>], !.paused = TRUE]]
        /\ clients' = clients \ {c}
        /\ lost' = lost \cup {key \in Keys : key[1] = c /\ Adding(key)}
        /\ Done
        /\ UNCHANGED <<client, mGeofences, modem, counters, misheard, breached, load, toldPaused, refused, mishaps>>

\* The answer to stopClientSessions.
ClientFenceRemoved ==
    LET m == Head(inbox)
    IN  /\ Received("client fence removed")
        /\ mGeofences' = IF m.ok THEN Drop(mGeofences, m.hw) ELSE mGeofences
        /\ Done
        /\ UNCHANGED <<client, clients, mGeofenceIds, calls, modem, counters, history>>

\* handleEngineUpEvent, restartGeofences: both maps are cleared, unless there is none, and each
\* geofence is added again, in the order of the hwIds.
HandleEngineUp ==
    LET old == MapOrder(DOMAIN mGeofences)
        again(hw) == [Message("call", "add", mGeofences[hw].key[1], mGeofences[hw].key[2])
                        EXCEPT !.hw = hw, !.options = mGeofences[hw].options,
                               !.paused = mGeofences[hw].paused]
    IN  /\ Received("engine up")
        /\ calls' = calls \o [i \in DOMAIN old |-> again(old[i])]
        /\ mGeofences' = <<>>
        /\ mGeofenceIds' = IF mGeofences = <<>> THEN mGeofenceIds ELSE <<>>
        /\ Done
        /\ UNCHANGED <<client, clients, modem, counters, history>>

\* A geofence that was paused is paused again, but saved as if it were not.
Restored ==
    LET m == Head(inbox)
    IN  /\ Received("restored")
        /\ IF m.ok THEN saveGeofenceItem(m.hw, Fence(<<m.c, m.session>>, FALSE, m.options))
           ELSE UNCHANGED <<mGeofences, mGeofenceIds>>
        /\ calls' = IF m.ok /\ m.paused
                    THEN Append(calls, [Message("call", "pause", m.c, m.session)
                                          EXCEPT !.hw = m.hw, !.paused = TRUE])
                    ELSE calls
        /\ Done
        /\ UNCHANGED <<client, clients, modem, counters, history>>

PausedAgain ==
    /\ Received("paused again")
    /\ Done
    /\ UNCHANGED <<client, adapter, calls, modem, counters, history>>

\* geofenceBreach: the client whose key it is
Addressed(hw) == IF hw \in DOMAIN mGeofences /\ mGeofences[hw].key[1] \in clients
                 THEN {mGeofences[hw].key} ELSE {}
GeofenceBreach ==
    LET m == Head(inbox)
    IN  /\ Received("breach")
        /\ breached' = [of |-> <<m.c, m.session>>, told |-> Addressed(m.hw)]
        /\ Done
        /\ UNCHANGED <<client, adapter, calls, modem, counters, load, misheard, toldPaused, lost, refused, mishaps>>

-----------------------------------------------------------------------------
(* LocApi's thread and the modem                                           *)

ApiReturns ==
    /\ calls # <<>> /\ Head(calls).type = "return"
    /\ inbox' = Append(inbox, [Head(calls) EXCEPT !.type = "perform"])
    /\ calls' = Tail(calls)
    /\ UNCHANGED <<client, adapter, modem, counters, history>>

\* What becomes of an answer: the call of a command has no geofence to restore
\* and is not for a removed client.
AnswerType(m) ==
    CASE m.kind = "add" /\ m.hw # NoHwId -> "restored"
      [] m.kind = "remove" /\ m.paused -> "client fence removed"
      [] m.kind = "pause" /\ m.paused -> "paused again"
      [] OTHER -> "answer"

ModemFails ==
    LET m == Head(calls)
    IN  /\ calls # <<>> /\ m.type = "call"
        /\ \/ /\ IF m.kind = "add" THEN DOMAIN modem.fences = HwIds
                 ELSE m.hw \notin DOMAIN modem.fences
              /\ failures' = failures
           \/ /\ ~modem.up
              /\ failures' = failures
           \/ /\ modem.up /\ failures < load.failures
              /\ failures' = failures + 1
        /\ inbox' = Append(inbox, [m EXCEPT !.type = AnswerType(m), !.ok = FALSE])
        /\ calls' = Tail(calls)
        /\ Mishap({m.kind})
        /\ refused' = IF m.kind = "remove" THEN refused \cup {<<m.c, m.session>>} ELSE refused
        /\ UNCHANGED <<client, adapter, modem, next, commands, crashes, breaches, misheard, breached, load,
                       toldPaused, lost>>

\* A new geofence gets the first id that is free, and the modem has room.
free(f) == Min(HwIds \ DOMAIN f)
ModemServes ==
    LET m == Head(calls)
        f == modem.fences
    IN  /\ calls # <<>> /\ m.type = "call" /\ modem.up
        /\ IF m.kind = "add" THEN HwIds # DOMAIN f ELSE m.hw \in DOMAIN f
        /\ modem' = [modem EXCEPT !.fences =
             CASE m.kind = "add" -> Put(f, free(f), Fence(<<m.c, m.session>>, FALSE, m.options))
               [] m.kind = "remove" -> Drop(f, m.hw)
               [] m.kind = "pause" -> [f EXCEPT ![m.hw].paused = TRUE]
               [] m.kind = "resume" -> [f EXCEPT ![m.hw].paused = FALSE]
               [] m.kind = "modify" -> [f EXCEPT ![m.hw].options = "new"]]
        /\ inbox' = Append(inbox, [m EXCEPT !.type = AnswerType(m),
                                            !.hw = IF m.kind = "add" THEN free(f) ELSE @])
        /\ calls' = Tail(calls)
        /\ Mishap(IF m.kind # "add" /\ f[m.hw].key # <<m.c, m.session>> THEN {"wrong"} ELSE {})
        /\ UNCHANGED <<client, adapter, counters, misheard, breached, load, toldPaused, lost, refused>>

Breach(hw) ==
    /\ modem.up /\ hw \in DOMAIN modem.fences /\ ~modem.fences[hw].paused
    /\ breaches < load.breaches /\ breaches' = breaches + 1
    /\ LET key == modem.fences[hw].key
       IN  inbox' = Append(inbox, [Message("breach", "add", key[1], key[2]) EXCEPT !.hw = hw])
    /\ UNCHANGED <<client, adapter, calls, modem, next, commands, crashes, failures, history>>

Crash ==
    /\ modem.up /\ crashes < load.crashes
    /\ crashes' = crashes + 1
    /\ modem' = [up |-> FALSE, fences |-> <<>>]
    /\ Mishap(IF crashes = 0 THEN {"restart"} ELSE {"restarts"})
    /\ UNCHANGED <<client, adapter, inbox, calls, next, commands, failures, breaches, misheard, breached, load,
                   toldPaused, lost, refused>>

EngineUp ==
    /\ ~modem.up
    /\ modem' = [modem EXCEPT !.up = TRUE]
    /\ inbox' = Append(inbox, Message("engine up", "add", CHOOSE c \in Clients : TRUE, NoSession))
    /\ UNCHANGED <<client, adapter, calls, counters, history>>

-----------------------------------------------------------------------------
Init ==
    /\ dict = [c \in Clients |-> <<>>] /\ queue = [c \in Clients |-> <<>>]
    /\ load \in Loads /\ clients = load.clients
    /\ mGeofences = <<>> /\ mGeofenceIds = <<>>
    /\ inbox = <<>> /\ calls = <<>>
    /\ modem = [up |-> TRUE, fences |-> <<>>]
    /\ next = 1 /\ commands = 0 /\ crashes = 0 /\ failures = 0 /\ breaches = 0
    /\ misheard = {} /\ mishaps = {} /\ toldPaused = {} /\ lost = {} /\ refused = {}
    /\ breached = [of |-> <<>>, told |-> {}]

Handle == \/ Command \/ Perform \/ Answer \/ RemoveClient \/ ClientFenceRemoved
          \/ HandleEngineUp \/ Restored \/ PausedAgain \/ GeofenceBreach
Api == ApiReturns \/ ModemFails \/ ModemServes

Next ==
    \/ \E c \in Clients, id \in Ids :
         locAPIAddGeofences(c, id) \/ locAPIRemoveGeofences(c, id) \/ locAPIChangeGeofences(c, id)
    \/ \E c \in Clients : Destroy(c)
    \/ Handle \/ Api
    \/ \E hw \in HwIds : Breach(hw)
    \/ Crash \/ EngineUp

Fairness == WF_vars(Handle) /\ WF_vars(Api) /\ WF_vars(EngineUp)
Spec == Init /\ [][Next]_vars /\ Fairness

-----------------------------------------------------------------------------
(* Properties *)

Without(set) == mishaps \cap set = {}
Quiet == inbox = <<>> /\ calls = <<>> /\ modem.up

\* The two maps name the same geofences, but for those of a removed client,
\* which stopClientSessions drops from one map before their removal is answered
\* (GeofenceAdapter.cpp:73).  It breaks once a call hits the geofence of another
\* client, as a command does that took its hwId before the modem restarted.
MapsAgree ==
  Without({"wrong"}) =>
    /\ \A key \in DOMAIN mGeofenceIds :
         mGeofenceIds[key] \in DOMAIN mGeofences /\ mGeofences[mGeofenceIds[key]].key = key
    /\ \A hw \in DOMAIN mGeofences :
         mGeofences[hw].key[1] \in clients => mGeofences[hw].key \in DOMAIN mGeofenceIds

\* When all is answered, the modem monitors the geofences of the map, with their
\* options, restarts included (restartGeofences, :141), and no other.  A removal
\* that fails because the modem has lost the geofence leaves it in the map.
ModemServesMap ==
    Quiet /\ Without({"wrong"}) =>
      /\ \A hw \in DOMAIN modem.fences :
           /\ hw \in DOMAIN mGeofences
           /\ modem.fences[hw].key = mGeofences[hw].key
           /\ modem.fences[hw].options = mGeofences[hw].options
      /\ \A hw \in DOMAIN mGeofences : hw \in DOMAIN modem.fences \/ mGeofences[hw].key \in refused

\* A client hears of the request it made: its queue has no ids, so that an
\* answer is taken for the oldest request (LocationAPIClientBase.cpp:936).  An
\* unknown geofence is answered out of turn, and a failed resume never.
\* And a breach is told to the client whose geofence the modem meant, whatever
\* hwIds were given away and taken again since (geofenceBreach, :786).
RightCallback ==
    /\ Without({"unknown", "resume"}) => misheard = {}
    /\ breached.told \subseteq {breached.of}

\* Once all is answered, a geofence that is monitored although its client cannot
\* name it, or is gone, is one of which
\*   - the removal, or that of the client, was handled while it was being added:
\*     it is in no map yet (GeofenceAdapter.cpp:58, :351);
\*   - the modem failed a removal, of which the client has dropped the id before
\*     (LocationAPIClientBase.cpp:698).
NoOrphan ==
    Quiet /\ Without({"wrong"}) =>
      \A hw \in DOMAIN modem.fences :
        LET key == modem.fences[hw].key
        IN  \/ key \in lost \cup refused
            \/ key[1] \in clients /\ \E id \in DOMAIN dict[key[1]] : dict[key[1]][id] = key[2]

\* A geofence that its client was told is paused is paused in the modem, also
\* after a restart (:160).  It is saved as if it were not, so that a second
\* restart resumes it.
PausedStays ==
    Quiet /\ Without({"wrong", "pause", "restarts"}) =>
      \A hw \in DOMAIN modem.fences :
        modem.fences[hw].key \in toldPaused => modem.fences[hw].paused

\* The two maps, the modem and what the clients were told of it stay in step, also
\* when the modem refuses calls or restarts.
MapsInStep == TypeOK /\ MapsAgree /\ ModemServesMap /\ PausedStays

\* In the end a client that stays has been answered as often as it asked, also
\* when the modem refused or restarted; all but a failed resume (:500).
AllAnswered ==
    \A c \in Clients : <>[](queue[c] = <<>> \/ c \notin clients \/ "resume" \in mishaps)
=============================================================================
