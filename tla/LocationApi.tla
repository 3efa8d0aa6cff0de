----------------------------- MODULE LocationApi ----------------------------
(***************************************************************************)
(* Instances of LocationAPI (gps/location/LocationAPI.cpp): the clients of *)
(* the GNSS, batching and geofence adapters, from createInstance to the    *)
(* end of destroy().                                                       *)
(*                                                                         *)
(* The calls of clients hold gDataMutex, so each is one action.  What they *)
(* ask of the adapters are messages to the one thread of the adapters      *)
(* (LocAdapterBase.cpp), each handled in one action; the last adapter that *)
(* has removed a client deletes the instance, whose address may then be    *)
(* used again.  A client keeps to the interface: it does not use an        *)
(* instance it has destroyed, and gives destroy() a callback, as           *)
(* LocationAPIClientBase does.                                             *)
(***************************************************************************)
EXTENDS Integers, Sequences, FiniteSets

CONSTANTS
    Instances,      \* addresses of LocationAPI objects
    Adapters,       \* those a client may register with
    MayBeMissing,   \* those whose library may fail to load
    MaxQueued,      \* bound: messages in the queue when a client calls
    MaxHeld         \* bound: requests an adapter holds when one is created

AllAdapters == {"gnss", "batching", "geofence"}

ASSUME LocationApiAssumption ==
    /\ IsFiniteSet(Instances)
    /\ Adapters \subseteq AllAdapters
    /\ MayBeMissing \subseteq Adapters
    /\ MaxQueued \in Nat /\ MaxHeld \in Nat

\* LocationCallbacks: the mandatory ones and those for some of the adapters;
\* no entry in a map is the empty set.
LocationCallbacks == {{"response"} \cup k : k \in SUBSET Adapters}
NoEntry == {}

VARIABLES
    object,        \* is there an object at the address?
    clientData,    \* gData.clientData
    destroyData,   \* gData.destroyClientData: the adapters waited for
    loaded,        \* the interfaces: not tried, available or failed to load
    refCount,      \* gOSFrameworkRefCount
    framework,     \* does the OS framework instance exist?
    inbox,         \* the message queue of the adapters
    mClientData,   \* the clients of each adapter, with their callbacks
    known,         \* mIsEngineCapabilitiesKnown of each adapter
    pending,       \* mPendingMsgs of each adapter
    capabilities   \* history: what became of the request for capabilities

vars == <<object, clientData, destroyData, loaded, refCount, framework,
          inbox, mClientData, known, pending, capabilities>>
api == <<object, clientData, destroyData, loaded, refCount, framework>>
adapters == <<mClientData, known, pending>>

Messages ==
    [op : {"add"}, to : Adapters, client : Instances, callbacks : LocationCallbacks]
      \cup [op : {"remove", "capabilities"}, to : Adapters, client : Instances]

TypeOK ==
    /\ object \in [Instances -> {"free", "alive"}]
    /\ clientData \in [Instances -> LocationCallbacks \cup {NoEntry}]
    /\ destroyData \in [Instances -> SUBSET Adapters]
    /\ loaded \in [Adapters -> {"no", "yes", "failed"}]
    /\ refCount \in Nat
    /\ framework \in BOOLEAN
    /\ inbox \in Seq(Messages)
    /\ mClientData \in [Adapters -> [Instances -> LocationCallbacks \cup {NoEntry}]]
    /\ known \in [Adapters -> BOOLEAN]
    /\ pending \in [Adapters -> Seq(Instances)]
    /\ capabilities \in [Instances -> {"unasked", "asked", "told"}]

Clients == {i \in Instances : clientData[i] # NoEntry}
Available(l) == {a \in Adapters : l[a] = "yes"}

-----------------------------------------------------------------------------
(* Calls of clients, on their threads *)

Idle == Len(inbox) <= MaxQueued

\* The interfaces that callbacks k need are loaded once; a failure is final.
Loads(k) ==
    {l \in [Adapters -> {"no", "yes", "failed"}] : \A a \in Adapters :
        IF a \in k /\ loaded[a] = "no"
        THEN l[a] \in {"yes"} \cup (IF a \in MayBeMissing THEN {"failed"} ELSE {})
        ELSE l[a] = loaded[a]}

\* The adapters of S, in the order the calls go through them.
IfIn(a, S) == IF a \in S THEN <<a>> ELSE << >>
InOrder(S) == IfIn("gnss", S) \o IfIn("batching", S) \o IfIn("geofence", S)

AddTo(as, i, k) ==
    [n \in DOMAIN as |-> [op |-> "add", to |-> as[n], client |-> i, callbacks |-> k]]
RemoveFrom(as, i) ==
    [n \in DOMAIN as |-> [op |-> "remove", to |-> as[n], client |-> i]]

\* The first adapter a client is added to is asked for the capabilities.
Additions(as, i, k) ==
    IF as = << >> THEN << >>
    ELSE AddTo(<<Head(as)>>, i, k)
           \o <<[op |-> "capabilities", to |-> Head(as), client |-> i]>>
           \o AddTo(Tail(as), i, k)

createInstance(i, k) ==
    /\ object[i] = "free" /\ Idle
    /\ \A a \in Adapters : Len(pending[a]) <= MaxHeld
    /\ object' = [object EXCEPT ![i] = "alive"]
    /\ refCount' = refCount + 1
    /\ framework' = (framework \/ refCount = 0)
    /\ \E l \in Loads(k) :
         LET as == InOrder(k \cap Available(l))
         IN  /\ loaded' = l
             /\ inbox' = inbox \o Additions(as, i, k)
             /\ capabilities' = [capabilities EXCEPT ![i] =
                                   IF as = << >> THEN "unasked" ELSE "asked"]
    /\ clientData' = [clientData EXCEPT ![i] = k]
    /\ UNCHANGED <<destroyData, adapters>>

\* Faulty variant: only an interface that this call loads learns of the client.
updateNewOnly(i, k) ==
    /\ i \in Clients /\ Idle
    /\ \E l \in Loads(k) :
         /\ loaded' = l
         /\ inbox' = inbox \o AddTo(InOrder({a \in k \cap Available(l) : loaded[a] = "no"}), i, k)
    /\ clientData' = [clientData EXCEPT ![i] = k]
    /\ UNCHANGED <<object, destroyData, refCount, framework, adapters, capabilities>>

updateCallbacks(i, k) ==
    /\ i \in Clients /\ Idle
    /\ \E l \in Loads(k) :
         /\ loaded' = l
         /\ inbox' = inbox \o AddTo(InOrder(k \cap Available(l)), i, k)
    /\ clientData' = [clientData EXCEPT ![i] = k]
    /\ UNCHANGED <<object, destroyData, refCount, framework, adapters, capabilities>>

\* The end of destroy(): the client leaves the map, and the framework goes
\* with the last client.
Unregister(i) ==
    /\ clientData' = [clientData EXCEPT ![i] = NoEntry]
    /\ framework' = (framework /\ refCount # 1)
    /\ refCount' = refCount - 1
    /\ UNCHANGED <<loaded, adapters, capabilities>>

\* Faulty variant: the adapters the client has callbacks for are waited for,
\* not those it is removed from.
destroyWaitsForCallbacks(i) ==
    /\ i \in Clients /\ Idle
    /\ destroyData' = [destroyData EXCEPT ![i] = Available(loaded) \cap clientData[i]]
    /\ inbox' = inbox \o RemoveFrom(InOrder(Available(loaded)), i)
    /\ object' = [object EXCEPT ![i] = IF destroyData'[i] = {} THEN "free" ELSE @]
    /\ Unregister(i)

\* The client is removed from every interface that is loaded, whatever
\* callbacks it has (updateCallbacks may have taken some away); without any,
\* the instance is deleted at once.
destroy(i) ==
    /\ i \in Clients /\ Idle
    /\ destroyData' = [destroyData EXCEPT ![i] = Available(loaded)]
    /\ inbox' = inbox \o RemoveFrom(InOrder(Available(loaded)), i)
    /\ object' = [object EXCEPT ![i] = IF Available(loaded) = {} THEN "free" ELSE @]
    /\ Unregister(i)

-----------------------------------------------------------------------------
(* The thread of the adapters *)

Handle(op) ==
    /\ inbox # << >> /\ Head(inbox).op = op
    /\ inbox' = Tail(inbox)

\* MsgAddClient: saveClient
AddClient ==
    /\ Handle("add")
    /\ LET m == Head(inbox)
       IN  mClientData' = [mClientData EXCEPT ![m.to][m.client] = m.callbacks]
    /\ UNCHANGED <<api, known, pending, capabilities>>

\* the adapter's bit is cleared; at zero the entry is erased and the instance
\* deletes itself
onRemoveClientCompleteCb(i, a) ==
    /\ destroyData' = [destroyData EXCEPT ![i] = @ \ {a}]
    /\ object' = [object EXCEPT ![i] = IF destroyData[i] \subseteq {a} /\ destroyData[i] # {}
                                       THEN "free" ELSE @]

\* MsgRemoveClient: eraseClient, then the callback to the instance
RemoveClient ==
    /\ Handle("remove")
    /\ LET m == Head(inbox)
       IN  /\ mClientData' = [mClientData EXCEPT ![m.to][m.client] = NoEntry]
           /\ onRemoveClientCompleteCb(m.client, m.to)
    /\ UNCHANGED <<clientData, loaded, refCount, framework, known, pending, capabilities>>

\* Those of S are told, if they have asked.
TellAll(S) == [i \in Instances |->
                 IF i \in S /\ capabilities[i] = "asked" THEN "told" ELSE capabilities[i]]
Registered(a) == {i \in Instances : mClientData[a][i] # NoEntry}

\* MsgRequestCapabilities: held until they are known
RequestCapabilities ==
    /\ Handle("capabilities")
    /\ LET m == Head(inbox)
       IN  \/ /\ ~known[m.to]
              /\ pending' = [pending EXCEPT ![m.to] = Append(@, m.client)]
              /\ UNCHANGED capabilities
           \/ /\ known[m.to]
              /\ capabilities' = TellAll({m.client} \cap Registered(m.to))
              /\ UNCHANGED pending
    /\ UNCHANGED <<api, mClientData, known>>

Resent(a) ==
    [n \in DOMAIN pending[a] |-> [op |-> "capabilities", to |-> a, client |-> pending[a][n]]]

\* Faulty variant: what was held is forgotten, and nobody is told.
EngineUpForgets(a) ==
    /\ loaded[a] = "yes" /\ ~known[a]
    /\ known' = [known EXCEPT ![a] = TRUE]
    /\ pending' = [pending EXCEPT ![a] = << >>]
    /\ UNCHANGED <<api, inbox, mClientData, capabilities>>

\* handleEngineUpEvent of each adapter: all clients are told, held messages are
\* sent again.  (Restarting the sessions is the subject of other modules.)
EngineUp(a) ==
    /\ loaded[a] = "yes" /\ ~known[a]
    /\ known' = [known EXCEPT ![a] = TRUE]
    /\ capabilities' = TellAll(Registered(a))
    /\ inbox' = inbox \o Resent(a)
    /\ pending' = [pending EXCEPT ![a] = << >>]
    /\ UNCHANGED <<api, mClientData>>

-----------------------------------------------------------------------------
Init ==
    /\ object = [i \in Instances |-> "free"]
    /\ clientData = [i \in Instances |-> NoEntry]
    /\ destroyData = [i \in Instances |-> {}]
    /\ loaded = [a \in Adapters |-> "no"]
    /\ refCount = 0
    /\ framework = FALSE
    /\ inbox = << >>
    /\ mClientData = [a \in Adapters |-> [i \in Instances |-> NoEntry]]
    /\ known = [a \in Adapters |-> FALSE]
    /\ pending = [a \in Adapters |-> << >>]
    /\ capabilities = [i \in Instances |-> "unasked"]

HandleMessage == AddClient \/ RemoveClient \/ RequestCapabilities

Next ==
    \/ \E i \in Instances, k \in LocationCallbacks : createInstance(i, k) \/ updateCallbacks(i, k)
    \/ \E i \in Instances : destroy(i)
    \/ HandleMessage
    \/ \E a \in Adapters : EngineUp(a)

\* The message thread runs, and the modem comes up.
Fairness == WF_vars(HandleMessage) /\ \A a \in Adapters : WF_vars(EngineUp(a))

Spec == Init /\ [][Next]_vars /\ Fairness

-----------------------------------------------------------------------------
(* Properties *)

Removals(i) ==
    {a \in Adapters : \E n \in DOMAIN inbox :
        inbox[n] = [op |-> "remove", to |-> a, client |-> i]}

\* The adapters a destroyed instance still waits for are those that have not
\* handled its removal yet: no confirmation is waited for in vain, and none
\* comes that is not waited for.
WaitsForRemovals == \A i \in Instances : destroyData[i] = Removals(i)

\* Whatever names an instance names one that exists: the map of clients, the
\* clients of the adapters, and the messages that add or remove one.
NoDeletedInstance ==
    \A i \in Instances : object[i] = "free" =>
        /\ i \notin Clients
        /\ \A a \in Adapters : i \notin Registered(a)
        /\ \A n \in DOMAIN inbox : inbox[n].client = i => inbox[n].op = "capabilities"

\* So no callback and no confirmation reaches a deleted object, although three
\* adapters let go of it one after the other, in any order and beside calls for
\* other instances at the same address.
InstancesOutliveUses == TypeOK /\ WaitsForRemovals /\ NoDeletedInstance

\* Once the queue is drained each adapter calls the clients that are left, and
\* one that asks for its callbacks with the callbacks it gave last.  The OS
\* framework is there as long as there are clients, and is counted once for each.
ClientsAreKnown ==
    /\ refCount = Cardinality(Clients)
    /\ framework <=> Clients # {}
    /\ inbox = << >> => \A a \in Adapters :
        /\ Registered(a) \subseteq Clients
        /\ loaded[a] = "yes" => \A i \in Clients :
               a \in clientData[i] => mClientData[a][i] = clientData[i]

\* A destroyed instance is deleted in the end, and a client that asked for the
\* capabilities is told them, or is destroyed.
ClientsAreServed ==
    \A i \in Instances :
        /\ destroyData[i] # {} ~> object[i] = "free"
        /\ capabilities[i] = "asked" ~> (capabilities[i] # "asked" \/ i \notin Clients)

=============================================================================
