---------------------------- MODULE SystemStatus ----------------------------
(***************************************************************************)
(* SystemStatus and its observer between the framework and those that want *)
(* to know: NativeAgpsHandler, which opens data connections, and           *)
(* XtraSystemStatusObserver, which relays to the XTRA daemon, a process of *)
(* its own that may restart.                                               *)
(*                                                                         *)
(* Events and requests come on threads of the framework and are messages   *)
(* of one thread, which is also that of GnssAdapter.  When the framework   *)
(* dies, the networks are reset on a thread of its own, which reads the    *)
(* reports without their mutex while messages are handled.                 *)
(***************************************************************************)
EXTENDS Subscriptions, NetworkTable

CONSTANTS
    NATIVE, XTRA,   \* the observers of GnssAdapter, among Clients
    Values,         \* of the data items other than "network"
    NoValue,
    Loads           \* bound: what happens in a behaviour: networks that come and
                    \* go, other data items that change, events, deaths of the
                    \* framework, requests of the daemon for the status, and
                    \* requests of other clients

ASSUME SystemStatusAssumption ==
    /\ {NATIVE, XTRA} \subseteq Clients /\ {"network", "tac"} \subseteq Items
    /\ NoValue \notin Values /\ NoValue \notin NetworkInfos
    /\ \A load \in Loads :
          /\ DOMAIN load = {"networks", "items", "events", "deaths", "daemons", "asks"}
          /\ load.items \subseteq Items \ {"network"}

VARIABLES
    load, left,    \* the load, and what of it is left
    connected,     \* the networks the framework has reported
    inbox,         \* messages of the message thread
    report,        \* mCache.mNetworkInfo
    mDataItemCache,
    told,          \* client -> data item -> what it was last told
    resetting,     \* the index of resetNetworkInfo in the report, or 0
    known,         \* what the XTRA observer knows, data item -> value
    mReqStatusReceived,
    daemon,        \* asked: whether the daemon, since it runs, has asked for the
                   \* status as one that does not have it; view: what it was told
    faults         \* history: what has gone wrong with the networks

networkVars == <<connected, report, resetting, faults>>
xtraVars == <<known, mReqStatusReceived, daemon>>
toldVars == <<mDataItemCache, told>>
statusVars == <<load, left, inbox, networkVars, toldVars, xtraVars>>
vars == <<subscriptionVars, statusVars>>

Nothing == [i \in Items |-> NoValue]
TypeOK ==
    /\ SubscriptionsTypeOK
    /\ connected \subseteq Networks
    /\ Len(report) <= maxItem
    /\ \A i \in DOMAIN report : ToSet(report[i].handles) \subseteq Networks
    /\ resetting \in Nat
    /\ mReqStatusReceived \in BOOLEAN
    /\ faults \subseteq {"shared type", "not reported", "shifted"}

Init ==
    /\ SubscriptionsInit
    /\ load \in Loads /\ left = load
    /\ connected = {} /\ report = <<>> /\ resetting = 0 /\ faults = {}
    /\ inbox = << [type |-> "subscribe", c |-> XTRA, items |-> {"network"}],
                  [type |-> "request", c |-> XTRA, items |-> {"tac"}],
                  [type |-> "subscribe", c |-> NATIVE, items |-> {"network"}] >>
    /\ mDataItemCache = Nothing
    /\ told = [c \in Clients |-> Nothing]
    /\ known = Nothing /\ mReqStatusReceived = FALSE
    /\ daemon = [asked |-> FALSE, view |-> Nothing]

-----------------------------------------------------------------------------
(* The threads of the framework, the daemon and other clients              *)

Post(m) == inbox' = Append(inbox, m)
Spend(what) == left[what] > 0 /\ left' = [left EXCEPT ![what] = @ - 1]

\* updateConnectionStatus
NetworkEvent(n, on) ==
    /\ resetting = 0 /\ n \in load.networks /\ (n \in connected) # on
    /\ Spend("events")
    /\ connected' = IF on THEN connected \cup {n} ELSE connected \ {n}
    /\ Post([type |-> "notify", item |-> "network", value |-> NetworkInfo(n, on)])
    /\ UNCHANGED <<subscriptionVars, load, report, resetting, faults, toldVars, xtraVars>>

OtherEvent(i, v) ==
    /\ i \in load.items /\ Spend("events")
    /\ Post([type |-> "notify", item |-> i, value |-> v])
    /\ UNCHANGED <<subscriptionVars, load, networkVars, toldVars, xtraVars>>

\* GnssDeathRecipient::serviceDied, resetNetworkInfo: a network is reset if one
\* of the reports that are kept is about it.
Pending == \E i \in DOMAIN inbox : inbox[i].type = "notify" /\ inbox[i].item = "network"
ServiceDied ==
    /\ resetting = 0 /\ Spend("deaths")
    /\ resetting' = 1
    /\ connected' = {}
    /\ faults' = IF Pending \/ ~(connected \subseteq {report[i].network : i \in DOMAIN report})
                 THEN faults \cup {"not reported"} ELSE faults
    /\ UNCHANGED <<subscriptionVars, load, inbox, report, toldVars, xtraVars>>

resetNetworkInfo ==
    /\ resetting > 0
    /\ IF resetting > Len(report)
       THEN resetting' = 0 /\ UNCHANGED inbox
       ELSE /\ resetting' = resetting + 1
            /\ Post([type |-> "notify", item |-> "network",
                     value |-> [NetworkInfo(report[resetting].network, FALSE)
                                  EXCEPT !.apn = report[resetting].apn]])
    /\ UNCHANGED <<subscriptionVars, load, left, connected, report, faults, toldVars, xtraVars>>

Asks == {"subscribe", "request", "unsubscribe", "update", "unsubscribe all"}
Ask(c, type, S) ==
    /\ c \notin {NATIVE, XTRA} /\ S # {} /\ Spend("asks")
    /\ Post([type |-> type, c |-> c, items |-> S])
    /\ UNCHANGED <<subscriptionVars, load, networkVars, toldVars, xtraVars>>

SetObject ==
    /\ Spend("asks")
    /\ Post([type |-> "set object"])
    /\ UNCHANGED <<subscriptionVars, load, networkVars, toldVars, xtraVars>>

\* The daemon says whether its status is updated already.
DaemonAsks(updated) ==
    /\ Spend("daemons")
    /\ daemon' = [daemon EXCEPT !.asked = @ \/ ~updated]
    /\ Post([type |-> "status", updated |-> updated])
    /\ UNCHANGED <<subscriptionVars, load, networkVars, toldVars, known, mReqStatusReceived>>

DaemonRestarts ==
    /\ daemon' = [asked |-> FALSE, view |-> Nothing]
    /\ UNCHANGED <<subscriptionVars, load, left, inbox, networkVars, toldVars, known, mReqStatusReceived>>

-----------------------------------------------------------------------------
(* The message thread                                                      *)

Received(type) == inbox # <<>> /\ Head(inbox).type = type

\* sendCachedDataItems, to each client what it should hear of.  The observer of
\* the daemon posts it to the same thread.
Sent(set) == {i \in set : mDataItemCache'[i] # NoValue}
Tell(heard) ==
    /\ told' = [c \in Clients |->
                  [i \in Items |-> IF i \in Sent(heard[c]) THEN mDataItemCache'[i] ELSE told[c][i]]]
    /\ inbox' = IF Sent(heard[XTRA]) = {} THEN Tail(inbox)
                ELSE Append(Tail(inbox), [type |-> "relay",
                       values |-> [i \in Sent(heard[XTRA]) |-> mDataItemCache'[i]]])
Only(c, S) == [d \in Clients |-> IF d = c THEN S ELSE {}]

\* Faulty variant: a new subscriber is told of the next change only.
HandleSubscribeQuietly ==
    LET m == Head(inbox)
    IN  /\ Received("subscribe") \/ Received("request")
        /\ Subscribe(m.c, m.items, m.type = "request")
        /\ inbox' = Tail(inbox)
        /\ UNCHANGED <<load, left, networkVars, toldVars, xtraVars>>

HandleSubscribe ==
    LET m == Head(inbox)
    IN  /\ Received("subscribe") \/ Received("request")
        /\ Subscribe(m.c, m.items, m.type = "request")
        /\ UNCHANGED mDataItemCache
        /\ Tell(Only(m.c, m.items))
        /\ UNCHANGED <<load, left, networkVars, xtraVars>>

\* Only the items that count as new are sent.
HandleUpdate ==
    LET m == Head(inbox)
    IN  /\ Received("update")
        /\ UpdateSubscription(m.c, m.items)
        /\ UNCHANGED mDataItemCache
        /\ Tell(Only(m.c, {i \in m.items : m.c \in mDataItemToClients'[i]}))
        /\ UNCHANGED <<load, left, networkVars, xtraVars>>

HandleUnsubscribe ==
    LET m == Head(inbox)
    IN  /\ \/ Received("unsubscribe") /\ Unsubscribe(m.c, m.items)
           \/ Received("unsubscribe all") /\ UnsubscribeAll(m.c)
        /\ inbox' = Tail(inbox)
        /\ UNCHANGED <<load, left, networkVars, toldVars, xtraVars>>

HandleSetObject ==
    /\ Received("set object")
    /\ SetSubscriptionObj
    /\ inbox' = Tail(inbox)
    /\ UNCHANGED <<load, left, networkVars, toldVars, xtraVars>>

\* Clients of the item, as far as both maps have them.
Subscribers(i) == {c \in mDataItemToClients[i] : i \in mClientToDataItems[c]}

\* NetworkInfoDataItem::copyFrom, which does not copy the access point name.
copyFrom(cached, d) == IF cached = NoValue THEN d ELSE [d EXCEPT !.apn = cached.apn]

HandleNotifyNetwork ==
    LET m == Head(inbox)
        d == [m.value EXCEPT !.types = Newest(report, m.value).types,
                             !.handles = Newest(report, m.value).handles]
        full == Len(report) = maxItem /\ Updates(report, m.value)
    IN  /\ Received("notify") /\ m.item = "network"
        /\ report' = setIteminReport(report, m.value)
        /\ IF Updates(report, m.value)
           THEN /\ mDataItemCache' = [mDataItemCache EXCEPT !["network"] = copyFrom(@, d)]
                /\ Tell([c \in Clients |-> IF c \in Subscribers("network") THEN {"network"} ELSE {}])
           ELSE UNCHANGED toldVars /\ inbox' = Tail(inbox)
        /\ faults' = faults
             \cup (IF full /\ resetting > 0 THEN {"shifted"} ELSE {})
             \cup (IF report # <<>> /\ ~m.value.connected
                      /\ SameType(Last(report).handles, m.value.network) # {}
                      /\ Last(report).types # m.value.types
                   THEN {"shared type"} ELSE {})
        /\ UNCHANGED <<subscriptionVars, load, left, connected, resetting, xtraVars>>

HandleNotify ==
    LET m == Head(inbox)
    IN  /\ Received("notify") /\ m.item # "network"
        /\ IF mDataItemCache[m.item] # m.value
           THEN /\ mDataItemCache' = [mDataItemCache EXCEPT ![m.item] = m.value]
                /\ Tell([c \in Clients |-> IF c \in Subscribers(m.item) THEN {m.item} ELSE {}])
           ELSE UNCHANGED toldVars /\ inbox' = Tail(inbox)
        /\ UNCHANGED <<subscriptionVars, load, left, networkVars, xtraVars>>

\* The values that came, and those that were known of the other data items.
Over(values, old) ==
    [i \in DOMAIN values \cup DOMAIN old |-> IF i \in DOMAIN values THEN values[i] ELSE old[i]]

\* updateConnections, updateTac: kept until the daemon has asked.
Relay ==
    LET values == Head(inbox).values
    IN  /\ Received("relay")
        /\ known' = Over(values, known)
        /\ daemon' = IF mReqStatusReceived THEN [daemon EXCEPT !.view = Over(values, @)] ELSE daemon
        /\ inbox' = Tail(inbox)
        /\ UNCHANGED <<subscriptionVars, load, left, networkVars, toldVars, mReqStatusReceived>>

onStatusRequested ==
    /\ Received("status")
    /\ mReqStatusReceived' = TRUE
    /\ daemon' = IF Head(inbox).updated THEN daemon ELSE [daemon EXCEPT !.view = known]
    /\ inbox' = Tail(inbox)
    /\ UNCHANGED <<subscriptionVars, load, left, networkVars, toldVars, known>>

-----------------------------------------------------------------------------
Next ==
    \/ \E n \in Networks, on \in BOOLEAN : NetworkEvent(n, on)
    \/ \E i \in Items, v \in Values : OtherEvent(i, v)
    \/ ServiceDied \/ resetNetworkInfo
    \/ \E c \in Clients, type \in Asks, S \in SUBSET Items : Ask(c, type, S)
    \/ SetObject \/ (\E updated \in BOOLEAN : DaemonAsks(updated)) \/ DaemonRestarts
    \/ HandleSubscribe \/ HandleUpdate \/ HandleUnsubscribe \/ HandleSetObject
    \/ HandleNotifyNetwork \/ HandleNotify \/ Relay \/ onStatusRequested

Spec == Init /\ [][Next]_vars

-----------------------------------------------------------------------------
(* Properties *)

Quiet == inbox = <<>> /\ resetting = 0

\* Once all is handled, every client was last told what is in the cache of all
\* that it is subscribed to, whether the event came before or after the
\* subscription (SystemStatusOsObserver.cpp:104, :307).
SubscribersAreCurrent ==
  /\ TypeOK
  /\ Quiet => \A c \in Clients \ replaced, i \in Items :
      i \in mClientToDataItems[c] => told[c][i] = mDataItemCache[i]

\* Once all is handled, NativeAgpsHandler takes itself for connected exactly
\* when a mobile network is; what the XTRA daemon was told of the networks since
\* it runs is what is connected, and if it has asked for the status as one that
\* does not have it, it was told.  Not so:
\*   - a daemon that restarts and says that its status is updated is told nothing
\*     until something changes (XtraSystemStatusObserver.cpp:215);
\*   - when a network goes while another of its type stays, the other types are
\*     forgotten (SystemStatus.h:597);
\*   - the reset of the networks does not find a network that no kept report is
\*     about, yet or any more (SystemStatus.cpp:1318).
IsMobile(value) == value # NoValue /\ TYPE_MOBILE \in value.types
ConnectivityIsTrue ==
    Quiet /\ faults = {} =>
      /\ IsMobile(told[NATIVE]["network"]) <=> \E n \in connected : TypeOf[n] = TYPE_MOBILE
      /\ IF daemon.view["network"] = NoValue THEN daemon.asked => connected = {}
         ELSE /\ ToSet(daemon.view["network"].handles) = connected
              /\ daemon.view["network"].types = {TypeOf[n] : n \in connected}

\* "mApn Telephony preferred Access Point Name to use for carrier data
\* connection when connected to a cellular network" (NativeAgpsHandler.cpp:57).
ApnIsCurrent ==
    Quiet /\ faults = {} /\ IsMobile(told[NATIVE]["network"]) =>
      \E n \in connected : TypeOf[n] = TYPE_MOBILE /\ told[NATIVE]["network"].apn = ApnOf[n]
=============================================================================
