-------------------------- MODULE SystemStatus_proofs --------------------------
(***************************************************************************)
(* The two maps of Subscriptions and the framework stay in step, for any   *)
(* clients and items.  The observer between its threads implements that    *)
(* module: whatever events, deaths and restarts come between, its maps and *)
(* the framework only change by the operations of it.  So its subscribers  *)
(* know what is cached; and what they know of the networks is true.        *)
(***************************************************************************)
EXTENDS SystemStatus, SequenceTheorems, FiniteSetTheorems, TLAPS

-----------------------------------------------------------------------------
(* Subscriptions *)

\* What was only requested has a client, and nothing is asked of a framework
\* that is not there.
RequestedHaveClients == requested \subseteq Keys
UnsetIsIdle == ~fwk.set => fwk.subscribed = {} /\ requested = {}

IInv ==
    /\ SubscriptionsTypeOK
    /\ MapsAreInverse
    /\ FrameworkServes
    /\ RequestedHaveClients
    /\ UnsetIsIdle

-----------------------------------------------------------------------------
(* The initial state and each operation *)

LEMMA InitEstablishes == SubscriptionsInit => IInv
BY DEF SubscriptionsInit, IInv, SubscriptionsTypeOK, MapsAreInverse, FrameworkServes,
       RequestedHaveClients, UnsetIsIdle, Keys

LEMMA SetSubscriptionObjKeeps == IInv /\ SetSubscriptionObj => IInv'
<1> SUFFICES ASSUME IInv, SetSubscriptionObj PROVE IInv'
    OBVIOUS
<1> USE DEF IInv, SetSubscriptionObj
<1>1. SubscriptionsTypeOK'
    BY DEF SubscriptionsTypeOK, Keys
<1>2. MapsAreInverse'
    BY DEF MapsAreInverse
<1>3. FrameworkServes' /\ RequestedHaveClients' /\ UnsetIsIdle'
    <2>1. Keys' = Keys /\ fwk'.set /\ fwk'.subscribed = fwk.subscribed \cup Keys /\ requested' = {}
        BY DEF Keys
    <2>2. fwk.subscribed \subseteq Keys
        BY DEF SubscriptionsTypeOK, FrameworkServes, UnsetIsIdle
    <2> QED BY <2>1, <2>2 DEF FrameworkServes, RequestedHaveClients, UnsetIsIdle
<1> QED BY <1>1, <1>2, <1>3

LEMMA SubscribeKeeps ==
    ASSUME IInv, NEW c \in Clients, NEW S \in SUBSET Items, NEW toRequestData \in BOOLEAN,
           Subscribe(c, S, toRequestData)
    PROVE  IInv'
<1> USE DEF IInv, Subscribe
<1>1. SubscriptionsTypeOK'
    BY DEF SubscriptionsTypeOK, Added, NewKeys
<1>2. MapsAreInverse'
    BY DEF SubscriptionsTypeOK, MapsAreInverse, Added
<1>3. Keys' = Keys \cup S
    BY DEF Keys, SubscriptionsTypeOK, Added
<1>4. NewKeys(S) = S \ Keys
    BY DEF NewKeys, Keys
<1>5. FrameworkServes' /\ RequestedHaveClients' /\ UnsetIsIdle'
    BY <1>3, <1>4 DEF FrameworkServes, RequestedHaveClients, UnsetIsIdle, SubscriptionsTypeOK
<1> QED BY <1>1, <1>2, <1>5

\* The items that lose their only client are those that are keys no more.
LEMMA TrimmedKeys ==
    ASSUME SubscriptionsTypeOK, NEW c \in Clients, NEW S \in SUBSET Items,
           mDataItemToClients' = Trimmed(mDataItemToClients, S, c)
    PROVE  Keys' = Keys \ GoneKeys(S, c)
BY DEF SubscriptionsTypeOK, Keys, Trimmed, GoneKeys

LEMMA WithdrawnKeeps ==
    ASSUME IInv, NEW gone \in SUBSET Items, Keys' = Keys \ gone, Withdrawn(gone)
    PROVE  /\ FrameworkServes' /\ RequestedHaveClients' /\ UnsetIsIdle'
           /\ fwk' \in [set : BOOLEAN, subscribed : SUBSET Items] /\ requested' \subseteq Items
BY DEF IInv, Withdrawn, FrameworkServes, RequestedHaveClients, UnsetIsIdle, SubscriptionsTypeOK

LEMMA UnsubscribeKeeps ==
    ASSUME IInv, NEW c \in Clients, NEW S \in SUBSET Items, Unsubscribe(c, S)
    PROVE  IInv'
<1> DEFINE unused == mClientToDataItems[c] \cap S
<1>1. unused \in SUBSET Items
    BY DEF IInv, SubscriptionsTypeOK
<1>2. Keys' = Keys \ GoneKeys(unused, c)
    BY <1>1, TrimmedKeys DEF IInv, Unsubscribe
<1>3. Withdrawn(GoneKeys(unused, c)) /\ GoneKeys(unused, c) \in SUBSET Items
    BY <1>1 DEF Unsubscribe, GoneKeys
<1>4. SubscriptionsTypeOK'
    BY <1>1, <1>2, <1>3, WithdrawnKeeps
    DEF IInv, SubscriptionsTypeOK, Unsubscribe, Trimmed
<1>5. MapsAreInverse'
    BY DEF IInv, SubscriptionsTypeOK, MapsAreInverse, Unsubscribe, Trimmed
<1> QED BY <1>2, <1>3, <1>4, <1>5, WithdrawnKeeps DEF IInv

LEMMA UnsubscribeAllKeeps ==
    ASSUME IInv, NEW c \in Clients, UnsubscribeAll(c)
    PROVE  IInv'
<1> DEFINE all == mClientToDataItems[c]
<1>1. all \in SUBSET Items
    BY DEF IInv, SubscriptionsTypeOK
<1>2. Keys' = Keys \ GoneKeys(all, c)
    BY <1>1, TrimmedKeys DEF IInv, UnsubscribeAll
<1>3. Withdrawn(GoneKeys(all, c)) /\ GoneKeys(all, c) \in SUBSET Items
    BY <1>1 DEF UnsubscribeAll, GoneKeys
<1>4. SubscriptionsTypeOK'
    BY <1>1, <1>2, <1>3, WithdrawnKeeps
    DEF IInv, SubscriptionsTypeOK, UnsubscribeAll, Trimmed
<1>5. MapsAreInverse'
    BY DEF IInv, SubscriptionsTypeOK, MapsAreInverse, UnsubscribeAll, Trimmed
<1> QED BY <1>2, <1>3, <1>4, <1>5, WithdrawnKeeps DEF IInv

LEMMA UpdateSubscriptionKeeps ==
    ASSUME IInv, NEW c \in Clients, NEW S \in SUBSET Items, UpdateSubscription(c, S)
    PROVE  IInv'
<1>1. PICK common \in Common(c, S) :
        LET added == S \ common
            trimmed == Trimmed(mDataItemToClients, common, c)
            gone == GoneKeys(common, c)
            new == {i \in added : trimmed[i] = {}}
        IN  /\ mClientToDataItems' = [mClientToDataItems EXCEPT ![c] = S]
            /\ mDataItemToClients' = Added(trimmed, added, c)
            /\ fwk' = IF fwk.set
                      THEN [fwk EXCEPT !.subscribed = (@ \cup new) \ gone] ELSE fwk
            /\ requested' = requested \ gone
            /\ replaced' = IF mClientToDataItems[c] = {} THEN replaced ELSE replaced \cup {c}
    BY DEF UpdateSubscription
<1> DEFINE added == S \ common
           trimmed == Trimmed(mDataItemToClients, common, c)
           gone == GoneKeys(common, c)
           new == {i \in added : trimmed[i] = {}}
<1>2. common \subseteq mClientToDataItems[c] \cap S /\ common \subseteq Items
    BY DEF Common, IInv, SubscriptionsTypeOK
<1>3. trimmed \in [Items -> SUBSET Clients]
    BY DEF IInv, SubscriptionsTypeOK, Trimmed
<1>4. gone \subseteq common /\ new = added \ Keys
    BY <1>2 DEF GoneKeys, Trimmed, Keys
<1>5. Keys' = (Keys \ gone) \cup added
    <2>1. \A i \in Items : trimmed[i] # {} <=> i \in Keys \ gone
        BY <1>2 DEF Keys, Trimmed, GoneKeys, IInv, SubscriptionsTypeOK
    <2>2. \A i \in Items : mDataItemToClients'[i] = IF i \in added THEN trimmed[i] \cup {c} ELSE trimmed[i]
        BY <1>1 DEF Added
    <2>3. Keys' = {i \in Items : mDataItemToClients'[i] # {}}
        BY DEF Keys
    <2>4. added \subseteq Items /\ Keys \subseteq Items
        BY DEF Keys
    <2> HIDE DEF added, trimmed, gone
    <2> QED BY <2>1, <2>2, <2>3, <2>4
<1>6. SubscriptionsTypeOK'
    BY <1>1, <1>2, <1>3, <1>4 DEF IInv, SubscriptionsTypeOK, Added
<1>7. MapsAreInverse'
    <2> SUFFICES ASSUME NEW d \in Clients \ replaced', NEW i \in Items
                 PROVE  i \in mClientToDataItems'[d] <=> d \in mDataItemToClients'[i]
        BY <1>1 DEF MapsAreInverse
    <2>1. d \in Clients \ replaced
        BY <1>1
    <2>2. CASE d = c
        <3>1. mClientToDataItems[c] = {} /\ common = {}
            BY <1>1, <1>2, <2>2
        <3>2. c \notin mDataItemToClients[i]
            BY <2>1, <2>2, <3>1 DEF IInv, MapsAreInverse
        <3> QED BY <1>1, <2>2, <3>1, <3>2 DEF IInv, SubscriptionsTypeOK, Added, Trimmed
    <2>3. CASE d # c
        BY <1>1, <2>1, <2>3 DEF IInv, MapsAreInverse, SubscriptionsTypeOK, Added, Trimmed
    <2> QED BY <2>2, <2>3
<1>8. FrameworkServes' /\ RequestedHaveClients' /\ UnsetIsIdle'
    <2>1. requested' = requested \ gone /\ added \cap gone = {}
        BY <1>1, <1>4
    <2>2. fwk'.set = fwk.set
          /\ fwk'.subscribed = IF fwk.set THEN (fwk.subscribed \cup (added \ Keys)) \ gone
                               ELSE fwk.subscribed
        BY <1>1, <1>4 DEF IInv, SubscriptionsTypeOK
    <2> QED BY <1>5, <2>1, <2>2
            DEF IInv, FrameworkServes, RequestedHaveClients, UnsetIsIdle
<1> QED BY <1>6, <1>7, <1>8 DEF IInv

LEMMA NextKeeps == IInv /\ [SubscriptionsNext]_subscriptionVars => IInv'
<1> SUFFICES ASSUME IInv, [SubscriptionsNext]_subscriptionVars PROVE IInv'
    OBVIOUS
<1>1. CASE UNCHANGED subscriptionVars
    BY <1>1 DEF subscriptionVars, IInv, SubscriptionsTypeOK, MapsAreInverse, FrameworkServes,
                RequestedHaveClients, UnsetIsIdle, Keys
<1>2. CASE SubscriptionsNext
    BY <1>2, SetSubscriptionObjKeeps, SubscribeKeeps, UnsubscribeKeeps, UnsubscribeAllKeeps,
       UpdateSubscriptionKeeps DEF SubscriptionsNext
<1> QED BY <1>1, <1>2

\* In every state the maps are the inverse of each other for the clients that
\* never replaced a subscription, and the framework is asked for what they have.
LEMMA SubscriptionsInvariant == SubscriptionsSpec => []IInv
BY InitEstablishes, NextKeeps, PTL DEF SubscriptionsSpec

THEOREM SubscriptionsInStep ==
    SubscriptionsSpec => []SubscriptionsTypeOK /\ []MapsAreInverse /\ []FrameworkServes
<1>1. IInv => SubscriptionsTypeOK /\ MapsAreInverse /\ FrameworkServes
    BY DEF IInv
<1> QED BY <1>1, SubscriptionsInvariant, PTL

-----------------------------------------------------------------------------
(* The table of networks *)

LEMMA PlusIsSeq ==
    ASSUME NEW handles \in Seq(Networks), NEW n \in Networks
    PROVE  Plus(handles, n) \in Seq(Networks)
BY DEF Plus

\* The handle that goes leaves known networks.
LEMMA MinusIsSeq ==
    ASSUME NEW handles \in Seq(Networks), NEW n
    PROVE  Minus(handles, n) \in Seq(Networks)
<1> DEFINE last == Len(handles)
           moved == [i \in 1 .. last |-> IF handles[i] = n THEN handles[last] ELSE handles[i]]
<1>1. last \in Nat /\ \A i \in 1 .. last : handles[i] \in Networks
    BY LenProperties, ElementOfSeq
<1>2. CASE n \notin ToSet(handles)
    BY <1>2 DEF Minus
<1>3. CASE n \in ToSet(handles)
    <2>1. last \in 1 .. last
        BY <1>1, <1>3, LenProperties DEF ToSet
    <2>2. \A i \in 1 .. last : moved[i] \in Networks
        BY <1>1, <2>1
    <2>3. \A i \in 1 .. last - 1 : moved[i] \in Networks
        BY <1>1, <2>2
    <2> HIDE DEF moved
    <2>4. SubSeq(moved, 1, last - 1) \in Seq(Networks)
        BY <1>1, <2>3, SubSeqProperties
    <2>5. Minus(handles, n) = SubSeq(moved, 1, last - 1)
        BY <1>3 DEF Minus, moved
    <2> QED BY <2>4, <2>5
<1> QED BY <1>2, <1>3

\* An event is about one network, and so is what it becomes in the table.
LEMMA NetworkInfoIsInfo ==
    ASSUME NEW n \in Networks, NEW on \in BOOLEAN
    PROVE  NetworkInfo(n, on) \in NetworkInfos
<1>1. <<n>> \in Seq(Networks)
    OBVIOUS
<1>2. NetworkInfo(n, on) = [network |-> n, connected |-> on, types |-> {TypeOf[n]}, handles |-> <<n>>,
                            apn |-> ApnOf[n]]
    BY DEF NetworkInfo
<1> QED BY <1>1, <1>2 DEF NetworkInfos

LEMMA CollatedIsInfo ==
    ASSUME NEW item \in NetworkInfos, NEW apn \in {ApnOf[n] : n \in Networks} \cup {NoApn},
           NEW handles \in Seq(Networks), NEW types \in SUBSET {TypeOf[n] : n \in Networks}
    PROVE  [item EXCEPT !.apn = apn, !.handles = handles, !.types = types] \in NetworkInfos
BY DEF NetworkInfos

LEMMA ApnIsInfo ==
    ASSUME NEW item \in NetworkInfos, NEW apn \in {ApnOf[n] : n \in Networks} \cup {NoApn}
    PROVE  [item EXCEPT !.apn = apn] \in NetworkInfos
BY DEF NetworkInfos

LEMMA NewestPartsAreInfo ==
    ASSUME NEW item \in NetworkInfos, NEW d \in NetworkInfos
    PROVE  [item EXCEPT !.types = d.types, !.handles = d.handles] \in NetworkInfos
BY DEF NetworkInfos

LEMMA CollateIsInfo ==
    ASSUME NEW item \in NetworkInfos, NEW cur \in NetworkInfos
    PROVE  collate(item, cur) \in NetworkInfos
<1> DEFINE apn == IF TypeOf[item.network] # TYPE_MOBILE /\ cur.apn # NoApn THEN cur.apn ELSE item.apn
           handles == IF item.connected THEN Plus(cur.handles, item.network)
                      ELSE Minus(cur.handles, item.network)
           types == IF item.connected THEN cur.types \cup item.types
                    ELSE IF SameType(cur.handles, item.network) = {} THEN cur.types \ item.types
                    ELSE item.types
<1>1. /\ item.network \in Networks /\ cur.handles \in Seq(Networks)
      /\ item.types \in SUBSET {TypeOf[n] : n \in Networks}
      /\ cur.types \in SUBSET {TypeOf[n] : n \in Networks}
      /\ item.apn \in {ApnOf[n] : n \in Networks} \cup {NoApn}
      /\ cur.apn \in {ApnOf[n] : n \in Networks} \cup {NoApn}
    BY DEF NetworkInfos
<1>2. handles \in Seq(Networks)
    BY <1>1, PlusIsSeq, MinusIsSeq
<1>3. types \in SUBSET {TypeOf[n] : n \in Networks} /\ apn \in {ApnOf[n] : n \in Networks} \cup {NoApn}
    BY <1>1
<1>4. collate(item, cur) = [item EXCEPT !.apn = apn, !.handles = handles, !.types = types]
    BY DEF collate
<1> HIDE DEF apn, handles, types
<1>5. [item EXCEPT !.apn = apn, !.handles = handles, !.types = types] \in NetworkInfos
    BY <1>2, <1>3, CollatedIsInfo
<1> QED BY <1>4, <1>5

LEMMA NewestIsInfo ==
    ASSUME NEW r \in Seq(NetworkInfos), NEW item \in NetworkInfos
    PROVE  Newest(r, item) \in NetworkInfos
<1>1. CASE r = << >>
    BY <1>1 DEF Newest
<1>2. CASE r # << >>
    <2>1. Last(r) \in NetworkInfos
        BY <1>2, EmptySeq, LenProperties, ElementOfSeq DEF Last
    <2> QED BY <1>2, <2>1, CollateIsInfo DEF Newest
<1> QED BY <1>1, <1>2

\* No more reports are kept than there may be.
LEMMA ReportIsKept ==
    ASSUME NEW r \in Seq(NetworkInfos), Len(r) <= maxItem, NEW item \in NetworkInfos
    PROVE  /\ setIteminReport(r, item) \in Seq(NetworkInfos)
           /\ Len(setIteminReport(r, item)) <= maxItem
<1> DEFINE d == Newest(r, item)
           t == Append(r, d)
<1>1. d \in NetworkInfos
    BY NewestIsInfo
<1> HIDE DEF d
<1>2. t \in Seq(NetworkInfos) /\ Len(t) = Len(r) + 1 /\ t # << >>
    BY <1>1
<1> HIDE DEF t
<1>3. Tail(t) \in Seq(NetworkInfos) /\ Len(Tail(t)) = Len(t) - 1
    BY <1>2, HeadTailProperties
<1>4. Len(r) \in Nat /\ maxItem \in Nat
    BY LenProperties, NetworkTableAssumption DEF NetworkTableAssumption
<1>5. Kept(t) \in Seq(NetworkInfos) /\ Len(Kept(t)) <= maxItem
    BY <1>2, <1>3, <1>4 DEF Kept
<1>6. setIteminReport(r, item) = IF Updates(r, item) THEN Kept(t) ELSE r
    BY DEF setIteminReport, t, d
<1> QED BY <1>5, <1>6

-----------------------------------------------------------------------------
(* The queue *)

\* What the framework says of a network, before it is collated.
IsEvent(v) == v.types = {TypeOf[v.network]} /\ v.handles = <<v.network>>
\* What a request and an event carry, in whatever order messages wait: those that
\* observe the networks for the adapter never give their subscription up.
Sound(m) ==
    /\ m.type \in Asks => m.c \in Clients /\ m.items \in SUBSET Items
    /\ m.type \in Asks \ {"subscribe", "request"} => m.c \notin {NATIVE, XTRA}
    /\ m.type = "notify" =>
         /\ m.item \in Items /\ m.value # NoValue
         /\ m.item = "network" => m.value \in NetworkInfos /\ IsEvent(m.value)
\* The table of networks, beside what the type invariant says of it.
TableIsSound ==
    /\ load \in Loads
    /\ connected \subseteq Networks
    /\ report \in Seq(NetworkInfos) /\ Len(report) <= maxItem
    /\ resetting \in Nat
    /\ mReqStatusReceived \in BOOLEAN
    /\ faults \subseteq {"shared type", "not reported", "shifted"}
InboxIsSound == \E M : inbox \in Seq(M) /\ \A m \in M : Sound(m)

LEMMA PostIsSound ==
    ASSUME InboxIsSound, NEW m, Sound(m), inbox' = Append(inbox, m)
    PROVE  InboxIsSound'
<1>1. PICK M : inbox \in Seq(M) /\ \A x \in M : Sound(x)
    BY DEF InboxIsSound
<1>2. inbox' \in Seq(M \cup {m})
    BY <1>1
<1>3. \A x \in M \cup {m} : Sound(x)
    BY <1>1
<1> QED BY <1>2, <1>3 DEF InboxIsSound, Sound

LEMMA TailIsSound ==
    ASSUME InboxIsSound, inbox # <<>>, inbox' = Tail(inbox)
    PROVE  InboxIsSound'
<1>1. PICK M : inbox \in Seq(M) /\ \A x \in M : Sound(x)
    BY DEF InboxIsSound
<1>2. inbox' \in Seq(M)
    BY <1>1
<1> QED BY <1>1, <1>2 DEF InboxIsSound, Sound

LEMMA TellIsSound ==
    ASSUME InboxIsSound, inbox # <<>>, NEW heard, Tell(heard)
    PROVE  InboxIsSound'
<1>1. PICK M : inbox \in Seq(M) /\ \A x \in M : Sound(x)
    BY DEF InboxIsSound
<1>2. CASE inbox' = Tail(inbox)
    BY <1>2, TailIsSound
<1>3. ASSUME NEW values, inbox' = Append(Tail(inbox), [type |-> "relay", values |-> values])
      PROVE  InboxIsSound'
    <2> DEFINE relay == [type |-> "relay", values |-> values]
    <2>1. Tail(inbox) \in Seq(M)
        BY <1>1
    <2>2. inbox' \in Seq(M \cup {relay})
        BY <1>3, <2>1
    <2>3. Sound(relay)
        BY DEF Sound, Asks
    <2> QED BY <1>1, <2>2, <2>3 DEF InboxIsSound, Sound
<1> QED BY <1>2, <1>3 DEF Tell

LEMMA HeadIsSound == InboxIsSound /\ inbox # <<>> => Sound(Head(inbox))
BY DEF InboxIsSound

-----------------------------------------------------------------------------
LEMMA InitIsSound == Init => InboxIsSound /\ TableIsSound
<1> SUFFICES ASSUME Init PROVE InboxIsSound /\ TableIsSound
    OBVIOUS
<1> DEFINE s == [type |-> "subscribe", c |-> XTRA, items |-> {"network"}]
           r == [type |-> "request", c |-> XTRA, items |-> {"tac"}]
           n == [type |-> "subscribe", c |-> NATIVE, items |-> {"network"}]
<1>1. inbox = <<s, r, n>>
    BY DEF Init
<1>2. Sound(s) /\ Sound(r) /\ Sound(n)
    BY SystemStatusAssumption DEF Sound
<1> HIDE DEF s, r, n
<1>3. inbox \in Seq({s, r, n})
    BY <1>1
<1>4. report \in Seq(NetworkInfos) /\ Len(report) <= maxItem
    BY EmptySeq, NetworkTableAssumption DEF Init, NetworkTableAssumption
<1>5. TableIsSound
    BY <1>4 DEF Init, TableIsSound
<1> QED BY <1>2, <1>3, <1>5 DEF InboxIsSound

LEMMA ResettingIsNat == TableIsSound => resetting \in Nat
BY DEF TableIsSound

LEMMA StepIsSound == InboxIsSound /\ TableIsSound /\ [Next]_vars => InboxIsSound'
<1> SUFFICES ASSUME InboxIsSound, TableIsSound, [Next]_vars PROVE InboxIsSound'
    OBVIOUS
<1>1. CASE UNCHANGED inbox
    BY <1>1 DEF InboxIsSound
<1>2. ASSUME NEW info \in NetworkInfos, IsEvent(info),
             Post([type |-> "notify", item |-> "network", value |-> info])
      PROVE  InboxIsSound'
    <2>1. info # NoValue /\ "network" \in Items
        BY SystemStatusAssumption DEF SystemStatusAssumption
    <2>2. Sound([type |-> "notify", item |-> "network", value |-> info])
        BY <1>2, <2>1 DEF Sound, Asks
    <2> QED BY <1>2, <2>2, PostIsSound DEF Post
<1>3. ASSUME NEW n \in Networks, NEW on \in BOOLEAN, NetworkEvent(n, on) PROVE InboxIsSound'
    <2>1. IsEvent(NetworkInfo(n, on))
        BY DEF IsEvent, NetworkInfo
    <2> QED BY <1>2, <1>3, <2>1, NetworkInfoIsInfo DEF NetworkEvent
<1>4. ASSUME NEW i \in Items, NEW v \in Values, OtherEvent(i, v) PROVE InboxIsSound'
    <2>1. i # "network" /\ v # NoValue
        BY <1>4, SystemStatusAssumption DEF SystemStatusAssumption, OtherEvent, TableIsSound
    <2>2. Sound([type |-> "notify", item |-> i, value |-> v])
        BY <2>1 DEF Sound, Asks
    <2> QED BY <1>4, <2>2, PostIsSound DEF OtherEvent, Post
<1>5. CASE resetNetworkInfo
    <2>1. CASE resetting > Len(report)
        BY <1>1, <1>5, <2>1 DEF resetNetworkInfo
    <2>2. CASE ~(resetting > Len(report))
        <3> DEFINE r == report[resetting]
                   info == [NetworkInfo(r.network, FALSE) EXCEPT !.apn = r.apn]
        <3>. report \in Seq(NetworkInfos) /\ Len(report) \in Nat
            BY LenProperties DEF TableIsSound
        <3>. resetting \in 1 .. Len(report)
            BY <1>5, <2>2, ResettingIsNat DEF resetNetworkInfo
        <3>1. r \in NetworkInfos
            BY ElementOfSeq
        <3> HIDE DEF r
        <3>2. r.network \in Networks /\ r.apn \in {ApnOf[n] : n \in Networks} \cup {NoApn}
            BY <3>1 DEF NetworkInfos
        <3>3. NetworkInfo(r.network, FALSE) \in NetworkInfos
            BY <3>2, NetworkInfoIsInfo
        <3>4. info \in NetworkInfos /\ IsEvent(info)
            BY <3>2, <3>3, ApnIsInfo DEF IsEvent, NetworkInfo
        <3>5. Post([type |-> "notify", item |-> "network", value |-> info])
            BY <1>5, <2>2 DEF resetNetworkInfo, r
        <3> QED BY <1>2, <3>4, <3>5
    <2> QED BY <2>1, <2>2
<1>6. ASSUME NEW c \in Clients, NEW type \in Asks, NEW S \in SUBSET Items, Ask(c, type, S)
      PROVE  InboxIsSound'
    <2>1. Sound([type |-> type, c |-> c, items |-> S])
        BY <1>6 DEF Sound, Asks, Ask
    <2> QED BY <1>6, <2>1, PostIsSound DEF Ask, Post
<1>7. CASE SetObject \/ (\E updated \in BOOLEAN : DaemonAsks(updated))
    BY <1>7, PostIsSound DEF SetObject, DaemonAsks, Post, Sound, Asks
<1>8. CASE HandleSubscribe \/ HandleUpdate
    BY <1>8, TellIsSound DEF HandleSubscribe, HandleUpdate, Received
<1>9. CASE HandleNotifyNetwork \/ HandleNotify
    BY <1>9, TellIsSound, TailIsSound DEF HandleNotifyNetwork, HandleNotify, Received
<1>10. CASE HandleUnsubscribe \/ HandleSetObject \/ Relay \/ onStatusRequested
    BY <1>10, TailIsSound
    DEF HandleUnsubscribe, HandleSetObject, Relay, onStatusRequested, Received
<1>11. CASE UNCHANGED vars \/ ServiceDied \/ DaemonRestarts
    BY <1>1, <1>11 DEF vars, statusVars, ServiceDied, DaemonRestarts
<1> QED BY <1>3, <1>4, <1>5, <1>6, <1>7, <1>8, <1>9, <1>10, <1>11 DEF Next

\* An event about a network is one of the table.
LEMMA NotifiedIsInfo ==
    ASSUME InboxIsSound, Received("notify")
    PROVE  /\ Head(inbox).item \in Items /\ Head(inbox).value # NoValue
           /\ Head(inbox).item = "network" =>
                Head(inbox).value \in NetworkInfos /\ IsEvent(Head(inbox).value)
<1>1. inbox # << >> /\ Head(inbox).type = "notify"
    BY DEF Received
<1>2. Sound(Head(inbox))
    BY <1>1, HeadIsSound
<1> QED BY <1>1, <1>2 DEF Sound

LEMMA TableStep == InboxIsSound /\ TableIsSound /\ [Next]_vars => TableIsSound'
<1> SUFFICES ASSUME InboxIsSound, TableIsSound, [Next]_vars PROVE TableIsSound'
    OBVIOUS
<1>1. CASE HandleNotifyNetwork
    <2> DEFINE item == Head(inbox).value
    <2>1. item \in NetworkInfos
        BY <1>1, NotifiedIsInfo DEF HandleNotifyNetwork
    <2>2. report' = setIteminReport(report, item)
        BY <1>1 DEF HandleNotifyNetwork
    <2> HIDE DEF item
    <2>3. report' \in Seq(NetworkInfos) /\ Len(report') <= maxItem
        BY <2>1, <2>2, ReportIsKept DEF TableIsSound
    <2>4. faults' \subseteq faults \cup {"shared type", "shifted"}
        BY <1>1 DEF HandleNotifyNetwork
    <2> QED BY <1>1, <2>3, <2>4 DEF HandleNotifyNetwork, xtraVars, TableIsSound
<1>2. CASE \E n \in Networks, on \in BOOLEAN : NetworkEvent(n, on)
    BY <1>2 DEF NetworkEvent, xtraVars, TableIsSound
<1>3. CASE ServiceDied
    BY <1>3 DEF ServiceDied, xtraVars, TableIsSound
<1>4. CASE resetNetworkInfo
    <2>1. resetting' = 0 \/ resetting' = resetting + 1
        BY <1>4 DEF resetNetworkInfo
    <2>2. resetting' \in Nat
        BY <2>1, ResettingIsNat
    <2> QED BY <1>4, <2>2 DEF resetNetworkInfo, xtraVars, TableIsSound
<1>6. CASE UNCHANGED <<load, networkVars, xtraVars>>
    BY <1>6 DEF networkVars, xtraVars, TableIsSound
<1>7. CASE HandleSubscribe \/ HandleUpdate \/ HandleUnsubscribe \/ HandleSetObject \/ HandleNotify
           \/ SetObject
    BY <1>6, <1>7 DEF HandleSubscribe, HandleUpdate, HandleUnsubscribe, HandleSetObject, HandleNotify,
         SetObject
<1>8. CASE (\E updated \in BOOLEAN : DaemonAsks(updated)) \/ DaemonRestarts \/ Relay \/ onStatusRequested
    <2>1. UNCHANGED <<load, networkVars>> /\ mReqStatusReceived' \in {mReqStatusReceived, TRUE}
        BY <1>8 DEF DaemonAsks, DaemonRestarts, Relay, onStatusRequested
    <2> QED BY <2>1 DEF networkVars, TableIsSound
<1>9. CASE (\E i \in Items, v \in Values : OtherEvent(i, v))
           \/ (\E c \in Clients, type \in Asks, S \in SUBSET Items : Ask(c, type, S))
    BY <1>6, <1>9 DEF OtherEvent, Ask
<1>10. CASE UNCHANGED vars
    BY <1>6, <1>10 DEF vars, statusVars
<1> QED BY <1>1, <1>2, <1>3, <1>4, <1>7, <1>8, <1>9, <1>10 DEF Next

\* A step is an operation of Subscriptions when it handles a request, and leaves
\* the subscriptions alone otherwise.
LEMMA StepSubscribes ==
    InboxIsSound /\ [Next]_vars => [SubscriptionsNext]_subscriptionVars
<1> SUFFICES ASSUME InboxIsSound, [Next]_vars PROVE [SubscriptionsNext]_subscriptionVars
    OBVIOUS
<1> DEFINE m == Head(inbox)
<1>1. ASSUME inbox # <<>>, m.type \in Asks PROVE m.c \in Clients /\ m.items \in SUBSET Items
    BY <1>1, HeadIsSound DEF Sound
<1>2. CASE HandleSubscribe
    BY <1>1, <1>2 DEF HandleSubscribe, Received, Asks, SubscriptionsNext
<1>3. CASE HandleUpdate
    BY <1>1, <1>3 DEF HandleUpdate, Received, Asks, SubscriptionsNext
<1>4. CASE HandleUnsubscribe
    BY <1>1, <1>4 DEF HandleUnsubscribe, Received, Asks, SubscriptionsNext
<1>5. CASE HandleSetObject
    BY <1>5 DEF HandleSetObject, SubscriptionsNext
<1>6. CASE UNCHANGED subscriptionVars
    BY <1>6
<1> QED
    BY <1>2, <1>3, <1>4, <1>5, <1>6
    DEF Next, vars, NetworkEvent, OtherEvent, ServiceDied, resetNetworkInfo, Ask, SetObject,
        DaemonAsks, DaemonRestarts, HandleNotifyNetwork, HandleNotify, Relay, onStatusRequested

\* The observer implements the specification of subscriptions.
THEOREM ObserverImplementsSubscriptions == Spec => SubscriptionsSpec
<1>1. Init => SubscriptionsInit
    BY DEF Init
<1> QED BY <1>1, InitIsSound, StepIsSound, TableStep, StepSubscribes, PTL DEF Spec, SubscriptionsSpec

\* So its maps stay the inverse of each other for every client that never
\* replaced a subscription, in whatever order events, deaths and requests come.
THEOREM ObserverMapsAreInverse == Spec => []MapsAreInverse
BY ObserverImplementsSubscriptions, SubscriptionsInStep, PTL

\* And the framework is always asked for exactly what has clients, but for the
\* items that were only requested first.
THEOREM ObserverServesFramework == Spec => []FrameworkServes
BY ObserverImplementsSubscriptions, SubscriptionsInStep, PTL

-----------------------------------------------------------------------------
(* What the clients were told *)

\* The cache only has items, of networks only their reports; it never loses what
\* somebody was told, and every client was told what the cache has of all that
\* it is subscribed to, as long as it has not replaced a subscription.
CacheIsSound ==
    /\ DOMAIN mDataItemCache = Items
    /\ mDataItemCache["network"] # NoValue => mDataItemCache["network"] \in NetworkInfos
ToldIsCached ==
    \A c \in Clients, i \in Items : told[c][i] # NoValue => mDataItemCache[i] # NoValue
SubscribersAreTold ==
    \A c \in Clients \ replaced, i \in Items :
      i \in mClientToDataItems[c] => told[c][i] = mDataItemCache[i]
ToldInv == CacheIsSound /\ ToldIsCached /\ SubscribersAreTold

LEMMA TellEffect ==
    ASSUME NEW heard, Tell(heard), NEW c \in Clients, NEW i \in Items
    PROVE  told'[c][i] = IF i \in heard[c] /\ mDataItemCache'[i] # NoValue
                         THEN mDataItemCache'[i] ELSE told[c][i]
BY DEF Tell, Sent

\* A client is told of the items of S, the cache being as it was.
LEMMA TellOnly ==
    ASSUME ToldInv, NEW d, NEW S, Tell(Only(d, S)), UNCHANGED mDataItemCache,
           \A c \in Clients \ replaced', i \in Items :
               i \in mClientToDataItems'[c] =>
                   (c \notin replaced /\ i \in mClientToDataItems[c]) \/ (c = d /\ i \in S)
    PROVE  ToldInv'
<1>1. ASSUME NEW c \in Clients, NEW i \in Items
      PROVE  /\ c = d /\ i \in S /\ mDataItemCache[i] # NoValue => told'[c][i] = mDataItemCache[i]
             /\ ~(c = d /\ i \in S /\ mDataItemCache[i] # NoValue) => told'[c][i] = told[c][i]
    <2>1. i \in Only(d, S)[c] <=> c = d /\ i \in S
        BY DEF Only
    <2> QED BY <2>1, TellEffect
<1>2. CacheIsSound'
    BY DEF ToldInv, CacheIsSound
<1>3. ToldIsCached'
    BY <1>1 DEF ToldInv, ToldIsCached
<1>4. SubscribersAreTold'
    <2> SUFFICES ASSUME NEW c \in Clients \ replaced', NEW i \in Items, i \in mClientToDataItems'[c]
                 PROVE  told'[c][i] = mDataItemCache'[i]
        BY DEF SubscribersAreTold
    <2>1. CASE c = d /\ i \in S
        <3>1. mDataItemCache[i] = NoValue => told[c][i] = NoValue
            BY DEF ToldInv, ToldIsCached
        <3> QED BY <1>1, <2>1, <3>1
    <2>2. CASE ~(c = d /\ i \in S)
        <3>1. c \in Clients \ replaced /\ i \in mClientToDataItems[c]
            BY <2>2
        <3>2. told[c][i] = mDataItemCache[i]
            BY <3>1 DEF ToldInv, SubscribersAreTold
        <3> QED BY <1>1, <2>2, <3>2
    <2> QED BY <2>1, <2>2
<1> QED BY <1>2, <1>3, <1>4 DEF ToldInv

\* The subscribers of an item are told its new value.
LEMMA TellSubscribers ==
    ASSUME ToldInv, MapsAreInverse, NEW item \in Items, NEW value, value # NoValue,
           item = "network" => value \in NetworkInfos,
           mDataItemCache' = [mDataItemCache EXCEPT ![item] = value],
           Tell([c \in Clients |-> IF c \in Subscribers(item) THEN {item} ELSE {}]),
           UNCHANGED subscriptionVars
    PROVE  ToldInv'
<1>1. /\ DOMAIN mDataItemCache' = Items /\ mDataItemCache'[item] = value
      /\ \A i \in Items : i # item => mDataItemCache'[i] = mDataItemCache[i]
    BY DEF ToldInv, CacheIsSound
<1>2. UNCHANGED <<mClientToDataItems, mDataItemToClients, replaced>>
    BY DEF subscriptionVars
<1>3. ASSUME NEW c \in Clients, NEW i \in Items
      PROVE  /\ i = item /\ c \in Subscribers(item) => told'[c][i] = value
             /\ ~(i = item /\ c \in Subscribers(item)) => told'[c][i] = told[c][i]
    <2> DEFINE heard == [d \in Clients |-> IF d \in Subscribers(item) THEN {item} ELSE {}]
    <2>1. i \in heard[c] <=> i = item /\ c \in Subscribers(item)
        OBVIOUS
    <2> HIDE DEF heard
    <2>2. Tell(heard)
        BY DEF heard
    <2>3. told'[c][i] = IF i \in heard[c] /\ mDataItemCache'[i] # NoValue
                        THEN mDataItemCache'[i] ELSE told[c][i]
        BY <2>2, TellEffect
    <2> QED BY <1>1, <2>1, <2>3
<1>4. CacheIsSound'
    BY <1>1, SystemStatusAssumption DEF ToldInv, CacheIsSound, SystemStatusAssumption
<1>5. ToldIsCached'
    BY <1>1, <1>3 DEF ToldInv, ToldIsCached
<1>6. SubscribersAreTold'
    <2> SUFFICES ASSUME NEW c \in Clients \ replaced, NEW i \in Items, i \in mClientToDataItems[c]
                 PROVE  told'[c][i] = mDataItemCache'[i]
        BY <1>2 DEF SubscribersAreTold
    <2>1. CASE i = item
        <3>1. c \in Subscribers(item)
            BY <2>1 DEF MapsAreInverse, Subscribers
        <3> QED BY <1>1, <1>3, <2>1, <3>1
    <2>2. CASE i # item
        <3>1. told[c][i] = mDataItemCache[i]
            BY DEF ToldInv, SubscribersAreTold
        <3> QED BY <1>1, <1>3, <2>2, <3>1
    <2> QED BY <2>1, <2>2
<1> QED BY <1>4, <1>5, <1>6 DEF ToldInv

\* Who tells nobody leaves less to be told.
LEMMA TellNobody ==
    ASSUME ToldInv, UNCHANGED toldVars, replaced \subseteq replaced',
           \A c \in Clients : mClientToDataItems'[c] \subseteq mClientToDataItems[c]
    PROVE  ToldInv'
BY DEF ToldInv, CacheIsSound, ToldIsCached, SubscribersAreTold, toldVars

LEMMA InitTold == Init => ToldInv
<1> SUFFICES ASSUME Init PROVE ToldInv
    OBVIOUS
<1>1. /\ mDataItemCache = [i \in Items |-> NoValue]
      /\ \A c \in Clients, i \in Items : told[c][i] = NoValue
    BY DEF Init, Nothing
<1>2. \A c \in Clients : mClientToDataItems[c] = {}
    BY DEF Init, SubscriptionsInit
<1> QED BY <1>1, <1>2, SystemStatusAssumption
       DEF ToldInv, CacheIsSound, ToldIsCached, SubscribersAreTold, SystemStatusAssumption

\* What is cached of the networks has the access point name of the first event.
LEMMA NetworkIsCached ==
    ASSUME InboxIsSound, TableIsSound, CacheIsSound, HandleNotifyNetwork
    PROVE  \/ UNCHANGED toldVars
           \/ \E value \in NetworkInfos :
                 /\ mDataItemCache' = [mDataItemCache EXCEPT !["network"] = value]
                 /\ Tell([c \in Clients |-> IF c \in Subscribers("network") THEN {"network"} ELSE {}])
<1> DEFINE m == Head(inbox)
           d == [m.value EXCEPT !.types = Newest(report, m.value).types,
                                !.handles = Newest(report, m.value).handles]
           value == copyFrom(mDataItemCache["network"], d)
<1>1. m.value \in NetworkInfos
    BY NotifiedIsInfo DEF HandleNotifyNetwork
<1>2. Newest(report, m.value) \in NetworkInfos
    BY <1>1, NewestIsInfo DEF TableIsSound
<1>3. d \in NetworkInfos
    BY <1>1, <1>2, NewestPartsAreInfo
<1>4. CASE ~Updates(report, m.value)
    BY <1>4 DEF HandleNotifyNetwork
<1>5. CASE Updates(report, m.value)
    <2>1. /\ mDataItemCache' = [mDataItemCache EXCEPT !["network"] = value]
          /\ Tell([c \in Clients |-> IF c \in Subscribers("network") THEN {"network"} ELSE {}])
        BY <1>5 DEF HandleNotifyNetwork
    <2> HIDE DEF d
    <2>2. value \in NetworkInfos
        <3>1. CASE mDataItemCache["network"] = NoValue
            BY <1>3, <3>1 DEF copyFrom
        <3>2. CASE mDataItemCache["network"] # NoValue
            <4>1. mDataItemCache["network"].apn \in {ApnOf[n] : n \in Networks} \cup {NoApn}
                BY <3>2 DEF CacheIsSound, NetworkInfos
            <4> QED BY <1>3, <3>2, <4>1, ApnIsInfo DEF copyFrom
        <3> QED BY <3>1, <3>2
    <2> QED BY <2>1, <2>2
<1> QED BY <1>4, <1>5

LEMMA ToldStep ==
    /\ ToldInv /\ SubscriptionsTypeOK /\ MapsAreInverse /\ MapsAreInverse'
    /\ InboxIsSound /\ TableIsSound /\ [Next]_vars
    => ToldInv'
<1> SUFFICES ASSUME ToldInv, SubscriptionsTypeOK, MapsAreInverse, MapsAreInverse', InboxIsSound,
                    TableIsSound, [Next]_vars
             PROVE  ToldInv'
    OBVIOUS
<1> DEFINE m == Head(inbox)
<1>1. ASSUME UNCHANGED <<toldVars, subscriptionVars>> PROVE ToldInv'
    BY <1>1, TellNobody DEF subscriptionVars
<1>2. ASSUME inbox # <<>>, m.type \in Asks PROVE m.c \in Clients /\ m.items \in SUBSET Items
    BY <1>2, HeadIsSound DEF Sound
<1>3. CASE HandleSubscribe
    <2>1. m.c \in Clients /\ Subscribe(m.c, m.items, m.type = "request")
        BY <1>2, <1>3 DEF HandleSubscribe, Received, Asks
    <2>2. \A c \in Clients \ replaced', i \in Items :
              i \in mClientToDataItems'[c] =>
                  (c \notin replaced /\ i \in mClientToDataItems[c]) \/ (c = m.c /\ i \in m.items)
        BY <2>1 DEF Subscribe, SubscriptionsTypeOK
    <2>3. Tell(Only(m.c, m.items)) /\ UNCHANGED mDataItemCache
        BY <1>3 DEF HandleSubscribe
    <2> QED BY <2>2, <2>3, TellOnly
<1>4. CASE HandleUpdate
    <2> DEFINE S == {i \in m.items : m.c \in mDataItemToClients'[i]}
    <2>1. m.c \in Clients /\ UpdateSubscription(m.c, m.items)
        BY <1>2, <1>4 DEF HandleUpdate, Received, Asks
    <2>2. /\ mClientToDataItems' = [mClientToDataItems EXCEPT ![m.c] = m.items]
          /\ replaced \subseteq replaced'
        BY <2>1 DEF UpdateSubscription
    <2>3. ASSUME NEW c \in Clients \ replaced', NEW i \in Items, i \in mClientToDataItems'[c]
          PROVE  (c \notin replaced /\ i \in mClientToDataItems[c]) \/ (c = m.c /\ i \in S)
        <3>1. CASE c = m.c
            <4>1. i \in m.items
                BY <2>2, <2>3, <3>1 DEF SubscriptionsTypeOK
            <4>2. m.c \in mDataItemToClients'[i]
                BY <2>3, <3>1 DEF MapsAreInverse
            <4> QED BY <3>1, <4>1, <4>2
        <3>2. CASE c # m.c
            BY <2>2, <2>3, <3>2 DEF SubscriptionsTypeOK
        <3> QED BY <3>1, <3>2
    <2>4. Tell(Only(m.c, S)) /\ UNCHANGED mDataItemCache
        BY <1>4 DEF HandleUpdate
    <2> HIDE DEF S
    <2> QED BY <2>3, <2>4, TellOnly
<1>5. CASE HandleUnsubscribe
    <2>1. m.c \in Clients /\ (Unsubscribe(m.c, m.items) \/ UnsubscribeAll(m.c))
        BY <1>2, <1>5 DEF HandleUnsubscribe, Received, Asks
    <2>2. UNCHANGED replaced /\ \A c \in Clients : mClientToDataItems'[c] \subseteq mClientToDataItems[c]
        BY <2>1 DEF Unsubscribe, UnsubscribeAll, SubscriptionsTypeOK
    <2> QED BY <1>5, <2>2, TellNobody DEF HandleUnsubscribe
<1>6. CASE HandleSetObject
    <2>1. UNCHANGED <<toldVars, mClientToDataItems, replaced>>
        BY <1>6 DEF HandleSetObject, SetSubscriptionObj
    <2> QED BY <2>1, TellNobody
<1>7. CASE HandleNotifyNetwork
    <2>1. CASE UNCHANGED toldVars
        BY <1>1, <1>7, <2>1 DEF HandleNotifyNetwork
    <2>2. ASSUME NEW value \in NetworkInfos,
                 mDataItemCache' = [mDataItemCache EXCEPT !["network"] = value],
                 Tell([c \in Clients |-> IF c \in Subscribers("network") THEN {"network"} ELSE {}])
          PROVE  ToldInv'
        <3>1. "network" \in Items /\ value # NoValue
            BY SystemStatusAssumption DEF SystemStatusAssumption
        <3>2. UNCHANGED subscriptionVars
            BY <1>7 DEF HandleNotifyNetwork
        <3> QED BY <2>2, <3>1, <3>2, TellSubscribers
    <2> QED BY <1>7, <2>1, <2>2, NetworkIsCached DEF ToldInv
<1>8. CASE HandleNotify
    <2>1. CASE UNCHANGED toldVars
        BY <1>1, <1>8, <2>1 DEF HandleNotify
    <2>2. CASE ~UNCHANGED toldVars
        <3>1. /\ mDataItemCache' = [mDataItemCache EXCEPT ![m.item] = m.value]
              /\ Tell([c \in Clients |-> IF c \in Subscribers(m.item) THEN {m.item} ELSE {}])
              /\ UNCHANGED subscriptionVars /\ m.item # "network"
            BY <1>8, <2>2 DEF HandleNotify
        <3>2. m.item \in Items /\ m.value # NoValue
            BY <1>8, NotifiedIsInfo DEF HandleNotify
        <3> QED BY <3>1, <3>2, TellSubscribers
    <2> QED BY <2>1, <2>2
<1>9. CASE (\E n \in Networks, on \in BOOLEAN : NetworkEvent(n, on)) \/ ServiceDied \/ resetNetworkInfo
           \/ (\E i \in Items, v \in Values : OtherEvent(i, v))
           \/ (\E c \in Clients, type \in Asks, S \in SUBSET Items : Ask(c, type, S)) \/ SetObject
    BY <1>1, <1>9 DEF NetworkEvent, ServiceDied, resetNetworkInfo, OtherEvent, Ask, SetObject
<1>10. CASE (\E updated \in BOOLEAN : DaemonAsks(updated)) \/ DaemonRestarts \/ Relay \/ onStatusRequested
    BY <1>1, <1>10 DEF DaemonAsks, DaemonRestarts, Relay, onStatusRequested
<1>11. CASE UNCHANGED vars
    BY <1>1, <1>11 DEF vars, statusVars
<1> QED BY <1>3, <1>4, <1>5, <1>6, <1>7, <1>8, <1>9, <1>10, <1>11 DEF Next

\* Whoever subscribes, before or after the event, knows what is cached
\* (SystemStatusOsObserver::notify, sendCachedDataItems).
THEOREM SubscribersKnow == Spec => []SubscribersAreCurrent
<1>1. Spec => []SubscriptionsTypeOK /\ []MapsAreInverse
    BY ObserverImplementsSubscriptions, SubscriptionsInStep, PTL
<1>2. ToldInv /\ SubscriptionsTypeOK /\ TableIsSound => SubscribersAreCurrent
    <2> SUFFICES ASSUME ToldInv, SubscriptionsTypeOK, TableIsSound PROVE SubscribersAreCurrent
        OBVIOUS
    <2>1. ASSUME NEW i \in DOMAIN report PROVE ToSet(report[i].handles) \subseteq Networks
        <3>1. report[i] \in NetworkInfos
            BY LenProperties, ElementOfSeq DEF TableIsSound
        <3>2. report[i].handles \in Seq(Networks)
            BY <3>1 DEF NetworkInfos
        <3> QED BY <3>2, LenProperties, ElementOfSeq DEF ToSet
    <2>2. TypeOK
        BY <2>1 DEF TypeOK, TableIsSound
    <2> QED BY <2>2 DEF SubscribersAreCurrent, ToldInv, SubscribersAreTold
<1> QED BY <1>1, <1>2, InitIsSound, InitTold, ToldStep, StepIsSound, TableStep, PTL DEF Spec

-----------------------------------------------------------------------------
(* Handles and types in step *)

\* The handles of a report are those of different networks.
Distinct(handles) == \A i, j \in 1 .. Len(handles) : i # j => handles[i] # handles[j]
\* The types of the networks of a set.
Types(S) == {TypeOf[n] : n \in S}

LEMMA ToSetIsIndexed ==
    ASSUME NEW S, NEW h \in Seq(S)
    PROVE  /\ Len(h) \in Nat /\ ToSet(h) = {h[i] : i \in 1 .. Len(h)}
           /\ ToSet(h) \subseteq S /\ \A i \in 1 .. Len(h) : h[i] \in S
BY LenProperties, ElementOfSeq DEF ToSet

\* There are no more handles than networks.
LEMMA FewHandles ==
    ASSUME IsFiniteSet(Networks), NEW h \in Seq(Networks), Distinct(h), NEW n \in Networks, n \notin ToSet(h)
    PROVE  Len(h) < Cardinality(Networks)
<1> DEFINE D == 1 .. Len(h)
           S == Networks \ {n}
<1>1. Len(h) \in Nat /\ ToSet(h) = {h[i] : i \in D} /\ \A i \in D : h[i] \in Networks
    BY ToSetIsIndexed
<1>2. IsFiniteSet(D) /\ Cardinality(D) = Len(h)
    <2> DEFINE k == Len(h)
    <2> HIDE DEF k
    <2>1. k \in Int /\ k >= 0 => IsFiniteSet(1 .. k) /\ Cardinality(1 .. k) = k
        BY FS_Interval
    <2> QED BY <1>1, <2>1 DEF k
<1>3. IsFiniteSet(S) /\ Cardinality(S) = Cardinality(Networks) - 1 /\ Cardinality(Networks) \in Nat
    BY FS_RemoveElement, FS_CardinalityType
<1>4. \A i \in D : h[i] \in S
    BY <1>1
<1>5. h \in [D -> S]
    <2>1. h = [i \in D |-> h[i]]
        BY LenProperties
    <2> HIDE DEF D, S
    <2> QED BY <2>1, <1>4
<1>6. \A i, j \in D : h[i] = h[j] => i = j
    BY DEF Distinct
<1> HIDE DEF D, S
<1>7. h \in Injection(D, S)
    BY <1>5, <1>6 DEF Injection, IsInjective
<1>8. Cardinality(D) <= Cardinality(S)
    BY <1>2, <1>3, <1>7, FS_Injection
<1> QED BY <1>1, <1>2, <1>3, <1>8

LEMMA PlusHandles ==
    ASSUME IsFiniteSet(Networks), MaxHandles >= Cardinality(Networks),
           NEW h \in Seq(Networks), Distinct(h), NEW n \in Networks
    PROVE  ToSet(Plus(h, n)) = ToSet(h) \cup {n} /\ Distinct(Plus(h, n))
<1>1. CASE n \in ToSet(h)
    BY <1>1 DEF Plus
<1>2. CASE n \notin ToSet(h)
    <2>1. Len(h) # MaxHandles
        BY <1>2, FewHandles, FS_CardinalityType, ToSetIsIndexed, NetworkTableAssumption
           DEF NetworkTableAssumption
    <2>2. Plus(h, n) = Append(h, n)
        BY <1>2, <2>1 DEF Plus
    <2> DEFINE p == Append(h, n)
    <2>3. /\ p \in Seq(Networks) /\ Len(p) = Len(h) + 1 /\ p[Len(h) + 1] = n
          /\ \A i \in 1 .. Len(h) : p[i] = h[i]
        BY ToSetIsIndexed, AppendProperties
    <2>4. /\ Len(h) \in Nat /\ ToSet(h) = {h[i] : i \in 1 .. Len(h)}
          /\ ToSet(p) = {p[i] : i \in 1 .. Len(p)}
        BY <2>3, ToSetIsIndexed
    <2> HIDE DEF p
    <2>5. ToSet(p) = ToSet(h) \cup {n}
        BY <2>3, <2>4
    <2>6. Distinct(p)
        <3>1. \A i \in 1 .. Len(h) : h[i] # n
            BY <1>2, <2>4
        <3>2. \A i \in 1 .. Len(p) : i \in 1 .. Len(h) \/ i = Len(h) + 1
            BY <2>3, <2>4
        <3> QED BY <2>3, <2>4, <3>1, <3>2 DEF Distinct
    <2> QED BY <2>2, <2>5, <2>6 DEF p
<1> QED BY <1>1, <1>2

LEMMA MinusHandles ==
    ASSUME NEW h \in Seq(Networks), Distinct(h), NEW n \in Networks
    PROVE  ToSet(Minus(h, n)) = ToSet(h) \ {n} /\ Distinct(Minus(h, n))
<1>1. CASE n \notin ToSet(h)
    BY <1>1 DEF Minus
<1>2. CASE n \in ToSet(h)
    <2> DEFINE last == Len(h)
               moved == [i \in 1 .. last |-> IF h[i] = n THEN h[last] ELSE h[i]]
               p == SubSeq(moved, 1, last - 1)
    <2>1. /\ last \in Nat /\ ToSet(h) = {h[i] : i \in 1 .. last}
          /\ \A i \in 1 .. last : h[i] \in Networks
        BY ToSetIsIndexed
    <2>2. PICK k \in 1 .. last : h[k] = n
        BY <1>2, <2>1
    <2>3. \A i \in 1 .. last : h[i] = n => i = k
        BY <2>2 DEF Distinct
    <2>4. Minus(h, n) = p
        BY <1>2 DEF Minus
    <2>5. \A i \in 1 .. last - 1 : moved[i] \in Networks
        BY <2>1, <2>2
    <2>6. \A i \in 1 .. last - 1 : moved[i] = IF i = k THEN h[last] ELSE h[i]
        BY <2>1, <2>2, <2>3
    <2> HIDE DEF moved
    <2>7. p \in Seq(Networks) /\ Len(p) = last - 1 /\ \A i \in 1 .. last - 1 : p[i] = moved[i]
        <3>1. last - 1 \in Int /\ 1 \in Int /\ last - 1 >= 0
            BY <2>1, <2>2
        <3>2. /\ p \in Seq(Networks)
              /\ Len(p) = IF 1 <= last - 1 THEN last - 1 - 1 + 1 ELSE 0
              /\ \A i \in 1 .. last - 1 - 1 + 1 : p[i] = moved[1 + i - 1]
            BY <2>5, <3>1, SubSeqProperties
        <3> HIDE DEF p, last
        <3> QED BY <3>1, <3>2
    <2>8. ToSet(p) = {p[i] : i \in 1 .. last - 1}
        <3> HIDE DEF p, last
        <3> QED BY <2>7, ToSetIsIndexed
    <2> HIDE DEF p
    <2>9. \A x \in ToSet(p) : x \in ToSet(h) \ {n}
        <3> SUFFICES ASSUME NEW i \in 1 .. last - 1 PROVE p[i] \in ToSet(h) \ {n}
            BY <2>8
        <3>1. p[i] = IF i = k THEN h[last] ELSE h[i]
            BY <2>6, <2>7
        <3>2. i # k => h[i] # n
            BY <2>1, <2>3
        <3>3. i = k => h[last] # n
            BY <2>1, <2>2, <2>3
        <3> QED BY <2>1, <2>2, <3>1, <3>2, <3>3
    <2>10. \A x \in ToSet(h) \ {n} : x \in ToSet(p)
        <3> SUFFICES ASSUME NEW i \in 1 .. last, h[i] # n PROVE h[i] \in ToSet(p)
            BY <2>1
        <3>1. CASE i = last
            <4>1. k \in 1 .. last - 1 /\ p[k] = h[i]
                BY <2>1, <2>2, <2>6, <2>7, <3>1
            <4> QED BY <2>8, <4>1
        <3>2. CASE i # last
            <4>1. i \in 1 .. last - 1 /\ p[i] = h[i]
                BY <2>1, <2>2, <2>6, <2>7, <3>2
            <4> QED BY <2>8, <4>1
        <3> QED BY <3>1, <3>2
    <2>11. Distinct(p)
        <3> SUFFICES ASSUME NEW i \in 1 .. last - 1, NEW j \in 1 .. last - 1, i # j PROVE p[i] # p[j]
            BY <2>7 DEF Distinct
        <3>1. /\ p[i] = IF i = k THEN h[last] ELSE h[i]
              /\ p[j] = IF j = k THEN h[last] ELSE h[j]
            BY <2>6, <2>7
        <3>2. /\ last \in 1 .. last /\ i \in 1 .. last /\ j \in 1 .. last
              /\ i # last /\ j # last
            BY <2>1
        <3> QED BY <3>1, <3>2 DEF Distinct
    <2> QED BY <2>4, <2>9, <2>10, <2>11
<1> QED BY <1>1, <1>2

-----------------------------------------------------------------------------
(* The events that wait *)

AboutNetworks(m) == m.type = "notify" /\ m.item = "network"
IsNetwork(m, n) == AboutNetworks(m) /\ m.value.network = n
NoneAfter(q, k, n) == \A j \in 1 .. Len(q) : j > k => ~IsNetwork(q[j], n)
\* The last event of n that waits says whether it is in on; if none waits, now does.
Settles(q, n, now, on) ==
    /\ NoneAfter(q, 0, n) => (n \in now <=> n \in on)
    /\ \A k \in 1 .. Len(q) :
         IsNetwork(q[k], n) /\ NoneAfter(q, k, n) => (q[k].value.connected <=> n \in on)

LEMMA SettlesAfterOther ==
    ASSUME NEW M, NEW q \in Seq(M), NEW m, NEW n, NEW now, NEW on, ~IsNetwork(m, n), Settles(q, n, now, on)
    PROVE  Settles(Append(q, m), n, now, on)
<1> DEFINE p == Append(q, m)
           last == Len(q)
<1>1. /\ last \in Nat /\ Len(p) = last + 1 /\ p[last + 1] = m
      /\ \A i \in 1 .. last : p[i] = q[i]
    BY LenProperties
<1> HIDE DEF p
<1>2. \A k : NoneAfter(p, k, n) => NoneAfter(q, k, n)
    BY <1>1 DEF NoneAfter
<1>3. \A k \in 1 .. Len(p) : IsNetwork(p[k], n) => k \in 1 .. last /\ p[k] = q[k]
    BY <1>1
<1> QED BY <1>2, <1>3 DEF Settles, p

LEMMA SettlesAfterEvent ==
    ASSUME NEW M, NEW q \in Seq(M), NEW m, NEW n, NEW now, NEW on, IsNetwork(m, n), m.value.connected <=> n \in on
    PROVE  Settles(Append(q, m), n, now, on)
<1> DEFINE p == Append(q, m)
           last == Len(q)
<1>1. /\ last \in Nat /\ Len(p) = last + 1 /\ p[last + 1] = m
      /\ \A i \in 1 .. last : p[i] = q[i]
    BY LenProperties
<1> HIDE DEF p, last
<1>2. last + 1 \in 1 .. Len(p) /\ last + 1 > 0
    BY <1>1
<1>3. ~NoneAfter(p, 0, n)
    BY <1>1, <1>2 DEF NoneAfter
<1>4. \A k \in 1 .. Len(p) : NoneAfter(p, k, n) => k = last + 1
    BY <1>1, <1>2 DEF NoneAfter
<1> QED BY <1>1, <1>3, <1>4 DEF Settles, p

\* What is left of the queue.
LEMMA RestOfQueue ==
    ASSUME NEW M, NEW q \in Seq(M), q # <<>>
    PROVE  /\ Tail(q) \in Seq(M) /\ Len(q) \in Nat /\ Len(q) > 0 /\ Len(Tail(q)) = Len(q) - 1
           /\ q[1] = Head(q) /\ \A i \in 1 .. Len(Tail(q)) : i + 1 \in 1 .. Len(q) /\ Tail(q)[i] = q[i + 1]
           /\ \A i \in 1 .. Len(q) : i = 1 \/ i - 1 \in 1 .. Len(Tail(q))
BY LenProperties, HeadTailProperties, EmptySeq

LEMMA NoneAfterTail ==
    ASSUME NEW M, NEW q \in Seq(M), q # <<>>, NEW n, NEW k \in Nat, NoneAfter(Tail(q), k, n)
    PROVE  NoneAfter(q, k + 1, n)
<1> DEFINE p == Tail(q)
<1>1. /\ \A i \in 1 .. Len(p) : i + 1 \in 1 .. Len(q) /\ p[i] = q[i + 1]
      /\ \A i \in 1 .. Len(q) : i = 1 \/ i - 1 \in 1 .. Len(p)
    BY RestOfQueue
<1> SUFFICES ASSUME NEW j \in 1 .. Len(q), j > k + 1 PROVE ~IsNetwork(q[j], n)
    BY DEF NoneAfter
<1>2. j - 1 \in 1 .. Len(p) /\ j - 1 > k
    BY <1>1
<1>3. p[j - 1] = q[j]
    BY <1>1, <1>2
<1> QED BY <1>2, <1>3 DEF NoneAfter

LEMMA SettlesWithout ==
    ASSUME NEW M, NEW q \in Seq(M), q # <<>>, NEW n, NEW now, NEW then, NEW on, Settles(q, n, now, on),
           IF IsNetwork(Head(q), n) THEN Head(q).value.connected <=> n \in then ELSE n \in then <=> n \in now
    PROVE  Settles(Tail(q), n, then, on)
<1> DEFINE p == Tail(q)
<1>1. /\ Len(q) \in Nat /\ Len(q) > 0 /\ Head(q) = q[1] /\ Len(p) \in Nat
      /\ \A i \in 1 .. Len(p) : i + 1 \in 1 .. Len(q) /\ p[i] = q[i + 1]
      /\ \A k \in Nat : NoneAfter(p, k, n) => NoneAfter(q, k + 1, n)
    BY RestOfQueue, NoneAfterTail
<1> HIDE DEF p
<1>2. ASSUME NEW k \in 1 .. Len(p), IsNetwork(p[k], n), NoneAfter(p, k, n)
      PROVE  p[k].value.connected <=> n \in on
    BY <1>1, <1>2 DEF Settles
<1>3. ASSUME NoneAfter(p, 0, n) PROVE n \in then <=> n \in on
    <2>1. NoneAfter(q, 1, n)
        BY <1>1, <1>3
    <2>2. CASE IsNetwork(q[1], n)
        BY <1>1, <2>1, <2>2 DEF Settles
    <2>3. CASE ~IsNetwork(q[1], n)
        <3>1. NoneAfter(q, 0, n)
            BY <1>1, <2>1, <2>3 DEF NoneAfter
        <3> QED BY <1>1, <2>3, <3>1 DEF Settles
    <2> QED BY <2>2, <2>3
<1> QED BY <1>2, <1>3 DEF Settles, p

\* The same of what the daemon's observer is told of the networks: the last relay
\* that waits has what it was last told; if none waits, it knows it.
IsRelay(m) == m.type = "relay" /\ "network" \in DOMAIN m.values
NoRelayAfter(q, k) == \A j \in 1 .. Len(q) : j > k => ~IsRelay(q[j])
Relays(q, now, last) ==
    /\ NoRelayAfter(q, 0) => now = last
    /\ \A k \in 1 .. Len(q) : IsRelay(q[k]) /\ NoRelayAfter(q, k) => q[k].values["network"] = last

LEMMA RelaysAfterOther ==
    ASSUME NEW M, NEW q \in Seq(M), NEW m, NEW now, NEW last, ~IsRelay(m), Relays(q, now, last)
    PROVE  Relays(Append(q, m), now, last)
<1> DEFINE p == Append(q, m)
           len == Len(q)
<1>1. /\ len \in Nat /\ Len(p) = len + 1 /\ p[len + 1] = m
      /\ \A i \in 1 .. len : p[i] = q[i]
    BY LenProperties
<1> HIDE DEF p
<1>2. \A k : NoRelayAfter(p, k) => NoRelayAfter(q, k)
    BY <1>1 DEF NoRelayAfter
<1>3. \A k \in 1 .. Len(p) : IsRelay(p[k]) => k \in 1 .. len /\ p[k] = q[k]
    BY <1>1
<1> QED BY <1>2, <1>3 DEF Relays, p

LEMMA RelaysAfterRelay ==
    ASSUME NEW M, NEW q \in Seq(M), NEW m, NEW now, NEW last, IsRelay(m), m.values["network"] = last
    PROVE  Relays(Append(q, m), now, last)
<1> DEFINE p == Append(q, m)
           len == Len(q)
<1>1. /\ len \in Nat /\ Len(p) = len + 1 /\ p[len + 1] = m
      /\ \A i \in 1 .. len : p[i] = q[i]
    BY LenProperties
<1> HIDE DEF p, len
<1>2. len + 1 \in 1 .. Len(p) /\ len + 1 > 0
    BY <1>1
<1>3. ~NoRelayAfter(p, 0)
    BY <1>1, <1>2 DEF NoRelayAfter
<1>4. \A k \in 1 .. Len(p) : NoRelayAfter(p, k) => k = len + 1
    BY <1>1, <1>2 DEF NoRelayAfter
<1> QED BY <1>1, <1>3, <1>4 DEF Relays, p

LEMMA NoRelayAfterTail ==
    ASSUME NEW M, NEW q \in Seq(M), q # <<>>, NEW k \in Nat, NoRelayAfter(Tail(q), k)
    PROVE  NoRelayAfter(q, k + 1)
<1> DEFINE p == Tail(q)
<1>1. /\ \A i \in 1 .. Len(p) : i + 1 \in 1 .. Len(q) /\ p[i] = q[i + 1]
      /\ \A i \in 1 .. Len(q) : i = 1 \/ i - 1 \in 1 .. Len(p)
    BY RestOfQueue
<1> SUFFICES ASSUME NEW j \in 1 .. Len(q), j > k + 1 PROVE ~IsRelay(q[j])
    BY DEF NoRelayAfter
<1>2. j - 1 \in 1 .. Len(p) /\ j - 1 > k
    BY <1>1
<1>3. p[j - 1] = q[j]
    BY <1>1, <1>2
<1> QED BY <1>2, <1>3 DEF NoRelayAfter

LEMMA RelaysWithout ==
    ASSUME NEW M, NEW q \in Seq(M), q # <<>>, NEW now, NEW then, NEW last, Relays(q, now, last),
           then = IF IsRelay(Head(q)) THEN Head(q).values["network"] ELSE now
    PROVE  Relays(Tail(q), then, last)
<1> DEFINE p == Tail(q)
<1>1. /\ Len(q) \in Nat /\ Len(q) > 0 /\ Head(q) = q[1] /\ Len(p) \in Nat
      /\ \A i \in 1 .. Len(p) : i + 1 \in 1 .. Len(q) /\ p[i] = q[i + 1]
      /\ \A k \in Nat : NoRelayAfter(p, k) => NoRelayAfter(q, k + 1)
    BY RestOfQueue, NoRelayAfterTail
<1> HIDE DEF p
<1>2. ASSUME NEW k \in 1 .. Len(p), IsRelay(p[k]), NoRelayAfter(p, k)
      PROVE  p[k].values["network"] = last
    BY <1>1, <1>2 DEF Relays
<1>3. ASSUME NoRelayAfter(p, 0) PROVE then = last
    <2>1. NoRelayAfter(q, 1)
        BY <1>1, <1>3
    <2>2. CASE IsRelay(q[1])
        BY <1>1, <2>1, <2>2 DEF Relays
    <2>3. CASE ~IsRelay(q[1])
        <3>1. NoRelayAfter(q, 0)
            BY <1>1, <2>1, <2>3 DEF NoRelayAfter
        <3> QED BY <1>1, <2>3, <3>1 DEF Relays
    <2> QED BY <2>2, <2>3
<1> QED BY <1>2, <1>3 DEF Relays, p

-----------------------------------------------------------------------------
(* What is reported *)

\* The networks the last report has.
HandlesOf(r) == IF r = <<>> THEN {} ELSE ToSet(Last(r).handles)
\* Its handles are different ones, and its types are theirs.
ReportIsTrue(r) ==
    r # <<>> => Distinct(Last(r).handles) /\ Last(r).types = Types(HandlesOf(r))
\* Another network of the type stays, and there are types beside it.
Shared(r, v) ==
    /\ r # <<>> /\ ~v.connected
    /\ SameType(Last(r).handles, v.network) # {}
    /\ Last(r).types # v.types

LEMMA LastIsKept ==
    ASSUME NEW r \in Seq(NetworkInfos), Len(r) <= maxItem, NEW v \in NetworkInfos
    PROVE  LET next == setIteminReport(r, v)
           IN  /\ next # <<>>
               /\ Last(next).handles = Newest(r, v).handles
               /\ Last(next).types = Newest(r, v).types
               /\ ~Updates(r, v) => next = r
               /\ Updates(r, v) /\ Len(r) # maxItem => next = Append(r, Newest(r, v))
<1> DEFINE d == Newest(r, v)
           t == Append(r, d)
           next == setIteminReport(r, v)
           len == Len(r)
<1>1. d \in NetworkInfos /\ len \in Nat /\ maxItem \in Nat /\ maxItem > 0
    BY NewestIsInfo, LenProperties, NetworkTableAssumption DEF NetworkTableAssumption
<1>2. CASE ~Updates(r, v)
    <2>1. next = r /\ r # <<>> /\ Equals(Last(r), d)
        BY <1>2 DEF setIteminReport, Updates
    <2> QED BY <1>2, <2>1 DEF Equals
<1>3. CASE Updates(r, v)
    <2> HIDE DEF d
    <2>1. t \in Seq(NetworkInfos) /\ Len(t) = len + 1 /\ t[len + 1] = d /\ t # <<>>
        BY <1>1
    <2>2. next = Kept(t)
        BY <1>3 DEF setIteminReport, d
    <2> HIDE DEF t, next
    <2>3. CASE len # maxItem
        <3>1. next = t /\ Last(t) = d
            <4>1. ~(Len(t) > maxItem)
                BY <1>1, <2>1, <2>3
            <4> QED BY <2>1, <2>2, <4>1 DEF Kept, Last
        <3> QED BY <1>3, <2>1, <3>1 DEF d, t, next
    <2>4. CASE len = maxItem
        <3>1. next = Tail(t)
            <4>1. Len(t) > maxItem
                BY <1>1, <2>1, <2>4
            <4> QED BY <2>2, <4>1 DEF Kept
        <3>2. Len(next) = len /\ len \in 1 .. Len(next) /\ next[len] = t[len + 1]
            BY <1>1, <2>1, <2>4, <3>1, RestOfQueue
        <3>3. next # <<>> /\ Last(next) = d
            BY <1>1, <2>1, <2>4, <3>2 DEF Last
        <3> QED BY <1>3, <2>4, <3>3 DEF d, next
    <2> QED BY <2>3, <2>4
<1> QED BY <1>2, <1>3

LEMMA CollateIsTrue ==
    ASSUME IsFiniteSet(Networks), MaxHandles >= Cardinality(Networks),
           NEW cur \in NetworkInfos, NEW v \in NetworkInfos, IsEvent(v),
           Distinct(cur.handles), cur.types = Types(ToSet(cur.handles)),
           v.connected \/ SameType(cur.handles, v.network) = {} \/ cur.types = v.types
    PROVE  LET d == collate(v, cur)
               H == ToSet(cur.handles)
           IN  /\ Distinct(d.handles) /\ d.types = Types(ToSet(d.handles))
               /\ ToSet(d.handles) = IF v.connected THEN H \cup {v.network} ELSE H \ {v.network}
<1> DEFINE h == cur.handles
           n == v.network
           d == collate(v, cur)
           H == ToSet(h)
           apn == IF TypeOf[v.network] # TYPE_MOBILE /\ cur.apn # NoApn THEN cur.apn ELSE v.apn
           handles == IF v.connected THEN Plus(h, n) ELSE Minus(h, n)
           types == IF v.connected THEN cur.types \cup v.types
                    ELSE IF SameType(h, n) = {} THEN cur.types \ v.types ELSE v.types
<1>1. h \in Seq(Networks) /\ n \in Networks /\ v.connected \in BOOLEAN /\ v.types = {TypeOf[n]}
    BY DEF NetworkInfos, IsEvent
<1>2. d.handles = handles /\ d.types = types
    <2>1. d = [v EXCEPT !.apn = apn, !.handles = handles, !.types = types]
        BY DEF collate
    <2> HIDE DEF apn, handles, types
    <2> QED BY <2>1 DEF NetworkInfos
<1> HIDE DEF d, h, n
<1>3. ASSUME v.connected
      PROVE  Distinct(handles) /\ types = Types(ToSet(handles)) /\ ToSet(handles) = H \cup {n}
    <2>1. Distinct(handles) /\ ToSet(handles) = H \cup {n}
        BY <1>1, <1>3, PlusHandles DEF h
    <2>2. types = Types(H) \cup {TypeOf[n]}
        BY <1>1, <1>3 DEF h
    <2>3. Types(H \cup {n}) = Types(H) \cup {TypeOf[n]}
        BY DEF Types
    <2> QED BY <2>1, <2>2, <2>3
<1>4. ASSUME ~v.connected
      PROVE  Distinct(handles) /\ types = Types(ToSet(handles)) /\ ToSet(handles) = H \ {n}
    <2>1. Distinct(handles) /\ ToSet(handles) = H \ {n}
        BY <1>1, <1>4, MinusHandles DEF h
    <2>2. types = Types(H \ {n})
        <3> DEFINE same == {m \in H \ {n} : TypeOf[m] = TypeOf[n]}
        <3>1. SameType(h, n) = same
            BY DEF SameType
        <3>2. CASE same = {}
            <4>1. types = Types(H) \ {TypeOf[n]}
                BY <1>1, <1>4, <3>1, <3>2 DEF h
            <4>2. \A m \in H \ {n} : TypeOf[m] # TypeOf[n]
                BY <3>2
            <4>3. Types(H) \ {TypeOf[n]} = Types(H \ {n})
                <5> HIDE DEF same, H
                <5> QED BY <4>2 DEF Types
            <4> QED BY <4>1, <4>3
        <3>3. CASE same # {}
            <4>1. types = {TypeOf[n]} /\ Types(H) = {TypeOf[n]}
                BY <1>1, <1>4, <3>1, <3>3 DEF h, n
            <4>2. \A m \in H \ {n} : TypeOf[m] = TypeOf[n]
                BY <4>1 DEF Types
            <4>3. \E m \in H \ {n} : TypeOf[m] = TypeOf[n]
                BY <3>3
            <4>4. Types(H \ {n}) = {TypeOf[n]}
                <5> HIDE DEF same, H
                <5> QED BY <4>2, <4>3 DEF Types
            <4> QED BY <4>1, <4>4
        <3> QED BY <3>2, <3>3
    <2> QED BY <2>1, <2>2
<1> HIDE DEF handles, types
<1> QED BY <1>1, <1>2, <1>3, <1>4 DEF d, h, n

\* An event changes the networks of the report by its own.
LEMMA ReportCollates ==
    ASSUME IsFiniteSet(Networks), MaxHandles >= Cardinality(Networks),
           NEW r \in Seq(NetworkInfos), Len(r) <= maxItem, NEW v \in NetworkInfos, IsEvent(v),
           ReportIsTrue(r), r = <<>> => v.connected, ~Shared(r, v)
    PROVE  LET next == setIteminReport(r, v)
           IN  /\ ReportIsTrue(next)
               /\ HandlesOf(next) = IF v.connected THEN HandlesOf(r) \cup {v.network}
                                    ELSE HandlesOf(r) \ {v.network}
<1> DEFINE next == setIteminReport(r, v)
           d == Newest(r, v)
<1>1. next # <<>> /\ Last(next).handles = d.handles /\ Last(next).types = d.types
    BY LastIsKept
<1> HIDE DEF next
<1>2. CASE r = <<>>
    <2>1. d = v /\ v.handles = <<v.network>> /\ v.types = {TypeOf[v.network]} /\ v.connected
        BY <1>2 DEF Newest, IsEvent
    <2>2. ToSet(d.handles) = {v.network} /\ Distinct(d.handles)
        BY <2>1 DEF ToSet, Distinct
    <2>3. Types({v.network}) = {TypeOf[v.network]}
        BY DEF Types
    <2>4. HandlesOf(r) = {} /\ HandlesOf(next) = {v.network}
        BY <1>1, <1>2, <2>2 DEF HandlesOf
    <2> QED BY <1>1, <2>1, <2>2, <2>3, <2>4 DEF ReportIsTrue, next
<1>3. CASE r # <<>>
    <2> DEFINE cur == Last(r)
    <2>1. cur \in NetworkInfos
        BY <1>3, EmptySeq, LenProperties, ElementOfSeq DEF Last
    <2>2. d = collate(v, cur)
        BY <1>3 DEF Newest
    <2>3. Distinct(cur.handles) /\ cur.types = Types(ToSet(cur.handles)) /\ HandlesOf(r) = ToSet(cur.handles)
        BY <1>3 DEF ReportIsTrue, HandlesOf
    <2>4. v.connected \/ SameType(cur.handles, v.network) = {} \/ cur.types = v.types
        BY <1>3 DEF Shared
    <2> HIDE DEF cur, d
    <2>5. /\ Distinct(d.handles) /\ d.types = Types(ToSet(d.handles))
          /\ ToSet(d.handles) = IF v.connected THEN ToSet(cur.handles) \cup {v.network}
                                ELSE ToSet(cur.handles) \ {v.network}
        BY <2>1, <2>2, <2>3, <2>4, CollateIsTrue
    <2> QED BY <1>1, <2>3, <2>5 DEF ReportIsTrue, HandlesOf, next
<1> QED BY <1>2, <1>3

\* No event that waits is of a network that comes; and the first that waits is.
AllGo(q) == \A i \in 1 .. Len(q) : AboutNetworks(q[i]) => ~q[i].value.connected
FirstComes(q) ==
    \A i \in 1 .. Len(q) :
      AboutNetworks(q[i]) /\ (\A j \in 1 .. Len(q) : j < i => ~AboutNetworks(q[j])) => q[i].value.connected
\* The networks that a reset still has to report gone.
Unreset(r, k) == IF k = 0 THEN {} ELSE {r[j].network : j \in k .. Len(r)}
\* The last report has the networks that are connected, but for what the events
\* that wait and the rest of a reset will change.
InStep(q, r, on, k) ==
    /\ ReportIsTrue(r)
    /\ \A n \in Networks : Settles(q, n, HandlesOf(r) \ Unreset(r, k), on)
    /\ k > 0 => on = {} /\ AllGo(q)
    /\ r = <<>> => FirstComes(q)

LEMMA InStepAfterOther ==
    ASSUME NEW M, NEW q \in Seq(M), NEW m, ~AboutNetworks(m), NEW r, NEW on, NEW k, InStep(q, r, on, k)
    PROVE  InStep(Append(q, m), r, on, k)
<1> DEFINE p == Append(q, m)
           last == Len(q)
<1>1. /\ last \in Nat /\ Len(p) = last + 1 /\ p[last + 1] = m
      /\ \A i \in 1 .. last : p[i] = q[i]
    BY LenProperties
<1>2. \A n \in Networks : Settles(p, n, HandlesOf(r) \ Unreset(r, k), on)
    BY SettlesAfterOther DEF InStep, IsNetwork
<1> HIDE DEF p
<1>3. \A i \in 1 .. Len(p) : AboutNetworks(p[i]) => i \in 1 .. last /\ p[i] = q[i]
    BY <1>1
<1>4. AllGo(q) => AllGo(p)
    BY <1>3 DEF AllGo
<1>5. FirstComes(q) => FirstComes(p)
    BY <1>1, <1>3 DEF FirstComes
<1> QED BY <1>2, <1>4, <1>5 DEF InStep, p

LEMMA InStepWithoutOther ==
    ASSUME NEW M, NEW q \in Seq(M), q # <<>>, ~AboutNetworks(Head(q)), NEW r, NEW on, NEW k,
           InStep(q, r, on, k)
    PROVE  InStep(Tail(q), r, on, k)
<1> DEFINE p == Tail(q)
<1>1. /\ Len(q) \in Nat /\ Len(q) > 0 /\ Head(q) = q[1] /\ Len(p) = Len(q) - 1
      /\ \A i \in 1 .. Len(p) : i + 1 \in 1 .. Len(q) /\ p[i] = q[i + 1]
      /\ \A i \in 1 .. Len(q) : i = 1 \/ i - 1 \in 1 .. Len(p)
    BY RestOfQueue
<1>2. \A n \in Networks : Settles(p, n, HandlesOf(r) \ Unreset(r, k), on)
    BY SettlesWithout DEF InStep, IsNetwork
<1> HIDE DEF p
<1>3. AllGo(q) => AllGo(p)
    BY <1>1 DEF AllGo
<1>4. FirstComes(q) => FirstComes(p)
    <2> SUFFICES ASSUME FirstComes(q), NEW i \in 1 .. Len(p), AboutNetworks(p[i]),
                        \A j \in 1 .. Len(p) : j < i => ~AboutNetworks(p[j])
                 PROVE  p[i].value.connected
        BY DEF FirstComes
    <2>1. ASSUME NEW j \in 1 .. Len(q), j < i + 1 PROVE ~AboutNetworks(q[j])
        <3>1. CASE j = 1
            BY <1>1, <3>1
        <3>2. CASE j # 1
            <4>1. j - 1 \in 1 .. Len(p) /\ j - 1 < i /\ (j - 1) + 1 = j
                BY <1>1, <2>1, <3>2
            <4> QED BY <1>1, <4>1
        <3> QED BY <3>1, <3>2
    <2> QED BY <1>1, <2>1 DEF FirstComes
<1> QED BY <1>2, <1>3, <1>4 DEF InStep, p

\* The framework says that a network came or went.
LEMMA InStepAfterEvent ==
    ASSUME NEW M, NEW q \in Seq(M), NEW m, NEW n \in Networks, IsNetwork(m, n),
           NEW r, NEW on, InStep(q, r, on, 0), m.value.connected <=> n \notin on
    PROVE  InStep(Append(q, m), r, IF m.value.connected THEN on \cup {n} ELSE on \ {n}, 0)
<1> DEFINE p == Append(q, m)
           last == Len(q)
           then == IF m.value.connected THEN on \cup {n} ELSE on \ {n}
           now == HandlesOf(r) \ Unreset(r, 0)
<1>1. /\ last \in Nat /\ Len(p) = last + 1 /\ p[last + 1] = m
      /\ \A i \in 1 .. last : p[i] = q[i]
    BY LenProperties
<1>2. ASSUME NEW k \in Networks PROVE Settles(p, k, now, then)
    <2> HIDE DEF now, then
    <2>1. CASE k = n
        <3>1. m.value.connected <=> n \in then
            BY DEF then
        <3> QED BY <2>1, <3>1, SettlesAfterEvent
    <2>2. CASE k # n
        <3>1. ~IsNetwork(m, k)
            BY <2>2 DEF IsNetwork
        <3>2. Settles(q, k, now, on)
            BY DEF InStep, now
        <3>3. Settles(p, k, now, on)
            BY <3>1, <3>2, SettlesAfterOther
        <3> QED BY <2>2, <3>3 DEF Settles, then
    <2> QED BY <2>1, <2>2
<1> HIDE DEF p
<1>3. r = <<>> => FirstComes(p)
    <2> SUFFICES ASSUME r = <<>>, NEW i \in 1 .. Len(p), AboutNetworks(p[i]),
                        \A j \in 1 .. Len(p) : j < i => ~AboutNetworks(p[j])
                 PROVE  p[i].value.connected
        BY DEF FirstComes
    <2>1. CASE i \in 1 .. last
        <3>1. \A j \in 1 .. last : j < i => ~AboutNetworks(q[j])
            BY <1>1
        <3> QED BY <1>1, <2>1, <3>1 DEF InStep, FirstComes
    <2>2. CASE i = last + 1
        <3>1. \A j \in 1 .. last : ~AboutNetworks(q[j])
            BY <1>1, <2>2
        <3>2. NoneAfter(q, 0, n)
            BY <3>1 DEF NoneAfter, IsNetwork
        <3>3. n \in now <=> n \in on
            BY <3>2 DEF InStep, Settles
        <3>4. n \notin now
            BY DEF HandlesOf
        <3> QED BY <1>1, <2>2, <3>3, <3>4
    <2>3. i \in 1 .. last \/ i = last + 1
        <3> HIDE DEF last
        <3> QED BY <1>1
    <2> HIDE DEF last
    <2> QED BY <2>1, <2>2, <2>3
<1>4. ReportIsTrue(r) /\ ~(0 > 0)
    BY DEF InStep
<1>5. InStep(p, r, then, 0)
    <2> HIDE DEF then
    <2> QED BY <1>2, <1>3, <1>4 DEF InStep
<1> QED BY <1>5 DEF p

\* The framework dies with nothing on the way, and all its networks are reported.
LEMMA InStepAfterDeath ==
    ASSUME NEW M, NEW q \in Seq(M), NEW r, NEW on, InStep(q, r, on, 0),
           \A i \in 1 .. Len(q) : ~AboutNetworks(q[i]),
           on \subseteq {r[i].network : i \in 1 .. Len(r)}
    PROVE  InStep(q, r, {}, 1)
<1>1. ASSUME NEW n \in Networks PROVE Settles(q, n, HandlesOf(r) \ Unreset(r, 1), {})
    <2>1. NoneAfter(q, 0, n) /\ \A k \in 1 .. Len(q) : ~IsNetwork(q[k], n)
        BY DEF NoneAfter, IsNetwork
    <2>2. n \in HandlesOf(r) <=> n \in on
        BY <2>1 DEF InStep, Settles, Unreset
    <2>3. n \in on => n \in Unreset(r, 1)
        BY DEF Unreset
    <2> QED BY <2>1, <2>2, <2>3 DEF Settles
<1> QED BY <1>1 DEF InStep, AllGo

LEMMA InStepAfterReset ==
    ASSUME NEW M, NEW q \in Seq(M), NEW m, NEW r \in Seq(NetworkInfos), NEW on, NEW k \in 1 .. Len(r),
           IsNetwork(m, r[k].network), ~m.value.connected, InStep(q, r, on, k)
    PROVE  InStep(Append(q, m), r, on, k + 1)
<1> DEFINE p == Append(q, m)
           last == Len(q)
           n == r[k].network
           now == HandlesOf(r) \ Unreset(r, k)
           then == HandlesOf(r) \ Unreset(r, k + 1)
<1>1. /\ last \in Nat /\ Len(p) = last + 1 /\ p[last + 1] = m
      /\ \A i \in 1 .. last : p[i] = q[i]
    BY LenProperties
<1>2. Len(r) \in Nat /\ k > 0 /\ k \in Nat /\ on = {} /\ AllGo(q) /\ r # <<>>
    BY LenProperties, EmptySeq DEF InStep
<1>3. \A i \in Networks : i # n => (i \in Unreset(r, k) <=> i \in Unreset(r, k + 1))
    <2>1. \A j \in k .. Len(r) : j = k \/ j \in k + 1 .. Len(r)
        BY <1>2
    <2>2. \A j \in k + 1 .. Len(r) : j \in k .. Len(r)
        BY <1>2
    <2> QED BY <1>2, <2>1, <2>2 DEF Unreset
<1>4. ASSUME NEW i \in Networks PROVE Settles(p, i, then, on)
    <2> HIDE DEF now, then
    <2>1. CASE i = n
        <3>1. m.value.connected <=> n \in on
            BY <1>2
        <3> QED BY <2>1, <3>1, SettlesAfterEvent
    <2>2. CASE i # n
        <3>1. ~IsNetwork(m, i)
            BY <2>2 DEF IsNetwork
        <3>2. Settles(q, i, now, on)
            BY DEF InStep, now
        <3>3. Settles(p, i, now, on)
            BY <3>1, <3>2, SettlesAfterOther
        <3>4. i \in now <=> i \in then
            BY <1>3, <2>2 DEF now, then
        <3> QED BY <3>3, <3>4 DEF Settles
    <2> QED BY <2>1, <2>2
<1> HIDE DEF p
<1>5. AllGo(p)
    <2>1. \A i \in 1 .. Len(p) : i \in 1 .. last \/ i = last + 1
        BY <1>1
    <2> QED BY <1>1, <1>2, <2>1 DEF AllGo
<1> QED BY <1>2, <1>4, <1>5 DEF InStep, p

LEMMA InStepWhenReset ==
    ASSUME NEW q, NEW r \in Seq(NetworkInfos), NEW on, NEW k \in Nat, k > Len(r), InStep(q, r, on, k)
    PROVE  InStep(q, r, on, 0)
<1>1. Unreset(r, k) = {} /\ Unreset(r, 0) = {}
    <2> DEFINE last == Len(r)
    <2>1. last \in Nat
        BY LenProperties
    <2> HIDE DEF last
    <2>2. \A j \in k .. last : FALSE
        BY <2>1 DEF last
    <2>3. k # 0
        BY <2>1 DEF last
    <2>4. k .. Len(r) = {}
        BY <2>2 DEF last
    <2>5. {r[j].network : j \in {}} = {}
        OBVIOUS
    <2> QED BY <2>3, <2>4, <2>5 DEF Unreset
<1>2. \A n \in Networks : Settles(q, n, HandlesOf(r) \ Unreset(r, 0), on)
    BY <1>1 DEF InStep
<1>3. ReportIsTrue(r) /\ (r = <<>> => FirstComes(q)) /\ ~(0 > 0)
    BY DEF InStep
<1> QED BY <1>2, <1>3 DEF InStep

\* The first event is collated: what was to happen to its network has.
LEMMA InStepWithoutEvent ==
    ASSUME IsFiniteSet(Networks), MaxHandles >= Cardinality(Networks),
           NEW M, NEW q \in Seq(M), q # <<>>, AboutNetworks(Head(q)),
           Head(q).value \in NetworkInfos, IsEvent(Head(q).value),
           NEW r \in Seq(NetworkInfos), Len(r) <= maxItem, NEW on, NEW k \in Nat, InStep(q, r, on, k),
           ~Shared(r, Head(q).value),
           ~(k > 0 /\ Len(r) = maxItem /\ Updates(r, Head(q).value))
    PROVE  InStep(Tail(q), setIteminReport(r, Head(q).value), on, k)
<1> DEFINE v == Head(q).value
           n == v.network
           p == Tail(q)
           next == setIteminReport(r, v)
           now == HandlesOf(r) \ Unreset(r, k)
           then == HandlesOf(next) \ Unreset(next, k)
<1>1. /\ Len(q) \in Nat /\ Len(q) > 0 /\ Head(q) = q[1] /\ Len(p) = Len(q) - 1
      /\ \A i \in 1 .. Len(p) : i + 1 \in 1 .. Len(q) /\ p[i] = q[i + 1]
    BY RestOfQueue
<1>2. r = <<>> => v.connected
    <2>1. 1 \in 1 .. Len(q) /\ \A j \in 1 .. Len(q) : ~(j < 1)
        BY <1>1
    <2> QED BY <1>1, <2>1 DEF InStep, FirstComes
<1>3. k > 0 => ~v.connected
    <2>1. 1 \in 1 .. Len(q)
        BY <1>1
    <2> QED BY <1>1, <2>1 DEF InStep, AllGo
<1>4. n \in Networks /\ v.connected \in BOOLEAN
    BY DEF NetworkInfos
<1>5. /\ ReportIsTrue(next)
      /\ HandlesOf(next) = IF v.connected THEN HandlesOf(r) \cup {n} ELSE HandlesOf(r) \ {n}
    <2>1. ReportIsTrue(r)
        BY DEF InStep
    <2> HIDE DEF v
    <2>2. v \in NetworkInfos /\ IsEvent(v) /\ ~Shared(r, v)
        BY DEF v
    <2> QED BY <1>2, <2>1, <2>2, ReportCollates
<1>6. /\ next # <<>>
      /\ k > 0 => next = r \/ next = Append(r, Newest(r, v))
    BY LastIsKept
<1>7. Newest(r, v).network = n
    <2>1. CASE r = <<>>
        BY <2>1 DEF Newest
    <2>2. CASE r # <<>>
        <3> HIDE DEF v
        <3>1. v \in NetworkInfos
            BY DEF v
        <3> QED BY <2>2, <3>1 DEF Newest, collate, NetworkInfos
    <2> QED BY <2>1, <2>2
<1>8. \A i \in Networks : i # n => (i \in Unreset(r, k) <=> i \in Unreset(next, k))
    <2>1. CASE k = 0
        BY <2>1 DEF Unreset
    <2>2. CASE next = r
        BY <2>2
    <2>3. CASE k > 0 /\ next = Append(r, Newest(r, v))
        <3> DEFINE d == Newest(r, v)
                   len == Len(r)
        <3> HIDE DEF v
        <3>1. d \in NetworkInfos
            BY NewestIsInfo DEF v
        <3> HIDE DEF d
        <3>2. /\ len \in Nat /\ Len(next) = len + 1 /\ next[len + 1] = d
              /\ \A j \in 1 .. len : next[j] = r[j]
            BY <2>3, <3>1, AppendProperties, LenProperties DEF d
        <3> HIDE DEF next, len
        <3>3. \A j \in k .. len : j \in k .. Len(next) /\ next[j] = r[j]
            BY <2>3, <3>2
        <3>4. \A j \in k .. Len(next) : (j \in k .. len /\ next[j] = r[j]) \/ next[j] = d
            BY <2>3, <3>2
        <3> QED BY <1>7, <2>3, <3>3, <3>4 DEF Unreset, d, len
    <2> QED BY <1>6, <2>1, <2>2, <2>3
<1>9. ASSUME NEW i \in Networks PROVE Settles(p, i, then, on)
    <2>1. Settles(q, i, now, on)
        BY DEF InStep
    <2>2. CASE i = n
        <3>1. IsNetwork(Head(q), i)
            BY <2>2 DEF IsNetwork
        <3>2. v.connected <=> i \in then
            <4>1. k = 0 => Unreset(next, k) = {}
                BY DEF Unreset
            <4> HIDE DEF next
            <4> QED BY <1>3, <1>4, <1>5, <2>2, <4>1
        <3> HIDE DEF now, then
        <3> QED BY <2>1, <3>1, <3>2, SettlesWithout
    <2>3. CASE i # n
        <3>1. ~IsNetwork(Head(q), i)
            BY <2>3 DEF IsNetwork
        <3>2. i \in then <=> i \in now
            <4> HIDE DEF next
            <4> QED BY <1>5, <1>8, <2>3
        <3> HIDE DEF now, then
        <3> QED BY <2>1, <3>1, <3>2, SettlesWithout
    <2> QED BY <2>2, <2>3
<1> HIDE DEF p, next
<1>10. AllGo(q) => AllGo(p)
    BY <1>1 DEF AllGo
<1> QED BY <1>5, <1>6, <1>9, <1>10 DEF InStep, p, next

-----------------------------------------------------------------------------
(* The networks *)

NetworksInStep == faults = {} => InStep(inbox, report, connected, resetting)
\* What is cached of the networks is what was last reported.
CacheIsNewest ==
    IF report = <<>> THEN mDataItemCache["network"] = NoValue
    ELSE /\ mDataItemCache["network"] # NoValue
         /\ mDataItemCache["network"].types = Last(report).types
         /\ mDataItemCache["network"].handles = Last(report).handles

\* A step that is not about the networks: how it changes the queue.
Posts == \E m : ~AboutNetworks(m) /\ inbox' = Append(inbox, m)
Takes == inbox # <<>> /\ ~AboutNetworks(Head(inbox)) /\ inbox' = Tail(inbox)
Answers ==
    /\ inbox # <<>> /\ ~AboutNetworks(Head(inbox))
    /\ \E m : ~AboutNetworks(m) /\ inbox' = Append(Tail(inbox), m)

LEMMA OtherKeepsNetworks ==
    ASSUME InboxIsSound, NetworksInStep, UNCHANGED networkVars,
           UNCHANGED inbox \/ Posts \/ Takes \/ Answers
    PROVE  NetworksInStep'
<1> SUFFICES ASSUME faults = {} PROVE InStep(inbox', report, connected, resetting)
    BY DEF NetworksInStep, networkVars
<1>1. PICK M : inbox \in Seq(M)
    BY DEF InboxIsSound
<1>2. InStep(inbox, report, connected, resetting)
    BY DEF NetworksInStep
<1>3. CASE UNCHANGED inbox
    BY <1>2, <1>3
<1>4. CASE Posts
    BY <1>1, <1>2, <1>4, InStepAfterOther DEF Posts
<1>5. CASE Takes
    BY <1>1, <1>2, <1>5, InStepWithoutOther DEF Takes
<1>6. CASE Answers
    <2>1. InStep(Tail(inbox), report, connected, resetting) /\ Tail(inbox) \in Seq(M)
        BY <1>1, <1>2, <1>6, InStepWithoutOther, RestOfQueue DEF Answers
    <2> QED BY <1>6, <2>1, InStepAfterOther DEF Answers
<1> QED BY <1>3, <1>4, <1>5, <1>6

LEMMA TellTakes ==
    ASSUME NEW heard, Tell(heard), inbox # <<>>, ~AboutNetworks(Head(inbox))
    PROVE  Takes \/ Answers
BY DEF Tell, Takes, Answers, AboutNetworks

LEMMA InitNetworks == Init => NetworksInStep /\ CacheIsNewest
<1> SUFFICES ASSUME Init PROVE NetworksInStep /\ CacheIsNewest
    OBVIOUS
<1>1. inbox = << [type |-> "subscribe", c |-> XTRA, items |-> {"network"}],
                 [type |-> "request", c |-> XTRA, items |-> {"tac"}],
                 [type |-> "subscribe", c |-> NATIVE, items |-> {"network"}] >>
      /\ connected = {} /\ report = <<>> /\ resetting = 0
    BY DEF Init
<1>2. \A i \in 1 .. Len(inbox) : ~AboutNetworks(inbox[i])
    BY <1>1 DEF AboutNetworks
<1>3. InStep(inbox, report, connected, resetting)
    <2>1. \A n, on : (n \in {} <=> n \in on) => Settles(inbox, n, {}, on)
        BY <1>2 DEF Settles, IsNetwork
    <2>2. HandlesOf(report) \ Unreset(report, resetting) = {}
        BY <1>1 DEF HandlesOf
    <2>3. ReportIsTrue(report) /\ FirstComes(inbox) /\ ~(resetting > 0)
        <3>1. report = <<>> /\ resetting = 0
            BY <1>1
        <3>2. FirstComes(inbox)
            BY <1>2 DEF FirstComes
        <3> QED BY <3>1, <3>2 DEF ReportIsTrue
    <2> QED BY <1>1, <2>1, <2>2, <2>3 DEF InStep
<1>4. "network" \in Items
    BY SystemStatusAssumption DEF SystemStatusAssumption
<1> QED BY <1>1, <1>3, <1>4 DEF NetworksInStep, CacheIsNewest, Init, Nothing

\* What an event of a network does to the cache and the queue.
LEMMA NotifyEffect ==
    ASSUME InboxIsSound, TableIsSound, CacheIsSound, HandleNotifyNetwork
    PROVE  LET v == Head(inbox).value
           IN  /\ inbox # <<>> /\ AboutNetworks(Head(inbox)) /\ v \in NetworkInfos /\ IsEvent(v)
               /\ report' = setIteminReport(report, v)
               /\ inbox' = Tail(inbox)
                  \/ \E m : m.type = "relay" /\ inbox' = Append(Tail(inbox), m)
               /\ faults' = {} => /\ faults = {} /\ ~Shared(report, v)
                                  /\ ~(resetting > 0 /\ Len(report) = maxItem /\ Updates(report, v))
               /\ IF Updates(report, v)
                  THEN /\ mDataItemCache'["network"] # NoValue
                       /\ mDataItemCache'["network"].types = Newest(report, v).types
                       /\ mDataItemCache'["network"].handles = Newest(report, v).handles
                  ELSE UNCHANGED mDataItemCache
<1> DEFINE m == Head(inbox)
           v == m.value
           d == [v EXCEPT !.types = Newest(report, v).types, !.handles = Newest(report, v).handles]
           value == copyFrom(mDataItemCache["network"], d)
<1>1. inbox # <<>> /\ AboutNetworks(m) /\ v \in NetworkInfos /\ IsEvent(v)
    BY NotifiedIsInfo DEF HandleNotifyNetwork, Received, AboutNetworks
<1>2. report' = setIteminReport(report, v)
    BY DEF HandleNotifyNetwork
<1>3. inbox' = Tail(inbox) \/ \E x : x.type = "relay" /\ inbox' = Append(Tail(inbox), x)
    BY DEF HandleNotifyNetwork, Tell
<1>4. faults' = {} => /\ faults = {} /\ ~Shared(report, v)
                      /\ ~(resetting > 0 /\ Len(report) = maxItem /\ Updates(report, v))
    BY DEF HandleNotifyNetwork, Shared
<1>5. ~Updates(report, v) => UNCHANGED mDataItemCache
    BY DEF HandleNotifyNetwork, toldVars
<1>6. ASSUME Updates(report, v)
      PROVE  /\ mDataItemCache'["network"] # NoValue
             /\ mDataItemCache'["network"].types = Newest(report, v).types
             /\ mDataItemCache'["network"].handles = Newest(report, v).handles
    <2>1. mDataItemCache' = [mDataItemCache EXCEPT !["network"] = value]
        BY <1>6 DEF HandleNotifyNetwork
    <2>2. mDataItemCache'["network"] = value
        BY <2>1, SystemStatusAssumption DEF CacheIsSound, SystemStatusAssumption
    <2> HIDE DEF v
    <2>3. Newest(report, v) \in NetworkInfos
        BY <1>1, NewestIsInfo DEF TableIsSound, v
    <2>4. /\ d \in NetworkInfos
          /\ d.types = Newest(report, v).types /\ d.handles = Newest(report, v).handles
        <3>1. d \in NetworkInfos
            BY <1>1, <2>3, NewestPartsAreInfo DEF v
        <3>2. v \in NetworkInfos
            BY <1>1 DEF v
        <3> QED BY <3>1, <3>2 DEF NetworkInfos
    <2> HIDE DEF d
    <2>5. value \in NetworkInfos /\ value.types = d.types /\ value.handles = d.handles
        <3>1. CASE mDataItemCache["network"] = NoValue
            BY <2>4, <3>1 DEF copyFrom
        <3>2. CASE mDataItemCache["network"] # NoValue
            <4> DEFINE apn == mDataItemCache["network"].apn
            <4>1. apn \in {ApnOf[n] : n \in Networks} \cup {NoApn}
                BY <3>2 DEF CacheIsSound, NetworkInfos
            <4>2. value = [d EXCEPT !.apn = apn]
                BY <3>2 DEF copyFrom
            <4> HIDE DEF apn, value
            <4>3. value \in NetworkInfos
                BY <2>4, <4>1, <4>2, ApnIsInfo
            <4> QED BY <2>4, <4>2, <4>3 DEF NetworkInfos
        <3> QED BY <3>1, <3>2
    <2>6. value # NoValue
        BY <2>5, SystemStatusAssumption DEF SystemStatusAssumption
    <2> HIDE DEF value
    <2> QED BY <2>2, <2>4, <2>5, <2>6 DEF v
<1> QED BY <1>1, <1>2, <1>3, <1>4, <1>5, <1>6

LEMMA NotifyKeepsNetworks ==
    ASSUME IsFiniteSet(Networks), MaxHandles >= Cardinality(Networks),
           InboxIsSound, TableIsSound, CacheIsSound, NetworksInStep, CacheIsNewest, HandleNotifyNetwork
    PROVE  NetworksInStep' /\ CacheIsNewest'
<1> DEFINE v == Head(inbox).value
<1>1. /\ inbox # <<>> /\ AboutNetworks(Head(inbox)) /\ v \in NetworkInfos /\ IsEvent(v)
      /\ report' = setIteminReport(report, v)
      /\ inbox' = Tail(inbox) \/ \E m : m.type = "relay" /\ inbox' = Append(Tail(inbox), m)
      /\ faults' = {} => /\ faults = {} /\ ~Shared(report, v)
                         /\ ~(resetting > 0 /\ Len(report) = maxItem /\ Updates(report, v))
      /\ IF Updates(report, v)
         THEN /\ mDataItemCache'["network"] # NoValue
              /\ mDataItemCache'["network"].types = Newest(report, v).types
              /\ mDataItemCache'["network"].handles = Newest(report, v).handles
         ELSE UNCHANGED mDataItemCache
    BY NotifyEffect
<1>2. report \in Seq(NetworkInfos) /\ Len(report) <= maxItem /\ resetting \in Nat
    BY DEF TableIsSound
<1>3. PICK M : inbox \in Seq(M)
    BY DEF InboxIsSound
<1>4. UNCHANGED <<connected, resetting>>
    BY DEF HandleNotifyNetwork
<1>5. /\ report' # <<>>
      /\ Last(report').handles = Newest(report, v).handles
      /\ Last(report').types = Newest(report, v).types
      /\ ~Updates(report, v) => report' = report
    <2> HIDE DEF v
    <2>1. v \in NetworkInfos /\ report' = setIteminReport(report, v)
        BY <1>1 DEF v
    <2> QED BY <1>2, <2>1, LastIsKept
<1>6. CacheIsNewest'
    <2> HIDE DEF v
    <2> QED BY <1>1, <1>5 DEF CacheIsNewest, v
<1>7. ASSUME faults' = {} PROVE InStep(inbox', report', connected, resetting)
    <2>1. InStep(Tail(inbox), report', connected, resetting)
        BY <1>1, <1>2, <1>3, <1>7, InStepWithoutEvent DEF NetworksInStep
    <2>2. Tail(inbox) \in Seq(M)
        BY <1>1, <1>3
    <2>3. \A m : m.type = "relay" => ~AboutNetworks(m)
        BY DEF AboutNetworks
    <2> HIDE DEF v
    <2> QED BY <1>1, <2>1, <2>2, <2>3, InStepAfterOther
<1> QED BY <1>4, <1>6, <1>7 DEF NetworksInStep

LEMMA NetworkEventKeeps ==
    ASSUME InboxIsSound, NetworksInStep, NEW n \in Networks, NEW on \in BOOLEAN, NetworkEvent(n, on)
    PROVE  NetworksInStep'
<1> DEFINE m == [type |-> "notify", item |-> "network", value |-> NetworkInfo(n, on)]
<1>1. PICK M : inbox \in Seq(M)
    BY DEF InboxIsSound
<1>2. /\ resetting = 0 /\ (n \in connected) # on /\ inbox' = Append(inbox, m)
      /\ connected' = IF on THEN connected \cup {n} ELSE connected \ {n}
      /\ UNCHANGED <<report, resetting, faults>>
    BY DEF NetworkEvent, Post
<1>3. IsNetwork(m, n) /\ m.value.connected = on
    BY DEF IsNetwork, AboutNetworks, NetworkInfo
<1> HIDE DEF m
<1>4. ASSUME faults = {} PROVE InStep(inbox', report, connected', 0)
    <2>1. InStep(inbox, report, connected, 0)
        BY <1>2, <1>4 DEF NetworksInStep
    <2>2. m.value.connected <=> n \notin connected
        BY <1>2, <1>3
    <2> QED BY <1>1, <1>2, <1>3, <2>1, <2>2, InStepAfterEvent
<1> QED BY <1>2, <1>4 DEF NetworksInStep

LEMMA ResetKeeps ==
    ASSUME InboxIsSound, TableIsSound, NetworksInStep, resetNetworkInfo
    PROVE  NetworksInStep'
<1>1. PICK M : inbox \in Seq(M)
    BY DEF InboxIsSound
<1>2. report \in Seq(NetworkInfos) /\ resetting \in Nat /\ resetting > 0 /\ Len(report) \in Nat
    BY LenProperties DEF TableIsSound, resetNetworkInfo
<1>3. UNCHANGED <<report, connected, faults>>
    BY DEF resetNetworkInfo
<1> SUFFICES ASSUME faults = {} PROVE InStep(inbox', report, connected, resetting')
    BY <1>3 DEF NetworksInStep
<1>4. InStep(inbox, report, connected, resetting)
    BY DEF NetworksInStep
<1>5. CASE resetting > Len(report)
    BY <1>2, <1>4, <1>5, InStepWhenReset DEF resetNetworkInfo
<1>6. CASE ~(resetting > Len(report))
    <2> DEFINE m == [type |-> "notify", item |-> "network",
                     value |-> [NetworkInfo(report[resetting].network, FALSE)
                                  EXCEPT !.apn = report[resetting].apn]]
    <2>1. inbox' = Append(inbox, m) /\ resetting' = resetting + 1
        BY <1>6 DEF resetNetworkInfo, Post
    <2>2. IsNetwork(m, report[resetting].network) /\ ~m.value.connected
        BY DEF IsNetwork, AboutNetworks, NetworkInfo
    <2>3. resetting \in 1 .. Len(report)
        BY <1>2, <1>6
    <2> HIDE DEF m
    <2> QED BY <1>1, <1>2, <1>4, <2>1, <2>2, <2>3, InStepAfterReset
<1> QED BY <1>5, <1>6

LEMMA DeathKeeps ==
    ASSUME InboxIsSound, TableIsSound, NetworksInStep, ServiceDied
    PROVE  NetworksInStep'
<1>1. PICK M : inbox \in Seq(M)
    BY DEF InboxIsSound
<1>2. /\ resetting = 0 /\ resetting' = 1 /\ connected' = {} /\ UNCHANGED <<inbox, report>>
      /\ faults' = {} => /\ faults = {} /\ ~Pending
                         /\ connected \subseteq {report[i].network : i \in DOMAIN report}
    BY DEF ServiceDied
<1>3. DOMAIN inbox = 1 .. Len(inbox) /\ DOMAIN report = 1 .. Len(report)
    BY <1>1, LenProperties DEF TableIsSound
<1> SUFFICES ASSUME faults' = {} PROVE InStep(inbox, report, {}, 1)
    BY <1>2 DEF NetworksInStep
<1>4. \A i \in 1 .. Len(inbox) : ~AboutNetworks(inbox[i])
    BY <1>2, <1>3 DEF Pending, AboutNetworks
<1>5. InStep(inbox, report, connected, 0)
    BY <1>2 DEF NetworksInStep
<1> QED BY <1>1, <1>2, <1>3, <1>4, <1>5, InStepAfterDeath

\* Whoever handles another message neither touches the table nor what is cached of
\* the networks.
LEMMA NotifyItemKeeps ==
    ASSUME InboxIsSound, CacheIsSound, CacheIsNewest, HandleNotify
    PROVE  CacheIsNewest' /\ (Takes \/ Answers) /\ UNCHANGED networkVars
<1>1. /\ inbox # <<>> /\ ~AboutNetworks(Head(inbox)) /\ Head(inbox).item # "network"
      /\ UNCHANGED networkVars
    BY DEF HandleNotify, Received, AboutNetworks
<1>2. Takes \/ Answers
    BY <1>1, TellTakes DEF HandleNotify, Takes
<1>3. mDataItemCache'["network"] = mDataItemCache["network"]
    BY <1>1, SystemStatusAssumption DEF HandleNotify, toldVars, CacheIsSound, SystemStatusAssumption
<1> QED BY <1>1, <1>2, <1>3 DEF CacheIsNewest, networkVars

LEMMA NetworksStep ==
    ASSUME IsFiniteSet(Networks), MaxHandles >= Cardinality(Networks),
           InboxIsSound, TableIsSound, CacheIsSound, NetworksInStep, CacheIsNewest, [Next]_vars
    PROVE  NetworksInStep' /\ CacheIsNewest'
<1> DEFINE m == Head(inbox)
<1>1. ASSUME UNCHANGED <<mDataItemCache, networkVars>>, UNCHANGED inbox \/ Posts \/ Takes \/ Answers
      PROVE  NetworksInStep' /\ CacheIsNewest'
    BY <1>1, OtherKeepsNetworks DEF CacheIsNewest, networkVars
<1>2. ASSUME UNCHANGED mDataItemCache, UNCHANGED report PROVE CacheIsNewest'
    BY <1>2 DEF CacheIsNewest
<1>3. CASE \E n \in Networks, on \in BOOLEAN : NetworkEvent(n, on)
    BY <1>2, <1>3, NetworkEventKeeps DEF NetworkEvent, toldVars
<1>4. CASE ServiceDied \/ resetNetworkInfo
    BY <1>2, <1>4, DeathKeeps, ResetKeeps DEF ServiceDied, resetNetworkInfo, toldVars
<1>5. CASE \E i \in Items, v \in Values : OtherEvent(i, v)
    <2>1. PICK i \in Items, v \in Values : OtherEvent(i, v)
        BY <1>5
    <2>2. i # "network"
        BY <2>1, SystemStatusAssumption DEF OtherEvent, SystemStatusAssumption, TableIsSound
    <2>3. ~AboutNetworks([type |-> "notify", item |-> i, value |-> v])
        BY <2>2 DEF AboutNetworks
    <2>4. Posts
        BY <2>1, <2>3 DEF OtherEvent, Post, Posts
    <2> QED BY <1>1, <2>1, <2>4 DEF OtherEvent, toldVars
<1>6. CASE \E c \in Clients, type \in Asks, S \in SUBSET Items : Ask(c, type, S)
    <2>1. PICK c \in Clients, type \in Asks, S \in SUBSET Items : Ask(c, type, S)
        BY <1>6
    <2>2. ~AboutNetworks([type |-> type, c |-> c, items |-> S])
        BY DEF AboutNetworks, Asks
    <2>3. Posts
        BY <2>1, <2>2 DEF Ask, Post, Posts
    <2> QED BY <1>1, <2>1, <2>3 DEF Ask, toldVars
<1>7. CASE SetObject \/ (\E updated \in BOOLEAN : DaemonAsks(updated))
    <2>1. Posts
        BY <1>7 DEF SetObject, DaemonAsks, Post, Posts, AboutNetworks
    <2> QED BY <1>1, <1>7, <2>1 DEF SetObject, DaemonAsks, toldVars
<1>8. CASE DaemonRestarts \/ UNCHANGED vars
    BY <1>1, <1>8 DEF DaemonRestarts, vars, statusVars, toldVars
<1>9. CASE HandleSubscribe \/ HandleUpdate
    <2>1. inbox # <<>> /\ ~AboutNetworks(m)
        BY <1>9 DEF HandleSubscribe, HandleUpdate, Received, AboutNetworks
    <2>2. Takes \/ Answers
        BY <1>9, <2>1, TellTakes DEF HandleSubscribe, HandleUpdate
    <2> QED BY <1>1, <1>9, <2>2 DEF HandleSubscribe, HandleUpdate
<1>10. CASE HandleUnsubscribe \/ HandleSetObject \/ Relay \/ onStatusRequested
    <2>1. Takes
        BY <1>10 DEF HandleUnsubscribe, HandleSetObject, Relay, onStatusRequested, Received, AboutNetworks, Takes
    <2> QED BY <1>1, <1>10, <2>1 DEF HandleUnsubscribe, HandleSetObject, Relay, onStatusRequested, toldVars
<1>11. CASE HandleNotifyNetwork
    BY <1>11, NotifyKeepsNetworks
<1>12. CASE HandleNotify
    BY <1>12, NotifyItemKeeps, OtherKeepsNetworks
<1> QED BY <1>3, <1>4, <1>5, <1>6, <1>7, <1>8, <1>9, <1>10, <1>11, <1>12 DEF Next

-----------------------------------------------------------------------------
(* Who listens, and what the daemon knows *)

Waits(q, m) == \E i \in 1 .. Len(q) : q[i] = m
Subscription(c) == [type |-> "subscribe", c |-> c, items |-> {"network"}]
\* The request of a daemon that does not have the status.
StatusRequest == [type |-> "status", updated |-> FALSE]

LEMMA WaitsAfter ==
    ASSUME NEW M, NEW q \in Seq(M), NEW x
    PROVE  Waits(Append(q, x), x)
<1> DEFINE p == Append(q, x)
           last == Len(q)
<1>1. /\ last \in Nat /\ Len(p) = last + 1 /\ p[last + 1] = x
      /\ \A i \in 1 .. last : p[i] = q[i]
    BY LenProperties
<1> HIDE DEF p, last
<1>2. last + 1 \in 1 .. Len(p)
    BY <1>1
<1> QED BY <1>1, <1>2 DEF Waits, p, last

LEMMA WaitsOn ==
    ASSUME NEW M, NEW q \in Seq(M), NEW x, NEW m, Waits(q, m)
    PROVE  Waits(Append(q, x), m)
<1> DEFINE p == Append(q, x)
<1>1. PICK i \in 1 .. Len(q) : q[i] = m
    BY DEF Waits
<1>2. i \in 1 .. Len(p) /\ p[i] = q[i]
    <2>1. Len(q) \in Nat /\ Len(p) = Len(q) + 1 /\ \A j \in 1 .. Len(q) : p[j] = q[j]
        BY LenProperties
    <2> HIDE DEF p
    <2> QED BY <2>1
<1> QED BY <1>1, <1>2 DEF Waits

LEMMA WaitsWithout ==
    ASSUME NEW M, NEW q \in Seq(M), q # <<>>, NEW m, Waits(q, m), Head(q) # m
    PROVE  Waits(Tail(q), m)
<1> DEFINE p == Tail(q)
<1>1. /\ q[1] = Head(q) /\ Len(q) \in Nat
      /\ \A i \in 1 .. Len(p) : i + 1 \in 1 .. Len(q) /\ p[i] = q[i + 1]
      /\ \A i \in 1 .. Len(q) : i = 1 \/ i - 1 \in 1 .. Len(p)
    BY RestOfQueue
<1>2. PICK i \in 1 .. Len(q) : q[i] = m
    BY DEF Waits
<1>3. i - 1 \in 1 .. Len(p) /\ p[i - 1] = q[i]
    <2>1. i - 1 \in 1 .. Len(p)
        BY <1>1, <1>2
    <2> QED BY <1>1, <1>2, <2>1
<1> QED BY <1>2, <1>3 DEF Waits

\* The observers of the adapter are subscribed to the networks, or will be when
\* their first message is handled, and stay so.
Listen ==
    \A c \in {NATIVE, XTRA} :
      c \notin replaced /\ ("network" \in mClientToDataItems[c] \/ Waits(inbox, Subscription(c)))
\* The relay brings the observer of the daemon all that it was told.
RelaysAll ==
    "network" \in DOMAIN known /\ Relays(inbox, known["network"], told[XTRA]["network"])
\* The daemon was told what its observer knows, or nothing yet; and what its
\* observer knows once that has heard that it does not have the status.
DaemonIsServed ==
    /\ DOMAIN daemon = {"asked", "view"}
    /\ "network" \in DOMAIN daemon.view /\ "network" \in DOMAIN known
    /\ daemon.view["network"] \in {NoValue, known["network"]}
    /\ ~mReqStatusReceived => daemon.view["network"] = NoValue
    /\ daemon.asked => \/ Waits(inbox, StatusRequest)
                        \/ (mReqStatusReceived /\ daemon.view["network"] = known["network"])

LEMMA InitListens == Init => Listen /\ RelaysAll /\ DaemonIsServed
<1> SUFFICES ASSUME Init PROVE Listen /\ RelaysAll /\ DaemonIsServed
    OBVIOUS
<1> DEFINE r == [type |-> "request", c |-> XTRA, items |-> {"tac"}]
<1>1. inbox = <<Subscription(XTRA), r, Subscription(NATIVE)>>
    BY DEF Init, Subscription
<1>2. Len(inbox) = 3 /\ inbox[1] = Subscription(XTRA) /\ inbox[2] = r /\ inbox[3] = Subscription(NATIVE)
    <2> HIDE DEF r
    <2> QED BY <1>1
<1>3. \A c \in {NATIVE, XTRA} : Waits(inbox, Subscription(c))
    BY <1>2 DEF Waits
<1>4. "network" \in Items /\ XTRA \in Clients
    BY SystemStatusAssumption DEF SystemStatusAssumption
<1>5. known["network"] = NoValue /\ told[XTRA]["network"] = NoValue /\ "network" \in DOMAIN known
    BY <1>4 DEF Init, Nothing
<1>6. \A i \in 1 .. Len(inbox) : ~IsRelay(inbox[i])
    BY <1>2 DEF IsRelay, Subscription
<1>7. RelaysAll
    BY <1>5, <1>6 DEF RelaysAll, Relays
<1>8. Listen
    BY <1>3 DEF Listen, Init, SubscriptionsInit
<1>9. DaemonIsServed
    BY <1>4, <1>5 DEF DaemonIsServed, Init, Nothing
<1> QED BY <1>7, <1>8, <1>9

-----------------------------------------------------------------------------
(* The steps *)

LEMMA ListenStep ==
    ASSUME InboxIsSound, SubscriptionsTypeOK, Listen, [Next]_vars
    PROVE  Listen'
<1> DEFINE m == Head(inbox)
<1>1. PICK M : inbox \in Seq(M)
    BY DEF InboxIsSound
<1> SUFFICES ASSUME NEW c \in {NATIVE, XTRA}
             PROVE  /\ c \notin replaced'
                    /\ "network" \in mClientToDataItems'[c] \/ Waits(inbox', Subscription(c))
    BY DEF Listen
<1>2. c \in Clients /\ c \notin replaced
      /\ ("network" \in mClientToDataItems[c] \/ Waits(inbox, Subscription(c)))
    BY SystemStatusAssumption DEF Listen, SystemStatusAssumption
<1>3. ASSUME UNCHANGED subscriptionVars,
             UNCHANGED inbox \/ \E x : inbox' = Append(inbox, x)
      PROVE  /\ c \notin replaced'
             /\ "network" \in mClientToDataItems'[c] \/ Waits(inbox', Subscription(c))
    BY <1>1, <1>2, <1>3, WaitsOn DEF subscriptionVars
<1>4. ASSUME inbox # <<>>, m # Subscription(c), inbox' = Tail(inbox) \/ \E x : inbox' = Append(Tail(inbox), x),
             Waits(inbox, Subscription(c))
      PROVE  Waits(inbox', Subscription(c))
    <2>1. Waits(Tail(inbox), Subscription(c)) /\ Tail(inbox) \in Seq(M)
        BY <1>1, <1>4, WaitsWithout
    <2> QED BY <1>4, <2>1, WaitsOn
<1>5. \A heard : Tell(heard) => inbox' = Tail(inbox) \/ \E x : inbox' = Append(Tail(inbox), x)
    BY DEF Tell
<1>6. ASSUME inbox # <<>>, m.type # "subscribe" PROVE m # Subscription(c)
    BY <1>6 DEF Subscription
<1>7. ASSUME inbox # <<>>, m.type \in Asks
      PROVE  /\ m.c \in Clients /\ m.items \subseteq Items
             /\ m.type \notin {"subscribe", "request"} => m.c # c
    BY <1>7, HeadIsSound DEF Sound
<1>8. CASE HandleSubscribe
    <2>1. inbox # <<>> /\ m.type \in {"subscribe", "request"} /\ m.c \in Clients
          /\ Subscribe(m.c, m.items, m.type = "request") /\ Tell(Only(m.c, m.items))
        BY <1>7, <1>8 DEF HandleSubscribe, Received, Asks
    <2>2. UNCHANGED replaced
          /\ mClientToDataItems' = [mClientToDataItems EXCEPT ![m.c] = @ \cup m.items]
        BY <2>1 DEF Subscribe
    <2>3. /\ m.c = c => m.items \subseteq mClientToDataItems'[c]
          /\ mClientToDataItems[c] \subseteq mClientToDataItems'[c]
        BY <1>2, <2>1, <2>2 DEF SubscriptionsTypeOK
    <2>4. CASE m = Subscription(c)
        BY <1>2, <2>2, <2>3, <2>4 DEF Subscription
    <2>5. CASE m # Subscription(c)
        BY <1>2, <1>4, <1>5, <2>1, <2>2, <2>3, <2>5
    <2> QED BY <2>4, <2>5
<1>9. CASE HandleUpdate
    <2>1. inbox # <<>> /\ m.type = "update" /\ m.c \in Clients /\ m.c # c
        BY <1>7, <1>9 DEF HandleUpdate, Received, Asks
    <2>2. UpdateSubscription(m.c, m.items) /\ \E heard : Tell(heard)
        BY <1>9 DEF HandleUpdate
    <2>3. c \notin replaced' /\ mClientToDataItems'[c] = mClientToDataItems[c]
        BY <1>2, <2>1, <2>2 DEF UpdateSubscription, SubscriptionsTypeOK
    <2> QED BY <1>2, <1>4, <1>5, <1>6, <2>1, <2>2, <2>3
<1>10. CASE HandleUnsubscribe
    <2>1. inbox # <<>> /\ m.type \in {"unsubscribe", "unsubscribe all"} /\ m.c \in Clients /\ m.c # c
          /\ inbox' = Tail(inbox)
        BY <1>7, <1>10 DEF HandleUnsubscribe, Received, Asks
    <2>2. Unsubscribe(m.c, m.items) \/ UnsubscribeAll(m.c)
        BY <1>10 DEF HandleUnsubscribe
    <2>3. c \notin replaced' /\ mClientToDataItems'[c] = mClientToDataItems[c]
        BY <1>2, <2>1, <2>2 DEF Unsubscribe, UnsubscribeAll, SubscriptionsTypeOK
    <2> QED BY <1>2, <1>4, <1>6, <2>1, <2>3
<1>11. CASE HandleSetObject
    <2>1. inbox # <<>> /\ m.type = "set object" /\ inbox' = Tail(inbox)
          /\ UNCHANGED <<mClientToDataItems, replaced>>
        BY <1>11 DEF HandleSetObject, SetSubscriptionObj, Received
    <2> QED BY <1>2, <1>4, <1>6, <2>1
<1>12. CASE HandleNotifyNetwork \/ HandleNotify \/ Relay \/ onStatusRequested
    <2>1. inbox # <<>> /\ m.type # "subscribe" /\ UNCHANGED subscriptionVars
        BY <1>12 DEF HandleNotifyNetwork, HandleNotify, Relay, onStatusRequested, Received
    <2>2. inbox' = Tail(inbox) \/ \E x : inbox' = Append(Tail(inbox), x)
        BY <1>5, <1>12 DEF HandleNotifyNetwork, HandleNotify, Relay, onStatusRequested
    <2> QED BY <1>2, <1>4, <1>6, <2>1, <2>2 DEF subscriptionVars
<1>13. CASE (\E n \in Networks, on \in BOOLEAN : NetworkEvent(n, on)) \/ ServiceDied \/ resetNetworkInfo
            \/ (\E i \in Items, v \in Values : OtherEvent(i, v))
            \/ (\E d \in Clients, type \in Asks, S \in SUBSET Items : Ask(d, type, S))
            \/ SetObject \/ (\E updated \in BOOLEAN : DaemonAsks(updated)) \/ DaemonRestarts \/ UNCHANGED vars
    BY <1>3, <1>13 DEF NetworkEvent, ServiceDied, resetNetworkInfo, OtherEvent, Ask, SetObject, DaemonAsks,
         DaemonRestarts, vars, statusVars, Post
<1> QED BY <1>8, <1>9, <1>10, <1>11, <1>12, <1>13 DEF Next

\* What the observer of the daemon is told goes by a relay of its own.
LEMMA TellRelays ==
    ASSUME InboxIsSound, RelaysAll, inbox # <<>>, ~IsRelay(Head(inbox)), NEW heard, Tell(heard),
           UNCHANGED known
    PROVE  RelaysAll'
<1>1. PICK M : inbox \in Seq(M)
    BY DEF InboxIsSound
<1>2. "network" \in Items /\ XTRA \in Clients
    BY SystemStatusAssumption DEF SystemStatusAssumption
<1> DEFINE sent == {i \in heard[XTRA] : mDataItemCache'[i] # NoValue}
           relay == [type |-> "relay", values |-> [i \in sent |-> mDataItemCache'[i]]]
<1>3. told'[XTRA]["network"] = IF "network" \in sent THEN mDataItemCache'["network"] ELSE told[XTRA]["network"]
    BY <1>2, TellEffect
<1>4. inbox' = IF sent = {} THEN Tail(inbox) ELSE Append(Tail(inbox), relay)
    BY DEF Tell, Sent
<1>5. /\ IsRelay(relay) <=> "network" \in sent
      /\ "network" \in sent => relay.values["network"] = mDataItemCache'["network"]
    BY DEF IsRelay
<1> HIDE DEF sent, relay
<1>6. Relays(Tail(inbox), known["network"], told[XTRA]["network"]) /\ Tail(inbox) \in Seq(M)
    BY <1>1, RelaysWithout, RestOfQueue DEF RelaysAll
<1>7. CASE "network" \in sent
    <2>1. inbox' = Append(Tail(inbox), relay) /\ IsRelay(relay)
          /\ relay.values["network"] = told'[XTRA]["network"]
        BY <1>3, <1>4, <1>5, <1>7
    <2>2. Relays(Append(Tail(inbox), relay), known["network"], told'[XTRA]["network"])
        BY <1>6, <2>1, RelaysAfterRelay
    <2> QED BY <2>1, <2>2 DEF RelaysAll
<1>8. CASE "network" \notin sent
    <2>1. told'[XTRA]["network"] = told[XTRA]["network"] /\ ~IsRelay(relay)
        BY <1>3, <1>5, <1>8
    <2>2. Relays(Append(Tail(inbox), relay), known["network"], told[XTRA]["network"])
        BY <1>6, <2>1, RelaysAfterOther
    <2> QED BY <1>4, <1>6, <2>1, <2>2 DEF RelaysAll
<1> QED BY <1>7, <1>8

LEMMA RelayStep ==
    ASSUME InboxIsSound, RelaysAll, [Next]_vars
    PROVE  RelaysAll'
<1>1. PICK M : inbox \in Seq(M)
    BY DEF InboxIsSound
<1> DEFINE m == Head(inbox)
           now == known["network"]
           last == told[XTRA]["network"]
<1>2. Relays(inbox, now, last) /\ "network" \in DOMAIN known
    BY DEF RelaysAll
<1>3. ASSUME UNCHANGED <<known, told>>,
             UNCHANGED inbox \/ \E x : ~IsRelay(x) /\ inbox' = Append(inbox, x)
      PROVE  RelaysAll'
    BY <1>1, <1>2, <1>3, RelaysAfterOther DEF RelaysAll
<1>4. ASSUME UNCHANGED <<known, told>>, inbox # <<>>, ~IsRelay(m), inbox' = Tail(inbox)
      PROVE  RelaysAll'
    BY <1>1, <1>2, <1>4, RelaysWithout DEF RelaysAll
<1>5. CASE (\E n \in Networks, on \in BOOLEAN : NetworkEvent(n, on)) \/ ServiceDied \/ resetNetworkInfo
            \/ (\E i \in Items, v \in Values : OtherEvent(i, v))
            \/ SetObject \/ (\E updated \in BOOLEAN : DaemonAsks(updated)) \/ DaemonRestarts \/ UNCHANGED vars
    BY <1>3, <1>5 DEF NetworkEvent, ServiceDied, resetNetworkInfo, OtherEvent, SetObject, DaemonAsks,
         DaemonRestarts, vars, statusVars, Post, xtraVars, toldVars, IsRelay
<1>6. CASE \E d \in Clients, type \in Asks, S \in SUBSET Items : Ask(d, type, S)
    <2>1. PICK d \in Clients, type \in Asks, S \in SUBSET Items : Ask(d, type, S)
        BY <1>6
    <2>2. ~IsRelay([type |-> type, c |-> d, items |-> S])
        BY DEF IsRelay, Asks
    <2> QED BY <1>3, <2>1, <2>2 DEF Ask, Post, xtraVars, toldVars
<1>7. CASE HandleSubscribe \/ HandleUpdate
    <2>1. inbox # <<>> /\ ~IsRelay(m) /\ UNCHANGED known /\ \E heard : Tell(heard)
        BY <1>7 DEF HandleSubscribe, HandleUpdate, Received, IsRelay, xtraVars
    <2> QED BY <2>1, TellRelays
<1>8. CASE HandleNotifyNetwork \/ HandleNotify
    <2>1. inbox # <<>> /\ ~IsRelay(m) /\ UNCHANGED known
          /\ ((\E heard : Tell(heard)) \/ (UNCHANGED told /\ inbox' = Tail(inbox)))
        BY <1>8 DEF HandleNotifyNetwork, HandleNotify, Received, IsRelay, xtraVars, toldVars
    <2> QED BY <1>4, <2>1, TellRelays
<1>9. CASE HandleUnsubscribe \/ HandleSetObject \/ onStatusRequested
    BY <1>4, <1>9
    DEF HandleUnsubscribe, HandleSetObject, onStatusRequested, Received, IsRelay, xtraVars, toldVars
<1>10. CASE Relay
    <2> DEFINE values == m.values
    <2>1. inbox # <<>> /\ m.type = "relay" /\ known' = Over(values, known) /\ inbox' = Tail(inbox) /\ UNCHANGED told
        BY <1>10 DEF Relay, Received, toldVars
    <2>2. "network" \in DOMAIN known'
          /\ known'["network"] = IF "network" \in DOMAIN values THEN values["network"] ELSE known["network"]
        BY <1>2, <2>1 DEF Over
    <2>3. known'["network"] = IF IsRelay(m) THEN m.values["network"] ELSE known["network"]
        BY <2>1, <2>2 DEF IsRelay
    <2>4. Relays(Tail(inbox), known'["network"], last)
        BY <1>1, <1>2, <2>1, <2>3, RelaysWithout
    <2> QED BY <2>1, <2>2, <2>4 DEF RelaysAll
<1> QED BY <1>5, <1>6, <1>7, <1>8, <1>9, <1>10 DEF Next

LEMMA DaemonStep ==
    ASSUME InboxIsSound, DaemonIsServed, [Next]_vars
    PROVE  DaemonIsServed'
<1>1. PICK M : inbox \in Seq(M)
    BY DEF InboxIsSound
<1> DEFINE m == Head(inbox)
<1>2. ASSUME UNCHANGED <<known, daemon, mReqStatusReceived>>,
             UNCHANGED inbox \/ \E x : inbox' = Append(inbox, x)
      PROVE  DaemonIsServed'
    BY <1>1, <1>2, WaitsOn DEF DaemonIsServed
<1>3. ASSUME inbox # <<>>, m # StatusRequest, Waits(inbox, StatusRequest),
             inbox' = Tail(inbox) \/ \E x : inbox' = Append(Tail(inbox), x)
      PROVE  Waits(inbox', StatusRequest)
    <2>1. Waits(Tail(inbox), StatusRequest) /\ Tail(inbox) \in Seq(M)
        BY <1>1, <1>3, WaitsWithout
    <2> QED BY <1>3, <2>1, WaitsOn
<1>4. \A heard : Tell(heard) => inbox' = Tail(inbox) \/ \E x : inbox' = Append(Tail(inbox), x)
    BY DEF Tell
<1>5. inbox # <<>> /\ m.type # "status" => m # StatusRequest
    BY DEF StatusRequest
<1>6. CASE (\E n \in Networks, on \in BOOLEAN : NetworkEvent(n, on)) \/ ServiceDied \/ resetNetworkInfo
            \/ (\E i \in Items, v \in Values : OtherEvent(i, v))
            \/ (\E d \in Clients, type \in Asks, S \in SUBSET Items : Ask(d, type, S))
            \/ SetObject \/ UNCHANGED vars
    BY <1>2, <1>6 DEF NetworkEvent, ServiceDied, resetNetworkInfo, OtherEvent, Ask, SetObject,
         vars, statusVars, Post, xtraVars
<1>7. CASE \E updated \in BOOLEAN : DaemonAsks(updated)
    <2>1. PICK updated \in BOOLEAN : DaemonAsks(updated)
        BY <1>7
    <2>2. /\ inbox' = Append(inbox, [type |-> "status", updated |-> updated])
          /\ DOMAIN daemon' = DOMAIN daemon /\ daemon'.view = daemon.view
          /\ daemon'.asked <=> daemon.asked \/ ~updated
          /\ UNCHANGED <<known, mReqStatusReceived>>
        BY <2>1 DEF DaemonAsks, Post, DaemonIsServed
    <2>3. CASE updated
        BY <1>1, <2>2, <2>3, WaitsOn DEF DaemonIsServed
    <2>4. CASE ~updated
        <3>1. inbox' = Append(inbox, StatusRequest)
            BY <2>2, <2>4 DEF StatusRequest
        <3>2. Waits(inbox', StatusRequest)
            BY <1>1, <3>1, WaitsAfter
        <3> QED BY <2>2, <3>2 DEF DaemonIsServed
    <2> QED BY <2>3, <2>4
<1>8. CASE DaemonRestarts
    <2>1. "network" \in Items
        BY SystemStatusAssumption DEF SystemStatusAssumption
    <2> QED BY <1>8, <2>1 DEF DaemonRestarts, DaemonIsServed, Nothing
<1>9. CASE HandleSubscribe \/ HandleUpdate \/ HandleNotifyNetwork \/ HandleNotify
           \/ HandleUnsubscribe \/ HandleSetObject
    <2>1. inbox # <<>> /\ m.type # "status" /\ UNCHANGED <<known, daemon, mReqStatusReceived>>
        BY <1>9 DEF HandleSubscribe, HandleUpdate, HandleNotifyNetwork, HandleNotify, HandleUnsubscribe,
             HandleSetObject, Received, xtraVars
    <2>2. inbox' = Tail(inbox) \/ \E x : inbox' = Append(Tail(inbox), x)
        BY <1>4, <1>9 DEF HandleSubscribe, HandleUpdate, HandleNotifyNetwork, HandleNotify, HandleUnsubscribe,
             HandleSetObject
    <2> QED BY <1>3, <1>5, <2>1, <2>2 DEF DaemonIsServed
<1>10. CASE Relay
    <2> DEFINE values == m.values
    <2>1. /\ inbox # <<>> /\ m.type # "status" /\ inbox' = Tail(inbox) /\ UNCHANGED mReqStatusReceived
          /\ known' = Over(values, known)
          /\ daemon' = IF mReqStatusReceived THEN [daemon EXCEPT !.view = Over(values, @)] ELSE daemon
        BY <1>10 DEF Relay, Received
    <2> HIDE DEF values
    <2>2. /\ DOMAIN daemon' = DOMAIN daemon /\ daemon'.asked = daemon.asked
          /\ daemon'.view = IF mReqStatusReceived THEN Over(values, daemon.view) ELSE daemon.view
        BY <2>1 DEF DaemonIsServed
    <2>3. \A old : "network" \in DOMAIN old =>
            /\ "network" \in DOMAIN Over(values, old)
            /\ Over(values, old)["network"] =
                 IF "network" \in DOMAIN values THEN values["network"] ELSE old["network"]
        BY DEF Over
    <2>4. daemon.asked => \/ Waits(inbox', StatusRequest)
                          \/ (mReqStatusReceived /\ daemon.view["network"] = known["network"])
        BY <1>3, <1>5, <2>1 DEF DaemonIsServed
    <2> QED BY <2>1, <2>2, <2>3, <2>4 DEF DaemonIsServed
<1>11. CASE onStatusRequested
    <2>1. /\ inbox # <<>> /\ inbox' = Tail(inbox) /\ mReqStatusReceived' = TRUE /\ UNCHANGED known
          /\ daemon' = IF m.updated THEN daemon ELSE [daemon EXCEPT !.view = known]
        BY <1>11 DEF onStatusRequested, Received
    <2>2. CASE m.updated
        <3>1. m # StatusRequest
            BY <2>2 DEF StatusRequest
        <3> QED BY <1>3, <2>1, <2>2, <3>1 DEF DaemonIsServed
    <2>3. CASE ~m.updated
        BY <2>1, <2>3 DEF DaemonIsServed
    <2> QED BY <2>2, <2>3
<1> QED BY <1>6, <1>7, <1>8, <1>9, <1>10, <1>11 DEF Next

\* Once all is handled, if none of the faults has happened that
\* ConnectivityIsTrue names, NativeAgpsHandler knows whether a mobile network is
\* connected, and the daemon knows the networks that are, unless it was told
\* nothing since it restarted, saying that its status was updated
\* (XtraSystemStatusObserver::onStatusRequested); in whatever order the events,
\* deaths of the framework and restarts of the daemon came, as long as there are
\* no more networks than handles.
THEOREM ConnectivityStaysTrue ==
    ASSUME IsFiniteSet(Networks), MaxHandles >= Cardinality(Networks)
    PROVE  Spec => []ConnectivityIsTrue
<1> DEFINE Sees == /\ NetworksInStep /\ CacheIsNewest /\ Listen /\ RelaysAll /\ DaemonIsServed
<1>1. Spec => []SubscriptionsTypeOK /\ []MapsAreInverse
    BY ObserverImplementsSubscriptions, SubscriptionsInStep, PTL
<1>2. Init => Sees
    BY InitNetworks, InitListens
<1>3. Sees /\ ToldInv /\ SubscriptionsTypeOK /\ InboxIsSound /\ TableIsSound /\ [Next]_vars => Sees'
    BY NetworksStep, ListenStep, RelayStep, DaemonStep DEF ToldInv
<1>4. Sees /\ ToldInv /\ TableIsSound => ConnectivityIsTrue
    <2> SUFFICES ASSUME Sees, ToldInv, TableIsSound, Quiet, faults = {}
                 PROVE  /\ IsMobile(told[NATIVE]["network"]) <=> \E n \in connected : TypeOf[n] = TYPE_MOBILE
                        /\ IF daemon.view["network"] = NoValue THEN daemon.asked => connected = {}
                           ELSE /\ ToSet(daemon.view["network"].handles) = connected
                                /\ daemon.view["network"].types = {TypeOf[n] : n \in connected}
        BY DEF ConnectivityIsTrue
    <2>1. Len(inbox) = 0 /\ resetting = 0
        BY DEF Quiet
    <2>2. \A m : ~Waits(inbox, m)
        BY <2>1 DEF Waits
    <2>3. \A c \in {NATIVE, XTRA} : told[c]["network"] = mDataItemCache["network"]
        BY <2>2, SystemStatusAssumption DEF Listen, ToldInv, SubscribersAreTold, SystemStatusAssumption
    <2>4. InStep(inbox, report, connected, 0)
        BY <2>1 DEF NetworksInStep
    <2>5. \A n \in Networks : n \in HandlesOf(report) <=> n \in connected
        <3>1. \A n : NoneAfter(inbox, 0, n)
            BY <2>1 DEF NoneAfter
        <3> QED BY <2>4, <3>1 DEF InStep, Settles, Unreset
    <2>6. HandlesOf(report) \subseteq Networks /\ connected \subseteq Networks
        <3>1. CASE report = <<>>
            BY <3>1 DEF HandlesOf, TableIsSound
        <3>2. CASE report # <<>>
            <4>1. Last(report) \in NetworkInfos
                BY <3>2, EmptySeq, LenProperties, ElementOfSeq DEF Last, TableIsSound
            <4>2. Last(report).handles \in Seq(Networks)
                BY <4>1 DEF NetworkInfos
            <4>3. HandlesOf(report) \subseteq Networks
                BY <3>2, <4>2, ToSetIsIndexed DEF HandlesOf
            <4> QED BY <4>3 DEF TableIsSound
        <3> QED BY <3>1, <3>2
    <2>7. HandlesOf(report) = connected
        BY <2>5, <2>6
    <2>8. IF report = <<>> THEN mDataItemCache["network"] = NoValue /\ connected = {}
          ELSE /\ mDataItemCache["network"] # NoValue
               /\ mDataItemCache["network"].types = Types(connected)
               /\ ToSet(mDataItemCache["network"].handles) = connected
        BY <2>4, <2>7 DEF CacheIsNewest, InStep, ReportIsTrue, HandlesOf
    <2>9. /\ daemon.view["network"] \in {NoValue, mDataItemCache["network"]}
          /\ daemon.asked => daemon.view["network"] = mDataItemCache["network"]
        <3>1. known["network"] = told[XTRA]["network"]
            BY <2>1 DEF RelaysAll, Relays, NoRelayAfter
        <3> QED BY <2>2, <2>3, <3>1 DEF DaemonIsServed
    <2> QED BY <2>3, <2>8, <2>9 DEF IsMobile, Types
<1> HIDE DEF Sees
<1> QED BY <1>1, <1>2, <1>3, <1>4, InitIsSound, InitTold, ToldStep, StepIsSound, TableStep, PTL DEF Spec
=============================================================================
