---------------------------- MODULE Subscriptions ----------------------------
(***************************************************************************)
(* Who has subscribed to what: the two maps of SystemStatusOsObserver, one *)
(* from clients to data items and one from data items to clients, each a   *)
(* LocUnorderedSetMap, and the subscriptions of the observer with the      *)
(* framework, whose object may be set late.  An entry of a                 *)
(* LocUnorderedSetMap is erased when it is empty, so that no entry and an  *)
(* empty one are the same here.                                            *)
(*                                                                         *)
(* Every operation is a message of the one message thread and handled at   *)
(* once.  What the clients are told is left to SystemStatus.               *)
(***************************************************************************)
EXTENDS FiniteSets

CONSTANTS
    Clients,   \* IDataItemObserver objects
    Items      \* data item ids

VARIABLES
    mClientToDataItems,  \* client -> its data items
    mDataItemToClients,  \* data item -> its clients
    fwk,         \* the subscription object: set or not, and what it was asked for
    requested,   \* history: items the framework was only asked once to send
    replaced     \* history: clients that replaced a subscription they had

subscriptionVars == <<mClientToDataItems, mDataItemToClients, fwk, requested, replaced>>

SubscriptionsTypeOK ==
    /\ mClientToDataItems \in [Clients -> SUBSET Items]
    /\ mDataItemToClients \in [Items -> SUBSET Clients]
    /\ fwk \in [set : BOOLEAN, subscribed : SUBSET Items]
    /\ requested \subseteq Items
    /\ replaced \subseteq Clients

SubscriptionsInit ==
    /\ mClientToDataItems = [c \in Clients |-> {}]
    /\ mDataItemToClients = [i \in Items |-> {}]
    /\ fwk = [set |-> FALSE, subscribed |-> {}]
    /\ requested = {} /\ replaced = {}

-----------------------------------------------------------------------------
(* LocUnorderedSetMap                                                      *)

\* The keys of the map of data items.
Keys == {i \in Items : mDataItemToClients[i] # {}}
\* What add and trimOrRemove make of it for one client, and the keys that are
\* new or gone by that.
Added(map, S, c) == [i \in Items |-> IF i \in S THEN map[i] \cup {c} ELSE map[i]]
Trimmed(map, S, c) == [i \in Items |-> IF i \in S THEN map[i] \ {c} ELSE map[i]]
NewKeys(S) == {i \in S : mDataItemToClients[i] = {}}
GoneKeys(S, c) == {i \in S : mDataItemToClients[i] = {c}}

-----------------------------------------------------------------------------
(* SystemStatusOsObserver                                                  *)

\* Faulty variant: the data that was asked for before is not asked for again.
SetSubscriptionObjOnly ==
    /\ fwk' = [fwk EXCEPT !.set = TRUE]
    /\ UNCHANGED <<mClientToDataItems, mDataItemToClients, requested, replaced>>

\* The framework is asked for all that was subscribed to before it was there.
SetSubscriptionObj ==
    /\ fwk' = [set |-> TRUE, subscribed |-> fwk.subscribed \cup Keys]
    /\ requested' = {}
    /\ UNCHANGED <<mClientToDataItems, mDataItemToClients, replaced>>

\* A subscription, or a request for data.  The latter subscribes the client
\* but not the observer.
Subscribe(c, S, toRequestData) ==
    /\ mDataItemToClients' = Added(mDataItemToClients, S, c)
    /\ mClientToDataItems' = [mClientToDataItems EXCEPT ![c] = @ \cup S]
    /\ fwk' = IF fwk.set /\ ~toRequestData
              THEN [fwk EXCEPT !.subscribed = @ \cup NewKeys(S)] ELSE fwk
    /\ requested' = IF fwk.set /\ toRequestData
                    THEN requested \cup NewKeys(S) ELSE requested
    /\ UNCHANGED replaced

\* The keys that went are unsubscribed with the framework.
Withdrawn(gone) ==
    /\ fwk' = IF fwk.set THEN [fwk EXCEPT !.subscribed = @ \ gone] ELSE fwk
    /\ requested' = requested \ gone

\* Faulty variant: what the client never had counts as well.
UnsubscribeBlindly(c, S) ==
    /\ mClientToDataItems' = [mClientToDataItems EXCEPT ![c] = @ \ S]
    /\ mDataItemToClients' = [i \in Items |-> IF i \in S THEN {} ELSE mDataItemToClients[i]]
    /\ Withdrawn(S)
    /\ UNCHANGED replaced

Unsubscribe(c, S) ==
    LET unused == mClientToDataItems[c] \cap S
    IN  /\ mClientToDataItems' = [mClientToDataItems EXCEPT ![c] = @ \ S]
        /\ mDataItemToClients' = Trimmed(mDataItemToClients, unused, c)
        /\ Withdrawn(GoneKeys(unused, c))
        /\ UNCHANGED replaced

UnsubscribeAll(c) ==
    LET all == mClientToDataItems[c]
    IN  /\ mClientToDataItems' = [mClientToDataItems EXCEPT ![c] = {}]
        /\ mDataItemToClients' = Trimmed(mDataItemToClients, all, c)
        /\ Withdrawn(GoneKeys(all, c))
        /\ UNCHANGED replaced

\* LocUnorderedSetMap::update returns the items the client had and has, not
\* those it had and has no more, and removes them from the new ones.  It erases
\* from the set it iterates over, so that how many it finds is not determined.
Common(c, S) ==
    LET both == mClientToDataItems[c] \cap S
    IN  IF both = {} THEN {{}} ELSE (SUBSET both) \ {{}}
UpdateSubscription(c, S) ==
    \E common \in Common(c, S) :
      LET added == S \ common
          trimmed == Trimmed(mDataItemToClients, common, c)
          gone == GoneKeys(common, c)
          new == {i \in added : trimmed[i] = {}}
      IN  /\ mClientToDataItems' = [mClientToDataItems EXCEPT ![c] = S]
          /\ mDataItemToClients' = Added(trimmed, added, c)
          /\ fwk' = IF fwk.set
                    THEN [fwk EXCEPT !.subscribed = (@ \cup new) \ gone] ELSE fwk
          /\ requested' = requested \ gone
          /\ replaced' = IF mClientToDataItems[c] = {} THEN replaced ELSE replaced \cup {c}

-----------------------------------------------------------------------------
SubscriptionsNext ==
    \/ SetSubscriptionObj
    \/ \E c \in Clients, S \in SUBSET Items, toRequestData \in BOOLEAN :
         Subscribe(c, S, toRequestData)
    \/ \E c \in Clients, S \in SUBSET Items : Unsubscribe(c, S)
    \/ \E c \in Clients : UnsubscribeAll(c)
    \/ \E c \in Clients, S \in SUBSET Items : UpdateSubscription(c, S)

SubscriptionsSpec == SubscriptionsInit /\ [][SubscriptionsNext]_subscriptionVars

-----------------------------------------------------------------------------
(* Properties *)

\* The two maps are the inverse of each other, for every client that has not
\* replaced a subscription it had: updateSubscription then removes it from the
\* items that it keeps, and keeps it at those that it drops
\* (SystemStatusOsObserver.cpp:158).
MapsAreInverse ==
    \A c \in Clients \ replaced, i \in Items :
      i \in mClientToDataItems[c] <=> c \in mDataItemToClients[i]

\* Once the framework's object is there, exactly the items with clients are
\* subscribed with it, but for those that somebody requested before anybody
\* subscribed: they are never subscribed, whoever subscribes to them later
\* (SystemStatusOsObserver.cpp:107).
FrameworkServes == fwk.set => fwk.subscribed = Keys \ requested
=============================================================================
