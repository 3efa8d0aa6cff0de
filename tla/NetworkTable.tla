---------------------------- MODULE NetworkTable ----------------------------
(***************************************************************************)
(* What SystemStatus knows of the networks: an event about one network is  *)
(* collated with the last report, which has the types and the handles of   *)
(* all that are connected, and is a report of its own when that made a     *)
(* difference.  A network stands for its handle; the array of handles is   *)
(* the sequence of those that are known.                                   *)
(***************************************************************************)
EXTENDS Integers, SequencesExt

CONSTANTS
    Networks,    \* handles of networks
    TypeOf,      \* the type of each: TYPE_MOBILE or another
    TYPE_MOBILE,
    ApnOf,       \* the access point name of each, NoApn for other than mobile
    NoApn,
    MaxHandles,  \* MAX_NETWORK_HANDLES
    maxItem      \* reports that are kept

ASSUME NetworkTableAssumption ==
    /\ DOMAIN TypeOf = Networks /\ DOMAIN ApnOf = Networks
    /\ \A n \in Networks : TypeOf[n] # TYPE_MOBILE => ApnOf[n] = NoApn
    /\ MaxHandles \in Nat \ {0} /\ maxItem \in Nat \ {0}

NetworkInfos ==
    [network : Networks, connected : BOOLEAN, types : SUBSET {TypeOf[n] : n \in Networks},
     handles : Seq(Networks), apn : {ApnOf[n] : n \in Networks} \cup {NoApn}]

\* The data item of an event, before it is collated.
NetworkInfo(n, connected) ==
    [network |-> n, connected |-> connected, types |-> {TypeOf[n]}, handles |-> <<n>>,
     apn |-> ApnOf[n]]

Plus(handles, n) ==
    IF n \in ToSet(handles) \/ Len(handles) = MaxHandles THEN handles ELSE Append(handles, n)
\* The last handle takes the place of the one that went.
Minus(handles, n) ==
    LET last == Len(handles)
    IN  IF n \notin ToSet(handles) THEN handles
        ELSE SubSeq([i \in 1 .. last |-> IF handles[i] = n THEN handles[last] ELSE handles[i]],
                    1, last - 1)
\* Handles of the type of n that stay when n goes.
SameType(handles, n) == {m \in ToSet(handles) \ {n} : TypeOf[m] = TypeOf[n]}

\* Faulty variant: the handle stays.
CollateTypesOnly(item, cur) ==
    [item EXCEPT
       !.apn = IF TypeOf[item.network] # TYPE_MOBILE /\ cur.apn # NoApn THEN cur.apn ELSE @,
       !.handles = IF item.connected THEN Plus(cur.handles, item.network) ELSE cur.handles,
       !.types = IF item.connected THEN cur.types \cup @ ELSE cur.types \ @]

\* SystemStatusNetworkInfo::collate.  When another network of the type stays,
\* the types are left as those of the event alone.
collate(item, cur) ==
    [item EXCEPT
       !.apn = IF TypeOf[item.network] # TYPE_MOBILE /\ cur.apn # NoApn THEN cur.apn ELSE @,
       !.handles = IF item.connected THEN Plus(cur.handles, item.network)
                   ELSE Minus(cur.handles, item.network),
       !.types = IF item.connected THEN cur.types \cup @
                 ELSE IF SameType(cur.handles, item.network) = {} THEN cur.types \ @ ELSE @]

Equals(x, y) ==
    x.types = y.types /\ x.connected = y.connected /\ x.handles = y.handles /\ x.apn = y.apn

\* SystemStatus::setIteminReport
Newest(report, item) == IF report = <<>> THEN item ELSE collate(item, Last(report))
Updates(report, item) == report = <<>> \/ ~Equals(Last(report), Newest(report, item))
Kept(report) == IF Len(report) > maxItem THEN Tail(report) ELSE report
setIteminReport(report, item) ==
    IF Updates(report, item) THEN Kept(Append(report, Newest(report, item))) ELSE report
=============================================================================
