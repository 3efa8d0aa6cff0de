-------------------------- MODULE Geofence_proofs --------------------------
(***************************************************************************)
(* The maps of the geofence adapter, the modem and what the clients were   *)
(* told stay in step, for any clients, geofences, hwIds and loads.         *)
(*                                                                         *)
(* A step is first put in a form that does not name its handler: a message *)
(* is posted, the adapter handles the first of its inbox and sends some    *)
(* calls, or a call is taken and answered.  Then each part of the          *)
(* invariant is kept by each form.  The modem is ahead of the map by the   *)
(* messages of the inbox, so that most parts speak of what holds once the  *)
(* first k of them are handled: the last message that touches an entry     *)
(* decides, and if none does, the map as it is.                            *)
(***************************************************************************)
EXTENDS Geofence, SequenceTheorems, FiniteSetTheorems, WellFoundedInduction, FunctionTheorems, TLAPS

-----------------------------------------------------------------------------
(* Messages and types                                                      *)

\* The messages of the adapter and of LocApi's thread, and what is sound of
\* each: a call of a command names no hwId before it is performed, a good answer
\* does.
Types == {"command", "return", "perform", "call", "answer", "remove client",
          "client fence removed", "engine up", "restored", "paused again", "breach"}
Somebody == CHOOSE c \in Clients : TRUE
Messages ==
    [type : Types, kind : Kinds, c : Clients \cup {Somebody}, session : 0 .. MaxAdds,
     hw : HwIds \cup {NoHwId}, paused : BOOLEAN, options : {"old", "new"}, ok : BOOLEAN]
OfCommands == {"command", "return", "perform"}
Sound(m) ==
    /\ m.type # "engine up" => m.c \in Clients
    /\ m.type \in OfCommands => ~m.paused /\ m.hw = NoHwId /\ m.ok
    /\ m.type \notin {"remove client", "engine up"} => m.session \in Sessions
    /\ m.type = "call" =>
         /\ m.ok
         /\ m.kind # "add" => m.hw \in HwIds
         /\ m.paused => m.kind \in {"remove", "pause"} \/ (m.kind = "add" /\ m.hw # NoHwId)
    /\ m.type \in {"answer", "restored"} /\ m.ok => m.hw \in HwIds
    /\ m.type = "restored" => m.kind = "add"
    /\ m.type = "client fence removed" => m.kind = "remove" /\ m.hw \in HwIds
    /\ m.type = "paused again" => m.kind = "pause" /\ m.hw \in HwIds
    /\ m.type \in {"breach", "engine up"} => m.kind = "add"
    /\ m.type = "breach" => m.hw \in HwIds
    /\ m.type = "remove client" => m.kind = "remove"
Inbound == {m \in Messages : Sound(m) /\ m.type \notin {"return", "call"}}
Outbound == {m \in Messages : Sound(m) /\ m.type \in {"return", "call"}}
Requests == [kind : Kinds, session : Sessions]

\* Every variable in its set, the queues included.
MapsTyped ==
    /\ mGeofences \in [DOMAIN mGeofences -> Fences] /\ DOMAIN mGeofences \in SUBSET HwIds
    /\ mGeofenceIds \in [DOMAIN mGeofenceIds -> HwIds] /\ DOMAIN mGeofenceIds \in SUBSET Keys
ModemTyped ==
    /\ modem \in [up : BOOLEAN, fences : {modem.fences}]
    /\ modem.fences \in [DOMAIN modem.fences -> Fences] /\ DOMAIN modem.fences \in SUBSET HwIds
QueuesTyped == inbox \in Seq(Inbound) /\ calls \in Seq(Outbound)
ClientsTyped ==
    /\ load \in Loads /\ clients \in SUBSET Clients /\ toldPaused \in SUBSET Keys
    /\ dict \in [Clients -> PartialFunctions(Ids, Sessions)]
    /\ queue \in [Clients -> Seq(Requests)]
    /\ next \in 1 .. MaxAdds + 1
    /\ mishaps \in SUBSET Mishaps /\ lost \in SUBSET Keys /\ refused \in SUBSET Keys
Typed == MapsTyped /\ ModemTyped /\ QueuesTyped /\ ClientsTyped

\* The type invariant of the module follows.
LEMMA TypedIsOK == ASSUME Typed PROVE TypeOK
<1>1. load \in Loads /\ clients \subseteq Clients /\ toldPaused \subseteq Keys /\ next \in 1 .. MaxAdds + 1 /\ mishaps \subseteq Mishaps
      /\ lost \subseteq Keys /\ refused \subseteq Keys
    BY DEF Typed, ClientsTyped
<1>2. DOMAIN dict = Clients /\ DOMAIN queue = Clients
    BY DEF Typed, ClientsTyped
<1>3. ASSUME NEW c \in Clients
      PROVE  /\ \A id \in DOMAIN dict[c] : id \in Ids /\ dict[c][id] \in Sessions
             /\ \A i \in DOMAIN queue[c] : queue[c][i].kind \in Kinds
    <2>1. dict[c] \in PartialFunctions(Ids, Sessions) /\ queue[c] \in Seq(Requests)
        BY DEF Typed, ClientsTyped
    <2>2. \A id \in DOMAIN dict[c] : id \in Ids /\ dict[c][id] \in Sessions
        BY <2>1 DEF PartialFunctions
    <2>3. \A i \in DOMAIN queue[c] : queue[c][i] \in Requests
        BY <2>1
    <2> QED BY <2>2, <2>3 DEF Requests
<1>4. /\ \A hw \in DOMAIN mGeofences : hw \in HwIds /\ mGeofences[hw] \in Fences
      /\ \A key \in DOMAIN mGeofenceIds : key \in Keys /\ mGeofenceIds[key] \in HwIds
    BY DEF Typed, MapsTyped
<1>5. modem.up \in BOOLEAN /\ \A hw \in DOMAIN modem.fences : hw \in HwIds /\ modem.fences[hw] \in Fences
    BY DEF Typed, ModemTyped
<1> QED BY <1>1, <1>2, <1>3, <1>4, <1>5 DEF TypeOK

LEMMA Constants ==
    /\ NoHwId \notin HwIds /\ NoSession \in 0 .. MaxAdds /\ Sessions \subseteq 0 .. MaxAdds
    /\ MaxAdds \in Nat /\ HwIds \subseteq Nat /\ IsFiniteSet(HwIds) /\ IsFiniteSet(Clients)
    /\ Keys = Clients \X Sessions /\ NoSession \notin Sessions
BY GeofenceAssumption DEF GeofenceAssumption, NoHwId, NoSession, Sessions, Keys

LEMMA MessageIs ==
    ASSUME NEW type \in Types, NEW kind \in Kinds, NEW c \in Clients \cup {Somebody}, NEW session \in 0 .. MaxAdds
    PROVE  Message(type, kind, c, session) \in Messages
BY Constants DEF Message, Messages

\* A queue without its head.
LEMMA RestOfQueue ==
    ASSUME NEW M, NEW q \in Seq(M), q # <<>>
    PROVE  /\ Head(q) \in M /\ Tail(q) \in Seq(M) /\ Len(q) \in Nat \ {0}
           /\ Len(Tail(q)) = Len(q) - 1
           /\ \A i \in 1 .. Len(q) - 1 : Tail(q)[i] = q[i + 1]
           /\ Head(q) = q[1]
OBVIOUS

LEMMA TypedInitially == ASSUME Init PROVE Typed
<1>1. MapsTyped
    BY DEF Init, MapsTyped
<1>2. ModemTyped
    BY DEF Init, ModemTyped
<1>3. QueuesTyped
    BY DEF Init, QueuesTyped
<1>4. ClientsTyped
    <2>1. <<>> \in PartialFunctions(Ids, Sessions)
        BY DEF PartialFunctions
    <2>2. load.clients \in SUBSET Clients
        BY GeofenceAssumption DEF GeofenceAssumption, Init
    <2> QED BY <2>1, <2>2, Constants DEF Init, ClientsTyped
<1> QED BY <1>1, <1>2, <1>3, <1>4 DEF Typed

-----------------------------------------------------------------------------
(* The maps under one operation of the adapter                             *)

\* saveGeofenceItem: both maps get the geofence, other entries stay.
LEMMA SaveMaps ==
    ASSUME MapsTyped, NEW hw \in HwIds, NEW fence \in Fences, saveGeofenceItem(hw, fence)
    PROVE  /\ MapsTyped'
           /\ DOMAIN mGeofences' = DOMAIN mGeofences \cup {hw} /\ mGeofences'[hw] = fence
           /\ \A x \in DOMAIN mGeofences : x # hw => mGeofences'[x] = mGeofences[x]
           /\ DOMAIN mGeofenceIds' = DOMAIN mGeofenceIds \cup {fence.key} /\ mGeofenceIds'[fence.key] = hw
           /\ \A key \in DOMAIN mGeofenceIds : key # fence.key => mGeofenceIds'[key] = mGeofenceIds[key]
<1>1. fence.key \in Keys
    BY DEF Fences
<1>2. \A x \in DOMAIN mGeofences : mGeofences[x] \in Fences
    BY DEF MapsTyped
<1>3. \A key \in DOMAIN mGeofenceIds : mGeofenceIds[key] \in HwIds
    BY DEF MapsTyped
<1>4. /\ mGeofences' = [z \in DOMAIN mGeofences \cup {hw} |-> IF z = hw THEN fence ELSE mGeofences[z]]
      /\ mGeofenceIds' = [z \in DOMAIN mGeofenceIds \cup {fence.key} |-> IF z = fence.key THEN hw ELSE mGeofenceIds[z]]
    BY DEF saveGeofenceItem, Put
<1>5. mGeofences' \in [DOMAIN mGeofences' -> Fences] /\ mGeofenceIds' \in [DOMAIN mGeofenceIds' -> HwIds]
    BY <1>2, <1>3, <1>4
<1>6. DOMAIN mGeofences' \in SUBSET HwIds /\ DOMAIN mGeofenceIds' \in SUBSET Keys
    BY <1>1, <1>4 DEF MapsTyped
<1> QED BY <1>4, <1>5, <1>6 DEF MapsTyped

\* removeGeofenceItem: both maps lose the geofence, or neither does.
LEMMA RemoveMaps ==
    ASSUME MapsTyped, NEW hw \in HwIds, removeGeofenceItem(hw)
    PROVE  /\ MapsTyped'
           /\ (hw \in DOMAIN mGeofences /\ mGeofences[hw].key \in DOMAIN mGeofenceIds =>
                /\ DOMAIN mGeofences' = DOMAIN mGeofences \ {hw}
                /\ DOMAIN mGeofenceIds' = DOMAIN mGeofenceIds \ {mGeofences[hw].key})
           /\ (~(hw \in DOMAIN mGeofences /\ mGeofences[hw].key \in DOMAIN mGeofenceIds) =>
                mGeofences' = mGeofences /\ mGeofenceIds' = mGeofenceIds)
           /\ \A x \in DOMAIN mGeofences' : x \in DOMAIN mGeofences /\ mGeofences'[x] = mGeofences[x]
           /\ \A key \in DOMAIN mGeofenceIds' : key \in DOMAIN mGeofenceIds /\ mGeofenceIds'[key] = mGeofenceIds[key]
<1>1. CASE hw \in DOMAIN mGeofences /\ mGeofences[hw].key \in DOMAIN mGeofenceIds
    <2>1. /\ mGeofences' = [x \in DOMAIN mGeofences \ {hw} |-> mGeofences[x]]
          /\ mGeofenceIds' = [x \in DOMAIN mGeofenceIds \ {mGeofences[hw].key} |-> mGeofenceIds[x]]
        BY <1>1 DEF removeGeofenceItem, Drop, Restrict
    <2> QED BY <1>1, <2>1 DEF MapsTyped
<1>2. CASE ~(hw \in DOMAIN mGeofences /\ mGeofences[hw].key \in DOMAIN mGeofenceIds)
    <2>1. mGeofences' = mGeofences /\ mGeofenceIds' = mGeofenceIds
        BY <1>2 DEF removeGeofenceItem
    <2> QED BY <1>2, <2>1 DEF MapsTyped
<1> QED BY <1>1, <1>2

\* pauseGeofenceItem, resumeGeofenceItem, modifyGeofenceItem: neither keys nor
\* other entries change.
LEMMA ChangeMaps ==
    ASSUME MapsTyped, NEW hw \in HwIds, NEW kind \in {"pause", "resume", "modify"}, ChangeItem(kind, hw)
    PROVE  /\ MapsTyped'
           /\ mGeofenceIds' = mGeofenceIds /\ DOMAIN mGeofences' = DOMAIN mGeofences
           /\ \A x \in DOMAIN mGeofences : mGeofences'[x].key = mGeofences[x].key
           /\ \A x \in DOMAIN mGeofences : x # hw => mGeofences'[x] = mGeofences[x]
           /\ (kind # "modify" => \A x \in DOMAIN mGeofences : mGeofences'[x].options = mGeofences[x].options)
           /\ (kind = "modify" => \A x \in DOMAIN mGeofences : mGeofences'[x].paused = mGeofences[x].paused)
           /\ (hw \in DOMAIN mGeofences =>
                 /\ kind = "pause" => mGeofences'[hw].paused
                 /\ kind = "resume" => ~mGeofences'[hw].paused
                 /\ kind = "modify" => mGeofences'[hw].options = "new")
<1>1. CASE hw \notin DOMAIN mGeofences
    <2>1. mGeofences' = mGeofences /\ mGeofenceIds' = mGeofenceIds
        BY <1>1 DEF ChangeItem
    <2> QED BY <1>1, <2>1 DEF MapsTyped
<1>2. ASSUME hw \in DOMAIN mGeofences, NEW fence, mGeofences' = [mGeofences EXCEPT ![hw] = fence], mGeofenceIds' = mGeofenceIds,
             fence \in Fences, fence.key = mGeofences[hw].key,
             kind # "modify" => fence.options = mGeofences[hw].options,
             kind = "modify" => fence.paused = mGeofences[hw].paused /\ fence.options = "new",
             kind = "pause" => fence.paused, kind = "resume" => ~fence.paused
      PROVE  /\ MapsTyped'
             /\ mGeofenceIds' = mGeofenceIds /\ DOMAIN mGeofences' = DOMAIN mGeofences
             /\ \A x \in DOMAIN mGeofences : mGeofences'[x].key = mGeofences[x].key
             /\ \A x \in DOMAIN mGeofences : x # hw => mGeofences'[x] = mGeofences[x]
             /\ (kind # "modify" => \A x \in DOMAIN mGeofences : mGeofences'[x].options = mGeofences[x].options)
             /\ (kind = "modify" => \A x \in DOMAIN mGeofences : mGeofences'[x].paused = mGeofences[x].paused)
             /\ (hw \in DOMAIN mGeofences =>
                   /\ kind = "pause" => mGeofences'[hw].paused
                   /\ kind = "resume" => ~mGeofences'[hw].paused
                   /\ kind = "modify" => mGeofences'[hw].options = "new")
    BY <1>2 DEF MapsTyped
<1>3. mGeofenceIds' = mGeofenceIds
    BY DEF ChangeItem
<1>9. hw \in DOMAIN mGeofences => mGeofences[hw] \in Fences
    BY DEF MapsTyped
<1>4. CASE hw \in DOMAIN mGeofences /\ kind = "pause"
    <2>1. mGeofences' = [mGeofences EXCEPT ![hw] = [mGeofences[hw] EXCEPT !.paused = TRUE]]
        BY <1>4 DEF ChangeItem
    <2>2. [mGeofences[hw] EXCEPT !.paused = TRUE] \in Fences
        BY <1>4, <1>9 DEF Fences
    <2> QED BY <1>2, <1>3, <1>4, <1>9, <2>1, <2>2 DEF Fences
<1>5. CASE hw \in DOMAIN mGeofences /\ kind = "resume"
    <2>1. mGeofences' = [mGeofences EXCEPT ![hw] = [mGeofences[hw] EXCEPT !.paused = FALSE]]
        BY <1>5 DEF ChangeItem
    <2>2. [mGeofences[hw] EXCEPT !.paused = FALSE] \in Fences
        BY <1>5, <1>9 DEF Fences
    <2> QED BY <1>2, <1>3, <1>5, <1>9, <2>1, <2>2 DEF Fences
<1>6. CASE hw \in DOMAIN mGeofences /\ kind = "modify"
    <2>1. mGeofences' = [mGeofences EXCEPT ![hw] = [mGeofences[hw] EXCEPT !.options = "new"]]
        BY <1>6 DEF ChangeItem
    <2>2. [mGeofences[hw] EXCEPT !.options = "new"] \in Fences
        BY <1>6, <1>9 DEF Fences
    <2> QED BY <1>2, <1>3, <1>6, <1>9, <2>1, <2>2 DEF Fences
<1> QED BY <1>1, <1>4, <1>5, <1>6

-----------------------------------------------------------------------------
(* What a handler does, to the maps and to the queues, whatever the message  *)

\* A set of naturals that is not empty has a least element.
LEMMA LeastExists ==
    ASSUME NEW S \in SUBSET Nat, S # {}
    PROVE  \E x \in S : \A y \in S : x <= y
<1> DEFINE R == OpToRel(<, Nat)
<1>1. IsWellFoundedOn(R, Nat)
    BY NatLessThanWellFounded
<1>3. \A x, y \in Nat : <<y, x>> \in R <=> y < x
    BY DEF OpToRel
<1> HIDE DEF R
<1>4. S \subseteq Nat
    OBVIOUS
<1>2. PICK x \in S : \A y \in S : ~(<<y, x>> \in R)
    BY <1>1, <1>4, WFMin, Zenon
<1>5. \A y \in S : ~(y < x)
    BY <1>2, <1>3, <1>4, Zenon
<1> QED BY <1>4, <1>5

\* MapOrder lists the keys of a map in ascending order, each once.
LEMMA MapOrderEnumerates ==
    ASSUME NEW K \in SUBSET Nat, IsFiniteSet(K)
    PROVE  /\ Cardinality(K) \in Nat
           /\ MapOrder(K) \in [1 .. Cardinality(K) -> K]
           /\ \A i, j \in 1 .. Cardinality(K) : i < j => MapOrder(K)[i] < MapOrder(K)[j]
           /\ \A s \in K : \E i \in 1 .. Cardinality(K) : MapOrder(K)[i] = s
<1> DEFINE n == Cardinality(K)
           below(s) == {t \in K : t <= s}
           rank == [s \in K |-> Cardinality(below(s))]
<1>1. n \in Nat /\ IsFiniteSet(1 .. n) /\ Cardinality(1 .. n) = n
    BY FS_CardinalityType, FS_Interval
<1>2. ASSUME NEW s \in K
      PROVE  IsFiniteSet(below(s)) /\ Cardinality(below(s)) \in 1 .. n
    <2>1. below(s) \in SUBSET K /\ s \in below(s)
        OBVIOUS
    <2> HIDE DEF below
    <2>2. IsFiniteSet(below(s)) /\ Cardinality(below(s)) <= n
        BY <2>1, FS_Subset
    <2>3. Cardinality(below(s)) \in Nat /\ Cardinality(below(s)) # 0
        BY <2>1, <2>2, FS_CardinalityType, FS_EmptySet
    <2> QED BY <1>1, <2>2, <2>3
<1>3. ASSUME NEW s \in K, NEW t \in K, s < t
      PROVE  Cardinality(below(s)) < Cardinality(below(t))
    <2>1. \A u \in K : u <= s => u <= t
        BY <1>3
    <2>3. t <= t /\ ~(t <= s)
        BY <1>3
    <2>4. below(s) \in SUBSET below(t) /\ t \in below(t) /\ t \notin below(s)
        BY <2>1, <2>3
    <2> HIDE DEF below
    <2>2. Cardinality(below(s)) <= Cardinality(below(t)) /\ Cardinality(below(s)) # Cardinality(below(t))
        BY <1>2, <2>4, FS_Subset
    <2> QED BY <1>2, <2>2
<1> HIDE DEF below
<1>4. rank \in [K -> 1 .. n]
    BY <1>2
<1>5. rank \in Injection(K, 1 .. n)
    <2>1. \A s, t \in K : rank[s] = rank[t] => s = t
        <3> SUFFICES ASSUME NEW s \in K, NEW t \in K, s # t PROVE rank[s] # rank[t]
            OBVIOUS
        <3>1. s < t \/ t < s
            OBVIOUS
        <3>2. Cardinality(below(s)) \in Nat /\ Cardinality(below(t)) \in Nat
            BY <1>2
        <3> QED BY <3>1, <3>2, <1>3
    <2> QED BY <1>4, <2>1 DEF Injection, IsInjective
<1> HIDE DEF rank
<1>6. rank \in Surjection(K, 1 .. n)
    BY <1>1, <1>5, FS_Injection
<1>7. \A i \in 1 .. n : \E s \in K : rank[s] = i
    BY <1>6 DEF Surjection
<1>8. \A i \in 1 .. n : MapOrder(K)[i] = CHOOSE s \in K : Cardinality(below(s)) = i
    BY DEF MapOrder, below
<1>9. \A i \in 1 .. n : MapOrder(K)[i] \in K /\ rank[MapOrder(K)[i]] = i
    <2>1. \A i \in 1 .. n : \E s \in K : Cardinality(below(s)) = i
        BY <1>7 DEF rank
    <2> QED BY <1>8, <2>1 DEF rank
<1>10. ASSUME NEW i \in 1 .. n, NEW j \in 1 .. n, i < j PROVE MapOrder(K)[i] < MapOrder(K)[j]
    <2> DEFINE s == MapOrder(K)[i]
           t == MapOrder(K)[j]
    <2>1. s \in K /\ t \in K /\ rank[s] = i /\ rank[t] = j
        BY <1>9
    <2> HIDE DEF s, t
    <2>2. ~(t < s)
        <3>1. t < s => Cardinality(below(t)) < Cardinality(below(s))
            BY <1>3, <2>1
        <3> QED BY <1>1, <1>10, <2>1, <3>1 DEF rank
    <2>3. s # t
        BY <1>1, <1>10, <2>1
    <2>4. s < t
        BY <2>1, <2>2, <2>3
    <2> QED BY <2>4 DEF s, t
<1>11. ASSUME NEW s \in K PROVE \E i \in 1 .. n : MapOrder(K)[i] = s
    <2>1. rank[s] \in 1 .. n
        BY <1>4
    <2>2. rank[MapOrder(K)[rank[s]]] = rank[s] /\ MapOrder(K)[rank[s]] \in K
        BY <1>9, <2>1
    <2>3. MapOrder(K)[rank[s]] = s
        BY <2>2, <1>5 DEF Injection, IsInjective
    <2> QED BY <2>1, <2>3
<1>12. MapOrder(K) \in [1 .. n -> K]
    BY <1>9 DEF MapOrder
<1> QED BY <1>1, <1>10, <1>11, <1>12

\* So the operator Min finds it.
LEMMA MinIsLeast ==
    ASSUME NEW S \in SUBSET Nat, S # {}
    PROVE  Min(S) \in S /\ \A y \in S : Min(S) <= y
BY LeastExists DEF Min

\* The geofence a message is about; what the handler of the message does to the
\* maps (MapStep) and sends to LocApi's thread (SendStep).
KeyOf(m) == <<m.c, m.session>>
Saves(m) == m.type \in {"answer", "restored"} /\ m.kind = "add" /\ m.ok
Removes(m) == m.type = "answer" /\ m.kind = "remove" /\ m.ok
Changes(m) == m.type = "answer" /\ m.kind \in {"pause", "resume", "modify"} /\ m.ok
Forgets(m) == m.type = "client fence removed" /\ m.ok
SameMaps == mGeofences' = mGeofences /\ mGeofenceIds' = mGeofenceIds
MapStep(m) ==
    /\ Saves(m) => saveGeofenceItem(m.hw, Fence(KeyOf(m), FALSE, m.options))
    /\ Removes(m) => removeGeofenceItem(m.hw)
    /\ Changes(m) => ChangeItem(m.kind, m.hw)
    /\ Forgets(m) => mGeofences' = Drop(mGeofences, m.hw) /\ mGeofenceIds' = mGeofenceIds
    /\ m.type = "engine up" =>
          /\ mGeofences' = <<>>
          /\ mGeofenceIds' = IF mGeofences = <<>> THEN mGeofenceIds ELSE <<>>
    /\ m.type = "remove client" =>
          /\ mGeofences' = mGeofences
          /\ mGeofenceIds' = [key \in {k \in DOMAIN mGeofenceIds : k[1] # m.c} |-> mGeofenceIds[key]]
    /\ ~Saves(m) /\ ~Removes(m) /\ ~Changes(m) /\ ~Forgets(m) /\ m.type \notin {"engine up", "remove client"} => SameMaps

Again(hw) ==
    [Message("call", "add", mGeofences[hw].key[1], mGeofences[hw].key[2])
        EXCEPT !.hw = hw, !.options = mGeofences[hw].options, !.paused = mGeofences[hw].paused]
RemovalFor(c, session) ==
    [Message("call", "remove", c, session) EXCEPT !.hw = mGeofenceIds[<<c, session>>], !.paused = TRUE]
SessionsOf(c) == {key[2] : key \in {k \in DOMAIN mGeofenceIds : k[1] = c}}
PauseOf(m) == [Message("call", "pause", m.c, m.session) EXCEPT !.hw = m.hw, !.paused = TRUE]
CallOf(m) == [m EXCEPT !.type = "call", !.hw = IF m.kind = "add" THEN NoHwId ELSE mGeofenceIds[KeyOf(m)]]
Known(m) == m.kind = "add" \/ KeyOf(m) \in DOMAIN mGeofenceIds
SendStep(m, r) ==
    /\ calls' = calls \o r
    /\ m.type = "command" => r = <<[m EXCEPT !.type = "return"]>>
    /\ m.type = "perform" /\ Known(m) => r = <<CallOf(m)>>
    /\ m.type = "restored" /\ m.ok /\ m.paused => r = <<PauseOf(m)>>
    /\ m.type = "engine up" =>
          /\ \A i \in 1 .. Len(r) : \E hw \in DOMAIN mGeofences : r[i] = Again(hw)
          /\ \A hw \in DOMAIN mGeofences : \E i \in 1 .. Len(r) : r[i] = Again(hw)
          /\ \A i, j \in 1 .. Len(r) : r[i].hw = r[j].hw => i = j
    /\ m.type = "remove client" =>
          /\ \A i \in 1 .. Len(r) : \E s \in SessionsOf(m.c) : r[i] = RemovalFor(m.c, s)
          /\ \A s \in SessionsOf(m.c) : \E i \in 1 .. Len(r) : r[i] = RemovalFor(m.c, s)
    /\ m.type \notin {"command", "engine up", "remove client"} /\ ~(m.type = "perform" /\ Known(m))
         /\ ~(m.type = "restored" /\ m.ok /\ m.paused) => r = <<>>
\* What goes wrong in a handler.
Losing == {"unknown"}

\* The adapter handles m and sends r.
Handled(m, r) ==
    /\ inbox # <<>> /\ m = Head(inbox) /\ inbox' = Tail(inbox)
    /\ r \in Seq(Outbound)
    /\ MapStep(m) /\ SendStep(m, r)
    /\ UNCHANGED <<dict, modem, counters, load>>
    /\ clients' = IF m.type = "remove client" THEN clients \ {m.c} ELSE clients
    /\ m.type = "answer" /\ m.kind = "pause" /\ m.ok => toldPaused' = toldPaused \cup {KeyOf(m)}
    /\ m.type = "answer" /\ m.kind = "resume" /\ m.ok => toldPaused' = toldPaused \ {KeyOf(m)}
    /\ ~(m.type = "answer" /\ m.kind \in {"pause", "resume"} /\ m.ok) => toldPaused' = toldPaused
    /\ mishaps \subseteq mishaps' /\ mishaps' \subseteq mishaps \cup Losing /\ mishaps' \in SUBSET Mishaps
    /\ refused' = refused /\ lost \subseteq lost' /\ lost' \in SUBSET Keys
    /\ m.type = "perform" /\ ~Known(m) => "unknown" \in mishaps'
    /\ m.type = "perform" /\ ~Known(m) /\ m.kind = "remove" /\ Adding(KeyOf(m)) => KeyOf(m) \in lost'
    /\ m.type = "remove client" => \A key \in Keys : key[1] = m.c /\ Adding(key) => key \in lost'

\* Concatenation with nothing, and with one.
LEMMA Concatenated ==
    ASSUME NEW M, NEW q \in Seq(M), NEW m \in M
    PROVE  q = q \o <<>> /\ Append(q, m) = q \o <<m>> /\ <<m>> \in Seq(M) /\ <<>> \in Seq(M)
OBVIOUS

LEMMA Unextended ==
    ASSUME NEW M, NEW q \in Seq(M)
    PROVE  q = q \o <<>> /\ <<>> \in Seq(M)
OBVIOUS

\* Each handler is of that form.
LEMMA CommandHandled == ASSUME Typed, Command PROVE \E r : Handled(Head(inbox), r)
<1> DEFINE m == Head(inbox)
           n == [m EXCEPT !.type = "return"]
<1>1. m \in Inbound /\ m.type = "command" /\ inbox # <<>>
    BY RestOfQueue DEF Command, Received, Typed, QueuesTyped
<1>2. n \in Outbound
    BY <1>1 DEF Inbound, Outbound, Messages, Sound, OfCommands, Types
<1>3. calls \in Seq(Outbound)
    BY DEF Typed, QueuesTyped
<1>4. calls' = calls \o <<n>> /\ <<n>> \in Seq(Outbound)
    BY <1>2, <1>3, Concatenated DEF Command
<1>5. SameMaps /\ UNCHANGED <<dict, modem, counters, load, clients, toldPaused, mishaps, lost, refused>> /\ inbox' = Tail(inbox)
    BY DEF Command, client, adapter, counters, history, SameMaps, Done
<1>6. MapStep(m) /\ SendStep(m, <<n>>)
    BY <1>1, <1>4, <1>5 DEF MapStep, SendStep, Saves, Removes, Changes, Forgets
<1>7. mishaps \in SUBSET Mishaps /\ lost \in SUBSET Keys /\ refused \in SUBSET Keys
    BY DEF Typed, ClientsTyped
<1> QED BY <1>1, <1>4, <1>5, <1>6, <1>7 DEF Handled

LEMMA PerformHandled == ASSUME Typed, Perform PROVE \E r : Handled(Head(inbox), r)
<1> DEFINE m == Head(inbox)
           n == CallOf(m)
<1>0. inbox # <<>> /\ m.type = "perform" /\ inbox \in Seq(Inbound)
    BY DEF Perform, Received, Typed, QueuesTyped
<1>1. m \in Inbound /\ m.type = "perform" /\ inbox # <<>> /\ m \in Messages /\ Sound(m)
    BY <1>0, RestOfQueue DEF Inbound
<1>3. calls \in Seq(Outbound)
    BY DEF Typed, QueuesTyped
<1>5. SameMaps /\ UNCHANGED <<dict, modem, counters, load, clients, toldPaused, refused>> /\ inbox' = Tail(inbox)
    BY DEF Perform, adapter, counters, SameMaps, Done
<1>7. mishaps \in SUBSET Mishaps /\ lost \in SUBSET Keys /\ refused \in SUBSET Keys
    BY DEF Typed, ClientsTyped
<1>8. MapStep(m)
    BY <1>1, <1>5 DEF MapStep, Saves, Removes, Changes, Forgets
<1>9. CASE Known(m)
    <2>1. m.kind = "add" \/ mGeofenceIds[KeyOf(m)] \in HwIds
        BY <1>9 DEF Known, Typed, MapsTyped
    <2>2. n \in Outbound
        BY <1>1, <2>1, Constants DEF CallOf, Outbound, Messages, Sound, OfCommands, Types
    <2>3. calls' = Append(calls, n) /\ mishaps' = mishaps /\ lost' = lost
        BY <1>9 DEF Perform, Known, CallOf, KeyOf
    <2>4. calls' = calls \o <<n>> /\ <<n>> \in Seq(Outbound)
        BY <1>3, <2>2, <2>3, Concatenated
    <2>5. SendStep(m, <<n>>)
        BY <1>1, <1>9, <2>4 DEF SendStep
    <2> QED BY <1>1, <1>5, <1>7, <1>8, <1>9, <2>3, <2>4, <2>5 DEF Handled
<1>10. CASE ~Known(m)
    <2>1. /\ calls' = calls /\ mishaps' = mishaps \cup {"unknown"}
          /\ lost' = IF m.kind = "remove" /\ Adding(KeyOf(m)) THEN lost \cup {KeyOf(m)} ELSE lost
        BY <1>10 DEF Perform, Known, KeyOf, Mishap
    <2>2. calls' = calls \o <<>> /\ <<>> \in Seq(Outbound)
        BY <1>3, <2>1, Unextended
    <2>5. SendStep(m, <<>>)
        BY <1>1, <1>10, <2>2 DEF SendStep
    <2>6. mishaps' \in SUBSET Mishaps /\ mishaps \subseteq mishaps' /\ mishaps' \subseteq mishaps \cup Losing /\ "unknown" \in mishaps'
        BY <1>7, <2>1 DEF Mishaps, Losing
    <2>8. KeyOf(m) \in Keys
        BY <1>1, Constants DEF Sound, KeyOf
    <2>9. /\ lost' \in SUBSET Keys /\ lost \subseteq lost'
          /\ m.kind = "remove" /\ Adding(KeyOf(m)) => KeyOf(m) \in lost'
        BY <1>7, <2>1, <2>8
    <2>7. m.type # "remove client" /\ m.type # "answer"
        BY <1>1
    <2> HIDE DEF m
    <2> QED BY <1>1, <1>5, <1>8, <1>10, <2>2, <2>5, <2>6, <2>7, <2>9 DEF Handled, m
<1> QED BY <1>9, <1>10

LEMMA FirstMessage ==
    ASSUME Typed, NEW type, Received(type)
    PROVE  /\ inbox # <<>> /\ Head(inbox) \in Inbound /\ Head(inbox) \in Messages /\ Sound(Head(inbox))
           /\ Head(inbox).type = type
<1>1. inbox \in Seq(Inbound) /\ inbox # <<>> /\ Head(inbox).type = type
    BY DEF Received, Typed, QueuesTyped
<1> QED BY <1>1, RestOfQueue DEF Inbound

LEMMA NothingSent ==
    ASSUME Typed, calls' = calls, NEW m, m.type \notin {"command", "engine up", "remove client", "perform"},
           ~(m.type = "restored" /\ m.ok /\ m.paused)
    PROVE  SendStep(m, <<>>) /\ <<>> \in Seq(Outbound)
<1>1. calls \in Seq(Outbound)
    BY DEF Typed, QueuesTyped
<1>2. calls' = calls \o <<>> /\ <<>> \in Seq(Outbound)
    BY <1>1, Unextended
<1> QED BY <1>2 DEF SendStep

LEMMA AnswerHandled == ASSUME Typed, Answer PROVE \E r : Handled(Head(inbox), r)
<1> DEFINE m == Head(inbox)
<1>1. inbox # <<>> /\ m \in Inbound /\ m \in Messages /\ Sound(m) /\ m.type = "answer"
    BY FirstMessage DEF Answer
<1>2. calls' = calls /\ inbox' = Tail(inbox) /\ UNCHANGED <<dict, modem, counters, load, clients, mishaps, lost, refused>>
    BY DEF Answer, counters, Done
<1>3. SendStep(m, <<>>) /\ <<>> \in Seq(Outbound)
    BY <1>1, <1>2, NothingSent, Zenon
<1>4. mishaps \in SUBSET Mishaps /\ lost \in SUBSET Keys /\ refused \in SUBSET Keys
    BY DEF Typed, ClientsTyped
<1>5. /\ m.type = "answer" /\ m.kind = "pause" /\ m.ok => toldPaused' = toldPaused \cup {KeyOf(m)}
      /\ m.type = "answer" /\ m.kind = "resume" /\ m.ok => toldPaused' = toldPaused \ {KeyOf(m)}
      /\ ~(m.type = "answer" /\ m.kind \in {"pause", "resume"} /\ m.ok) => toldPaused' = toldPaused
    BY <1>1 DEF Answer, Fence, KeyOf
<1>6. MapStep(m)
    <2>0. m.kind \in Kinds /\ m.ok \in BOOLEAN
        BY <1>1 DEF Messages
    <2>1. CASE ~m.ok
        <3>1. SameMaps
            BY <2>1 DEF Answer, SameMaps
        <3> QED BY <1>1, <2>1, <3>1 DEF MapStep, Saves, Removes, Changes, Forgets
    <2>2. CASE m.ok /\ m.kind = "add"
        <3>1. saveGeofenceItem(m.hw, Fence(KeyOf(m), FALSE, m.options))
            BY <2>2 DEF Answer, KeyOf
        <3> QED BY <1>1, <2>2, <3>1 DEF MapStep, Saves, Removes, Changes, Forgets
    <2>3. CASE m.ok /\ m.kind = "remove"
        <3>1. removeGeofenceItem(m.hw)
            BY <2>3 DEF Answer
        <3> QED BY <1>1, <2>3, <3>1 DEF MapStep, Saves, Removes, Changes, Forgets
    <2>4. CASE m.ok /\ m.kind \notin {"add", "remove"}
        <3>1. ChangeItem(m.kind, m.hw)
            BY <2>4 DEF Answer
        <3> QED BY <1>1, <2>4, <2>0, <3>1 DEF MapStep, Saves, Removes, Changes, Forgets, Kinds
    <2> QED BY <2>0, <2>1, <2>2, <2>3, <2>4
<1> HIDE DEF m
<1> QED BY <1>1, <1>2, <1>3, <1>4, <1>5, <1>6 DEF Handled, m

LEMMA ClientFenceRemovedHandled == ASSUME Typed, ClientFenceRemoved PROVE \E r : Handled(Head(inbox), r)
<1> DEFINE m == Head(inbox)
<1>1. inbox # <<>> /\ m \in Inbound /\ m \in Messages /\ Sound(m) /\ m.type = "client fence removed"
    BY FirstMessage DEF ClientFenceRemoved
<1>2. calls' = calls /\ inbox' = Tail(inbox) /\ UNCHANGED <<dict, modem, counters, load, clients, mishaps, lost, refused, toldPaused>>
    BY DEF ClientFenceRemoved, counters, Done, client, history
<1>3. SendStep(m, <<>>) /\ <<>> \in Seq(Outbound)
    BY <1>1, <1>2, NothingSent, Zenon
<1>4. mishaps \in SUBSET Mishaps /\ lost \in SUBSET Keys /\ refused \in SUBSET Keys
    BY DEF Typed, ClientsTyped
<1>5. mGeofenceIds' = mGeofenceIds /\ mGeofences' = IF m.ok THEN Drop(mGeofences, m.hw) ELSE mGeofences
    BY DEF ClientFenceRemoved
<1>6. MapStep(m)
    BY <1>1, <1>5 DEF MapStep, Saves, Removes, Changes, Forgets, SameMaps
<1> HIDE DEF m
<1> QED BY <1>1, <1>2, <1>3, <1>4, <1>6 DEF Handled, m

LEMMA PausedAgainHandled == ASSUME Typed, PausedAgain PROVE \E r : Handled(Head(inbox), r)
<1> DEFINE m == Head(inbox)
<1>1. inbox # <<>> /\ m \in Inbound /\ m \in Messages /\ Sound(m) /\ m.type = "paused again"
    BY FirstMessage DEF PausedAgain
<1>2. /\ calls' = calls /\ inbox' = Tail(inbox) /\ UNCHANGED <<dict, modem, counters, load, clients, mishaps, lost, refused, toldPaused>>
      /\ SameMaps
    BY DEF PausedAgain, counters, Done, client, history, adapter, SameMaps
<1>3. SendStep(m, <<>>) /\ <<>> \in Seq(Outbound)
    BY <1>1, <1>2, NothingSent, Zenon
<1>4. mishaps \in SUBSET Mishaps /\ lost \in SUBSET Keys /\ refused \in SUBSET Keys
    BY DEF Typed, ClientsTyped
<1>6. MapStep(m)
    BY <1>1, <1>2 DEF MapStep, Saves, Removes, Changes, Forgets
<1> HIDE DEF m
<1> QED BY <1>1, <1>2, <1>3, <1>4, <1>6 DEF Handled, m

LEMMA BreachHandled == ASSUME Typed, GeofenceBreach PROVE \E r : Handled(Head(inbox), r)
<1> DEFINE m == Head(inbox)
<1>1. inbox # <<>> /\ m \in Inbound /\ m \in Messages /\ Sound(m) /\ m.type = "breach"
    BY FirstMessage DEF GeofenceBreach
<1>2. /\ calls' = calls /\ inbox' = Tail(inbox) /\ UNCHANGED <<dict, modem, counters, load, clients, mishaps, lost, refused, toldPaused>>
      /\ SameMaps
    BY DEF GeofenceBreach, counters, Done, client, history, adapter, SameMaps
<1>3. SendStep(m, <<>>) /\ <<>> \in Seq(Outbound)
    BY <1>1, <1>2, NothingSent, Zenon
<1>4. mishaps \in SUBSET Mishaps /\ lost \in SUBSET Keys /\ refused \in SUBSET Keys
    BY DEF Typed, ClientsTyped
<1>6. MapStep(m)
    BY <1>1, <1>2 DEF MapStep, Saves, Removes, Changes, Forgets
<1> HIDE DEF m
<1> QED BY <1>1, <1>2, <1>3, <1>4, <1>6 DEF Handled, m

LEMMA RestoredHandled == ASSUME Typed, Restored PROVE \E r : Handled(Head(inbox), r)
<1> DEFINE m == Head(inbox)
           n == PauseOf(m)
<1>1. inbox # <<>> /\ m \in Inbound /\ m \in Messages /\ Sound(m) /\ m.type = "restored"
    BY FirstMessage DEF Restored
<1>2. /\ inbox' = Tail(inbox) /\ UNCHANGED <<dict, modem, counters, load, clients, mishaps, lost, refused, toldPaused>>
      /\ m.ok => saveGeofenceItem(m.hw, Fence(KeyOf(m), FALSE, m.options))
      /\ ~m.ok => SameMaps
      /\ m.ok /\ m.paused => calls' = Append(calls, n)
      /\ ~(m.ok /\ m.paused) => calls' = calls
    BY DEF Restored, counters, Done, client, history, adapter, SameMaps, KeyOf, PauseOf
<1>4. mishaps \in SUBSET Mishaps /\ lost \in SUBSET Keys /\ calls \in Seq(Outbound)
    BY DEF Typed, ClientsTyped, QueuesTyped
<1>0. m.ok \in BOOLEAN /\ m.paused \in BOOLEAN
    BY <1>1 DEF Messages
<1>6. MapStep(m)
    BY <1>0, <1>1, <1>2 DEF MapStep, Saves, Removes, Changes, Forgets, Sound
<1>7. CASE m.ok /\ m.paused
    <2>1. n \in Outbound
        BY <1>1, <1>7, Constants DEF PauseOf, Message, Outbound, Messages, Sound, OfCommands, Types, Kinds
    <2>2. calls' = calls \o <<n>> /\ <<n>> \in Seq(Outbound)
        BY <1>2, <1>4, <1>7, <2>1, Concatenated
    <2>3. SendStep(m, <<n>>)
        BY <1>1, <1>7, <2>2 DEF SendStep
    <2> HIDE DEF m, n
    <2> QED BY <1>1, <1>2, <1>4, <1>6, <2>2, <2>3 DEF Handled, m
<1>8. CASE ~(m.ok /\ m.paused)
    <2>1. SendStep(m, <<>>) /\ <<>> \in Seq(Outbound)
        BY <1>1, <1>2, <1>8, NothingSent, Zenon
    <2> HIDE DEF m, n
    <2> QED BY <1>1, <1>2, <1>4, <1>6, <2>1 DEF Handled, m
<1> QED BY <1>7, <1>8

LEMMA EngineUpHandled == ASSUME Typed, HandleEngineUp PROVE \E r : Handled(Head(inbox), r)
<1> DEFINE m == Head(inbox)
           K == DOMAIN mGeofences
           old == MapOrder(K)
           r == [i \in DOMAIN old |-> Again(old[i])]
<1>1. inbox # <<>> /\ m \in Inbound /\ m \in Messages /\ Sound(m) /\ m.type = "engine up"
    BY FirstMessage DEF HandleEngineUp
<1>2. /\ inbox' = Tail(inbox) /\ UNCHANGED <<dict, modem, counters, load, clients, mishaps, lost, refused, toldPaused>>
      /\ mGeofences' = <<>> /\ mGeofenceIds' = IF mGeofences = <<>> THEN mGeofenceIds ELSE <<>>
      /\ calls' = calls \o r
    BY DEF HandleEngineUp, counters, Done, client, history, Again
<1>3. MapStep(m)
    BY <1>1, <1>2 DEF MapStep, Saves, Removes, Changes, Forgets
<1>4. mishaps \in SUBSET Mishaps /\ lost \in SUBSET Keys /\ refused \in SUBSET Keys
    BY DEF Typed, ClientsTyped
<1>5. K \in SUBSET Nat /\ IsFiniteSet(K) /\ K \in SUBSET HwIds
    BY Constants, FS_Subset DEF Typed, MapsTyped
<1>6. /\ Cardinality(K) \in Nat /\ old \in [1 .. Cardinality(K) -> K]
      /\ \A i, j \in 1 .. Cardinality(K) : i < j => old[i] < old[j]
      /\ \A s \in K : \E i \in 1 .. Cardinality(K) : old[i] = s
    <2> HIDE DEF K
    <2> QED BY <1>5, MapOrderEnumerates
<1>7. \A hw \in K : Again(hw) \in Outbound /\ Again(hw).hw = hw
    <2> SUFFICES ASSUME NEW hw \in K PROVE Again(hw) \in Outbound /\ Again(hw).hw = hw
        OBVIOUS
    <2>1. mGeofences[hw] \in Fences /\ hw \in HwIds
        BY DEF Typed, MapsTyped
    <2>2. /\ mGeofences[hw].key[1] \in Clients /\ mGeofences[hw].key[2] \in Sessions
          /\ mGeofences[hw].options \in {"old", "new"} /\ mGeofences[hw].paused \in BOOLEAN
        BY <2>1, Constants DEF Fences
    <2> QED BY <2>1, <2>2, Constants DEF Again, Message, Outbound, Messages, Sound, OfCommands, Types, Kinds
<1> DEFINE n == Cardinality(K)
<1>8. DOMAIN old = 1 .. n /\ n \in Nat
    BY <1>6
<1> HIDE DEF old, K, n
<1>9. r \in Seq(Outbound) /\ Len(r) = n /\ \A i \in 1 .. n : r[i] = Again(old[i])
    <2>1. \A i \in 1 .. n : old[i] \in K
        BY <1>6 DEF n
    <2>2. r = [i \in 1 .. n |-> Again(old[i])]
        BY <1>8
    <2> HIDE DEF r
    <2> QED BY <1>7, <1>8, <2>1, <2>2
<1> HIDE DEF r
<1>10. /\ \A i \in 1 .. Len(r) : \E hw \in K : r[i] = Again(hw)
       /\ \A hw \in K : \E i \in 1 .. Len(r) : r[i] = Again(hw)
       /\ \A i, j \in 1 .. Len(r) : r[i].hw = r[j].hw => i = j
    <2>1. \A i \in 1 .. n : old[i] \in K /\ r[i].hw = old[i]
        BY <1>6, <1>7, <1>9 DEF n
    <2>2. \A i, j \in 1 .. n : i < j => old[i] < old[j]
        BY <1>6 DEF n
    <2>3. \A i, j \in 1 .. n : old[i] = old[j] => i = j
        <3> SUFFICES ASSUME NEW i \in 1 .. n, NEW j \in 1 .. n, old[i] = old[j], i # j PROVE FALSE
            OBVIOUS
        <3>1. i < j \/ j < i
            BY <1>8
        <3>2. old[i] < old[j] \/ old[j] < old[i]
            BY <2>2, <3>1
        <3>3. old[i] \in Nat /\ old[j] \in Nat
            BY <1>5, <2>1
        <3> QED BY <3>2, <3>3
    <2>4. \A s \in K : \E i \in 1 .. n : old[i] = s
        BY <1>6 DEF n
    <2> QED BY <1>9, <2>1, <2>3, <2>4
<1>11. SendStep(m, r)
    BY <1>1, <1>2, <1>10 DEF SendStep, K
<1> HIDE DEF m
<1> QED BY <1>1, <1>2, <1>3, <1>4, <1>9, <1>11 DEF Handled, m

LEMMA RemoveClientHandled == ASSUME Typed, RemoveClient PROVE \E r : Handled(Head(inbox), r)
<1> DEFINE m == Head(inbox)
           c == m.c
           K == SessionsOf(c)
           mine == MapOrder(K)
           r == [i \in DOMAIN mine |-> RemovalFor(c, mine[i])]
<1>1. inbox # <<>> /\ m \in Inbound /\ m \in Messages /\ Sound(m) /\ m.type = "remove client" /\ c \in Clients
    BY FirstMessage DEF RemoveClient, Sound
<1>2. /\ inbox' = Tail(inbox) /\ UNCHANGED <<dict, modem, counters, load, toldPaused>>
      /\ clients' = clients \ {c}
      /\ mGeofences' = mGeofences
      /\ mGeofenceIds' = [key \in {k \in DOMAIN mGeofenceIds : k[1] # c} |-> mGeofenceIds[key]]
      /\ calls' = calls \o r
    BY DEF RemoveClient, counters, Done, client, RemovalFor, SessionsOf
<1>3. MapStep(m)
    BY <1>1, <1>2 DEF MapStep, Saves, Removes, Changes, Forgets
<1>4. /\ mishaps' = mishaps /\ mishaps \in SUBSET Mishaps /\ refused' = refused
      /\ lost' \in SUBSET Keys /\ lost \subseteq lost'
      /\ \A key \in Keys : key[1] = m.c /\ Adding(key) => key \in lost'
    BY DEF RemoveClient, Typed, ClientsTyped
<1>5. K \in SUBSET Sessions /\ \A s \in K : <<c, s>> \in DOMAIN mGeofenceIds
    BY Constants DEF Typed, MapsTyped, SessionsOf
<1>51. IsFiniteSet(K) /\ K \in SUBSET Nat
    <2>1. IsFiniteSet(Sessions) /\ Sessions \subseteq Nat
        BY Constants, FS_Interval DEF Sessions
    <2> QED BY <1>5, <2>1, FS_Subset
<1>6. /\ Cardinality(K) \in Nat /\ mine \in [1 .. Cardinality(K) -> K]
      /\ \A s \in K : \E i \in 1 .. Cardinality(K) : mine[i] = s
    BY <1>51, MapOrderEnumerates
<1>7. \A s \in K : RemovalFor(c, s) \in Outbound
    <2> SUFFICES ASSUME NEW s \in K PROVE RemovalFor(c, s) \in Outbound
        OBVIOUS
    <2>1. mGeofenceIds[<<c, s>>] \in HwIds /\ s \in Sessions
        BY <1>5 DEF Typed, MapsTyped
    <2> QED BY <1>1, <2>1, Constants DEF RemovalFor, Message, Outbound, Messages, Sound, OfCommands, Types, Kinds
<1> DEFINE n == Cardinality(K)
<1>8. DOMAIN mine = 1 .. n /\ n \in Nat
    BY <1>6
<1> HIDE DEF mine, K, n, c
<1>9. r \in Seq(Outbound) /\ Len(r) = n /\ \A i \in 1 .. n : r[i] = RemovalFor(c, mine[i])
    <2>1. \A i \in 1 .. n : mine[i] \in K
        BY <1>6 DEF n
    <2>2. r = [i \in 1 .. n |-> RemovalFor(c, mine[i])]
        BY <1>8
    <2> HIDE DEF r
    <2> QED BY <1>7, <1>8, <2>1, <2>2
<1> HIDE DEF r
<1>10. /\ \A i \in 1 .. Len(r) : \E s \in K : r[i] = RemovalFor(c, s)
       /\ \A s \in K : \E i \in 1 .. Len(r) : r[i] = RemovalFor(c, s)
    BY <1>6, <1>9 DEF n
<1>11. SendStep(m, r)
    BY <1>1, <1>2, <1>10 DEF SendStep, K, c
<1>12. m.type # "answer" /\ m.type # "perform"
    BY <1>1
<1>13. c = m.c
    BY DEF c
<1> HIDE DEF m
<1> QED BY <1>1, <1>2, <1>3, <1>4, <1>9, <1>11, <1>12, <1>13 DEF Handled, m

LEMMA HandleHandled == ASSUME Typed, Handle PROVE \E m \in Inbound : Sound(m) /\ m \in Messages /\ \E r : Handled(m, r)
<1>1. \E r : Handled(Head(inbox), r)
    BY CommandHandled, PerformHandled, AnswerHandled, RemoveClientHandled, ClientFenceRemovedHandled,
       EngineUpHandled, RestoredHandled, PausedAgainHandled, BreachHandled DEF Handle
<1>2. inbox \in Seq(Inbound) /\ inbox # <<>>
    BY <1>1 DEF Handled, Typed, QueuesTyped
<1>3. Head(inbox) \in Inbound
    BY <1>2, RestOfQueue
<1> QED BY <1>1, <1>3 DEF Inbound

-----------------------------------------------------------------------------
(* LocApi's thread and the modem                                           *)

fences == modem.fences

\* What the modem does for an add, a removal, a change.
AddsFence(n, m) ==
    /\ m.hw \in HwIds \ DOMAIN fences
    /\ fences' \in [DOMAIN fences \cup {m.hw} -> Fences]
    /\ fences'[m.hw] = Fence(KeyOf(n), FALSE, n.options)
    /\ \A hw \in DOMAIN fences : fences'[hw] = fences[hw]
RemovesFence(n) ==
    /\ n.hw \in DOMAIN fences
    /\ fences' \in [DOMAIN fences \ {n.hw} -> Fences]
    /\ \A hw \in DOMAIN fences \ {n.hw} : fences'[hw] = fences[hw]
ChangesFence(n) ==
    /\ n.hw \in DOMAIN fences
    /\ fences' \in [DOMAIN fences -> Fences]
    /\ \A hw \in DOMAIN fences : hw # n.hw => fences'[hw] = fences[hw]
    /\ fences'[n.hw].key = fences[n.hw].key
    /\ n.kind = "modify" => fences'[n.hw].options = "new" /\ fences'[n.hw].paused = fences[n.hw].paused
    /\ n.kind # "modify" => fences'[n.hw].options = fences[n.hw].options /\ fences'[n.hw].paused = (n.kind = "pause")

AnswerOf(n, hw, ok) == [n EXCEPT !.type = AnswerType(n), !.hw = hw, !.ok = ok]

\* The first call n is taken, and its answer m posted: it came back from the
\* thread, the modem refused it, or the modem performed it.
Shifted(n, m) ==
    /\ calls # <<>> /\ n = Head(calls) /\ calls' = Tail(calls)
    /\ m \in Inbound /\ inbox' = Append(inbox, m)
    /\ UNCHANGED <<client, adapter, next, commands, crashes, breaches, load, toldPaused, lost>>
Returned(n, m) == n.type = "return" /\ m = [n EXCEPT !.type = "perform"] /\ UNCHANGED <<modem, mishaps, refused>>
Failed(n, m) ==
    /\ n.type = "call" /\ m = AnswerOf(n, n.hw, FALSE)
    /\ modem' = modem /\ mishaps' = mishaps \cup {n.kind}
    /\ refused' = IF n.kind = "remove" THEN refused \cup {KeyOf(n)} ELSE refused
Performed(n, m) ==
    /\ refused' = refused
    /\ n.type = "call" /\ modem.up /\ modem'.up /\ ModemTyped'
    /\ m = AnswerOf(n, m.hw, TRUE)
    /\ n.kind = "add" => AddsFence(n, m)
    /\ n.kind # "add" => m.hw = n.hw
    /\ n.kind = "remove" => RemovesFence(n)
    /\ n.kind \notin {"add", "remove"} => ChangesFence(n)
    /\ mishaps' = mishaps \cup (IF n.kind # "add" /\ fences[n.hw].key # KeyOf(n) THEN {"wrong"} ELSE {})

\* The answer to a sound call is sound.
LEMMA AnswerIsSound ==
    ASSUME NEW n \in Outbound, n.type = "call", NEW hw \in HwIds \cup {NoHwId}, NEW ok \in BOOLEAN,
           ok => hw \in HwIds, n.kind # "add" => hw = n.hw
    PROVE  AnswerOf(n, hw, ok) \in Inbound
<1>1. n \in Messages /\ Sound(n)
    BY DEF Outbound
<1>2. /\ AnswerType(n) \in {"restored", "client fence removed", "paused again", "answer"}
      /\ AnswerType(n) = "restored" => n.kind = "add"
      /\ AnswerType(n) = "client fence removed" => n.kind = "remove"
      /\ AnswerType(n) = "paused again" => n.kind = "pause"
    BY DEF AnswerType
<1>3. n.kind # "add" => n.hw \in HwIds
    BY <1>1 DEF Sound
<1>4. AnswerOf(n, hw, ok) \in Messages
    BY <1>1, <1>2 DEF AnswerOf, Messages, Types
<1>5. Sound(AnswerOf(n, hw, ok))
    BY <1>1, <1>2, <1>3 DEF AnswerOf, Messages, Sound, OfCommands
<1> QED BY <1>1, <1>2, <1>4, <1>5 DEF Inbound, AnswerOf, Messages

LEMMA FirstCall ==
    ASSUME Typed, calls # <<>>
    PROVE  Head(calls) \in Outbound /\ Head(calls) \in Messages /\ Sound(Head(calls)) /\ calls \in Seq(Outbound)
<1>1. calls \in Seq(Outbound)
    BY DEF Typed, QueuesTyped
<1> QED BY <1>1, RestOfQueue DEF Outbound

LEMMA ReturnsShift == ASSUME Typed, ApiReturns PROVE \E n \in Outbound : \E m : Shifted(n, m) /\ Returned(n, m)
<1> DEFINE n == Head(calls)
           m == [n EXCEPT !.type = "perform"]
<1>1. n \in Outbound /\ n \in Messages /\ Sound(n) /\ calls # <<>> /\ n.type = "return"
    BY FirstCall DEF ApiReturns
<1>2. m \in Inbound
    BY <1>1 DEF Inbound, Messages, Sound, OfCommands, Types
<1> QED BY <1>1, <1>2 DEF ApiReturns, Shifted, Returned, counters, history

LEMMA FailsShift == ASSUME Typed, ModemFails PROVE \E n \in Outbound : \E m : Shifted(n, m) /\ Failed(n, m)
<1> DEFINE n == Head(calls)
           m == AnswerOf(n, n.hw, FALSE)
<1>1. n \in Outbound /\ n \in Messages /\ Sound(n) /\ calls # <<>> /\ n.type = "call"
    BY FirstCall DEF ModemFails
<1>2. n.hw \in HwIds \cup {NoHwId}
    BY <1>1 DEF Messages
<1>3. m \in Inbound
    BY <1>1, <1>2, AnswerIsSound
<1>4. inbox' = Append(inbox, [n EXCEPT !.type = AnswerType(n), !.ok = FALSE])
    BY DEF ModemFails
<1>5. m = [n EXCEPT !.type = AnswerType(n), !.ok = FALSE]
    BY <1>1 DEF AnswerOf, Messages
<1>6. Failed(n, m)
    BY <1>1 DEF ModemFails, Failed, Mishap, KeyOf
<1>7. Shifted(n, m)
    BY <1>1, <1>3, <1>4, <1>5 DEF ModemFails, Shifted
<1> QED BY <1>1, <1>6, <1>7

LEMMA FreeIsFree ==
    ASSUME NEW D \in SUBSET HwIds, D # HwIds
    PROVE  Min(HwIds \ D) \in HwIds \ D
<1>1. HwIds \ D \in SUBSET Nat /\ HwIds \ D # {}
    BY Constants
<1> QED BY <1>1, MinIsLeast

\* The modem gives a new geofence a hwId that is free in it.
LEMMA ServesShift == ASSUME Typed, ModemServes PROVE \E n \in Outbound : \E m : Shifted(n, m) /\ Performed(n, m)
<1> DEFINE n == Head(calls)
           f == modem.fences
           hw == IF n.kind = "add" THEN free(f) ELSE n.hw
           m == AnswerOf(n, hw, TRUE)
<1>1. n \in Outbound /\ n \in Messages /\ Sound(n) /\ calls # <<>> /\ n.type = "call" /\ modem.up
    BY FirstCall DEF ModemServes
<1>2. n.kind \in Kinds /\ n.options \in {"old", "new"} /\ n.ok = TRUE /\ KeyOf(n) \in Keys
    BY <1>1 DEF Messages, Sound, KeyOf, Keys
<1>3. IF n.kind = "add" THEN HwIds # DOMAIN f ELSE n.hw \in DOMAIN f
    BY DEF ModemServes
<1>4. f \in [DOMAIN f -> Fences] /\ DOMAIN f \in SUBSET HwIds
    BY DEF Typed, ModemTyped
<1>5. n.kind = "add" => free(f) \in HwIds \ DOMAIN f
    BY <1>3, <1>4, FreeIsFree DEF free
<1>6. hw \in HwIds
    BY <1>1, <1>3, <1>4, <1>5
<1>7. m \in Inbound
    BY <1>1, <1>6, AnswerIsSound
<1>8. inbox' = Append(inbox, [n EXCEPT !.type = AnswerType(n), !.hw = hw])
    BY DEF ModemServes
<1>9. m = [n EXCEPT !.type = AnswerType(n), !.hw = hw]
    BY <1>1, <1>2 DEF AnswerOf, Messages
<1>10. Shifted(n, m)
    <2>1. calls' = Tail(calls) /\ UNCHANGED <<client, adapter, counters, load, toldPaused, lost>>
        BY DEF ModemServes
    <2> HIDE DEF m, n, hw
    <2>2. n = Head(calls)
        BY DEF n
    <2> QED BY <1>1, <1>7, <1>8, <1>9, <2>1, <2>2 DEF Shifted, counters
<1>11. m.hw = hw /\ m.ok
    BY <1>1, <1>6 DEF AnswerOf, Messages
<1>12. modem' = [modem EXCEPT !.fences =
             CASE n.kind = "add" -> Put(f, free(f), Fence(<<n.c, n.session>>, FALSE, n.options))
               [] n.kind = "remove" -> Drop(f, n.hw)
               [] n.kind = "pause" -> [f EXCEPT ![n.hw].paused = TRUE]
               [] n.kind = "resume" -> [f EXCEPT ![n.hw].paused = FALSE]
               [] n.kind = "modify" -> [f EXCEPT ![n.hw].options = "new"]]
    BY DEF ModemServes
<1> HIDE DEF n
<1>13. /\ fences' = CASE n.kind = "add" -> Put(f, free(f), Fence(<<n.c, n.session>>, FALSE, n.options))
               [] n.kind = "remove" -> Drop(f, n.hw)
               [] n.kind = "pause" -> [f EXCEPT ![n.hw].paused = TRUE]
               [] n.kind = "resume" -> [f EXCEPT ![n.hw].paused = FALSE]
               [] n.kind = "modify" -> [f EXCEPT ![n.hw].options = "new"]
       /\ modem'.up = modem.up
       /\ modem' \in [up : BOOLEAN, fences : {modem'.fences}]
    BY <1>12 DEF fences, Typed, ModemTyped
<1> HIDE DEF m, hw
<1>20. ASSUME n.kind = "add" PROVE AddsFence(n, m)
    <2>1. fences' = [z \in DOMAIN f \cup {hw} |-> IF z = hw THEN Fence(KeyOf(n), FALSE, n.options) ELSE f[z]]
        BY <1>13, <1>20 DEF Put, KeyOf, hw
    <2>2. Fence(KeyOf(n), FALSE, n.options) \in Fences
        BY <1>2 DEF Fence, Fences
    <2>3. hw \in HwIds \ DOMAIN f
        BY <1>5, <1>20 DEF hw
    <2>4. \A x \in DOMAIN f : f[x] \in Fences
        BY <1>4
    <2>5. fences' \in [DOMAIN f \cup {hw} -> Fences] /\ fences'[hw] = Fence(KeyOf(n), FALSE, n.options)
        BY <2>1, <2>2, <2>4
    <2>6. \A x \in DOMAIN f : fences'[x] = f[x]
        BY <2>1, <2>3
    <2> QED BY <1>11, <2>3, <2>5, <2>6 DEF AddsFence, fences
<1>21. ASSUME n.kind = "remove" PROVE RemovesFence(n)
    <2>1. fences' = [x \in DOMAIN f \ {n.hw} |-> f[x]]
        BY <1>13, <1>21 DEF Drop, Restrict
    <2> QED BY <1>3, <1>4, <1>21, <2>1 DEF RemovesFence, fences
<1>22. ASSUME n.kind \notin {"add", "remove"}, NEW fence \in Fences, fences' = [f EXCEPT ![n.hw] = fence],
              fence.key = f[n.hw].key,
              n.kind = "modify" => fence.options = "new" /\ fence.paused = f[n.hw].paused,
              n.kind # "modify" => fence.options = f[n.hw].options /\ fence.paused = (n.kind = "pause")
       PROVE  ChangesFence(n)
    BY <1>3, <1>4, <1>22 DEF ChangesFence, fences
<1>23. n.kind \notin {"add", "remove"} => f[n.hw] \in Fences /\ n.hw \in DOMAIN f
    BY <1>3, <1>4
<1>24. ASSUME n.kind = "pause" PROVE ChangesFence(n)
    <2>1. fences' = [f EXCEPT ![n.hw] = [f[n.hw] EXCEPT !.paused = TRUE]]
        BY <1>13, <1>24
    <2>2. [f[n.hw] EXCEPT !.paused = TRUE] \in Fences
        BY <1>23, <1>24 DEF Fences
    <2> QED BY <1>22, <1>23, <1>24, <2>1, <2>2 DEF Fences
<1>25. ASSUME n.kind = "resume" PROVE ChangesFence(n)
    <2>1. fences' = [f EXCEPT ![n.hw] = [f[n.hw] EXCEPT !.paused = FALSE]]
        BY <1>13, <1>25
    <2>2. [f[n.hw] EXCEPT !.paused = FALSE] \in Fences
        BY <1>23, <1>25 DEF Fences
    <2> QED BY <1>22, <1>23, <1>25, <2>1, <2>2 DEF Fences
<1>26. ASSUME n.kind = "modify" PROVE ChangesFence(n)
    <2>1. fences' = [f EXCEPT ![n.hw] = [f[n.hw] EXCEPT !.options = "new"]]
        BY <1>13, <1>26
    <2>2. [f[n.hw] EXCEPT !.options = "new"] \in Fences
        BY <1>23, <1>26 DEF Fences
    <2> QED BY <1>22, <1>23, <1>26, <2>1, <2>2 DEF Fences
<1>30. /\ n.kind = "add" => AddsFence(n, m)
       /\ n.kind = "remove" => RemovesFence(n)
       /\ n.kind \notin {"add", "remove"} => ChangesFence(n)
    BY <1>2, <1>20, <1>21, <1>24, <1>25, <1>26 DEF Kinds
<1>31. ModemTyped'
    BY <1>2, <1>4, <1>13, <1>30 DEF ModemTyped, AddsFence, RemovesFence, ChangesFence, fences, Kinds
<1>32. mishaps' = mishaps \cup (IF n.kind # "add" /\ fences[n.hw].key # KeyOf(n) THEN {"wrong"} ELSE {})
    BY DEF ModemServes, Mishap, n, fences, KeyOf
<1>33. m = AnswerOf(n, m.hw, TRUE) /\ (n.kind # "add" => m.hw = n.hw)
    BY <1>11 DEF m, hw
<1>34. refused' = refused
    BY DEF ModemServes
<1> QED BY <1>1, <1>10, <1>13, <1>30, <1>31, <1>32, <1>33, <1>34 DEF Performed

-----------------------------------------------------------------------------
(* Every step, without the handlers' names                                 *)

\* A client commands or is destroyed, the modem reports a breach or is up again:
\* one message is posted.
Posted(m) ==
    /\ m \in Inbound /\ inbox' = Append(inbox, m)
    /\ UNCHANGED <<calls, adapter, toldPaused, mishaps, lost, refused, load>>
Commands(m, id) ==
    /\ Posted(m) /\ m = Message("command", m.kind, m.c, m.session) /\ m.type = "command"
    /\ m.c \in clients /\ id \in Ids /\ UNCHANGED <<modem, crashes>>
    /\ m.kind = "add" =>
         /\ m.session = next /\ next' = next + 1 /\ next \in Sessions
         /\ id \notin DOMAIN dict[m.c] /\ dict' = [dict EXCEPT ![m.c] = Put(@, id, next)]
    /\ m.kind # "add" => next' = next /\ id \in DOMAIN dict[m.c] /\ m.session = dict[m.c][id]
    /\ m.kind = "remove" => dict' = [dict EXCEPT ![m.c] = Drop(@, id)]
    /\ m.kind \notin {"add", "remove"} => dict' = dict
Destroys(m) == Posted(m) /\ m.type = "remove client" /\ m.c \in clients /\ m.kind = "remove" /\ UNCHANGED <<dict, next, modem, crashes>>
Breaches(m) ==
    /\ Posted(m) /\ m.type = "breach" /\ m.hw \in DOMAIN fences /\ fences[m.hw].key = KeyOf(m)
    /\ UNCHANGED <<dict, next, modem, crashes>>
ComesUp(m) ==
    /\ Posted(m) /\ m.type = "engine up" /\ ~modem.up /\ modem'.up /\ fences' = fences /\ ModemTyped'
    /\ UNCHANGED <<dict, next, crashes>>
Crashed ==
    /\ modem.up /\ ~modem'.up /\ ModemTyped' /\ DOMAIN fences' = {}
    /\ crashes' = crashes + 1
    /\ mishaps' = mishaps \cup (IF crashes = 0 THEN {"restart"} ELSE {"restarts"})
    /\ UNCHANGED <<dict, adapter, inbox, calls, next, load, toldPaused, lost, refused>>
Idle == UNCHANGED <<dict, adapter, inbox, calls, modem, next, crashes, load, toldPaused, mishaps, lost, refused>>
Step ==
    \/ \E m \in Inbound : (\E id \in Ids : Commands(m, id)) \/ Destroys(m) \/ Breaches(m) \/ ComesUp(m)
    \/ \E m \in Inbound : Sound(m) /\ m \in Messages /\ \E r : Handled(m, r)
    \/ \E n \in Outbound : \E m : Shifted(n, m) /\ (Returned(n, m) \/ Failed(n, m) \/ Performed(n, m))
    \/ Crashed
    \/ Idle

LEMMA CommandMessage ==
    ASSUME NEW c \in Clients, NEW kind \in Kinds, NEW session \in Sessions
    PROVE  /\ Message("command", kind, c, session) \in Inbound
           /\ Message("command", kind, c, session).type = "command"
           /\ Message("command", kind, c, session).kind = kind
           /\ Message("command", kind, c, session).c = c
           /\ Message("command", kind, c, session).session = session
BY Constants DEF Message, Inbound, Messages, Sound, OfCommands, Types

LEMMA NamedSession ==
    ASSUME Typed, NEW c \in Clients, NEW id \in DOMAIN dict[c]
    PROVE  dict[c][id] \in Sessions
<1>1. dict[c] \in PartialFunctions(Ids, Sessions)
    BY DEF Typed, ClientsTyped
<1> QED BY <1>1 DEF PartialFunctions

LEMMA AddCommands ==
    ASSUME Typed, NEW c \in Clients, NEW id \in Ids, locAPIAddGeofences(c, id)
    PROVE  \E m \in Inbound : Commands(m, id)
<1> DEFINE m == Message("command", "add", c, next)
<1>1. next \in Sessions /\ "add" \in Kinds
    BY Constants DEF locAPIAddGeofences, Typed, ClientsTyped, Sessions, Kinds
<1>2. Call(c, "add", next)
    BY DEF locAPIAddGeofences
<1>3. /\ c \in clients /\ inbox' = Append(inbox, m) /\ m \in Inbound
      /\ m.type = "command" /\ m.kind = "add" /\ m.c = c /\ m.session = next
    <2>1. c \in clients /\ inbox' = Append(inbox, m)
        BY <1>2 DEF Call, Registered
    <2>2. m \in Inbound
        BY <1>1, CommandMessage
    <2>3. m.type = "command" /\ m.kind = "add" /\ m.c = c /\ m.session = next
        BY <1>1, CommandMessage
    <2> QED BY <2>1, <2>2, <2>3
<1>4. /\ id \notin DOMAIN dict[c] /\ next' = next + 1 /\ dict' = [dict EXCEPT ![c] = Put(@, id, next)]
      /\ UNCHANGED <<adapter, calls, modem, crashes, toldPaused, mishaps, lost, refused, load>>
    BY DEF locAPIAddGeofences, history
<1>5. m = Message("command", m.kind, m.c, m.session)
    BY <1>3
<1> HIDE DEF m
<1>6. Commands(m, id)
    BY <1>1, <1>3, <1>4, <1>5 DEF Commands, Posted
<1> QED BY <1>3, <1>6

LEMMA RemoveCommands ==
    ASSUME Typed, NEW c \in Clients, NEW id \in Ids, locAPIRemoveGeofences(c, id)
    PROVE  \E m \in Inbound : Commands(m, id)
<1> DEFINE s == dict[c][id]
           m == Message("command", "remove", c, s)
<1>1. id \in DOMAIN dict[c] /\ s \in Sessions /\ "remove" \in Kinds
    BY NamedSession DEF locAPIRemoveGeofences, Kinds
<1>2. Call(c, "remove", s)
    BY DEF locAPIRemoveGeofences
<1> HIDE DEF s
<1>3. /\ c \in clients /\ inbox' = Append(inbox, m) /\ m \in Inbound
      /\ m.type = "command" /\ m.kind = "remove" /\ m.c = c /\ m.session = s
    <2>1. c \in clients /\ inbox' = Append(inbox, m)
        BY <1>2 DEF Call, Registered
    <2>2. m \in Inbound
        BY <1>1, CommandMessage
    <2>3. m.type = "command" /\ m.kind = "remove" /\ m.c = c /\ m.session = s
        BY <1>1, CommandMessage
    <2> QED BY <2>1, <2>2, <2>3
<1>4. /\ next' = next /\ dict' = [dict EXCEPT ![c] = Drop(@, id)]
      /\ UNCHANGED <<adapter, calls, modem, crashes, toldPaused, mishaps, lost, refused, load>>
    BY DEF locAPIRemoveGeofences, history
<1>5. m = Message("command", m.kind, m.c, m.session) /\ m.session = dict[c][id]
    BY <1>3 DEF s
<1> HIDE DEF m
<1>6. Commands(m, id)
    BY <1>1, <1>3, <1>4, <1>5 DEF Commands, Posted
<1> QED BY <1>3, <1>6

LEMMA ChangeCommands ==
    ASSUME Typed, NEW c \in Clients, NEW id \in Ids, locAPIChangeGeofences(c, id)
    PROVE  \E m \in Inbound : Commands(m, id)
<1> DEFINE s == dict[c][id]
<1>0. PICK kind \in {"pause", "resume", "modify"} : Call(c, kind, s)
    BY DEF locAPIChangeGeofences
<1> DEFINE m == Message("command", kind, c, s)
<1>1. id \in DOMAIN dict[c] /\ s \in Sessions /\ kind \in Kinds
    BY NamedSession DEF locAPIChangeGeofences, Kinds
<1> HIDE DEF s
<1>3. /\ c \in clients /\ inbox' = Append(inbox, m) /\ m \in Inbound
      /\ m.type = "command" /\ m.kind = kind /\ m.c = c /\ m.session = s
    <2>1. c \in clients /\ inbox' = Append(inbox, m)
        BY <1>0 DEF Call, Registered
    <2>2. m \in Inbound
        BY <1>1, CommandMessage
    <2>3. m.type = "command" /\ m.kind = kind /\ m.c = c /\ m.session = s
        BY <1>1, CommandMessage
    <2> QED BY <2>1, <2>2, <2>3
<1>4. UNCHANGED <<dict, next, adapter, calls, modem, crashes, toldPaused, mishaps, lost, refused, load>>
    BY DEF locAPIChangeGeofences, history
<1>5. m = Message("command", m.kind, m.c, m.session) /\ m.session = dict[c][id] /\ m.kind \notin {"add", "remove"}
    BY <1>0, <1>3 DEF s
<1> HIDE DEF m
<1>6. Commands(m, id)
    BY <1>1, <1>3, <1>4, <1>5 DEF Commands, Posted
<1> QED BY <1>3, <1>6

LEMMA DestroyPosts ==
    ASSUME Typed, NEW c \in Clients, Destroy(c)
    PROVE  \E m \in Inbound : Destroys(m)
<1> DEFINE m == Message("remove client", "remove", c, NoSession)
<1>1. m \in Inbound /\ m.type = "remove client" /\ m.c = c /\ m.kind = "remove"
    BY Constants DEF Message, Inbound, Messages, Sound, OfCommands, Types, Kinds
<1>2. /\ c \in clients /\ inbox' = Append(inbox, m)
      /\ UNCHANGED <<dict, next, adapter, calls, modem, crashes, toldPaused, mishaps, lost, refused, load>>
    BY DEF Destroy, Registered, client, history
<1> HIDE DEF m
<1> QED BY <1>1, <1>2 DEF Destroys, Posted

LEMMA BreachPosts ==
    ASSUME Typed, NEW hw \in HwIds, Breach(hw)
    PROVE  \E m \in Inbound : Breaches(m)
<1> DEFINE key == modem.fences[hw].key
           m == [Message("breach", "add", key[1], key[2]) EXCEPT !.hw = hw]
<1>1. hw \in DOMAIN modem.fences /\ modem.fences[hw] \in Fences
    BY DEF Breach, Typed, ModemTyped
<1>2. key \in Keys /\ key[1] \in Clients /\ key[2] \in Sessions /\ key = <<key[1], key[2]>>
    BY <1>1, Constants DEF Fences
<1>3. inbox' = Append(inbox, m) /\ UNCHANGED <<dict, next, adapter, calls, modem, crashes, toldPaused, mishaps, lost, refused, load>>
    BY DEF Breach, history, client
<1>4. hw \in DOMAIN fences /\ fences[hw].key = key
    BY <1>1 DEF fences
<1> HIDE DEF key
<1>5. m \in Inbound /\ m.type = "breach" /\ m.hw = hw /\ m.c = key[1] /\ m.session = key[2]
    BY <1>2, Constants DEF Message, Inbound, Messages, Sound, OfCommands, Types, Kinds
<1>6. KeyOf(m) = key
    BY <1>2, <1>5 DEF KeyOf
<1> HIDE DEF m
<1> QED BY <1>3, <1>4, <1>5, <1>6 DEF Breaches, Posted

LEMMA EngineUpPosts ==
    ASSUME Typed, EngineUp
    PROVE  \E m \in Inbound : ComesUp(m)
<1> DEFINE m == Message("engine up", "add", Somebody, NoSession)
<1>1. m \in Inbound /\ m.type = "engine up"
    BY Constants DEF Message, Inbound, Messages, Sound, OfCommands, Types, Kinds
<1>2. /\ inbox' = Append(inbox, m) /\ UNCHANGED <<dict, next, adapter, calls, crashes, toldPaused, mishaps, lost, refused, load>>
      /\ ~modem.up /\ modem' = [modem EXCEPT !.up = TRUE]
    BY DEF EngineUp, history, client, counters, Somebody
<1>3. modem'.up /\ fences' = fences /\ ModemTyped'
    BY <1>2 DEF fences, Typed, ModemTyped
<1> HIDE DEF m
<1> QED BY <1>1, <1>2, <1>3 DEF ComesUp, Posted

LEMMA CrashIs == ASSUME Typed, Crash PROVE Crashed
<1>1. modem.up /\ modem' = [up |-> FALSE, fences |-> <<>>]
    BY DEF Crash
<1>2. ~modem'.up /\ ModemTyped' /\ DOMAIN fences' = {}
    BY <1>1 DEF ModemTyped, fences
<1> QED BY <1>1, <1>2 DEF Crash, Crashed, client, Mishap

LEMMA IdleIs == ASSUME UNCHANGED vars PROVE Idle
BY DEF vars, client, adapter, counters, history, Idle

\* Every action is such a step.
LEMMA NextIsStep == ASSUME Typed, [Next]_vars PROVE Step
<1>1. CASE \E c \in Clients, id \in Ids :
             locAPIAddGeofences(c, id) \/ locAPIRemoveGeofences(c, id) \/ locAPIChangeGeofences(c, id)
    BY <1>1, AddCommands, RemoveCommands, ChangeCommands DEF Step
<1>2. CASE \E c \in Clients : Destroy(c)
    BY <1>2, DestroyPosts DEF Step
<1>3. CASE Handle
    BY <1>3, HandleHandled DEF Step
<1>4. CASE Api
    BY <1>4, ReturnsShift, FailsShift, ServesShift DEF Step, Api
<1>5. CASE \E hw \in HwIds : Breach(hw)
    BY <1>5, BreachPosts DEF Step
<1>6. CASE Crash
    BY <1>6, CrashIs DEF Step
<1>7. CASE EngineUp
    BY <1>7, EngineUpPosts DEF Step
<1>8. CASE UNCHANGED vars
    BY <1>8, IdleIs DEF Step
<1> QED BY <1>1, <1>2, <1>3, <1>4, <1>5, <1>6, <1>7, <1>8 DEF Next

-----------------------------------------------------------------------------
(* The types are kept                                                      *)

LEMMA KeyInKeys ==
    ASSUME NEW m \in Messages, Sound(m), m.type \notin {"remove client", "engine up"}
    PROVE  KeyOf(m) \in Keys /\ m.session \in Sessions /\ m.c \in Clients
BY DEF KeyOf, Keys, Sound

LEMMA SavedFence ==
    ASSUME NEW m \in Messages, Sound(m), Saves(m)
    PROVE  /\ m.hw \in HwIds /\ Fence(KeyOf(m), FALSE, m.options) \in Fences
           /\ Fence(KeyOf(m), FALSE, m.options).key = KeyOf(m)
           /\ Fence(KeyOf(m), FALSE, m.options).options = m.options
           /\ Fence(KeyOf(m), FALSE, m.options).paused = FALSE
<1>1. KeyOf(m) \in Keys
    BY KeyInKeys DEF Saves
<1> QED BY <1>1 DEF Fence, Fences, Messages, Sound, Saves

LEMMA MapsStayTyped ==
    ASSUME MapsTyped, NEW m \in Messages, Sound(m), MapStep(m)
    PROVE  MapsTyped'
<1>1. CASE Saves(m)
    BY <1>1, SavedFence, SaveMaps DEF MapStep
<1>2. CASE Removes(m)
    <2>1. m.hw \in HwIds
        BY <1>2 DEF Sound, Removes
    <2> QED BY <1>2, <2>1, RemoveMaps DEF MapStep
<1>3. CASE Changes(m)
    <2>1. m.hw \in HwIds /\ m.kind \in {"pause", "resume", "modify"}
        BY <1>3 DEF Sound, Changes
    <2> QED BY <1>3, <2>1, ChangeMaps DEF MapStep
<1>4. CASE Forgets(m)
    <2>1. mGeofences' = [x \in DOMAIN mGeofences \ {m.hw} |-> mGeofences[x]] /\ mGeofenceIds' = mGeofenceIds
        BY <1>4 DEF MapStep, Drop, Restrict
    <2> QED BY <2>1 DEF MapsTyped
<1>5. CASE m.type = "engine up"
    <2>1. mGeofences' = <<>> /\ mGeofenceIds' = IF mGeofences = <<>> THEN mGeofenceIds ELSE <<>>
        BY <1>5 DEF MapStep
    <2> QED BY <2>1 DEF MapsTyped
<1>6. CASE m.type = "remove client"
    <2>1. /\ mGeofences' = mGeofences
          /\ mGeofenceIds' = [key \in {k \in DOMAIN mGeofenceIds : k[1] # m.c} |-> mGeofenceIds[key]]
        BY <1>6 DEF MapStep
    <2> QED BY <2>1 DEF MapsTyped
<1>7. CASE SameMaps
    BY <1>7 DEF SameMaps, MapsTyped
<1> QED BY <1>1, <1>2, <1>3, <1>4, <1>5, <1>6, <1>7 DEF MapStep

LEMMA MapsTypedStep == ASSUME Typed, Step PROVE MapsTyped'
<1>0. MapsTyped
    BY DEF Typed
<1>1. ASSUME UNCHANGED adapter PROVE MapsTyped'
    BY <1>0, <1>1 DEF MapsTyped, adapter
<1>2. CASE \E m \in Inbound : (\E id \in Ids : Commands(m, id)) \/ Destroys(m) \/ Breaches(m) \/ ComesUp(m)
    BY <1>1, <1>2 DEF Commands, Destroys, Breaches, ComesUp, Posted
<1>3. CASE \E m \in Inbound : Sound(m) /\ m \in Messages /\ \E r : Handled(m, r)
    BY <1>0, <1>3, MapsStayTyped DEF Handled
<1>4. CASE \E n \in Outbound : \E m : Shifted(n, m) /\ (Returned(n, m) \/ Failed(n, m) \/ Performed(n, m))
    BY <1>1, <1>4 DEF Shifted
<1>5. CASE Crashed
    BY <1>1, <1>5 DEF Crashed
<1>6. CASE Idle
    BY <1>1, <1>6 DEF Idle
<1> QED BY <1>2, <1>3, <1>4, <1>5, <1>6 DEF Step

LEMMA ModemTypedStep == ASSUME Typed, Step PROVE ModemTyped'
<1>0. ModemTyped
    BY DEF Typed
<1>1. ASSUME UNCHANGED modem PROVE ModemTyped'
    BY <1>0, <1>1 DEF ModemTyped
<1>2. CASE \E m \in Inbound : (\E id \in Ids : Commands(m, id)) \/ Destroys(m) \/ Breaches(m) \/ ComesUp(m)
    BY <1>1, <1>2 DEF Commands, Destroys, Breaches, ComesUp
<1>3. CASE \E m \in Inbound : Sound(m) /\ m \in Messages /\ \E r : Handled(m, r)
    BY <1>1, <1>3 DEF Handled
<1>4. CASE \E n \in Outbound : \E m : Shifted(n, m) /\ (Returned(n, m) \/ Failed(n, m) \/ Performed(n, m))
    BY <1>1, <1>4 DEF Returned, Failed, Performed
<1>5. CASE Crashed
    BY <1>5 DEF Crashed
<1>6. CASE Idle
    BY <1>1, <1>6 DEF Idle
<1> QED BY <1>2, <1>3, <1>4, <1>5, <1>6 DEF Step

LEMMA Appended ==
    ASSUME NEW M, NEW q \in Seq(M), NEW m \in M
    PROVE  /\ Append(q, m) \in Seq(M) /\ Len(Append(q, m)) = Len(q) + 1 /\ Len(q) \in Nat
           /\ Append(q, m)[Len(q) + 1] = m
           /\ \A i \in 1 .. Len(q) : Append(q, m)[i] = q[i]
OBVIOUS

LEMMA Joined ==
    ASSUME NEW M, NEW q \in Seq(M), NEW r \in Seq(M)
    PROVE  /\ q \o r \in Seq(M) /\ Len(q \o r) = Len(q) + Len(r) /\ Len(q) \in Nat /\ Len(r) \in Nat
           /\ \A i \in 1 .. Len(q) : (q \o r)[i] = q[i]
           /\ \A i \in 1 .. Len(r) : (q \o r)[Len(q) + i] = r[i]
OBVIOUS

LEMMA QueuesTypedStep == ASSUME Typed, Step PROVE QueuesTyped'
<1>0. inbox \in Seq(Inbound) /\ calls \in Seq(Outbound)
    BY DEF Typed, QueuesTyped
<1>2. CASE \E m \in Inbound : (\E id \in Ids : Commands(m, id)) \/ Destroys(m) \/ Breaches(m) \/ ComesUp(m)
    <2>1. PICK m \in Inbound : Posted(m)
        BY <1>2 DEF Commands, Destroys, Breaches, ComesUp
    <2> QED BY <1>0, <2>1, Appended DEF Posted, QueuesTyped
<1>3. CASE \E m \in Inbound : Sound(m) /\ m \in Messages /\ \E r : Handled(m, r)
    <2>1. PICK m \in Inbound, r \in Seq(Outbound) : Handled(m, r)
        BY <1>3 DEF Handled
    <2>2. inbox' \in Seq(Inbound)
        BY <1>0, <2>1, RestOfQueue DEF Handled
    <2>3. calls' \in Seq(Outbound)
        BY <1>0, <2>1, Joined DEF Handled, SendStep
    <2> QED BY <2>2, <2>3 DEF QueuesTyped
<1>4. CASE \E n \in Outbound : \E m : Shifted(n, m) /\ (Returned(n, m) \/ Failed(n, m) \/ Performed(n, m))
    <2>1. PICK n \in Outbound, m \in Inbound : Shifted(n, m)
        BY <1>4 DEF Shifted
    <2>2. inbox' \in Seq(Inbound)
        BY <1>0, <2>1, Appended DEF Shifted
    <2>3. calls' \in Seq(Outbound)
        BY <1>0, <2>1, RestOfQueue DEF Shifted
    <2> QED BY <2>2, <2>3 DEF QueuesTyped
<1>5. CASE Crashed
    BY <1>0, <1>5 DEF Crashed, QueuesTyped
<1>6. CASE Idle
    BY <1>0, <1>6 DEF Idle, QueuesTyped
<1> QED BY <1>2, <1>3, <1>4, <1>5, <1>6 DEF Step

LEMMA PartialPut ==
    ASSUME NEW S, NEW T, NEW f \in PartialFunctions(S, T), NEW x \in S, NEW y \in T
    PROVE  Put(f, x, y) \in PartialFunctions(S, T) /\ Drop(f, x) \in PartialFunctions(S, T)
<1>1. PICK D \in SUBSET S : f \in [D -> T]
    BY DEF PartialFunctions
<1>2. Put(f, x, y) \in [D \cup {x} -> T] /\ D \cup {x} \in SUBSET S
    BY <1>1 DEF Put
<1>3. Drop(f, x) \in [D \ {x} -> T] /\ D \ {x} \in SUBSET S
    BY <1>1 DEF Drop, Restrict
<1> QED BY <1>2, <1>3 DEF PartialFunctions

LEMMA QueueTypedStep ==
    ASSUME Typed, [Next]_vars PROVE queue' \in [Clients -> Seq(Requests)]
<1>0. queue \in [Clients -> Seq(Requests)]
    BY DEF Typed, ClientsTyped
<1>1. CASE queue' = queue
    BY <1>0, <1>1
<1>2. ASSUME NEW c \in Clients, NEW kind \in Kinds, NEW session, session \in Sessions, queue' = [queue EXCEPT ![c] = Append(@, [kind |-> kind, session |-> session])]
      PROVE  queue' \in [Clients -> Seq(Requests)]
    <2>1. [kind |-> kind, session |-> session] \in Requests
        BY <1>2 DEF Requests
    <2>2. Append(queue[c], [kind |-> kind, session |-> session]) \in Seq(Requests)
        BY <1>0, <2>1
    <2> QED BY <1>0, <1>2, <2>2
<1>3. ASSUME NEW m \in Messages, Respond(m.c, m.kind, m.session) PROVE queue' \in [Clients -> Seq(Requests)]
    <2>1. CASE m.c \in clients /\ queue[m.c] # <<>>
        <3>1. queue' = [queue EXCEPT ![m.c] = Tail(@)]
            BY <1>3, <2>1 DEF Respond
        <3>2. m.c \in Clients
            BY <2>1 DEF Typed, ClientsTyped
        <3>3. Tail(queue[m.c]) \in Seq(Requests)
            BY <1>0, <2>1, <3>2
        <3> QED BY <1>0, <3>1, <3>3
    <2>2. CASE ~(m.c \in clients /\ queue[m.c] # <<>>)
        BY <1>1, <1>3, <2>2 DEF Respond
    <2> QED BY <2>1, <2>2
<1>4. CASE \E c \in Clients, id \in Ids :
             locAPIAddGeofences(c, id) \/ locAPIRemoveGeofences(c, id) \/ locAPIChangeGeofences(c, id)
    <2>1. PICK c \in Clients, id \in Ids :
             locAPIAddGeofences(c, id) \/ locAPIRemoveGeofences(c, id) \/ locAPIChangeGeofences(c, id)
        BY <1>4
    <2>2. CASE locAPIAddGeofences(c, id)
        <3>1. next \in Sessions /\ "add" \in Kinds
            BY <2>2, Constants DEF locAPIAddGeofences, Typed, ClientsTyped, Sessions, Kinds
        <3>2. queue' = [queue EXCEPT ![c] = Append(@, [kind |-> "add", session |-> next])]
            BY <2>2 DEF locAPIAddGeofences, Call
        <3> QED BY <1>2, <3>1, <3>2
    <2>3. CASE locAPIRemoveGeofences(c, id)
        <3>1. dict[c][id] \in Sessions /\ "remove" \in Kinds
            BY <2>3, NamedSession DEF locAPIRemoveGeofences, Kinds
        <3>2. queue' = [queue EXCEPT ![c] = Append(@, [kind |-> "remove", session |-> dict[c][id]])]
            BY <2>3 DEF locAPIRemoveGeofences, Call
        <3> QED BY <1>2, <3>1, <3>2
    <2>4. CASE locAPIChangeGeofences(c, id)
        <3>0. PICK kind \in {"pause", "resume", "modify"} : Call(c, kind, dict[c][id])
            BY <2>4 DEF locAPIChangeGeofences
        <3>1. dict[c][id] \in Sessions /\ kind \in Kinds
            BY <2>4, NamedSession DEF locAPIChangeGeofences, Kinds
        <3>2. queue' = [queue EXCEPT ![c] = Append(@, [kind |-> kind, session |-> dict[c][id]])]
            BY <3>0 DEF Call
        <3> QED BY <1>2, <3>1, <3>2
    <2> QED BY <2>1, <2>2, <2>3, <2>4
<1>5. CASE Perform
    <2>1. Head(inbox) \in Messages
        BY <1>5, FirstMessage DEF Perform
    <2>2. queue' = queue \/ Respond(Head(inbox).c, Head(inbox).kind, Head(inbox).session)
        BY <1>5 DEF Perform
    <2> QED BY <1>1, <1>3, <2>1, <2>2
<1>6. CASE Answer
    <2>1. Head(inbox) \in Messages
        BY <1>6, FirstMessage DEF Answer
    <2>2. queue' = queue \/ Respond(Head(inbox).c, Head(inbox).kind, Head(inbox).session)
        BY <1>6 DEF Answer, Answered
    <2> QED BY <1>1, <1>3, <2>1, <2>2
<1>7. CASE \/ \E c \in Clients : Destroy(c)
           \/ Command \/ RemoveClient \/ ClientFenceRemoved \/ HandleEngineUp \/ Restored \/ PausedAgain \/ GeofenceBreach
           \/ Api \/ (\E hw \in HwIds : Breach(hw)) \/ Crash \/ EngineUp \/ UNCHANGED vars
    <2>1. queue' = queue
        BY <1>7 DEF Destroy, Command, RemoveClient, ClientFenceRemoved, HandleEngineUp, Restored, PausedAgain, GeofenceBreach,
                    Api, ApiReturns, ModemFails, ModemServes, Breach, Crash, EngineUp, vars, client
    <2> QED BY <1>1, <2>1
<1> QED BY <1>4, <1>5, <1>6, <1>7 DEF Next, Handle

LEMMA ClientsTypedStep == ASSUME Typed, [Next]_vars PROVE ClientsTyped'
<1>0. /\ load \in Loads /\ clients \in SUBSET Clients /\ toldPaused \in SUBSET Keys
      /\ dict \in [Clients -> PartialFunctions(Ids, Sessions)] /\ next \in 1 .. MaxAdds + 1 /\ mishaps \in SUBSET Mishaps
      /\ lost \in SUBSET Keys /\ refused \in SUBSET Keys
    BY DEF Typed, ClientsTyped
<1>1. queue' \in [Clients -> Seq(Requests)]
    BY QueueTypedStep
<1>2. ASSUME load' = load, clients' \in SUBSET Clients, toldPaused' \in SUBSET Keys,
             dict' \in [Clients -> PartialFunctions(Ids, Sessions)], next' \in 1 .. MaxAdds + 1, mishaps' \in SUBSET Mishaps,
             lost' \in SUBSET Keys, refused' \in SUBSET Keys
      PROVE  ClientsTyped'
    BY <1>0, <1>1, <1>2 DEF ClientsTyped
<1>3. Step
    BY NextIsStep
<1>4. CASE \E m \in Inbound : (\E id \in Ids : Commands(m, id))
    <2>1. PICK m \in Inbound, id \in Ids : Commands(m, id)
        BY <1>4
    <2>2. load' = load /\ clients' = clients /\ toldPaused' = toldPaused /\ mishaps' = mishaps /\ lost' = lost /\ refused' = refused
        BY <2>1 DEF Commands, Posted, adapter
    <2>3. next' \in 1 .. MaxAdds + 1
        BY <1>0, <2>1, Constants DEF Commands, Sessions
    <2>4. m.c \in Clients /\ dict[m.c] \in PartialFunctions(Ids, Sessions)
        BY <1>0, <2>1 DEF Commands
    <2>5. Drop(dict[m.c], id) \in PartialFunctions(Ids, Sessions)
        <3>1. CASE Sessions = {}
            BY <1>0, <2>1, <2>4, <3>1 DEF PartialFunctions, Drop, Restrict
        <3>2. CASE Sessions # {}
            BY <2>4, <3>2, PartialPut
        <3> QED BY <3>1, <3>2
    <2>6. dict' \in [Clients -> PartialFunctions(Ids, Sessions)]
        <3>1. CASE m.kind = "add"
            <4>1. next \in Sessions /\ dict' = [dict EXCEPT ![m.c] = Put(@, id, next)]
                BY <2>1, <3>1 DEF Commands
            <4>2. Put(dict[m.c], id, next) \in PartialFunctions(Ids, Sessions)
                BY <2>4, <4>1, PartialPut
            <4> QED BY <1>0, <2>4, <4>1, <4>2
        <3>2. CASE m.kind = "remove"
            <4>1. dict' = [dict EXCEPT ![m.c] = Drop(@, id)]
                BY <2>1, <3>2 DEF Commands
            <4> QED BY <1>0, <2>4, <2>5, <4>1
        <3>3. CASE m.kind \notin {"add", "remove"}
            BY <1>0, <2>1, <3>3 DEF Commands
        <3> QED BY <3>1, <3>2, <3>3
    <2> QED BY <1>0, <1>2, <2>2, <2>3, <2>6
<1>5. CASE \E m \in Inbound : Destroys(m) \/ Breaches(m) \/ ComesUp(m)
    BY <1>0, <1>2, <1>5 DEF Destroys, Breaches, ComesUp, Posted, adapter
<1>6. CASE \E m \in Inbound : Sound(m) /\ m \in Messages /\ \E r : Handled(m, r)
    <2>0. PICK m \in Messages : Sound(m) /\ \E r : Handled(m, r)
        BY <1>6
    <2>1. PICK r : Handled(m, r) /\ Sound(m)
        BY <2>0
    <2>2. load' = load /\ next' = next /\ dict' = dict /\ mishaps' \in SUBSET Mishaps /\ clients' \in SUBSET Clients
          /\ lost' \in SUBSET Keys /\ refused' \in SUBSET Keys
        BY <1>0, <2>1 DEF Handled, counters
    <2>3. m.type = "answer" => KeyOf(m) \in Keys
        BY <2>1, KeyInKeys
    <2>4. \/ toldPaused' = toldPaused
          \/ m.type = "answer" /\ toldPaused' \in {toldPaused \cup {KeyOf(m)}, toldPaused \ {KeyOf(m)}}
        BY <2>1 DEF Handled
    <2>5. toldPaused' \in SUBSET Keys
        BY <1>0, <2>3, <2>4
    <2> QED BY <1>0, <1>2, <2>2, <2>5
<1>7. CASE \E n \in Outbound : \E m : Shifted(n, m) /\ (Returned(n, m) \/ Failed(n, m) \/ Performed(n, m))
    <2>0. PICK n \in Outbound : \E m : Shifted(n, m) /\ (Returned(n, m) \/ Failed(n, m) \/ Performed(n, m))
        BY <1>7
    <2>1. PICK m : Shifted(n, m) /\ (Returned(n, m) \/ Failed(n, m) \/ Performed(n, m))
        BY <2>0
    <2>2. n.kind \in Mishaps
        BY DEF Outbound, Messages, Mishaps
    <2>3. mishaps' \in SUBSET Mishaps
        BY <1>0, <2>1, <2>2 DEF Returned, Failed, Performed, Mishaps
    <2>4. KeyOf(n) \in Keys \/ n.type # "call"
        BY KeyInKeys DEF Outbound
    <2>5. refused' \in SUBSET Keys
        BY <1>0, <2>1, <2>4 DEF Returned, Failed, Performed
    <2> QED BY <1>0, <1>2, <2>1, <2>3, <2>5 DEF Shifted, adapter, client
<1>8. CASE Crashed
    <2>1. mishaps' \in SUBSET Mishaps
        BY <1>0, <1>8 DEF Crashed, Mishaps
    <2> QED BY <1>0, <1>2, <1>8, <2>1 DEF Crashed, adapter
<1>9. CASE Idle
    BY <1>0, <1>2, <1>9 DEF Idle, adapter
<1> QED BY <1>3, <1>4, <1>5, <1>6, <1>7, <1>8, <1>9 DEF Step

\* So each step keeps the types.
LEMMA TypedStep == ASSUME Typed, [Next]_vars PROVE Typed'
BY NextIsStep, MapsTypedStep, ModemTypedStep, QueuesTypedStep, ClientsTypedStep DEF Typed

\* Every variable stays in its set, in every behaviour: messages name clients,
\* sessions and hwIds that exist, and a good answer its hwId.
THEOREM TypesAreKept == Spec => []Typed
BY TypedInitially, TypedStep, PTL DEF Spec

-----------------------------------------------------------------------------
(* Sessions are given once                                                 *)

Young(n) == {m \in Messages : m.type \notin {"remove client", "engine up"} => m.session < n}

\* No message, map or name has a session that is still to be given.
Fresh ==
    /\ \A i \in 1 .. Len(inbox) : inbox[i] \in Young(next)
    /\ \A i \in 1 .. Len(calls) : calls[i] \in Young(next)
    /\ \A hw \in DOMAIN mGeofences : mGeofences[hw].key[2] < next
    /\ \A key \in DOMAIN mGeofenceIds : key[2] < next
    /\ \A hw \in DOMAIN fences : fences[hw].key[2] < next
    /\ \A key \in toldPaused : key[2] < next
    /\ \A c \in Clients : \A id \in DOMAIN dict[c] : dict[c][id] < next

LEMMA EachAppended ==
    ASSUME NEW M, NEW q \in Seq(M), NEW m \in M, NEW G, m \in G, \A i \in 1 .. Len(q) : q[i] \in G
    PROVE  \A i \in 1 .. Len(Append(q, m)) : Append(q, m)[i] \in G
<1>1. \A i \in 1 .. Len(Append(q, m)) : i \in 1 .. Len(q) \/ i = Len(q) + 1
    BY Appended
<1> QED BY <1>1, Appended

LEMMA EachOfRest ==
    ASSUME NEW M, NEW q \in Seq(M), q # <<>>, NEW G, \A i \in 1 .. Len(q) : q[i] \in G
    PROVE  Head(q) \in G /\ \A i \in 1 .. Len(Tail(q)) : Tail(q)[i] \in G
<1>1. \A i \in 1 .. Len(Tail(q)) : i \in 1 .. Len(q) - 1 /\ i + 1 \in 1 .. Len(q)
    BY RestOfQueue
<1>2. 1 \in 1 .. Len(q)
    BY RestOfQueue
<1> QED BY <1>1, <1>2, RestOfQueue

LEMMA JoinedIndex ==
    ASSUME NEW M, NEW q \in Seq(M), NEW r \in Seq(M), NEW i \in 1 .. Len(q \o r)
    PROVE  \/ i \in 1 .. Len(q) /\ (q \o r)[i] = q[i]
           \/ i - Len(q) \in 1 .. Len(r) /\ (q \o r)[i] = r[i - Len(q)]
<1> DEFINE a == Len(q)
           b == Len(r)
           s == q \o r
<1>1. a \in Nat /\ b \in Nat /\ Len(s) = a + b
    BY Joined
<1>2. /\ \A j \in 1 .. a : s[j] = q[j]
      /\ \A j \in 1 .. b : s[a + j] = r[j]
    BY Joined
<1>3. i \in 1 .. Len(s)
    OBVIOUS
<1> HIDE DEF a, b, s
<1>4. i \in 1 .. a \/ (i - a \in 1 .. b /\ a + (i - a) = i)
    BY <1>1, <1>3
<1>5. i \in 1 .. a \/ s[i] = r[i - a]
    BY <1>2, <1>4
<1>6. (i \in 1 .. a /\ s[i] = q[i]) \/ (i - a \in 1 .. b /\ s[i] = r[i - a])
    BY <1>2, <1>4, <1>5
<1> QED BY <1>6 DEF a, b, s

LEMMA EachJoined ==
    ASSUME NEW M, NEW q \in Seq(M), NEW r \in Seq(M), NEW G, \A i \in 1 .. Len(q) : q[i] \in G, \A i \in 1 .. Len(r) : r[i] \in G
    PROVE  \A i \in 1 .. Len(q \o r) : (q \o r)[i] \in G
BY JoinedIndex

LEMMA FreshInitially == ASSUME Init PROVE Fresh
BY DEF Init, Fresh, fences

\* A handler sends what is about the session of its message, or of the maps.
LEMMA SentYoung ==
    ASSUME Typed, NEW m \in Messages, Sound(m), NEW r \in Seq(Outbound), SendStep(m, r), m \in Young(next),
           \A hw \in DOMAIN mGeofences : mGeofences[hw].key[2] < next,
           \A key \in DOMAIN mGeofenceIds : key[2] < next
    PROVE  \A i \in 1 .. Len(r) : r[i] \in Young(next)
<1>0. ASSUME NEW n, r = <<n>>, n.session = m.session, m.type \notin {"remove client", "engine up"}, n \in Outbound
      PROVE  \A i \in 1 .. Len(r) : r[i] \in Young(next)
    <2>1. m.session < next
        BY <1>0 DEF Young
    <2>2. n \in Young(next)
        BY <1>0, <2>1 DEF Young, Outbound
    <2>4. Len(r) = 1 /\ r[1] = n
        BY <1>0
    <2>3. \A i \in 1 .. Len(r) : r[i] = n
        BY <2>4
    <2> QED BY <2>2, <2>3
<1>9. \A i \in 1 .. Len(r) : r[i] \in Outbound
    OBVIOUS
<1>1. CASE m.type = "command"
    <2>1. r = <<[m EXCEPT !.type = "return"]>>
        BY <1>1 DEF SendStep
    <2>2. [m EXCEPT !.type = "return"] \in Outbound
        BY <1>9, <2>1
    <2> QED BY <1>0, <1>1, <2>1, <2>2 DEF Messages
<1>2. CASE m.type = "perform" /\ Known(m)
    <2>1. r = <<CallOf(m)>>
        BY <1>2 DEF SendStep
    <2>2. CallOf(m) \in Outbound
        BY <1>9, <2>1
    <2> QED BY <1>0, <1>2, <2>1, <2>2 DEF Messages, CallOf
<1>3. CASE m.type = "restored" /\ m.ok /\ m.paused
    <2>1. r = <<PauseOf(m)>>
        BY <1>3 DEF SendStep
    <2>2. PauseOf(m) \in Outbound
        BY <1>9, <2>1
    <2> QED BY <1>0, <1>3, <2>1, <2>2 DEF PauseOf, Message
<1>4. CASE m.type = "engine up"
    <2> SUFFICES ASSUME NEW i \in 1 .. Len(r) PROVE r[i] \in Young(next)
        OBVIOUS
    <2>1. PICK hw \in DOMAIN mGeofences : r[i] = Again(hw)
        BY <1>4 DEF SendStep
    <2>2. r[i].session = mGeofences[hw].key[2]
        BY <2>1 DEF Again, Message
    <2> QED BY <1>9, <2>2 DEF Young, Outbound
<1>5. CASE m.type = "remove client"
    <2> SUFFICES ASSUME NEW i \in 1 .. Len(r) PROVE r[i] \in Young(next)
        OBVIOUS
    <2>1. PICK s \in SessionsOf(m.c) : r[i] = RemovalFor(m.c, s)
        BY <1>5 DEF SendStep
    <2>2. r[i].session = s
        BY <2>1 DEF RemovalFor, Message
    <2>3. s < next
        BY DEF SessionsOf
    <2> QED BY <1>9, <2>2, <2>3 DEF Young, Outbound
<1>6. CASE r = <<>>
    BY <1>6
<1> QED BY <1>1, <1>2, <1>3, <1>4, <1>5, <1>6 DEF SendStep

\* An entry of a map after a handler was there, or the message saved it.
LEMMA MapStepKeys ==
    ASSUME Typed, NEW m \in Messages, Sound(m), MapStep(m)
    PROVE  /\ \A hw \in DOMAIN mGeofences' : \/ hw \in DOMAIN mGeofences /\ mGeofences'[hw].key = mGeofences[hw].key
                                             \/ Saves(m) /\ hw = m.hw /\ mGeofences'[hw].key = KeyOf(m)
           /\ \A key \in DOMAIN mGeofenceIds' : \/ key \in DOMAIN mGeofenceIds /\ mGeofenceIds'[key] = mGeofenceIds[key]
                                                \/ Saves(m) /\ key = KeyOf(m) /\ mGeofenceIds'[key] = m.hw
<1>0. MapsTyped
    BY DEF Typed
<1>1. CASE Saves(m)
    <2>1. /\ DOMAIN mGeofences' = DOMAIN mGeofences \cup {m.hw} /\ mGeofences'[m.hw].key = KeyOf(m)
          /\ \A x \in DOMAIN mGeofences : x # m.hw => mGeofences'[x] = mGeofences[x]
          /\ DOMAIN mGeofenceIds' = DOMAIN mGeofenceIds \cup {KeyOf(m)} /\ mGeofenceIds'[KeyOf(m)] = m.hw
          /\ \A key \in DOMAIN mGeofenceIds : key # KeyOf(m) => mGeofenceIds'[key] = mGeofenceIds[key]
        <3> DEFINE fence == Fence(KeyOf(m), FALSE, m.options)
        <3>1. m.hw \in HwIds /\ fence \in Fences /\ fence.key = KeyOf(m) /\ saveGeofenceItem(m.hw, fence)
            BY <1>1, SavedFence DEF MapStep
        <3> HIDE DEF fence
        <3> QED BY <1>0, <3>1, SaveMaps
    <2> QED BY <1>1, <2>1
<1>2. CASE Removes(m)
    <2>1. m.hw \in HwIds
        BY <1>2 DEF Sound, Removes
    <2> QED BY <1>0, <1>2, <2>1, RemoveMaps DEF MapStep
<1>3. CASE Changes(m)
    <2>1. m.hw \in HwIds /\ m.kind \in {"pause", "resume", "modify"}
        BY <1>3 DEF Sound, Changes
    <2> QED BY <1>0, <1>3, <2>1, ChangeMaps DEF MapStep
<1>4. CASE Forgets(m)
    <2>1. mGeofences' = [x \in DOMAIN mGeofences \ {m.hw} |-> mGeofences[x]] /\ mGeofenceIds' = mGeofenceIds
        BY <1>4 DEF MapStep, Drop, Restrict
    <2> QED BY <2>1
<1>5. CASE m.type = "engine up"
    <2>1. mGeofences' = <<>> /\ mGeofenceIds' = IF mGeofences = <<>> THEN mGeofenceIds ELSE <<>>
        BY <1>5 DEF MapStep
    <2> QED BY <2>1
<1>6. CASE m.type = "remove client"
    <2>1. /\ mGeofences' = mGeofences
          /\ mGeofenceIds' = [key \in {k \in DOMAIN mGeofenceIds : k[1] # m.c} |-> mGeofenceIds[key]]
        BY <1>6 DEF MapStep
    <2> QED BY <2>1
<1>7. CASE SameMaps
    BY <1>7 DEF SameMaps
<1> QED BY <1>1, <1>2, <1>3, <1>4, <1>5, <1>6, <1>7 DEF MapStep

\* A new session is the next one, and then it is younger than the next.
LEMMA FreshStep == ASSUME Typed, Fresh, Step PROVE Fresh'
<1>0. inbox \in Seq(Inbound) /\ calls \in Seq(Outbound) /\ next \in Nat
    BY DEF Typed, QueuesTyped, ClientsTyped
<1>1. CASE \E m \in Inbound : \E id \in Ids : Commands(m, id)
    <2>1. PICK m \in Inbound, id \in Ids : Commands(m, id)
        BY <1>1
    <2>2. m.c \in Clients /\ dict[m.c] \in PartialFunctions(Ids, Sessions) /\ dict \in [Clients -> PartialFunctions(Ids, Sessions)]
        BY <2>1 DEF Commands, Typed, ClientsTyped
    <2>3. next <= next' /\ next' \in Nat /\ m.session < next'
        BY <1>0, <2>1, <2>2 DEF Commands, Fresh
    <2>4. \A x \in Young(next) : x \in Young(next')
        <3>1. \A x \in Messages : x.session \in Nat
            BY Constants DEF Messages
        <3>2. ASSUME NEW x \in Messages, x.session < next PROVE x.session < next'
            <4>1. x.session \in Nat
                BY <3>1
            <4> QED BY <1>0, <2>3, <3>2, <4>1
        <3> QED BY <3>2 DEF Young
    <2>5. m \in Young(next')
        BY <2>3 DEF Young, Inbound
    <2>6. \A i \in 1 .. Len(inbox) : inbox[i] \in Young(next')
        BY <2>4 DEF Fresh
    <2>7. \A i \in 1 .. Len(inbox') : inbox'[i] \in Young(next')
        BY <1>0, <2>1, <2>5, <2>6, EachAppended DEF Commands, Posted
    <2>8. \A i \in 1 .. Len(calls') : calls'[i] \in Young(next')
        BY <2>1, <2>4 DEF Commands, Posted, Fresh
    <2>9. \A c \in Clients : \A x \in DOMAIN dict'[c] : dict'[c][x] < next'
        <3>0. \A c \in Clients : \A x \in DOMAIN dict[c] : dict[c][x] \in Nat /\ dict[c][x] < next
            BY NamedSession DEF Fresh, Sessions
        <3>1. CASE m.kind = "add"
            <4>1. dict' = [dict EXCEPT ![m.c] = Put(@, id, next)] /\ next' = next + 1
                BY <2>1, <3>1 DEF Commands
            <4>2. \A c \in Clients : dict'[c] = IF c = m.c THEN Put(dict[m.c], id, next) ELSE dict[c]
                BY <2>2, <4>1
            <4>3. \A x \in DOMAIN Put(dict[m.c], id, next) : Put(dict[m.c], id, next)[x] < next'
                BY <1>0, <2>2, <3>0, <4>1 DEF Put
            <4> QED BY <1>0, <3>0, <4>1, <4>2, <4>3
        <3>2. CASE m.kind = "remove"
            <4>1. dict' = [dict EXCEPT ![m.c] = Drop(@, id)] /\ next' = next
                BY <2>1, <3>2 DEF Commands
            <4>2. \A c \in Clients : dict'[c] = IF c = m.c THEN Drop(dict[m.c], id) ELSE dict[c]
                BY <2>2, <4>1
            <4>3. \A x \in DOMAIN Drop(dict[m.c], id) : Drop(dict[m.c], id)[x] < next'
                BY <1>0, <2>2, <3>0, <4>1 DEF Drop, Restrict
            <4> QED BY <1>0, <3>0, <4>1, <4>2, <4>3
        <3>3. CASE m.kind \notin {"add", "remove"}
            BY <2>1, <3>0, <3>3 DEF Commands
        <3> QED BY <3>1, <3>2, <3>3
    <2>10. /\ \A hw \in DOMAIN mGeofences : mGeofences[hw].key[2] \in Nat
           /\ \A key \in DOMAIN mGeofenceIds : key[2] \in Nat
           /\ \A hw \in DOMAIN fences : fences[hw].key[2] \in Nat
           /\ \A key \in toldPaused : key[2] \in Nat
        <3>1. \A key \in Keys : key[2] \in Nat
            BY Constants DEF Sessions
        <3> QED BY <3>1 DEF Typed, MapsTyped, ModemTyped, ClientsTyped, fences, Fences
    <2>11. UNCHANGED <<mGeofences, mGeofenceIds, toldPaused, modem>>
        BY <2>1 DEF Commands, Posted, adapter
    <2>12. /\ \A hw \in DOMAIN mGeofences : mGeofences[hw].key[2] < next'
           /\ \A key \in DOMAIN mGeofenceIds : key[2] < next'
           /\ \A hw \in DOMAIN fences : fences[hw].key[2] < next'
           /\ \A key \in toldPaused : key[2] < next'
        BY <1>0, <2>3, <2>10 DEF Fresh
    <2> QED BY <2>7, <2>8, <2>9, <2>11, <2>12 DEF Fresh, fences
<1>2. CASE \E m \in Inbound : Destroys(m) \/ Breaches(m) \/ ComesUp(m)
    <2>1. PICK m \in Inbound : Destroys(m) \/ Breaches(m) \/ ComesUp(m)
        BY <1>2
    <2>2. /\ Posted(m) /\ next' = next /\ dict' = dict /\ fences' = fences
        BY <2>1 DEF Destroys, Breaches, ComesUp, fences
    <2>3. m \in Young(next)
        <3>1. CASE Breaches(m)
            <4>1. fences[m.hw].key = <<m.c, m.session>> /\ fences[m.hw].key[2] < next
                BY <3>1 DEF Breaches, Fresh, KeyOf
            <4>2. m.session < next
                BY <4>1
            <4> QED BY <4>2 DEF Young, Inbound
        <3>2. CASE Destroys(m) \/ ComesUp(m)
            BY <3>2 DEF Destroys, ComesUp, Young, Inbound
        <3> QED BY <2>1, <3>1, <3>2
    <2>4. \A i \in 1 .. Len(inbox') : inbox'[i] \in Young(next')
        BY <1>0, <2>2, <2>3, EachAppended DEF Posted, Fresh
    <2> QED BY <2>2, <2>4 DEF Fresh, Posted, adapter, fences
<1>3. CASE \E m \in Inbound : Sound(m) /\ m \in Messages /\ \E r : Handled(m, r)
    <2>0. PICK m \in Inbound : Sound(m) /\ m \in Messages /\ \E r : Handled(m, r)
        BY <1>3
    <2>1. PICK r : Handled(m, r)
        BY <2>0
    <2>2. UNCHANGED <<dict, modem, next>>
        BY <2>1 DEF Handled, counters
    <2>3. m \in Young(next) /\ \A i \in 1 .. Len(inbox') : inbox'[i] \in Young(next)
        BY <1>0, <2>1, EachOfRest DEF Handled, Fresh
    <2>4. r \in Seq(Outbound) /\ calls' = calls \o r /\ MapStep(m) /\ SendStep(m, r)
        BY <2>1 DEF Handled, SendStep
    <2>5. \A i \in 1 .. Len(r) : r[i] \in Young(next)
        BY <2>0, <2>3, <2>4, SentYoung DEF Fresh
    <2>6. \A i \in 1 .. Len(calls') : calls'[i] \in Young(next)
        BY <1>0, <2>4, <2>5, EachJoined DEF Fresh
    <2>7. m.type \notin {"remove client", "engine up"} => KeyOf(m)[2] < next
        BY <2>3 DEF Young, KeyOf
    <2>8. Saves(m) => KeyOf(m)[2] < next
        BY <2>7 DEF Saves
    <2>9. /\ \A hw \in DOMAIN mGeofences' : mGeofences'[hw].key[2] < next
          /\ \A key \in DOMAIN mGeofenceIds' : key[2] < next
        BY <2>0, <2>4, <2>8, MapStepKeys DEF Fresh
    <2>10. \A key \in toldPaused' : key[2] < next
        <3>1. \A key \in toldPaused' : key \in toldPaused \/ (m.type = "answer" /\ key = KeyOf(m))
            BY <2>1 DEF Handled
        <3> QED BY <2>7, <3>1 DEF Fresh
    <2> QED BY <2>2, <2>3, <2>6, <2>9, <2>10 DEF Fresh, fences
<1>4. CASE \E n \in Outbound : \E m : Shifted(n, m) /\ (Returned(n, m) \/ Failed(n, m) \/ Performed(n, m))
    <2>0. PICK n \in Outbound : \E m : Shifted(n, m) /\ (Returned(n, m) \/ Failed(n, m) \/ Performed(n, m))
        BY <1>4
    <2>1. PICK m : Shifted(n, m) /\ (Returned(n, m) \/ Failed(n, m) \/ Performed(n, m))
        BY <2>0
    <2>2. UNCHANGED <<dict, next, mGeofences, mGeofenceIds, toldPaused>>
        BY <2>1 DEF Shifted, client, adapter
    <2>3. n \in Young(next) /\ \A i \in 1 .. Len(calls') : calls'[i] \in Young(next)
        BY <1>0, <2>1, EachOfRest DEF Shifted, Fresh
    <2>4. n \in Messages /\ n.type \notin {"remove client", "engine up"}
        BY DEF Outbound
    <2>5. m.session = n.session /\ m \in Messages /\ m \in Inbound
        BY <2>1, <2>4 DEF Shifted, Returned, Failed, Performed, AnswerOf, Messages, Inbound
    <2>6. m \in Young(next)
        BY <2>3, <2>4, <2>5 DEF Young
    <2>7. \A i \in 1 .. Len(inbox') : inbox'[i] \in Young(next)
        BY <1>0, <2>1, <2>5, <2>6, EachAppended DEF Shifted, Fresh
    <2>8. \A hw \in DOMAIN fences' : fences'[hw].key[2] < next
        <3>1. CASE Returned(n, m) \/ Failed(n, m)
            BY <3>1 DEF Returned, Failed, fences, Fresh
        <3>2. CASE Performed(n, m)
            <4>0. KeyOf(n)[2] < next /\ Fence(KeyOf(n), FALSE, n.options).key = KeyOf(n)
                BY <2>3, <2>4 DEF Young, KeyOf, Fence
            <4>1. CASE n.kind = "add"
                <5>1. AddsFence(n, m)
                    BY <3>2, <4>1 DEF Performed
                <5> QED BY <4>0, <5>1 DEF AddsFence, Fresh
            <4>2. CASE n.kind = "remove"
                <5>1. RemovesFence(n)
                    BY <3>2, <4>2 DEF Performed
                <5> QED BY <5>1 DEF RemovesFence, Fresh
            <4>3. CASE n.kind \notin {"add", "remove"}
                <5>1. ChangesFence(n)
                    BY <3>2, <4>3 DEF Performed
                <5>2. \A hw \in DOMAIN fences' : hw \in DOMAIN fences /\ fences'[hw].key = fences[hw].key
                    BY <5>1 DEF ChangesFence
                <5> QED BY <5>2 DEF Fresh
            <4> QED BY <4>1, <4>2, <4>3
        <3> QED BY <2>1, <3>1, <3>2
    <2> QED BY <2>2, <2>3, <2>7, <2>8 DEF Fresh
<1>5. CASE Crashed
    BY <1>5 DEF Crashed, Fresh, adapter
<1>6. CASE Idle
    BY <1>6 DEF Idle, Fresh, adapter, fences
<1> QED BY <1>1, <1>2, <1>3, <1>4, <1>5, <1>6 DEF Step

-----------------------------------------------------------------------------
(* A geofence is in one place: on its way, or in the map                   *)

\* A message that carries a geofence to the modem or back to the map: an add,
\* from its command to its answer, also the add of a restart.
Carries(m, key) ==
    /\ m.kind = "add" /\ m.ok /\ m.type \notin {"engine up", "breach"}
    /\ KeyOf(m) = key
Has(q, key) == \E i \in 1 .. Len(q) : Carries(q[i], key)
Lone(q, key) == \A i, j \in 1 .. Len(q) : Carries(q[i], key) /\ Carries(q[j], key) => i = j
InMap(key) == \E hw \in DOMAIN mGeofences : mGeofences[hw].key = key
LoneInMap(key) == \A hw, x \in DOMAIN mGeofences : mGeofences[hw].key = key /\ mGeofences[x].key = key => hw = x

\* The geofence of a session is in one message, or in one entry of the map, or
\* nowhere.
Once(key) ==
    /\ Lone(inbox, key) /\ Lone(calls, key) /\ LoneInMap(key)
    /\ ~(Has(inbox, key) /\ Has(calls, key))
    /\ ~(Has(inbox, key) /\ InMap(key))
    /\ ~(Has(calls, key) /\ InMap(key))
Unique == \A key \in Keys : Once(key)

LEMMA HasAppended ==
    ASSUME NEW M, NEW q \in Seq(M), NEW m \in M, NEW key
    PROVE  Has(Append(q, m), key) <=> Has(q, key) \/ Carries(m, key)
<1> DEFINE n == Len(q)
           p == Append(q, m)
<1>1. n \in Nat /\ Len(p) = n + 1 /\ p[n + 1] = m /\ \A i \in 1 .. n : p[i] = q[i]
    BY Appended
<1> HIDE DEF n, p
<1>2. (\E i \in 1 .. n + 1 : Carries(p[i], key)) <=> (\E i \in 1 .. n : Carries(q[i], key)) \/ Carries(m, key)
    <2>1. \A i \in 1 .. n + 1 : i \in 1 .. n \/ i = n + 1
        BY <1>1
    <2>2. \A i \in 1 .. n : i \in 1 .. n + 1
        BY <1>1
    <2>3. n + 1 \in 1 .. n + 1
        BY <1>1
    <2> QED BY <1>1, <2>1, <2>2, <2>3
<1> QED BY <1>1, <1>2 DEF Has, n, p

LEMMA LoneAppended ==
    ASSUME NEW M, NEW q \in Seq(M), NEW m \in M, NEW key, Lone(q, key), ~(Has(q, key) /\ Carries(m, key))
    PROVE  Lone(Append(q, m), key)
<1> DEFINE n == Len(q)
           p == Append(q, m)
<1>1. n \in Nat /\ Len(p) = n + 1 /\ p[n + 1] = m /\ \A i \in 1 .. n : p[i] = q[i]
    BY Appended
<1>2. \A i, j \in 1 .. n : Carries(q[i], key) /\ Carries(q[j], key) => i = j
    BY DEF Lone
<1>3. Carries(m, key) => \A i \in 1 .. n : ~Carries(q[i], key)
    BY DEF Has
<1> HIDE DEF n, p
<1>4. \A i \in 1 .. n + 1 : i \in 1 .. n \/ i = n + 1
    BY <1>1
<1>5. \A i, j \in 1 .. n + 1 : Carries(p[i], key) /\ Carries(p[j], key) => i = j
    BY <1>1, <1>2, <1>3, <1>4
<1> QED BY <1>1, <1>5 DEF Lone, p

LEMMA HasInRest ==
    ASSUME NEW M, NEW q \in Seq(M), q # <<>>, NEW key
    PROVE  /\ Has(q, key) <=> Carries(Head(q), key) \/ Has(Tail(q), key)
           /\ Lone(q, key) => Lone(Tail(q), key) /\ ~(Carries(Head(q), key) /\ Has(Tail(q), key))
<1> DEFINE n == Len(q)
           t == Tail(q)
<1>1. n \in Nat \ {0} /\ Len(t) = n - 1 /\ Head(q) = q[1] /\ \A i \in 1 .. n - 1 : t[i] = q[i + 1]
    BY RestOfQueue
<1> HIDE DEF n, t
<1>2. /\ 1 \in 1 .. n
      /\ \A i \in 1 .. n - 1 : i + 1 \in 1 .. n /\ i + 1 # 1
      /\ \A i \in 1 .. n : i = 1 \/ (i - 1 \in 1 .. n - 1 /\ i = (i - 1) + 1)
      /\ \A i, j \in 1 .. n - 1 : i + 1 = j + 1 => i = j
    BY <1>1
<1>5. \A i \in 1 .. n : Carries(q[i], key) => Carries(q[1], key) \/ (\E j \in 1 .. n - 1 : Carries(t[j], key))
    <2> SUFFICES ASSUME NEW i \in 1 .. n, Carries(q[i], key), ~Carries(q[1], key) PROVE \E j \in 1 .. n - 1 : Carries(t[j], key)
        OBVIOUS
    <2>1. i - 1 \in 1 .. n - 1 /\ q[i] = q[(i - 1) + 1]
        BY <1>2
    <2>2. t[i - 1] = q[i]
        BY <1>1, <2>1
    <2> QED BY <2>1, <2>2
<1>6. \A j \in 1 .. n - 1 : Carries(t[j], key) => \E i \in 1 .. n : Carries(q[i], key)
    BY <1>1, <1>2
<1>3. (\E i \in 1 .. n : Carries(q[i], key)) <=> Carries(q[1], key) \/ (\E i \in 1 .. n - 1 : Carries(t[i], key))
    BY <1>2, <1>5, <1>6
<1>4. (\A i, j \in 1 .. n : Carries(q[i], key) /\ Carries(q[j], key) => i = j) =>
        /\ \A i, j \in 1 .. n - 1 : Carries(t[i], key) /\ Carries(t[j], key) => i = j
        /\ ~(Carries(q[1], key) /\ (\E i \in 1 .. n - 1 : Carries(t[i], key)))
    BY <1>1, <1>2
<1> QED BY <1>1, <1>3, <1>4 DEF Has, Lone, n, t

LEMMA HasJoined ==
    ASSUME NEW M, NEW q \in Seq(M), NEW r \in Seq(M), NEW key
    PROVE  /\ Has(q \o r, key) => Has(q, key) \/ Has(r, key)
           /\ Has(q, key) => Has(q \o r, key)
           /\ Lone(q, key) /\ Lone(r, key) /\ ~(Has(q, key) /\ Has(r, key)) => Lone(q \o r, key)
<1> DEFINE p == q \o r
<1>1. \A i \in 1 .. Len(p) : \/ i \in 1 .. Len(q) /\ p[i] = q[i]
                             \/ i - Len(q) \in 1 .. Len(r) /\ p[i] = r[i - Len(q)]
    BY JoinedIndex
<1>2. Len(p) = Len(q) + Len(r) /\ Len(q) \in Nat /\ Len(r) \in Nat /\ \A i \in 1 .. Len(q) : p[i] = q[i]
    BY Joined
<1> DEFINE n == Len(q)
           k == Len(p)
           l == Len(r)
<1> HIDE DEF p, n, k, l
<1>3. \A i \in 1 .. k : (i \in 1 .. n /\ p[i] = q[i]) \/ (i - n \in 1 .. l /\ p[i] = r[i - n])
    BY <1>1 DEF n, k, l
<1>4. k = n + l /\ n \in Nat /\ l \in Nat /\ \A i \in 1 .. n : p[i] = q[i]
    BY <1>2 DEF n, k, l
<1>5. (\E i \in 1 .. k : Carries(p[i], key)) => (\E i \in 1 .. n : Carries(q[i], key)) \/ (\E i \in 1 .. l : Carries(r[i], key))
    BY <1>3
<1>6. (\E i \in 1 .. n : Carries(q[i], key)) => \E i \in 1 .. k : Carries(p[i], key)
    <2>1. \A i \in 1 .. n : i \in 1 .. k
        BY <1>4
    <2> QED BY <1>4, <2>1
<1>7. ASSUME \A i, j \in 1 .. n : Carries(q[i], key) /\ Carries(q[j], key) => i = j,
             \A i, j \in 1 .. l : Carries(r[i], key) /\ Carries(r[j], key) => i = j,
             ~((\E i \in 1 .. n : Carries(q[i], key)) /\ (\E i \in 1 .. l : Carries(r[i], key))),
             NEW i \in 1 .. k, NEW j \in 1 .. k, Carries(p[i], key), Carries(p[j], key)
      PROVE  i = j
    <2>1. CASE i \in 1 .. n /\ p[i] = q[i] /\ j \in 1 .. n /\ p[j] = q[j]
        BY <1>7, <2>1
    <2>2. CASE i - n \in 1 .. l /\ p[i] = r[i - n] /\ j - n \in 1 .. l /\ p[j] = r[j - n]
        <3>1. i - n = j - n
            BY <1>7, <2>2
        <3> QED BY <1>4, <3>1
    <2> QED BY <1>3, <1>7, <2>1, <2>2
<1> QED BY <1>5, <1>6, <1>7 DEF Has, Lone, n, k, l, p

\* A queue of one, or of none.
LEMMA HasOne ==
    ASSUME NEW M, NEW n \in M, NEW key
    PROVE  (Has(<<n>>, key) <=> Carries(n, key)) /\ Lone(<<n>>, key) /\ ~Has(<<>>, key) /\ Lone(<<>>, key)
<1>1. Len(<<n>>) = 1 /\ <<n>>[1] = n /\ Len(<<>>) = 0
    OBVIOUS
<1>2. /\ \A i \in 1 .. 1 : i = 1
      /\ 1 \in 1 .. 1
      /\ \A i \in 1 .. 0 : FALSE
    OBVIOUS
<1>3. Has(<<n>>, key) <=> Carries(n, key)
    <2>1. (\E i \in 1 .. 1 : Carries(<<n>>[i], key)) <=> Carries(<<n>>[1], key)
        BY <1>2
    <2> QED BY <1>1, <2>1 DEF Has
<1>4. Lone(<<n>>, key)
    BY <1>1, <1>2 DEF Lone
<1>5. ~Has(<<>>, key) /\ Lone(<<>>, key)
    BY <1>1, <1>2 DEF Has, Lone
<1> QED BY <1>3, <1>4, <1>5

\* What a handler sends carries a geofence that it took, or that it had in the map.
LEMMA SentCarries ==
    ASSUME Typed, NEW m \in Messages, Sound(m), NEW r \in Seq(Outbound), SendStep(m, r), NEW key \in Keys, LoneInMap(key)
    PROVE  /\ Lone(r, key)
           /\ Has(r, key) => \/ Carries(m, key) /\ m.type \in {"command", "perform"}
                             \/ m.type = "engine up" /\ InMap(key)
           /\ Carries(m, key) /\ m.type \in {"command", "perform"} => Has(r, key)
           /\ m.type = "engine up" /\ InMap(key) => Has(r, key)
<1>1. ASSUME NEW n \in Outbound, r = <<n>>
      PROVE  (Has(r, key) <=> Carries(n, key)) /\ Lone(r, key)
    BY <1>1, HasOne
<1>9. \A i \in 1 .. Len(r) : r[i] \in Outbound
    OBVIOUS
<1>2. CASE m.type = "command"
    <2>1. r = <<[m EXCEPT !.type = "return"]>>
        BY <1>2 DEF SendStep
    <2>2. [m EXCEPT !.type = "return"] \in Outbound
        BY <1>9, <2>1
    <2>3. Carries([m EXCEPT !.type = "return"], key) <=> Carries(m, key)
        BY <1>2 DEF Carries, KeyOf, Messages
    <2> QED BY <1>1, <1>2, <2>1, <2>2, <2>3
<1>3. CASE m.type = "perform" /\ Known(m)
    <2>1. r = <<CallOf(m)>>
        BY <1>3 DEF SendStep
    <2>2. CallOf(m) \in Outbound
        BY <1>9, <2>1
    <2>3. Carries(CallOf(m), key) <=> Carries(m, key)
        BY <1>3 DEF Carries, KeyOf, Messages, CallOf
    <2> QED BY <1>1, <1>3, <2>1, <2>2, <2>3
<1>4. CASE m.type = "restored" /\ m.ok /\ m.paused
    <2>1. r = <<PauseOf(m)>>
        BY <1>4 DEF SendStep
    <2>2. PauseOf(m) \in Outbound
        BY <1>9, <2>1
    <2>3. ~Carries(PauseOf(m), key)
        BY DEF Carries, PauseOf, Message
    <2> QED BY <1>1, <1>4, <2>1, <2>2, <2>3
<1>5. CASE m.type = "engine up"
    <2>1. /\ \A i \in 1 .. Len(r) : \E hw \in DOMAIN mGeofences : r[i] = Again(hw)
          /\ \A hw \in DOMAIN mGeofences : \E i \in 1 .. Len(r) : r[i] = Again(hw)
          /\ \A i, j \in 1 .. Len(r) : r[i].hw = r[j].hw => i = j
        BY <1>5 DEF SendStep
    <2>2. \A hw \in DOMAIN mGeofences : Again(hw).hw = hw /\ (Carries(Again(hw), key) <=> mGeofences[hw].key = key)
        <3> SUFFICES ASSUME NEW hw \in DOMAIN mGeofences PROVE Again(hw).hw = hw /\ (Carries(Again(hw), key) <=> mGeofences[hw].key = key)
            OBVIOUS
        <3>1. mGeofences[hw].key \in Keys
            BY DEF Typed, MapsTyped, Fences
        <3>2. <<mGeofences[hw].key[1], mGeofences[hw].key[2]>> = mGeofences[hw].key
            BY <3>1 DEF Keys
        <3> QED BY <3>2 DEF Again, Message, Carries, KeyOf
    <2>3. Has(r, key) <=> InMap(key)
        BY <2>1, <2>2 DEF Has, InMap
    <2>4. Lone(r, key)
        <3> SUFFICES ASSUME NEW i \in 1 .. Len(r), NEW j \in 1 .. Len(r), Carries(r[i], key), Carries(r[j], key) PROVE i = j
            BY DEF Lone
        <3>1. PICK hw \in DOMAIN mGeofences : r[i] = Again(hw)
            BY <2>1
        <3>2. PICK x \in DOMAIN mGeofences : r[j] = Again(x)
            BY <2>1
        <3>3. hw = x
            BY <2>2, <3>1, <3>2 DEF LoneInMap
        <3> QED BY <2>1, <3>1, <3>2, <3>3
    <2> QED BY <1>5, <2>3, <2>4
<1>6. CASE m.type = "remove client"
    <2>1. \A i \in 1 .. Len(r) : ~Carries(r[i], key)
        <3>1. \A s : ~Carries(RemovalFor(m.c, s), key)
            BY DEF Carries, RemovalFor, Message
        <3>2. \A i \in 1 .. Len(r) : \E s \in SessionsOf(m.c) : r[i] = RemovalFor(m.c, s)
            BY <1>6 DEF SendStep
        <3> QED BY <3>1, <3>2
    <2> QED BY <1>6, <2>1 DEF Has, Lone
<1>7. CASE r = <<>> /\ m.type \notin {"command", "engine up", "remove client"} /\ ~(m.type = "perform" /\ Known(m))
    <2>1. ~Has(r, key) /\ Lone(r, key)
        BY <1>7, HasOne
    <2>2. ~(Carries(m, key) /\ m.type = "perform")
        BY <1>7 DEF Carries, Known
    <2> QED BY <1>7, <2>1, <2>2
<1> QED BY <1>2, <1>3, <1>4, <1>5, <1>6, <1>7 DEF SendStep

\* A geofence that the map has after a handler was there, or the message carried it.
LEMMA MapCarries ==
    ASSUME Typed, NEW m \in Messages, Sound(m), MapStep(m), NEW key \in Keys, LoneInMap(key), ~(Carries(m, key) /\ InMap(key))
    PROVE  /\ LoneInMap(key)'
           /\ InMap(key)' => (InMap(key) /\ m.type # "engine up") \/ (Saves(m) /\ Carries(m, key))
<1>1. \A hw \in DOMAIN mGeofences' : \/ hw \in DOMAIN mGeofences /\ mGeofences'[hw].key = mGeofences[hw].key
                                     \/ Saves(m) /\ hw = m.hw /\ mGeofences'[hw].key = KeyOf(m)
    BY MapStepKeys
<1>2. Saves(m) /\ KeyOf(m) = key => Carries(m, key)
    BY DEF Saves, Carries
<1>3. m.type = "engine up" => DOMAIN mGeofences' = {}
    <2>1. m.type = "engine up" => mGeofences' = <<>>
        BY DEF MapStep
    <2>2. DOMAIN <<>> = {}
        OBVIOUS
    <2> QED BY <2>1, <2>2
<1>4. InMap(key)' => (InMap(key) /\ m.type # "engine up") \/ (Saves(m) /\ Carries(m, key))
    BY <1>1, <1>2, <1>3 DEF InMap
<1>5. LoneInMap(key)'
    <2> SUFFICES ASSUME NEW hw \in DOMAIN mGeofences', NEW x \in DOMAIN mGeofences',
                        mGeofences'[hw].key = key, mGeofences'[x].key = key
                 PROVE  hw = x
        BY DEF LoneInMap
    <2>1. CASE InMap(key)
        <3>1. ~(Saves(m) /\ KeyOf(m) = key)
            BY <1>2, <2>1
        <3>2. /\ hw \in DOMAIN mGeofences /\ mGeofences[hw].key = key
              /\ x \in DOMAIN mGeofences /\ mGeofences[x].key = key
            BY <1>1, <3>1
        <3> QED BY <3>2 DEF LoneInMap
    <2>2. CASE ~InMap(key)
        <3>1. hw = m.hw /\ x = m.hw
            BY <1>1, <2>2 DEF InMap
        <3> QED BY <3>1
    <2> QED BY <2>1, <2>2
<1> QED BY <1>4, <1>5

\* A geofence that is somewhere is one of a session that was given away.
LEMMA SomewhereIsOld ==
    ASSUME Typed, Fresh, NEW key \in Keys, Has(inbox, key) \/ Has(calls, key) \/ InMap(key)
    PROVE  key[2] < next
<1>1. \A m \in Young(next) : Carries(m, key) /\ m.type # "remove client" => key[2] < next
    <2> SUFFICES ASSUME NEW m \in Young(next), Carries(m, key), m.type # "remove client" PROVE key[2] < next
        OBVIOUS
    <2>1. m.session < next /\ <<m.c, m.session>> = key
        BY DEF Young, Carries, KeyOf
    <2> QED BY <2>1
<1>2. CASE Has(inbox, key)
    <2>1. PICK i \in 1 .. Len(inbox) : Carries(inbox[i], key)
        BY <1>2 DEF Has
    <2>2. inbox[i] \in Young(next) /\ inbox[i] \in Inbound
        BY DEF Fresh, Typed, QueuesTyped
    <2>3. inbox[i].type # "remove client"
        BY <2>1, <2>2 DEF Carries, Inbound, Sound
    <2> QED BY <1>1, <2>1, <2>2, <2>3
<1>3. CASE Has(calls, key)
    <2>1. PICK i \in 1 .. Len(calls) : Carries(calls[i], key)
        BY <1>3 DEF Has
    <2>2. calls[i] \in Young(next) /\ calls[i] \in Outbound
        BY DEF Fresh, Typed, QueuesTyped
    <2>3. calls[i].type # "remove client"
        BY <2>2 DEF Outbound
    <2> QED BY <1>1, <2>1, <2>2, <2>3
<1>4. CASE InMap(key)
    BY <1>4 DEF InMap, Fresh
<1> QED BY <1>2, <1>3, <1>4

LEMMA ShiftCarries ==
    ASSUME NEW n \in Outbound, NEW m, NEW key,
           Returned(n, m) \/ Failed(n, m) \/ Performed(n, m)
    PROVE  /\ Carries(m, key) => Carries(n, key)
           /\ m.kind = n.kind /\ KeyOf(m) = KeyOf(n) /\ m.options = n.options /\ m.paused = n.paused
<1>1. n \in Messages /\ Sound(n) /\ n.type \in {"return", "call"}
    BY DEF Outbound
<1>2. CASE Returned(n, m)
    BY <1>1, <1>2 DEF Returned, Carries, KeyOf, Messages
<1>3. CASE Failed(n, m)
    BY <1>1, <1>3 DEF Failed, AnswerOf, Carries, KeyOf, Messages
<1>4. CASE Performed(n, m)
    <2>1. n.ok
        BY <1>1, <1>4 DEF Performed, Sound
    <2>2. m = AnswerOf(n, m.hw, TRUE)
        BY <1>4 DEF Performed
    <2> DEFINE hw == m.hw
    <2>3. m = [n EXCEPT !.type = AnswerType(n), !.hw = hw, !.ok = TRUE]
        BY <2>2 DEF AnswerOf
    <2> HIDE DEF hw
    <2> QED BY <1>1, <2>1, <2>3 DEF Carries, KeyOf, Messages
<1> QED BY <1>2, <1>3, <1>4

LEMMA UniqueInitially == ASSUME Init PROVE Unique
BY DEF Init, Unique, Once, Lone, Has, InMap, LoneInMap

\* A handler moves a geofence from the inbox to the map or to the calls, and a
\* restart from the map to the calls; each leaves the place it was in.
LEMMA UniqueStep == ASSUME Typed, Fresh, Unique, Step PROVE Unique'
<1> SUFFICES ASSUME NEW key \in Keys PROVE Once(key)'
    BY DEF Unique
<1>0. inbox \in Seq(Inbound) /\ calls \in Seq(Outbound) /\ Once(key)
    BY DEF Typed, QueuesTyped, Unique
<1>1. CASE \E m \in Inbound : (\E id \in Ids : Commands(m, id)) \/ Destroys(m) \/ Breaches(m) \/ ComesUp(m)
    <2>1. PICK m \in Inbound : (\E id \in Ids : Commands(m, id)) \/ Destroys(m) \/ Breaches(m) \/ ComesUp(m)
        BY <1>1
    <2>2. inbox' = Append(inbox, m) /\ UNCHANGED <<calls, mGeofences>>
        BY <2>1 DEF Commands, Destroys, Breaches, ComesUp, Posted, adapter
    <2>3. Carries(m, key) => ~Has(inbox, key) /\ ~Has(calls, key) /\ ~InMap(key)
        <3> SUFFICES ASSUME Carries(m, key) PROVE ~Has(inbox, key) /\ ~Has(calls, key) /\ ~InMap(key)
            OBVIOUS
        <3>1. PICK id \in Ids : Commands(m, id)
            BY <2>1 DEF Destroys, Breaches, ComesUp, Carries
        <3>2. m.session = next
            BY <3>1 DEF Commands, Carries
        <3>3. key[2] = next
            BY <3>2 DEF Carries, KeyOf
        <3>4. next \in Nat
            BY DEF Typed, ClientsTyped
        <3>5. ~(key[2] < next)
            BY <3>3, <3>4
        <3> QED BY <3>5, SomewhereIsOld
    <2>4. Has(inbox', key) <=> Has(inbox, key) \/ Carries(m, key)
        BY <1>0, <2>2, HasAppended
    <2>5. Lone(inbox', key)
        BY <1>0, <2>2, <2>3, LoneAppended DEF Once
    <2> QED BY <1>0, <2>2, <2>3, <2>4, <2>5 DEF Once, InMap, LoneInMap, Has, Lone
<1>2. CASE \E m \in Inbound : Sound(m) /\ m \in Messages /\ \E r : Handled(m, r)
    <2>0. PICK m \in Inbound : Sound(m) /\ m \in Messages /\ \E r : Handled(m, r)
        BY <1>2
    <2>1. PICK r : Handled(m, r)
        BY <2>0
    <2>2. /\ inbox # <<>> /\ m = Head(inbox) /\ inbox' = Tail(inbox)
          /\ r \in Seq(Outbound) /\ calls' = calls \o r /\ MapStep(m) /\ SendStep(m, r)
        BY <2>1 DEF Handled, SendStep
    <2>3. /\ Has(inbox, key) <=> Carries(m, key) \/ Has(inbox', key)
          /\ Lone(inbox', key) /\ ~(Carries(m, key) /\ Has(inbox', key))
        BY <1>0, <2>2, HasInRest DEF Once
    <2>4. ~(Carries(m, key) /\ InMap(key)) /\ LoneInMap(key)
        BY <1>0, <2>3 DEF Once
    <2>5. /\ LoneInMap(key)'
          /\ InMap(key)' => (InMap(key) /\ m.type # "engine up") \/ (Saves(m) /\ Carries(m, key))
        BY <2>0, <2>2, <2>4, MapCarries
    <2>6. /\ Lone(r, key)
          /\ Has(r, key) => \/ Carries(m, key) /\ m.type \in {"command", "perform"}
                            \/ m.type = "engine up" /\ InMap(key)
        BY <2>0, <2>2, <2>4, SentCarries
    <2>7. Has(r, key) => ~Has(calls, key)
        BY <1>0, <2>3, <2>6 DEF Once
    <2>8. Lone(calls', key) /\ (Has(calls', key) => Has(calls, key) \/ Has(r, key))
        BY <1>0, <2>2, <2>6, <2>7, HasJoined DEF Once
    <2>9. Saves(m) => m.type \notin {"command", "perform", "engine up"}
        BY DEF Saves
    <2>10. ~(Carries(m, key) /\ m.type = "engine up")
        BY DEF Carries
    <2>11. ~(Has(inbox', key) /\ Has(calls', key))
        BY <1>0, <2>3, <2>6, <2>8 DEF Once
    <2>12. ~(Has(inbox', key) /\ InMap(key)')
        BY <1>0, <2>3, <2>5 DEF Once
    <2>13. ~(Has(calls', key) /\ InMap(key)')
        BY <1>0, <2>3, <2>5, <2>6, <2>8, <2>9, <2>10 DEF Once
    <2> QED BY <2>3, <2>5, <2>8, <2>11, <2>12, <2>13 DEF Once, Has, Lone
<1>3. CASE \E n \in Outbound : \E m : Shifted(n, m) /\ (Returned(n, m) \/ Failed(n, m) \/ Performed(n, m))
    <2>0. PICK n \in Outbound : \E m : Shifted(n, m) /\ (Returned(n, m) \/ Failed(n, m) \/ Performed(n, m))
        BY <1>3
    <2>1. PICK m : Shifted(n, m) /\ (Returned(n, m) \/ Failed(n, m) \/ Performed(n, m))
        BY <2>0
    <2>2. /\ calls # <<>> /\ n = Head(calls) /\ calls' = Tail(calls) /\ m \in Inbound /\ inbox' = Append(inbox, m)
          /\ mGeofences' = mGeofences
        BY <2>1 DEF Shifted, adapter
    <2>3. Carries(m, key) => Carries(n, key)
        BY <2>1, ShiftCarries
    <2>4. /\ Has(calls, key) <=> Carries(n, key) \/ Has(calls', key)
          /\ Lone(calls', key) /\ ~(Carries(n, key) /\ Has(calls', key))
        BY <1>0, <2>2, HasInRest DEF Once
    <2>5. Has(inbox', key) <=> Has(inbox, key) \/ Carries(m, key)
        BY <1>0, <2>2, HasAppended
    <2>6. Lone(inbox', key)
        BY <1>0, <2>2, <2>3, <2>4, LoneAppended DEF Once
    <2> QED BY <1>0, <2>2, <2>3, <2>4, <2>5, <2>6 DEF Once, InMap, LoneInMap, Has, Lone
<1>4. CASE Crashed \/ Idle
    BY <1>0, <1>4 DEF Crashed, Idle, adapter, Once, InMap, LoneInMap, Has, Lone
<1> QED BY <1>1, <1>2, <1>3, <1>4 DEF Step

-----------------------------------------------------------------------------
(* The last message that matters                                           *)

\* Once the first k messages are handled, the last that touches is good; or none does, and it is so now.
Ends(q, k, touch, good, now) ==
    /\ \A j \in 1 .. k :
         q[j] \in touch /\ (\A i \in 1 .. k : j < i => q[i] \notin touch) => q[j] \in good
    /\ (\A i \in 1 .. k : q[i] \notin touch) => now

LEMMA EndsNow ==
    ASSUME NEW q, NEW touch, NEW good, NEW now \in BOOLEAN
    PROVE  Ends(q, 0, touch, good, now) <=> now
<1>1. 1 .. 0 = {}
    OBVIOUS
<1> QED BY <1>1 DEF Ends

LEMMA EndsBefore ==
    ASSUME NEW M, NEW q \in Seq(M), NEW m \in M, NEW k \in Nat, k <= Len(q), NEW touch, NEW good, NEW now,
           Ends(q, k, touch, good, now)
    PROVE  Ends(Append(q, m), k, touch, good, now)
<1> DEFINE n == Len(q)
           p == Append(q, m)
<1>1. n \in Nat /\ (\A i \in 1 .. n : p[i] = q[i]) /\ k <= n
    BY Appended
<1> HIDE DEF n, p
<1>2. \A i \in 1 .. k : i \in 1 .. n
    BY <1>1
<1>3. \A i \in 1 .. k : p[i] = q[i]
    BY <1>1, <1>2
<1> QED BY <1>3 DEF Ends, p

LEMMA EndsAfterOther ==
    ASSUME NEW M, NEW q \in Seq(M), NEW m \in M, NEW touch, NEW good, NEW now,
           m \notin touch, Ends(q, Len(q), touch, good, now)
    PROVE  Ends(Append(q, m), Len(q) + 1, touch, good, now)
<1> DEFINE n == Len(q)
           p == Append(q, m)
<1>1. n \in Nat /\ p[n + 1] = m /\ (\A i \in 1 .. n : p[i] = q[i])
    BY Appended
<1>2. Ends(q, n, touch, good, now)
    OBVIOUS
<1> HIDE DEF n, p
<1>3. (\A i \in 1 .. n + 1 : i \in 1 .. n \/ i = n + 1) /\ (\A i \in 1 .. n : i \in 1 .. n + 1)
    BY <1>1
<1>4. \A j \in 1 .. n + 1 : p[j] \in touch => j \in 1 .. n
    BY <1>1, <1>3
<1>5. ASSUME NEW j \in 1 .. n + 1, p[j] \in touch, \A i \in 1 .. n + 1 : j < i => p[i] \notin touch PROVE p[j] \in good
    <2>1. j \in 1 .. n /\ p[j] = q[j]
        BY <1>1, <1>4, <1>5
    <2>2. \A i \in 1 .. n : j < i => q[i] \notin touch
        BY <1>1, <1>3, <1>5
    <2> QED BY <1>2, <1>5, <2>1, <2>2 DEF Ends
<1>6. (\A i \in 1 .. n + 1 : p[i] \notin touch) => \A i \in 1 .. n : q[i] \notin touch
    BY <1>1, <1>3
<1> QED BY <1>2, <1>5, <1>6 DEF Ends, n, p

LEMMA EndsWithGood ==
    ASSUME NEW M, NEW q \in Seq(M), NEW m \in M, NEW touch, NEW good, NEW now, m \in touch, m \in good
    PROVE  Ends(Append(q, m), Len(q) + 1, touch, good, now)
<1> DEFINE n == Len(q)
           p == Append(q, m)
<1>1. n \in Nat /\ p[n + 1] = m
    BY Appended
<1> HIDE DEF n, p
<1>2. n + 1 \in 1 .. n + 1 /\ \A j \in 1 .. n + 1 : j = n + 1 \/ j < n + 1
    BY <1>1
<1>3. ASSUME NEW j \in 1 .. n + 1, \A i \in 1 .. n + 1 : j < i => p[i] \notin touch PROVE p[j] \in good
    <2>1. j = n + 1
        BY <1>1, <1>2, <1>3
    <2> QED BY <1>1, <2>1
<1> QED BY <1>1, <1>2, <1>3 DEF Ends, n, p

LEMMA EndsOfRest ==
    ASSUME NEW M, NEW q \in Seq(M), q # <<>>, NEW k \in Nat, k < Len(q), NEW touch, NEW good, NEW now, NEW then,
           Ends(q, k + 1, touch, good, now),
           Head(q) \in touch /\ Head(q) \in good => then,
           Head(q) \notin touch /\ now => then
    PROVE  Ends(Tail(q), k, touch, good, then)
<1> DEFINE n == Len(q)
           t == Tail(q)
<1>1. n \in Nat \ {0} /\ Head(q) = q[1] /\ (\A i \in 1 .. n - 1 : t[i] = q[i + 1]) /\ k < n
    BY RestOfQueue
<1> HIDE DEF n, t
<1>2. \A i \in 1 .. k : i \in 1 .. n - 1 /\ i + 1 \in 1 .. k + 1
    BY <1>1
<1>3. \A i \in 1 .. k : t[i] = q[i + 1]
    BY <1>1, <1>2
<1>4. 1 \in 1 .. k + 1 /\ \A i \in 1 .. k + 1 : i = 1 \/ (i - 1 \in 1 .. k /\ i = (i - 1) + 1)
    OBVIOUS
<1>5. ASSUME NEW j \in 1 .. k, t[j] \in touch, \A i \in 1 .. k : j < i => t[i] \notin touch PROVE t[j] \in good
    <2>1. j + 1 \in 1 .. k + 1 /\ q[j + 1] \in touch
        BY <1>2, <1>3, <1>5
    <2>2. ASSUME NEW i \in 1 .. k + 1, j + 1 < i PROVE q[i] \notin touch
        <3>1. i - 1 \in 1 .. k /\ i = (i - 1) + 1 /\ j < i - 1
            BY <1>4, <2>2
        <3>2. t[i - 1] = q[(i - 1) + 1] /\ t[i - 1] \notin touch
            BY <1>3, <1>5, <3>1
        <3> QED BY <3>1, <3>2
    <2>3. q[j + 1] \in good
        BY <2>1, <2>2 DEF Ends
    <2> QED BY <1>3, <2>3
<1>6. ASSUME \A i \in 1 .. k : t[i] \notin touch PROVE then
    <2>1. ASSUME NEW i \in 1 .. k + 1, i # 1 PROVE q[i] \notin touch
        <3>1. i - 1 \in 1 .. k /\ i = (i - 1) + 1
            BY <1>4, <2>1
        <3>2. t[i - 1] = q[(i - 1) + 1] /\ t[i - 1] \notin touch
            BY <1>3, <1>6, <3>1
        <3> QED BY <3>1, <3>2
    <2>2. CASE q[1] \in touch
        <3>1. \A i \in 1 .. k + 1 : 1 < i => q[i] \notin touch
            BY <2>1
        <3>2. q[1] \in good
            BY <1>4, <2>2, <3>1 DEF Ends
        <3> QED BY <1>1, <2>2, <3>2
    <2>3. CASE q[1] \notin touch
        <3>1. \A i \in 1 .. k + 1 : q[i] \notin touch
            BY <2>1, <2>3
        <3>2. now
            BY <3>1 DEF Ends
        <3> QED BY <1>1, <2>3, <3>2
    <2> QED BY <2>2, <2>3
<1> QED BY <1>5, <1>6 DEF Ends, t

-----------------------------------------------------------------------------
(* What the inbox makes of the entry of a hwId                             *)

\* The messages whose handlers touch the entry of a hwId: those that set it, those
\* that drop it, and the restart, which clears the map.
Sets(hw) == {m \in Messages : Saves(m) /\ m.hw = hw}
Drops(hw) == {m \in Messages : (Removes(m) \/ Forgets(m)) /\ m.hw = hw}
Clears == {m \in Messages : m.type = "engine up"}
Touches(hw) == Sets(hw) \cup Drops(hw) \cup Clears
Setting(hw, key) == {m \in Sets(hw) : KeyOf(m) = key}
KeyAt(hw, key) == hw \in DOMAIN mGeofences /\ mGeofences[hw].key = key
FreeAt(hw) == hw \in DOMAIN mGeofences => mGeofences[hw].key \notin DOMAIN mGeofenceIds

\* Once k messages are handled, the entry of hw is of key; or it is not of a
\* geofence both maps have.
Holds(k, hw, key) == Ends(inbox, k, Touches(hw), Setting(hw, key), KeyAt(hw, key))
FreeSlot(k, hw) == Ends(inbox, k, Touches(hw), Messages \ Sets(hw), FreeAt(hw))

LEMMA ArrivesBefore ==
    ASSUME Typed, NEW m \in Inbound, inbox' = Append(inbox, m), SameMaps, NEW k \in Nat, k <= Len(inbox), NEW hw, NEW key
    PROVE  (Holds(k, hw, key) => Holds(k, hw, key)') /\ (FreeSlot(k, hw) => FreeSlot(k, hw)')
<1>1. inbox \in Seq(Inbound)
    BY DEF Typed, QueuesTyped
<1>2. (KeyAt(hw, key) <=> KeyAt(hw, key)') /\ (FreeAt(hw) <=> FreeAt(hw)')
    BY DEF KeyAt, FreeAt, SameMaps
<1>4. ASSUME Holds(k, hw, key) PROVE Holds(k, hw, key)'
    <2> DEFINE T == Touches(hw)
               G == Setting(hw, key)
    <2>1. Ends(inbox, k, T, G, KeyAt(hw, key))
        BY <1>4 DEF Holds
    <2>2. Ends(inbox, k, T, G, KeyAt(hw, key)')
        BY <1>2, <2>1 DEF Ends
    <2>3. Ends(inbox', k, T, G, KeyAt(hw, key)')
        BY <1>1, <2>2, EndsBefore
    <2> QED BY <2>3 DEF Holds
<1>5. ASSUME FreeSlot(k, hw) PROVE FreeSlot(k, hw)'
    <2> DEFINE T == Touches(hw)
               G == Messages \ Sets(hw)
    <2>1. Ends(inbox, k, T, G, FreeAt(hw))
        BY <1>5 DEF FreeSlot
    <2>2. Ends(inbox, k, T, G, FreeAt(hw)')
        BY <1>2, <2>1 DEF Ends
    <2>3. Ends(inbox', k, T, G, FreeAt(hw)')
        BY <1>1, <2>2, EndsBefore
    <2> QED BY <2>3 DEF FreeSlot
<1> QED BY <1>4, <1>5

LEMMA ArrivesOther ==
    ASSUME Typed, NEW m \in Inbound, inbox' = Append(inbox, m), SameMaps, NEW hw, m \notin Touches(hw), NEW key
    PROVE  /\ Holds(Len(inbox), hw, key) => Holds(Len(inbox), hw, key)'
           /\ FreeSlot(Len(inbox), hw) => FreeSlot(Len(inbox), hw)'
<1>1. inbox \in Seq(Inbound) /\ Len(inbox') = Len(inbox) + 1
    BY Appended DEF Typed, QueuesTyped
<1>2. (KeyAt(hw, key) <=> KeyAt(hw, key)') /\ (FreeAt(hw) <=> FreeAt(hw)')
    BY DEF KeyAt, FreeAt, SameMaps
<1> DEFINE n == Len(inbox)
           T == Touches(hw)
<1>4. ASSUME Holds(n, hw, key) PROVE Holds(Len(inbox), hw, key)'
    <2> DEFINE G == Setting(hw, key)
    <2>1. Ends(inbox, n, T, G, KeyAt(hw, key))
        BY <1>4 DEF Holds
    <2>2. Ends(inbox, n, T, G, KeyAt(hw, key)')
        BY <1>2, <2>1 DEF Ends
    <2>3. Ends(inbox', n + 1, T, G, KeyAt(hw, key)')
        BY <1>1, <2>2, EndsAfterOther
    <2> QED BY <1>1, <2>3 DEF Holds
<1>5. ASSUME FreeSlot(n, hw) PROVE FreeSlot(Len(inbox), hw)'
    <2> DEFINE G == Messages \ Sets(hw)
    <2>1. Ends(inbox, n, T, G, FreeAt(hw))
        BY <1>5 DEF FreeSlot
    <2>2. Ends(inbox, n, T, G, FreeAt(hw)')
        BY <1>2, <2>1 DEF Ends
    <2>3. Ends(inbox', n + 1, T, G, FreeAt(hw)')
        BY <1>1, <2>2, EndsAfterOther
    <2> QED BY <1>1, <2>3 DEF FreeSlot
<1> QED BY <1>4, <1>5

LEMMA ArrivesSetting ==
    ASSUME Typed, NEW m \in Inbound, inbox' = Append(inbox, m), NEW hw
    PROVE  /\ m \in Sets(hw) => Holds(Len(inbox), hw, KeyOf(m))'
           /\ m \in Touches(hw) \ Sets(hw) => FreeSlot(Len(inbox), hw)'
<1>1. inbox \in Seq(Inbound) /\ Len(inbox') = Len(inbox) + 1
    BY Appended DEF Typed, QueuesTyped
<1>2. ASSUME m \in Sets(hw) PROVE Holds(Len(inbox), hw, KeyOf(m))'
    <2> DEFINE T == Touches(hw)
               G == Setting(hw, KeyOf(m))
    <2>1. m \in T /\ m \in G
        BY <1>2 DEF Touches, Setting
    <2> HIDE DEF T, G
    <2>2. Ends(inbox', Len(inbox) + 1, T, G, KeyAt(hw, KeyOf(m))')
        BY <1>1, <2>1, EndsWithGood
    <2> QED BY <1>1, <2>2 DEF Holds, T, G
<1>3. ASSUME m \in Touches(hw) \ Sets(hw) PROVE FreeSlot(Len(inbox), hw)'
    <2> DEFINE T == Touches(hw)
               G == Messages \ Sets(hw)
    <2>1. m \in T /\ m \in G
        BY <1>3 DEF Inbound
    <2> HIDE DEF T, G
    <2>2. Ends(inbox', Len(inbox) + 1, T, G, FreeAt(hw)')
        BY <1>1, <2>1, EndsWithGood
    <2> QED BY <1>1, <2>2 DEF FreeSlot, T, G
<1> QED BY <1>2, <1>3

\* What a handler makes of the entry of a hwId.
LEMMA HandledEntry ==
    ASSUME Typed, Unique, NEW m \in Inbound, NEW r, Handled(m, r), NEW hw
    PROVE  /\ m \in Sets(hw) => KeyAt(hw, KeyOf(m))'
           /\ m \notin Touches(hw) =>
                 /\ \A key : KeyAt(hw, key) => KeyAt(hw, key)'
                 /\ hw \in DOMAIN mGeofences' => hw \in DOMAIN mGeofences /\ mGeofences'[hw].key = mGeofences[hw].key
                 /\ FreeAt(hw) => FreeAt(hw)'
           /\ m \in Touches(hw) \ Sets(hw) => FreeAt(hw)'
<1>0. m \in Messages /\ Sound(m) /\ MapStep(m) /\ MapsTyped
    BY DEF Inbound, Handled, Typed
<1>1. /\ \A x \in DOMAIN mGeofences' :
                                        \/ x \in DOMAIN mGeofences /\ mGeofences'[x].key = mGeofences[x].key
                                        \/ Saves(m) /\ x = m.hw /\ mGeofences'[x].key = KeyOf(m)
      /\ \A key \in DOMAIN mGeofenceIds' :
                                           \/ key \in DOMAIN mGeofenceIds /\ mGeofenceIds'[key] = mGeofenceIds[key]
                                           \/ Saves(m) /\ key = KeyOf(m) /\ mGeofenceIds'[key] = m.hw
    BY <1>0, MapStepKeys
<1>2. ASSUME Saves(m)
      PROVE  /\ KeyAt(m.hw, KeyOf(m))'
             /\ \A x \in DOMAIN mGeofences : x # m.hw => x \in DOMAIN mGeofences' /\ mGeofences'[x] = mGeofences[x]
    <2> DEFINE fence == Fence(KeyOf(m), FALSE, m.options)
    <2>1. m.hw \in HwIds /\ fence \in Fences /\ fence.key = KeyOf(m) /\ saveGeofenceItem(m.hw, fence)
        BY <1>0, <1>2, SavedFence DEF MapStep
    <2> HIDE DEF fence
    <2>2. /\ DOMAIN mGeofences' = DOMAIN mGeofences \cup {m.hw} /\ mGeofences'[m.hw] = fence
          /\ \A x \in DOMAIN mGeofences : x # m.hw => mGeofences'[x] = mGeofences[x]
        BY <1>0, <2>1, SaveMaps
    <2> QED BY <2>1, <2>2 DEF KeyAt
<1>3. ASSUME ~Saves(m), m \notin Touches(hw), hw \in DOMAIN mGeofences
      PROVE  hw \in DOMAIN mGeofences' /\ mGeofences'[hw].key = mGeofences[hw].key
    <2>1. CASE Removes(m)
        <3>1. m.hw \in HwIds /\ m.hw # hw
            BY <1>0, <1>3, <2>1 DEF Sound, Removes, Touches, Drops
        <3> QED BY <1>0, <1>3, <2>1, <3>1, RemoveMaps DEF MapStep
    <2>2. CASE Changes(m)
        <3>1. m.hw \in HwIds /\ m.kind \in {"pause", "resume", "modify"}
            BY <1>0, <2>2 DEF Sound, Changes
        <3> QED BY <1>0, <1>3, <2>2, <3>1, ChangeMaps DEF MapStep
    <2>3. CASE Forgets(m)
        <3>1. m.hw # hw
            BY <1>0, <1>3, <2>3 DEF Touches, Drops
        <3>2. mGeofences' = [x \in DOMAIN mGeofences \ {m.hw} |-> mGeofences[x]]
            BY <1>0, <2>3 DEF MapStep, Drop, Restrict
        <3> QED BY <1>3, <3>1, <3>2
    <2>4. m.type # "engine up"
        BY <1>0, <1>3 DEF Touches, Clears
    <2> QED BY <1>0, <1>3, <2>1, <2>2, <2>3, <2>4 DEF MapStep, SameMaps
<1>4. ASSUME m \notin Touches(hw)
      PROVE  /\ hw \in DOMAIN mGeofences => hw \in DOMAIN mGeofences' /\ mGeofences'[hw].key = mGeofences[hw].key
             /\ hw \in DOMAIN mGeofences' => hw \in DOMAIN mGeofences /\ mGeofences'[hw].key = mGeofences[hw].key
    <2>1. CASE Saves(m)
        <3>1. m.hw # hw
            BY <1>0, <1>4, <2>1 DEF Touches, Sets
        <3> QED BY <1>1, <1>2, <2>1, <3>1
    <2>2. CASE ~Saves(m)
        BY <1>1, <1>3, <1>4, <2>2
    <2> QED BY <2>1, <2>2
<1>5. ASSUME m \notin Touches(hw), FreeAt(hw) PROVE FreeAt(hw)'
    <2> SUFFICES ASSUME hw \in DOMAIN mGeofences' PROVE mGeofences'[hw].key \notin DOMAIN mGeofenceIds'
        BY DEF FreeAt
    <2> DEFINE key == mGeofences[hw].key
    <2>1. hw \in DOMAIN mGeofences /\ mGeofences'[hw].key = key
        BY <1>4, <1>5
    <2>2. key \notin DOMAIN mGeofenceIds /\ key \in Keys
        BY <1>0, <1>5, <2>1 DEF FreeAt, MapsTyped, Fences
    <2>3. ~(Saves(m) /\ key = KeyOf(m))
        <3> SUFFICES ASSUME Saves(m), key = KeyOf(m) PROVE FALSE
            OBVIOUS
        <3>1. Carries(m, key)
            BY DEF Saves, Carries
        <3>2. inbox \in Seq(Inbound) /\ inbox # <<>> /\ m = Head(inbox)
            BY DEF Handled, Typed, QueuesTyped
        <3>3. Has(inbox, key)
            BY <3>1, <3>2, HasInRest
        <3>4. InMap(key)
            BY <2>1 DEF InMap
        <3> QED BY <2>2, <3>3, <3>4 DEF Unique, Once
    <2> HIDE DEF key
    <2> QED BY <1>1, <2>1, <2>2, <2>3
<1>6. ASSUME m \in Touches(hw) \ Sets(hw) PROVE FreeAt(hw)'
    <2>1. CASE Removes(m) /\ m.hw = hw
        <3>1. m.hw \in HwIds
            BY <1>0, <2>1 DEF Sound, Removes
        <3>2. removeGeofenceItem(hw)
            BY <1>0, <2>1 DEF MapStep
        <3>3. /\ hw \in DOMAIN mGeofences /\ mGeofences[hw].key \in DOMAIN mGeofenceIds => hw \notin DOMAIN mGeofences'
              /\ ~(hw \in DOMAIN mGeofences /\ mGeofences[hw].key \in DOMAIN mGeofenceIds) =>
                    mGeofences' = mGeofences /\ mGeofenceIds' = mGeofenceIds
            BY <1>0, <2>1, <3>1, <3>2, RemoveMaps
        <3> QED BY <3>3 DEF FreeAt
    <2>2. CASE Forgets(m) /\ m.hw = hw
        <3>2. mGeofences' = [x \in DOMAIN mGeofences \ {m.hw} |-> mGeofences[x]]
            BY <1>0, <2>2 DEF MapStep, Drop, Restrict
        <3> QED BY <2>2, <3>2 DEF FreeAt
    <2>3. CASE m.type = "engine up"
        <3>1. mGeofences' = <<>>
            BY <1>0, <2>3 DEF MapStep
        <3>2. DOMAIN <<>> = {}
            OBVIOUS
        <3> QED BY <3>1, <3>2 DEF FreeAt
    <2> QED BY <1>6, <2>1, <2>2, <2>3 DEF Touches, Drops, Clears
<1>7. m \in Sets(hw) => KeyAt(hw, KeyOf(m))'
    BY <1>2 DEF Sets
<1>8. m \notin Touches(hw) => \A key : KeyAt(hw, key) => KeyAt(hw, key)'
    BY <1>4 DEF KeyAt
<1> QED BY <1>4, <1>5, <1>6, <1>7, <1>8

\* Handling the first of them keeps what holds after k.
LEMMA HandledBefore ==
    ASSUME Typed, Unique, NEW m \in Inbound, NEW r, Handled(m, r), NEW k \in Nat, k < Len(inbox), NEW hw, NEW key
    PROVE  (Holds(k + 1, hw, key) => Holds(k, hw, key)') /\ (FreeSlot(k + 1, hw) => FreeSlot(k, hw)')
<1>1. inbox \in Seq(Inbound) /\ inbox # <<>> /\ m = Head(inbox) /\ inbox' = Tail(inbox)
    BY DEF Handled, Typed, QueuesTyped
<1> DEFINE T == Touches(hw)
<1>2. ASSUME Holds(k + 1, hw, key) PROVE Holds(k, hw, key)'
    <2> DEFINE G == Setting(hw, key)
    <2>1. Ends(inbox, k + 1, T, G, KeyAt(hw, key))
        BY <1>2 DEF Holds
    <2>2. m \in T /\ m \in G => KeyAt(hw, key)'
        BY HandledEntry DEF Setting
    <2>3. m \notin T /\ KeyAt(hw, key) => KeyAt(hw, key)'
        BY HandledEntry
    <2> HIDE DEF T, G
    <2>4. Ends(Tail(inbox), k, T, G, KeyAt(hw, key)')
        BY <1>1, <2>1, <2>2, <2>3, EndsOfRest
    <2> QED BY <1>1, <2>4 DEF Holds, T, G
<1>3. ASSUME FreeSlot(k + 1, hw) PROVE FreeSlot(k, hw)'
    <2> DEFINE G == Messages \ Sets(hw)
    <2>1. Ends(inbox, k + 1, T, G, FreeAt(hw))
        BY <1>3 DEF FreeSlot
    <2>2. m \in T /\ m \in G => FreeAt(hw)'
        BY HandledEntry
    <2>3. m \notin T /\ FreeAt(hw) => FreeAt(hw)'
        BY HandledEntry
    <2> HIDE DEF T, G
    <2>4. Ends(Tail(inbox), k, T, G, FreeAt(hw)')
        BY <1>1, <2>1, <2>2, <2>3, EndsOfRest
    <2> QED BY <1>1, <2>4 DEF FreeSlot, T, G
<1> QED BY <1>2, <1>3

\* A good answer to a call that named a hwId.
Response(m) == m.ok /\ m.kind # "add" /\ m.type \in {"answer", "client fence removed", "paused again"}

\* Each message of G comes when its hwId is of its geofence in the map, or when it
\* is free.
OfMap(G) == \A y \in G : \A i \in 1 .. Len(inbox) : inbox[i] = y => Holds(i - 1, y.hw, KeyOf(y))
OfFree(G) == \A y \in G : \A i \in 1 .. Len(inbox) : inbox[i] = y => FreeSlot(i - 1, y.hw)
BreachMessages == {m \in Messages : m.type = "breach"}
Saving == {m \in Messages : Saves(m)}
Responses == {m \in Messages : Response(m)}

ModemIsHeard == \A hw \in DOMAIN fences : Holds(Len(inbox), hw, fences[hw].key)
FreeIsHeard == modem.up => \A hw \in HwIds \ DOMAIN fences : FreeSlot(Len(inbox), hw)
DownIsEmpty == ~modem.up => DOMAIN fences = {}

\* The modem and the map agree on the hwIds, once the inbox is handled: what the
\* modem has is held there, what it has not is free.  Breaches and good answers
\* of the modem come when the map agrees with them.
Slots ==
    /\ ModemIsHeard /\ FreeIsHeard /\ DownIsEmpty
    /\ OfMap(BreachMessages) /\ OfFree(Saving)
    /\ Without({"wrong"}) => OfMap(Responses)

LEMMA HoldsArrived ==
    ASSUME Typed, NEW m \in Inbound, inbox' = Append(inbox, m), SameMaps, NEW i \in 1 .. Len(inbox'), NEW hw, NEW key
    PROVE  \/ /\ i \in 1 .. Len(inbox) /\ inbox'[i] = inbox[i]
              /\ Holds(i - 1, hw, key) => Holds(i - 1, hw, key)'
              /\ FreeSlot(i - 1, hw) => FreeSlot(i - 1, hw)'
           \/ /\ i - 1 = Len(inbox) /\ inbox'[i] = m
              /\ Holds(Len(inbox), hw, key) => Holds(i - 1, hw, key)'
              /\ FreeSlot(Len(inbox), hw) => FreeSlot(i - 1, hw)'
<1>0. inbox \in Seq(Inbound)
    BY DEF Typed, QueuesTyped
<1> DEFINE n == Len(inbox)
<1>1. n \in Nat /\ Len(inbox') = n + 1 /\ inbox'[n + 1] = m /\ \A j \in 1 .. n : inbox'[j] = inbox[j]
    BY <1>0, Appended
<1>2. i - 1 \in Nat /\ i - 1 <= n /\ (i \in 1 .. n \/ (i = n + 1 /\ i - 1 = n))
    BY <1>1
<1>3. PICK k \in Nat : k = i - 1
    BY <1>2
<1>4. (Holds(k, hw, key) => Holds(k, hw, key)') /\ (FreeSlot(k, hw) => FreeSlot(k, hw)')
    BY <1>2, <1>3, ArrivesBefore
<1>5. (Holds(i - 1, hw, key) => Holds(i - 1, hw, key)') /\ (FreeSlot(i - 1, hw) => FreeSlot(i - 1, hw)')
    BY <1>3, <1>4
<1> QED BY <1>1, <1>2, <1>5

LEMMA OfArrival ==
    ASSUME Typed, NEW m \in Inbound, inbox' = Append(inbox, m), SameMaps, NEW G
    PROVE  /\ OfMap(G) /\ (m \in G => Holds(Len(inbox), m.hw, KeyOf(m))) => OfMap(G)'
           /\ OfFree(G) /\ (m \in G => FreeSlot(Len(inbox), m.hw)) => OfFree(G)'
<1>1. ASSUME OfMap(G), m \in G => Holds(Len(inbox), m.hw, KeyOf(m)), NEW y \in G, NEW i \in 1 .. Len(inbox'), inbox'[i] = y
      PROVE  Holds(i - 1, y.hw, KeyOf(y))'
    <2> DEFINE hw == y.hw
               key == KeyOf(y)
    <2>1. \A j \in 1 .. Len(inbox) : inbox[j] = y => Holds(j - 1, hw, key)
        BY <1>1 DEF OfMap
    <2>2. m = y => Holds(Len(inbox), hw, key)
        BY <1>1
    <2> HIDE DEF hw, key
    <2>3. Holds(i - 1, hw, key)'
        BY <1>1, <2>1, <2>2, HoldsArrived
    <2> QED BY <2>3 DEF hw, key
<1>2. ASSUME OfFree(G), m \in G => FreeSlot(Len(inbox), m.hw), NEW y \in G, NEW i \in 1 .. Len(inbox'), inbox'[i] = y
      PROVE  FreeSlot(i - 1, y.hw)'
    <2> DEFINE hw == y.hw
    <2>1. \A j \in 1 .. Len(inbox) : inbox[j] = y => FreeSlot(j - 1, hw)
        BY <1>2 DEF OfFree
    <2>2. m = y => FreeSlot(Len(inbox), hw)
        BY <1>2
    <2> HIDE DEF hw
    <2>3. FreeSlot(i - 1, hw)'
        BY <1>2, <2>1, <2>2, HoldsArrived
    <2> QED BY <2>3 DEF hw
<1> QED BY <1>1, <1>2 DEF OfMap, OfFree

LEMMA OfHandled ==
    ASSUME Typed, Unique, NEW m \in Inbound, NEW r, Handled(m, r), NEW G
    PROVE  (OfMap(G) => OfMap(G)') /\ (OfFree(G) => OfFree(G)')
<1>0. inbox \in Seq(Inbound) /\ inbox # <<>> /\ inbox' = Tail(inbox)
    BY DEF Handled, Typed, QueuesTyped
<1>1. ASSUME NEW i \in 1 .. Len(inbox')
      PROVE  /\ i - 1 \in Nat /\ i - 1 < Len(inbox) /\ (i - 1) + 1 = i /\ (i + 1) - 1 = i /\ i \in Nat
             /\ i + 1 \in 1 .. Len(inbox) /\ inbox'[i] = inbox[i + 1] /\ i < Len(inbox)
    <2> DEFINE n == Len(inbox)
               l == Len(inbox')
    <2>1. n \in Nat \ {0} /\ l = n - 1 /\ \A j \in 1 .. n - 1 : inbox'[j] = inbox[j + 1]
        BY <1>0, RestOfQueue
    <2>2. i \in 1 .. l
        OBVIOUS
    <2> HIDE DEF n, l
    <2>3. /\ i - 1 \in Nat /\ i - 1 < n /\ (i - 1) + 1 = i /\ (i + 1) - 1 = i /\ i \in Nat
          /\ i + 1 \in 1 .. n /\ inbox'[i] = inbox[i + 1] /\ i < n
        BY <2>1, <2>2
    <2> QED BY <2>3 DEF n
<1>2. ASSUME OfMap(G), NEW y \in G, NEW i \in 1 .. Len(inbox'), inbox'[i] = y
      PROVE  Holds(i - 1, y.hw, KeyOf(y))'
    <2> DEFINE hw == y.hw
               key == KeyOf(y)
    <2>1. Holds((i + 1) - 1, hw, key)
        BY <1>1, <1>2 DEF OfMap
    <2> HIDE DEF hw, key
    <2>2. PICK k \in Nat : k = i - 1 /\ k + 1 = (i + 1) - 1 /\ k < Len(inbox)
        BY <1>1
    <2>3. Holds(k + 1, hw, key)
        BY <2>1, <2>2
    <2>4. Holds(k, hw, key)'
        BY <2>2, <2>3, HandledBefore
    <2> QED BY <2>2, <2>4 DEF hw, key
<1>3. ASSUME OfFree(G), NEW y \in G, NEW i \in 1 .. Len(inbox'), inbox'[i] = y
      PROVE  FreeSlot(i - 1, y.hw)'
    <2> DEFINE hw == y.hw
    <2>1. FreeSlot((i + 1) - 1, hw)
        BY <1>1, <1>3 DEF OfFree
    <2> HIDE DEF hw
    <2>2. PICK k \in Nat : k = i - 1 /\ k + 1 = (i + 1) - 1 /\ k < Len(inbox)
        BY <1>1
    <2>3. FreeSlot(k + 1, hw)
        BY <2>1, <2>2
    <2>4. FreeSlot(k, hw)'
        BY <2>2, <2>3, HandledBefore
    <2> QED BY <2>2, <2>4 DEF hw
<1> QED BY <1>2, <1>3 DEF OfMap, OfFree

LEMMA AllHandled ==
    ASSUME Typed, Unique, NEW m \in Inbound, NEW r, Handled(m, r), NEW hw, NEW key
    PROVE  /\ Holds(Len(inbox), hw, key) => Holds(Len(inbox), hw, key)'
           /\ FreeSlot(Len(inbox), hw) => FreeSlot(Len(inbox), hw)'
<1>0. inbox \in Seq(Inbound) /\ inbox # <<>> /\ inbox' = Tail(inbox)
    BY DEF Handled, Typed, QueuesTyped
<1>1. Len(inbox') \in Nat /\ Len(inbox') + 1 = Len(inbox) /\ Len(inbox') < Len(inbox)
    BY <1>0, RestOfQueue
<1>2. PICK k \in Nat : k = Len(inbox')
    BY <1>1
<1>3. k + 1 = Len(inbox) /\ k < Len(inbox)
    BY <1>1, <1>2
<1>4. (Holds(k + 1, hw, key) => Holds(k, hw, key)') /\ (FreeSlot(k + 1, hw) => FreeSlot(k, hw)')
    BY <1>2, <1>3, HandledBefore
<1>5. (Holds(k, hw, key)' => Holds(Len(inbox), hw, key)') /\ (FreeSlot(k, hw)' => FreeSlot(Len(inbox), hw)')
    BY <1>2 DEF Holds, FreeSlot
<1> QED BY <1>3, <1>4, <1>5

\* What the answer of a call is.
LEMMA AnswerIs ==
    ASSUME NEW n \in Outbound, NEW m \in Inbound, Performed(n, m)
    PROVE  /\ m.ok /\ m.kind = n.kind /\ KeyOf(m) = KeyOf(n)
           /\ m.type \in {"answer", "restored", "client fence removed", "paused again"}
           /\ m.type = "restored" <=> n.kind = "add" /\ n.hw # NoHwId
           /\ m.type = "client fence removed" <=> n.kind = "remove" /\ n.paused
           /\ m.type = "paused again" <=> n.kind = "pause" /\ n.paused
           /\ Saves(m) <=> n.kind = "add"
           /\ (Removes(m) \/ Forgets(m)) <=> n.kind = "remove"
           /\ Response(m) <=> n.kind # "add"
<1> DEFINE hw == m.hw
<1>1. m = [n EXCEPT !.type = AnswerType(n), !.hw = hw, !.ok = TRUE] /\ n \in Messages
    BY DEF Performed, AnswerOf, Outbound
<1> HIDE DEF hw
<1>2. m.type = AnswerType(n) /\ m.ok = TRUE /\ m.kind = n.kind /\ KeyOf(m) = KeyOf(n) /\ n.kind \in Kinds
    BY <1>1 DEF Messages, KeyOf
<1>3. /\ AnswerType(n) \in {"answer", "restored", "client fence removed", "paused again"}
      /\ AnswerType(n) = "restored" <=> n.kind = "add" /\ n.hw # NoHwId
      /\ AnswerType(n) = "client fence removed" <=> n.kind = "remove" /\ n.paused
      /\ AnswerType(n) = "paused again" <=> n.kind = "pause" /\ n.paused
    BY DEF AnswerType
<1>4. Saves(m) <=> n.kind = "add"
    BY <1>2, <1>3 DEF Saves
<1>5. (Removes(m) \/ Forgets(m)) <=> n.kind = "remove"
    BY <1>2, <1>3 DEF Removes, Forgets
<1>6. Response(m) <=> n.kind # "add"
    BY <1>2, <1>3 DEF Response
<1> QED BY <1>2, <1>3, <1>4, <1>5, <1>6

LEMMA SlotsInitially == ASSUME Init PROVE Slots
BY DEF Init, Slots, ModemIsHeard, FreeIsHeard, DownIsEmpty, OfMap, OfFree, FreeSlot, Ends, FreeAt, fences

\* Where neither the inbox nor the maps change.
LEMMA SlotsSame ==
    ASSUME UNCHANGED <<inbox, mGeofences, mGeofenceIds>>, NEW G, NEW k, NEW hw, NEW key
    PROVE  /\ OfMap(G) => OfMap(G)'
           /\ OfFree(G) => OfFree(G)'
           /\ Holds(k, hw, key) => Holds(k, hw, key)'
           /\ FreeSlot(k, hw) => FreeSlot(k, hw)'
BY DEF OfMap, OfFree, Holds, FreeSlot, KeyAt, FreeAt

\* A message arrives that is of no hwId.
LEMMA SlotsOther ==
    ASSUME Typed, Slots, NEW m \in Inbound, inbox' = Append(inbox, m), SameMaps, \A hw : m \notin Touches(hw),
           DOMAIN fences' = DOMAIN fences, \A hw \in DOMAIN fences : fences'[hw].key = fences[hw].key,
           modem'.up = modem.up, mishaps \subseteq mishaps',
           m \in BreachMessages => Holds(Len(inbox), m.hw, KeyOf(m)),
           Without({"wrong"})' /\ m \in Responses => Holds(Len(inbox), m.hw, KeyOf(m))
    PROVE  Slots'
<1>1. ModemIsHeard'
    <2> SUFFICES ASSUME NEW hw \in DOMAIN fences', NEW key, key = fences[hw].key PROVE Holds(Len(inbox), hw, key)'
        BY DEF ModemIsHeard
    <2>1. Holds(Len(inbox), hw, key)
        BY DEF Slots, ModemIsHeard
    <2> QED BY <2>1, ArrivesOther
<1>2. FreeIsHeard'
    <2> SUFFICES ASSUME modem.up, NEW hw \in HwIds \ DOMAIN fences PROVE FreeSlot(Len(inbox), hw)'
        BY DEF FreeIsHeard
    <2>1. FreeSlot(Len(inbox), hw)
        BY DEF Slots, FreeIsHeard
    <2> QED BY <2>1, ArrivesOther
<1>3. DownIsEmpty'
    BY DEF Slots, DownIsEmpty
<1>4. m \notin Saving
    BY DEF Saving, Touches, Sets
<1>5. OfMap(BreachMessages)' /\ OfFree(Saving)'
    BY <1>4, OfArrival DEF Slots
<1>6. Without({"wrong"})' => OfMap(Responses)'
    BY OfArrival DEF Slots, Without
<1> QED BY <1>1, <1>2, <1>3, <1>5, <1>6 DEF Slots

\* A breach names a geofence the modem has.
LEMMA SlotsPosted ==
    ASSUME Typed, Slots, NEW m \in Inbound,
           (\E id \in Ids : Commands(m, id)) \/ Destroys(m) \/ Breaches(m) \/ ComesUp(m)
    PROVE  Slots'
<1>1. inbox' = Append(inbox, m) /\ SameMaps /\ mishaps' = mishaps /\ fences' = fences
    BY DEF Commands, Destroys, Breaches, ComesUp, Posted, adapter, SameMaps, fences
<1>2. m.type \in {"command", "remove client", "breach", "engine up"}
    BY DEF Commands, Destroys, Breaches, ComesUp
<1>3. ~Saves(m) /\ ~Removes(m) /\ ~Forgets(m) /\ ~Response(m)
    BY <1>2 DEF Saves, Removes, Forgets, Response
<1>4. CASE ~ComesUp(m)
    <2>1. m.type # "engine up" /\ modem' = modem
        BY <1>4 DEF Commands, Destroys, Breaches
    <2>2. \A hw : m \notin Touches(hw)
        BY <1>3, <2>1 DEF Touches, Sets, Drops, Clears
    <2>3. m \in BreachMessages => Holds(Len(inbox), m.hw, KeyOf(m))
        <3> SUFFICES ASSUME m.type = "breach" PROVE Holds(Len(inbox), m.hw, KeyOf(m))
            BY DEF BreachMessages
        <3>1. m.hw \in DOMAIN fences /\ fences[m.hw].key = KeyOf(m)
            BY <1>4 DEF Commands, Destroys, Breaches
        <3> QED BY <3>1 DEF Slots, ModemIsHeard
    <2>4. m \notin Responses
        BY <1>3 DEF Responses
    <2> QED BY <1>1, <2>1, <2>2, <2>3, <2>4, SlotsOther
<1>5. CASE ComesUp(m)
    <2>1. m.type = "engine up" /\ ~modem.up /\ modem'.up
        BY <1>5 DEF ComesUp
    <2>2. DOMAIN fences = {}
        BY <2>1 DEF Slots, DownIsEmpty
    <2>3. ModemIsHeard' /\ DownIsEmpty'
        BY <1>1, <2>1, <2>2 DEF ModemIsHeard, DownIsEmpty
    <2>4. \A hw : m \in Touches(hw) \ Sets(hw)
        BY <1>3, <2>1 DEF Touches, Sets, Clears, Inbound
    <2>5. FreeIsHeard'
        BY <1>1, <2>4, ArrivesSetting DEF FreeIsHeard
    <2>6. m \notin BreachMessages /\ m \notin Saving /\ m \notin Responses
        BY <1>3, <2>1 DEF BreachMessages, Saving, Responses
    <2>7. OfMap(BreachMessages)' /\ OfFree(Saving)' /\ (Without({"wrong"})' => OfMap(Responses)')
        BY <1>1, <2>6, OfArrival DEF Slots, Without
    <2> QED BY <2>3, <2>5, <2>7 DEF Slots
<1> QED BY <1>4, <1>5

\* A handler takes the first message, and what holds after k holds after k - 1.
LEMMA SlotsHandled ==
    ASSUME Typed, Unique, Slots, NEW m \in Inbound, NEW r, Handled(m, r)
    PROVE  Slots'
<1>1. modem' = modem /\ mishaps \subseteq mishaps'
    BY DEF Handled
<1>2. ModemIsHeard'
    <2> SUFFICES ASSUME NEW hw \in DOMAIN fences, NEW key, key = fences[hw].key PROVE Holds(Len(inbox), hw, key)'
        BY <1>1 DEF ModemIsHeard, fences
    <2>1. Holds(Len(inbox), hw, key)
        BY DEF Slots, ModemIsHeard
    <2> QED BY <2>1, AllHandled
<1>3. FreeIsHeard'
    <2> SUFFICES ASSUME modem.up, NEW hw \in HwIds \ DOMAIN fences PROVE FreeSlot(Len(inbox), hw)'
        BY <1>1 DEF FreeIsHeard, fences
    <2>1. FreeSlot(Len(inbox), hw)
        BY DEF Slots, FreeIsHeard
    <2> QED BY <2>1, AllHandled
<1>4. DownIsEmpty'
    BY <1>1 DEF Slots, DownIsEmpty, fences
<1>5. OfMap(BreachMessages)' /\ OfFree(Saving)'
    BY OfHandled DEF Slots
<1>6. Without({"wrong"})' => OfMap(Responses)'
    BY <1>1, OfHandled DEF Slots, Without
<1> QED BY <1>2, <1>3, <1>4, <1>5, <1>6 DEF Slots

\* An add gets a hwId that is free once the inbox is handled, a removal frees its
\* hwId.
LEMMA SlotsShifted ==
    ASSUME Typed, Slots, NEW n \in Outbound, NEW m, Shifted(n, m), Returned(n, m) \/ Failed(n, m) \/ Performed(n, m)
    PROVE  Slots'
<1>1. inbox' = Append(inbox, m) /\ m \in Inbound /\ SameMaps
    BY DEF Shifted, adapter, SameMaps
<1>2. CASE Returned(n, m) \/ Failed(n, m)
    <2>1. /\ modem' = modem /\ mishaps \subseteq mishaps'
          /\ m.type = "perform" \/ (~m.ok /\ m.type \in {"answer", "restored", "client fence removed", "paused again"})
        BY <1>2 DEF Returned, Failed, AnswerOf, AnswerType, Outbound, Messages
    <2>2. ~Saves(m) /\ ~Removes(m) /\ ~Forgets(m) /\ ~Response(m)
        BY <2>1 DEF Saves, Removes, Forgets, Response
    <2>3. \A hw : m \notin Touches(hw)
        BY <2>1, <2>2 DEF Touches, Sets, Drops, Clears
    <2>4. m \notin Responses /\ m \notin BreachMessages
        BY <2>1, <2>2 DEF Responses, BreachMessages
    <2>5. fences' = fences
        BY <2>1 DEF fences
    <2> QED BY <1>1, <2>1, <2>3, <2>4, <2>5, SlotsOther
<1>3. CASE Performed(n, m)
    <2>0. /\ m.ok /\ m.kind = n.kind /\ KeyOf(m) = KeyOf(n)
          /\ m.type \in {"answer", "restored", "client fence removed", "paused again"}
          /\ Saves(m) <=> n.kind = "add"
          /\ (Removes(m) \/ Forgets(m)) <=> n.kind = "remove"
          /\ Response(m) <=> n.kind # "add"
        BY <1>1, <1>3, AnswerIs
    <2>1. modem.up /\ modem'.up /\ mishaps \subseteq mishaps'
        BY <1>3 DEF Performed
    <2>2. DownIsEmpty'
        BY <2>1 DEF DownIsEmpty
    <2>3. m \notin BreachMessages /\ m.type # "engine up"
        BY <2>0 DEF BreachMessages
    <2>4. OfMap(BreachMessages)'
        BY <1>1, <2>3, OfArrival DEF Slots
    <2>5. ASSUME n.kind # "add", n.hw \in DOMAIN fences, Without({"wrong"})'
          PROVE  Holds(Len(inbox), m.hw, KeyOf(m))
        <3>1. m.hw = n.hw /\ mishaps' = mishaps \cup (IF n.kind # "add" /\ fences[n.hw].key # KeyOf(n) THEN {"wrong"} ELSE {})
            BY <1>3, <2>5 DEF Performed
        <3>2. fences[n.hw].key = KeyOf(m)
            BY <2>0, <2>5, <3>1 DEF Without
        <3> QED BY <2>5, <3>1, <3>2 DEF Slots, ModemIsHeard
    <2>6. CASE n.kind = "add"
        <3>1. AddsFence(n, m)
            BY <1>3, <2>6 DEF Performed
        <3>2. /\ m.hw \in HwIds \ DOMAIN fences /\ DOMAIN fences' = DOMAIN fences \cup {m.hw}
              /\ fences'[m.hw].key = KeyOf(m) /\ \A hw \in DOMAIN fences : fences'[hw] = fences[hw]
            <4>1. Fence(KeyOf(n), FALSE, n.options).key = KeyOf(m)
                BY <2>0 DEF Fence
            <4>2. DOMAIN fences' = DOMAIN fences \cup {m.hw}
                BY <3>1 DEF AddsFence
            <4> QED BY <3>1, <4>1, <4>2 DEF AddsFence
        <3>3. m \in Sets(m.hw) /\ \A hw : hw # m.hw => m \notin Touches(hw)
            BY <1>1, <2>0, <2>3, <2>6 DEF Touches, Sets, Drops, Clears, Inbound
        <3>4. ModemIsHeard'
            <4> SUFFICES ASSUME NEW hw \in DOMAIN fences', NEW key, key = fences'[hw].key PROVE Holds(Len(inbox), hw, key)'
                BY DEF ModemIsHeard
            <4>1. CASE hw = m.hw
                <5>1. Holds(Len(inbox), hw, KeyOf(m))'
                    BY <1>1, <3>3, <4>1, ArrivesSetting
                <5> QED BY <3>2, <4>1, <5>1
            <4>2. CASE hw # m.hw
                <5>1. hw \in DOMAIN fences /\ key = fences[hw].key
                    BY <3>2, <4>2
                <5>2. Holds(Len(inbox), hw, key)
                    BY <5>1 DEF Slots, ModemIsHeard
                <5> QED BY <1>1, <3>3, <4>2, <5>2, ArrivesOther
            <4> QED BY <4>1, <4>2
        <3>5. FreeIsHeard'
            <4> SUFFICES ASSUME NEW hw \in HwIds \ DOMAIN fences' PROVE FreeSlot(Len(inbox), hw)'
                BY DEF FreeIsHeard
            <4>1. hw # m.hw /\ hw \in HwIds \ DOMAIN fences
                BY <3>2
            <4>2. FreeSlot(Len(inbox), hw)
                BY <2>1, <4>1 DEF Slots, FreeIsHeard
            <4> QED BY <1>1, <3>3, <4>1, <4>2, ArrivesOther
        <3>6. FreeSlot(Len(inbox), m.hw)
            BY <2>1, <3>2 DEF Slots, FreeIsHeard
        <3>7. OfFree(Saving)'
            BY <1>1, <3>6, OfArrival DEF Slots
        <3>8. m \notin Responses
            BY <2>0, <2>6 DEF Responses
        <3>9. Without({"wrong"})' => OfMap(Responses)'
            BY <1>1, <2>1, <3>8, OfArrival DEF Slots, Without
        <3> QED BY <2>2, <2>4, <3>4, <3>5, <3>7, <3>9 DEF Slots
    <2>7. CASE n.kind = "remove"
        <3>1. RemovesFence(n) /\ m.hw = n.hw
            BY <1>3, <2>7 DEF Performed
        <3>2. n.hw \in DOMAIN fences /\ DOMAIN fences' = DOMAIN fences \ {n.hw} /\ \A hw \in DOMAIN fences' : fences'[hw] = fences[hw]
            BY <3>1 DEF RemovesFence
        <3>3. m \in Touches(m.hw) \ Sets(m.hw) /\ \A hw : hw # m.hw => m \notin Touches(hw)
            BY <1>1, <2>0, <2>3, <2>7 DEF Touches, Sets, Drops, Clears, Inbound
        <3>4. ModemIsHeard'
            <4> SUFFICES ASSUME NEW hw \in DOMAIN fences', NEW key, key = fences'[hw].key PROVE Holds(Len(inbox), hw, key)'
                BY DEF ModemIsHeard
            <4>1. hw \in DOMAIN fences /\ key = fences[hw].key /\ hw # m.hw
                BY <3>1, <3>2
            <4>2. Holds(Len(inbox), hw, key)
                BY <4>1 DEF Slots, ModemIsHeard
            <4> QED BY <1>1, <3>3, <4>1, <4>2, ArrivesOther
        <3>5. FreeIsHeard'
            <4> SUFFICES ASSUME NEW hw \in HwIds \ DOMAIN fences' PROVE FreeSlot(Len(inbox), hw)'
                BY DEF FreeIsHeard
            <4>1. CASE hw = m.hw
                BY <1>1, <3>3, <4>1, ArrivesSetting
            <4>2. CASE hw # m.hw
                <5>1. hw \in HwIds \ DOMAIN fences
                    BY <3>1, <3>2, <4>2
                <5>2. FreeSlot(Len(inbox), hw)
                    BY <2>1, <5>1 DEF Slots, FreeIsHeard
                <5> QED BY <1>1, <3>3, <4>2, <5>2, ArrivesOther
            <4> QED BY <4>1, <4>2
        <3>6. m \notin Saving
            BY <2>0, <2>7 DEF Saving
        <3>7. OfFree(Saving)'
            BY <1>1, <3>6, OfArrival DEF Slots
        <3>9. Without({"wrong"})' => OfMap(Responses)'
            BY <1>1, <2>1, <2>5, <2>7, <3>2, OfArrival DEF Slots, Without
        <3> QED BY <2>2, <2>4, <3>4, <3>5, <3>7, <3>9 DEF Slots
    <2>8. CASE n.kind \notin {"add", "remove"}
        <3>1. ChangesFence(n)
            BY <1>3, <2>8 DEF Performed
        <3>2. n.hw \in DOMAIN fences /\ DOMAIN fences' = DOMAIN fences /\ \A hw \in DOMAIN fences : fences'[hw].key = fences[hw].key
            BY <3>1 DEF ChangesFence
        <3>3. \A hw : m \notin Touches(hw)
            BY <2>0, <2>3, <2>8 DEF Touches, Sets, Drops, Clears
        <3>4. Without({"wrong"})' => Holds(Len(inbox), m.hw, KeyOf(m))
            BY <2>5, <2>8, <3>2
        <3> QED BY <1>1, <2>1, <2>3, <3>2, <3>3, <3>4, SlotsOther
    <2> QED BY <2>6, <2>7, <2>8
<1> QED BY <1>2, <1>3

LEMMA SlotsStep == ASSUME Typed, Unique, Slots, Step PROVE Slots'
<1>1. CASE \E m \in Inbound : (\E id \in Ids : Commands(m, id)) \/ Destroys(m) \/ Breaches(m) \/ ComesUp(m)
    BY <1>1, SlotsPosted
<1>2. CASE \E m \in Inbound : Sound(m) /\ m \in Messages /\ \E r : Handled(m, r)
    BY <1>2, SlotsHandled
<1>3. CASE \E n \in Outbound : \E m : Shifted(n, m) /\ (Returned(n, m) \/ Failed(n, m) \/ Performed(n, m))
    BY <1>3, SlotsShifted
<1>4. CASE Crashed
    <2>1. UNCHANGED <<inbox, mGeofences, mGeofenceIds>> /\ mishaps \subseteq mishaps' /\ ~modem'.up /\ DOMAIN fences' = {}
        BY <1>4 DEF Crashed, adapter
    <2>2. ModemIsHeard' /\ FreeIsHeard' /\ DownIsEmpty'
        BY <2>1 DEF ModemIsHeard, FreeIsHeard, DownIsEmpty
    <2>3. OfMap(BreachMessages)' /\ OfFree(Saving)' /\ (Without({"wrong"})' => OfMap(Responses)')
        BY <2>1, SlotsSame DEF Slots, Without
    <2> QED BY <2>2, <2>3 DEF Slots
<1>5. CASE Idle
    BY <1>5 DEF Idle, adapter, Slots, ModemIsHeard, FreeIsHeard, DownIsEmpty, OfMap, OfFree, Holds, FreeSlot, KeyAt, FreeAt, Without, fences
<1> QED BY <1>1, <1>2, <1>3, <1>4, <1>5 DEF Step

-----------------------------------------------------------------------------
(* Which messages are in a queue, and in which order                       *)

\* One of S is in the queue; all of F in it are before all of L.
Some(q, S) == \E i \in 1 .. Len(q) : q[i] \in S
After(q, F, L) == \A i, j \in 1 .. Len(q) : q[i] \in F /\ q[j] \in L => i < j

\* These properties of a queue with one more message, without its head, and
\* joined with another queue.
LEMMA SomeAppended ==
    ASSUME NEW M, NEW q \in Seq(M), NEW m \in M, NEW S
    PROVE  Some(Append(q, m), S) <=> Some(q, S) \/ m \in S
<1> DEFINE p == Append(q, m)
           n == Len(q)
           k == Len(p)
<1>1. k = n + 1 /\ n \in Nat /\ p[n + 1] = m /\ \A i \in 1 .. n : p[i] = q[i]
    BY Appended
<1> HIDE DEF p, n, k
<1>2. (\A i \in 1 .. k : i \in 1 .. n \/ i = n + 1) /\ n + 1 \in 1 .. k /\ \A i \in 1 .. n : i \in 1 .. k
    BY <1>1
<1>3. (\E i \in 1 .. k : p[i] \in S) => (\E i \in 1 .. n : q[i] \in S) \/ m \in S
    BY <1>1, <1>2
<1>4. (\E i \in 1 .. n : q[i] \in S) \/ m \in S => \E i \in 1 .. k : p[i] \in S
    BY <1>1, <1>2
<1> QED BY <1>3, <1>4 DEF Some, p, n, k

LEMMA AfterAppended ==
    ASSUME NEW M, NEW q \in Seq(M), NEW m \in M, NEW F, NEW L, After(q, F, L),
           m \in F => m \notin L /\ ~Some(q, L)
    PROVE  After(Append(q, m), F, L)
<1> DEFINE p == Append(q, m)
           n == Len(q)
           k == Len(p)
<1>1. k = n + 1 /\ n \in Nat /\ p[n + 1] = m /\ \A i \in 1 .. n : p[i] = q[i]
    BY Appended
<1>0. /\ \A i, j \in 1 .. n : q[i] \in F /\ q[j] \in L => i < j
      /\ m \in F => m \notin L /\ ~\E i \in 1 .. n : q[i] \in L
    BY DEF After, Some
<1> HIDE DEF p, n, k
<1>2. (\A i \in 1 .. k : i \in 1 .. n \/ i = n + 1) /\ n + 1 \in 1 .. k /\ \A i \in 1 .. n : i < n + 1
    BY <1>1
<1>3. ASSUME NEW i \in 1 .. k, NEW j \in 1 .. k, p[i] \in F, p[j] \in L PROVE i < j
    <2>1. CASE i \in 1 .. n
        BY <1>0, <1>1, <1>2, <1>3, <2>1
    <2>2. CASE i = n + 1
        BY <1>0, <1>1, <1>2, <1>3, <2>2
    <2> QED BY <1>2, <2>1, <2>2
<1> QED BY <1>3 DEF After, p, n, k

LEMMA SomeInRest ==
    ASSUME NEW M, NEW q \in Seq(M), q # <<>>, NEW S
    PROVE  Some(q, S) <=> Head(q) \in S \/ Some(Tail(q), S)
<1> DEFINE n == Len(q)
           t == Tail(q)
<1>1. n \in Nat \ {0} /\ Len(t) = n - 1 /\ Head(q) = q[1] /\ \A i \in 1 .. n - 1 : t[i] = q[i + 1]
    BY RestOfQueue
<1> HIDE DEF n, t
<1>2. /\ 1 \in 1 .. n
      /\ \A i \in 1 .. n - 1 : i + 1 \in 1 .. n
      /\ \A i \in 1 .. n : i = 1 \/ (i - 1 \in 1 .. n - 1 /\ i = (i - 1) + 1)
    BY <1>1
<1>3. \A i \in 1 .. n : q[i] \in S => q[1] \in S \/ (\E j \in 1 .. n - 1 : t[j] \in S)
    <2> SUFFICES ASSUME NEW i \in 1 .. n, q[i] \in S, q[1] \notin S PROVE \E j \in 1 .. n - 1 : t[j] \in S
        OBVIOUS
    <2>1. i - 1 \in 1 .. n - 1 /\ q[i] = q[(i - 1) + 1]
        BY <1>2
    <2>2. t[i - 1] = q[i]
        BY <1>1, <2>1
    <2> QED BY <2>1, <2>2
<1>4. \A j \in 1 .. n - 1 : t[j] \in S => \E i \in 1 .. n : q[i] \in S
    BY <1>1, <1>2
<1> QED BY <1>1, <1>2, <1>3, <1>4 DEF Some, n, t

LEMMA AfterInRest ==
    ASSUME NEW M, NEW q \in Seq(M), q # <<>>, NEW F, NEW L, After(q, F, L)
    PROVE  After(Tail(q), F, L) /\ (Head(q) \in L => ~Some(q, F))
<1> DEFINE n == Len(q)
           t == Tail(q)
<1>1. n \in Nat \ {0} /\ Len(t) = n - 1 /\ Head(q) = q[1] /\ \A i \in 1 .. n - 1 : t[i] = q[i + 1]
    BY RestOfQueue
<1>0. \A i, j \in 1 .. n : q[i] \in F /\ q[j] \in L => i < j
    BY DEF After
<1> HIDE DEF n, t
<1>2. 1 \in 1 .. n /\ \A i \in 1 .. n - 1 : i + 1 \in 1 .. n
    BY <1>1
<1>3. ASSUME NEW i \in 1 .. n - 1, NEW j \in 1 .. n - 1, t[i] \in F, t[j] \in L PROVE i < j
    <2>1. q[i + 1] \in F /\ q[j + 1] \in L
        BY <1>1, <1>3
    <2>2. i + 1 < j + 1
        BY <1>0, <1>2, <2>1
    <2> QED BY <1>1, <2>2
<1>4. ASSUME q[1] \in L, NEW i \in 1 .. n, q[i] \in F PROVE FALSE
    <2>1. i < 1
        BY <1>0, <1>2, <1>4
    <2> QED BY <1>1, <2>1
<1> QED BY <1>1, <1>3, <1>4 DEF After, Some, n, t

LEMMA SomeJoined ==
    ASSUME NEW M, NEW q \in Seq(M), NEW r \in Seq(M), NEW S
    PROVE  Some(q \o r, S) <=> Some(q, S) \/ Some(r, S)
<1> DEFINE p == q \o r
           n == Len(q)
           k == Len(p)
           l == Len(r)
<1>1. \A i \in 1 .. k : \/ i \in 1 .. n /\ p[i] = q[i]
                        \/ i - n \in 1 .. l /\ p[i] = r[i - n]
    BY JoinedIndex
<1>2. k = n + l /\ n \in Nat /\ l \in Nat /\ (\A i \in 1 .. n : p[i] = q[i]) /\ (\A i \in 1 .. l : p[n + i] = r[i])
    BY Joined
<1> HIDE DEF p, n, k, l
<1>3. (\A i \in 1 .. n : i \in 1 .. k) /\ (\A i \in 1 .. l : n + i \in 1 .. k)
    BY <1>2
<1>4. (\E i \in 1 .. k : p[i] \in S) => (\E i \in 1 .. n : q[i] \in S) \/ (\E i \in 1 .. l : r[i] \in S)
    BY <1>1
<1>5. (\E i \in 1 .. n : q[i] \in S) => \E i \in 1 .. k : p[i] \in S
    BY <1>2, <1>3
<1>6. (\E i \in 1 .. l : r[i] \in S) => \E i \in 1 .. k : p[i] \in S
    BY <1>2, <1>3
<1> QED BY <1>4, <1>5, <1>6 DEF Some, p, n, k, l

LEMMA AfterJoined ==
    ASSUME NEW M, NEW q \in Seq(M), NEW r \in Seq(M), NEW F, NEW L, After(q, F, L), After(r, F, L),
           ~(Some(q, L) /\ Some(r, F))
    PROVE  After(q \o r, F, L)
<1> DEFINE p == q \o r
           n == Len(q)
           k == Len(p)
           l == Len(r)
<1>1. \A i \in 1 .. k : \/ i \in 1 .. n /\ p[i] = q[i]
                        \/ i - n \in 1 .. l /\ p[i] = r[i - n]
    BY JoinedIndex
<1>2. k = n + l /\ n \in Nat /\ l \in Nat
    BY Joined
<1>0. /\ \A i, j \in 1 .. n : q[i] \in F /\ q[j] \in L => i < j
      /\ \A i, j \in 1 .. l : r[i] \in F /\ r[j] \in L => i < j
      /\ \A i \in 1 .. n, j \in 1 .. l : ~(q[i] \in L /\ r[j] \in F)
    BY DEF After, Some
<1> HIDE DEF p, n, k, l
<1>3. ASSUME NEW i \in 1 .. k, NEW j \in 1 .. k, p[i] \in F, p[j] \in L PROVE i < j
    <2>1. CASE i \in 1 .. n /\ p[i] = q[i] /\ j \in 1 .. n /\ p[j] = q[j]
        BY <1>0, <1>3, <2>1
    <2>2. CASE i - n \in 1 .. l /\ p[i] = r[i - n] /\ j - n \in 1 .. l /\ p[j] = r[j - n]
        <3>1. i - n < j - n
            BY <1>0, <1>3, <2>2
        <3> QED BY <1>2, <3>1
    <2>3. CASE i \in 1 .. n /\ j - n \in 1 .. l
        BY <1>2, <2>3
    <2>4. CASE i - n \in 1 .. l /\ p[i] = r[i - n] /\ j \in 1 .. n /\ p[j] = q[j]
        BY <1>0, <1>3, <2>4
    <2> QED BY <1>1, <2>1, <2>2, <2>3, <2>4
<1> QED BY <1>3 DEF After, p, n, k, l

\* When nothing good is in the queue, nothing there touches, and it is so now.
LEMMA EndsNone ==
    ASSUME NEW q, NEW k \in Nat, NEW touch, NEW good, NEW now, Ends(q, k, touch, good, now),
           \A i \in 1 .. k : q[i] \notin good
    PROVE  (\A i \in 1 .. k : q[i] \notin touch) /\ now
<1>1. SUFFICES ASSUME NEW a \in 1 .. k, q[a] \in touch PROVE FALSE
    BY DEF Ends
<1> DEFINE S == {x \in 0 .. k : k - x \in 1 .. k /\ q[k - x] \in touch}
<1>2. k - a \in S
    <2>1. k - a \in 0 .. k /\ k - (k - a) = a
        OBVIOUS
    <2> QED BY <1>1, <2>1
<1>3. S \in SUBSET Nat /\ S # {}
    <2>1. \A x \in 0 .. k : x \in Nat
        OBVIOUS
    <2> QED BY <1>2, <2>1
<1>4. PICK x \in S : \A y \in S : x <= y
    BY <1>3, LeastExists
<1> DEFINE j == k - x
<1>5. j \in 1 .. k /\ q[j] \in touch
    BY <1>4
<1>6. \A i \in 1 .. k : j < i => q[i] \notin touch
    <2> SUFFICES ASSUME NEW i \in 1 .. k, j < i, q[i] \in touch PROVE FALSE
        OBVIOUS
    <2>1. k - i \in 0 .. k /\ k - (k - i) = i
        OBVIOUS
    <2>2. k - i \in S
        BY <2>1
    <2>3. x <= k - i
        BY <1>4, <2>2
    <2>4. x \in Int /\ i \in Int
        BY <1>4
    <2> QED BY <2>3, <2>4
<1> HIDE DEF j
<1> QED BY <1>5, <1>6 DEF Ends

-----------------------------------------------------------------------------
(* The two maps, and the calls and answers that name a geofence            *)

Carriers(key) == {m \in Messages : Carries(m, key)}
Asks(key) == {m \in Messages : m.type = "call" /\ m.kind # "add" /\ KeyOf(m) = key}
ResponsesTo(key) == {m \in Messages : Response(m) /\ KeyOf(m) = key}
\* stopClientSessions: its calls, and the good answers to them.
Removals(key) ==
    {m \in Messages : /\ KeyOf(m) = key /\ m.kind = "remove"
                      /\ (m.type = "call" /\ m.paused) \/ Forgets(m)}

\* What names a geofence comes after what carries it: no call or answer names one
\* that is still on its way.  A geofence whose client is removed is not in the ids.
OrderOf(key) ==
    /\ Some(calls, Asks(key)) => ~Has(inbox, key)
    /\ After(calls, Asks(key), Carriers(key))
    /\ Some(inbox, ResponsesTo(key)) => ~Has(inbox, key) /\ ~Has(calls, key)
    /\ After(inbox, ResponsesTo(key), Clears)
    /\ Some(calls, Removals(key)) \/ Some(inbox, Removals(key)) => key \notin DOMAIN mGeofenceIds

\* MapsAgree, in its two parts.
IdsAgree == \A key \in DOMAIN mGeofenceIds : KeyAt(mGeofenceIds[key], key)
MapAgrees == \A hw \in DOMAIN mGeofences : mGeofences[hw].key[1] \in clients => mGeofences[hw].key \in DOMAIN mGeofenceIds
Ordered == IdsAgree /\ MapAgrees /\ \A key \in Keys : OrderOf(key)
Order == Without({"wrong"}) => Ordered

LEMMA QueuesOf == ASSUME Typed PROVE inbox \in Seq(Inbound) /\ calls \in Seq(Outbound) /\ Len(inbox) \in Nat /\ Len(calls) \in Nat
BY DEF Typed, QueuesTyped

LEMMA HasSome ==
    ASSUME Typed, NEW key
    PROVE  (Has(inbox, key) <=> Some(inbox, Carriers(key))) /\ (Has(calls, key) <=> Some(calls, Carriers(key)))
<1>1. \A i \in 1 .. Len(inbox) : inbox[i] \in Messages
    BY QueuesOf DEF Inbound
<1>2. \A i \in 1 .. Len(calls) : calls[i] \in Messages
    BY QueuesOf DEF Outbound
<1> QED BY <1>1, <1>2 DEF Has, Some, Carriers

LEMMA SentHas ==
    ASSUME NEW r \in Seq(Outbound), NEW key
    PROVE  Has(r, key) <=> Some(r, Carriers(key))
<1>1. \A i \in 1 .. Len(r) : r[i] \in Messages
    BY DEF Outbound
<1> QED BY <1>1 DEF Has, Some, Carriers

LEMMA SomeOfOne ==
    ASSUME NEW n, NEW S
    PROVE  (Some(<<n>>, S) <=> n \in S) /\ ~Some(<<>>, S)
<1>1. Len(<<n>>) = 1 /\ <<n>>[1] = n /\ Len(<<>>) = 0
    OBVIOUS
<1>2. 1 .. 1 = {1} /\ 1 .. 0 = {}
    OBVIOUS
<1>3. Some(<<n>>, S) <=> n \in S
    <2>1. Some(<<n>>, S) <=> \E i \in {1} : <<n>>[i] \in S
        BY <1>1, <1>2 DEF Some
    <2> QED BY <1>1, <2>1
<1>4. ~Some(<<>>, S)
    <2>1. Some(<<>>, S) <=> \E i \in {} : <<>>[i] \in S
        BY <1>1, <1>2 DEF Some
    <2> QED BY <2>1
<1> QED BY <1>3, <1>4

\* What a handler sends asks for a geofence that it took, or that the map names.
LEMMA SentAsks ==
    ASSUME Typed, NEW m \in Messages, Sound(m), NEW r \in Seq(Outbound), SendStep(m, r), NEW key \in Keys
    PROVE  /\ Some(r, Asks(key)) => \/ m.type = "perform" /\ m.kind # "add" /\ KeyOf(m) = key /\ key \in DOMAIN mGeofenceIds
                                    \/ m.type = "restored" /\ Carries(m, key)
                                    \/ m.type = "remove client" /\ key \in DOMAIN mGeofenceIds /\ key[1] = m.c
           /\ Some(r, Removals(key)) => m.type = "remove client" /\ key \in DOMAIN mGeofenceIds /\ key[1] = m.c
<1>1. ASSUME NEW n \in Outbound, r = <<n>>
      PROVE  (Some(r, Asks(key)) <=> n \in Asks(key)) /\ (Some(r, Removals(key)) <=> n \in Removals(key))
    BY <1>1, SomeOfOne
<1>9. \A i \in 1 .. Len(r) : r[i] \in Outbound
    OBVIOUS
<1>2. CASE m.type = "command"
    <2>1. r = <<[m EXCEPT !.type = "return"]>>
        BY <1>2 DEF SendStep
    <2>2. [m EXCEPT !.type = "return"] \in Outbound
        BY <1>9, <2>1
    <2>3. [m EXCEPT !.type = "return"].type = "return"
        BY DEF Messages
    <2>4. [m EXCEPT !.type = "return"] \notin Asks(key) /\ [m EXCEPT !.type = "return"] \notin Removals(key)
        BY <2>3 DEF Asks, Removals, Forgets
    <2> QED BY <1>1, <2>1, <2>2, <2>4
<1>3. CASE m.type = "perform" /\ Known(m)
    <2>1. r = <<CallOf(m)>>
        BY <1>3 DEF SendStep
    <2>2. CallOf(m) \in Outbound
        BY <1>9, <2>1
    <2>3. CallOf(m).type = "call" /\ CallOf(m).kind = m.kind /\ KeyOf(CallOf(m)) = KeyOf(m) /\ CallOf(m).paused = m.paused
        BY DEF CallOf, KeyOf, Messages
    <2>4. m.paused = FALSE
        BY <1>3 DEF Sound, OfCommands, Messages
    <2>5. CallOf(m) \notin Removals(key)
        BY <2>3, <2>4 DEF Removals, Forgets
    <2>6. CallOf(m) \in Asks(key) => m.kind # "add" /\ KeyOf(m) = key /\ key \in DOMAIN mGeofenceIds
        BY <1>3, <2>3 DEF Asks, Known
    <2> QED BY <1>1, <1>3, <2>1, <2>2, <2>5, <2>6
<1>4. CASE m.type = "restored" /\ m.ok /\ m.paused
    <2>1. r = <<PauseOf(m)>>
        BY <1>4 DEF SendStep
    <2>2. PauseOf(m) \in Outbound
        BY <1>9, <2>1
    <2>3. PauseOf(m).kind = "pause" /\ KeyOf(PauseOf(m)) = KeyOf(m)
        BY DEF PauseOf, KeyOf, Message
    <2>4. m.kind = "add"
        BY <1>4 DEF Sound
    <2>5. PauseOf(m) \notin Removals(key) /\ (PauseOf(m) \in Asks(key) => Carries(m, key))
        BY <1>4, <2>3, <2>4 DEF Removals, Asks, Carries
    <2> QED BY <1>1, <1>4, <2>1, <2>2, <2>5
<1>5. CASE m.type = "engine up"
    <2>1. \A hw : Again(hw).kind = "add"
        BY DEF Again, Message
    <2>2. \A i \in 1 .. Len(r) : \E hw \in DOMAIN mGeofences : r[i] = Again(hw)
        BY <1>5 DEF SendStep
    <2>3. \A i \in 1 .. Len(r) : r[i].kind = "add"
        BY <2>1, <2>2
    <2> QED BY <2>3 DEF Some, Asks, Removals
<1>6. CASE m.type = "remove client"
    <2>1. \A s : KeyOf(RemovalFor(m.c, s)) = <<m.c, s>>
        BY DEF RemovalFor, Message, KeyOf
    <2>2. \A i \in 1 .. Len(r) : \E s \in SessionsOf(m.c) : r[i] = RemovalFor(m.c, s)
        BY <1>6 DEF SendStep
    <2>3. \A s \in SessionsOf(m.c) : <<m.c, s>> \in DOMAIN mGeofenceIds
        <3> SUFFICES ASSUME NEW s \in SessionsOf(m.c) PROVE <<m.c, s>> \in DOMAIN mGeofenceIds
            OBVIOUS
        <3>1. PICK k \in DOMAIN mGeofenceIds : k[1] = m.c /\ s = k[2]
            BY DEF SessionsOf
        <3>2. k = <<k[1], k[2]>>
            BY DEF Typed, MapsTyped, Keys
        <3> QED BY <3>1, <3>2
    <2>4. \A i \in 1 .. Len(r) : KeyOf(r[i]) = key => key \in DOMAIN mGeofenceIds /\ key[1] = m.c
        <3> SUFFICES ASSUME NEW i \in 1 .. Len(r), KeyOf(r[i]) = key PROVE key \in DOMAIN mGeofenceIds /\ key[1] = m.c
            OBVIOUS
        <3>1. PICK s \in SessionsOf(m.c) : r[i] = RemovalFor(m.c, s)
            BY <2>2
        <3>2. key = <<m.c, s>>
            BY <2>1, <3>1
        <3> QED BY <2>3, <3>2
    <2> QED BY <1>6, <2>4 DEF Some, Asks, Removals
<1>7. CASE r = <<>>
    BY <1>7, SomeOfOne
<1> QED BY <1>2, <1>3, <1>4, <1>5, <1>6, <1>7 DEF SendStep

\* An answer that is good was given by a modem that had the geofence; then no message before it is of its hwId.
LEMMA OfNoMessage ==
    ASSUME Typed, NEW hw, NEW key, Holds(Len(inbox), hw, key), ~Has(inbox, key)
    PROVE  (\A i \in 1 .. Len(inbox) : inbox[i] \notin Touches(hw)) /\ KeyAt(hw, key)
<1>1. \A i \in 1 .. Len(inbox) : inbox[i] \notin Setting(hw, key)
    <2> SUFFICES ASSUME NEW i \in 1 .. Len(inbox), inbox[i] \in Setting(hw, key) PROVE FALSE
        OBVIOUS
    <2>1. Carries(inbox[i], key)
        BY DEF Setting, Sets, Saves, Carries
    <2> QED BY <2>1 DEF Has
<1> QED BY <1>1, QueuesOf, EndsNone DEF Holds

LEMMA OrderInitially == ASSUME Init PROVE Order
<1>1. inbox = <<>> /\ calls = <<>> /\ mGeofences = <<>> /\ mGeofenceIds = <<>>
    BY DEF Init
<1>2. \A S : ~Some(inbox, S) /\ ~Some(calls, S)
    BY <1>1, SomeOfOne
<1>3. DOMAIN mGeofences = {} /\ DOMAIN mGeofenceIds = {}
    BY <1>1
<1>4. IdsAgree /\ MapAgrees
    BY <1>3 DEF IdsAgree, MapAgrees
<1>5. \A key : After(calls, Asks(key), Carriers(key)) /\ After(inbox, ResponsesTo(key), Clears)
    BY <1>2 DEF After, Some
<1>6. \A key \in Keys : OrderOf(key)
    BY <1>2, <1>5 DEF OrderOf
<1> QED BY <1>4, <1>6 DEF Order, Ordered

LEMMA OrderPosted ==
    ASSUME Typed, Fresh, Ordered, NEW m \in Inbound,
           (\E id \in Ids : Commands(m, id)) \/ Destroys(m) \/ Breaches(m) \/ ComesUp(m)
    PROVE  Ordered'
<1>1. inbox' = Append(inbox, m) /\ UNCHANGED <<calls, mGeofences, mGeofenceIds, clients>>
    BY DEF Commands, Destroys, Breaches, ComesUp, Posted, adapter
<1>2. m \in Messages /\ Sound(m) /\ m.type \in {"command", "remove client", "breach", "engine up"}
    BY DEF Commands, Destroys, Breaches, ComesUp, Inbound
<1>3. IdsAgree' /\ MapAgrees'
    BY <1>1 DEF Ordered, IdsAgree, MapAgrees, KeyAt
<1>4. ASSUME NEW key \in Keys PROVE OrderOf(key)'
    <2>0. OrderOf(key)
        BY DEF Ordered
    <2>1. m \notin ResponsesTo(key) /\ m \notin Removals(key)
        BY <1>2 DEF ResponsesTo, Response, Removals, Forgets
    <2>2. \A S : Some(inbox', S) <=> Some(inbox, S) \/ m \in S
        BY <1>1, QueuesOf, SomeAppended
    <2>3. Has(inbox', key) <=> Has(inbox, key) \/ Carries(m, key)
        BY <1>1, QueuesOf, HasAppended
    <2>4. After(inbox', ResponsesTo(key), Clears)
        BY <1>1, <2>0, <2>1, QueuesOf, AfterAppended DEF OrderOf
    <2>5. Carries(m, key) => key[2] = next
        <3> SUFFICES ASSUME Carries(m, key) PROVE key[2] = next
            OBVIOUS
        <3>1. m.type = "command" /\ m.kind = "add" /\ key = <<m.c, m.session>>
            BY <1>2 DEF Carries, Sound, KeyOf
        <3>2. m.session = next
            BY <3>1 DEF Commands, Destroys, Breaches, ComesUp
        <3> QED BY <3>1, <3>2
    <2>6. \A y \in Messages : KeyOf(y) = key => y.session = key[2]
        BY DEF KeyOf
    <2>7. next \in Int
        BY DEF Typed, ClientsTyped
    <2>8. Some(calls, Asks(key)) => key[2] < next
        <3> SUFFICES ASSUME NEW i \in 1 .. Len(calls), calls[i] \in Asks(key) PROVE key[2] < next
            BY DEF Some
        <3>1. calls[i] \in Young(next)
            BY DEF Fresh
        <3> QED BY <2>6, <3>1 DEF Asks, Young
    <2>9. Some(inbox, ResponsesTo(key)) => key[2] < next
        <3> SUFFICES ASSUME NEW i \in 1 .. Len(inbox), inbox[i] \in ResponsesTo(key) PROVE key[2] < next
            BY DEF Some
        <3>1. inbox[i] \in Young(next)
            BY DEF Fresh
        <3> QED BY <2>6, <3>1 DEF ResponsesTo, Response, Young
    <2> QED BY <1>1, <2>0, <2>1, <2>2, <2>3, <2>4, <2>5, <2>7, <2>8, <2>9 DEF OrderOf
<1> QED BY <1>3, <1>4 DEF Ordered

\* The maps, when a message is handled.
LEMMA MapsHandled ==
    ASSUME Typed, Unique, Slots, Without({"wrong"}), Ordered, NEW m \in Inbound, NEW r, Handled(m, r)
    PROVE  IdsAgree' /\ MapAgrees'
<1>0. m \in Messages /\ Sound(m) /\ MapStep(m) /\ inbox # <<>> /\ m = inbox[1] /\ 1 \in 1 .. Len(inbox)
    <2>1. inbox # <<>> /\ m = Head(inbox)
        BY DEF Handled
    <2>2. inbox \in Seq(Inbound)
        BY QueuesOf
    <2>3. Len(inbox) \in Nat \ {0} /\ Head(inbox) = inbox[1]
        BY <2>1, <2>2, RestOfQueue
    <2>4. m \in Messages /\ Sound(m) /\ MapStep(m)
        BY DEF Handled, Inbound
    <2> QED BY <2>1, <2>3, <2>4
<1>00. clients' = IF m.type = "remove client" THEN clients \ {m.c} ELSE clients
    BY DEF Handled
<1>01. IdsAgree /\ MapAgrees
    BY DEF Ordered
<1>02. \A hw \in DOMAIN mGeofences : mGeofences[hw].key \in Keys
    BY DEF Typed, MapsTyped, Fences
<1>1. CASE Saves(m)
    <2>1. m \in Saving
        BY <1>0, <1>1 DEF Saving
    <2>2. FreeSlot(0, m.hw)
        <3>1. FreeSlot(1 - 1, m.hw)
            BY <1>0, <2>1 DEF Slots, OfFree
        <3> QED BY <3>1
    <2>3. FreeAt(m.hw)
        <3>1. FreeAt(m.hw) \in BOOLEAN
            BY DEF FreeAt
        <3> QED BY <2>2, <3>1, EndsNow DEF FreeSlot
    <2> DEFINE fence == Fence(KeyOf(m), FALSE, m.options)
    <2>4. saveGeofenceItem(m.hw, fence) /\ fence.key = KeyOf(m) /\ clients' = clients
        BY <1>0, <1>00, <1>1, SavedFence DEF MapStep, Saves
    <2> HIDE DEF fence
    <2>5. /\ DOMAIN mGeofences' = DOMAIN mGeofences \cup {m.hw}
          /\ mGeofences'[m.hw] = fence
          /\ \A hw \in DOMAIN mGeofences : hw # m.hw => mGeofences'[hw] = mGeofences[hw]
          /\ DOMAIN mGeofenceIds' = DOMAIN mGeofenceIds \cup {KeyOf(m)}
          /\ mGeofenceIds'[KeyOf(m)] = m.hw
          /\ \A key \in DOMAIN mGeofenceIds : key # KeyOf(m) => mGeofenceIds'[key] = mGeofenceIds[key]
        BY <2>4 DEF saveGeofenceItem, Put
    <2>6. IdsAgree'
        <3> SUFFICES ASSUME NEW key \in DOMAIN mGeofenceIds', NEW hw, hw = mGeofenceIds'[key] PROVE hw \in DOMAIN mGeofences' /\ mGeofences'[hw].key = key
            BY DEF IdsAgree, KeyAt
        <3>1. CASE key = KeyOf(m)
            BY <2>4, <2>5, <3>1
        <3>2. CASE key # KeyOf(m)
            <4>1. key \in DOMAIN mGeofenceIds /\ hw = mGeofenceIds[key]
                BY <2>5, <3>2
            <4>2. hw \in DOMAIN mGeofences /\ mGeofences[hw].key = key
                BY <1>01, <4>1 DEF IdsAgree, KeyAt
            <4>3. hw # m.hw
                BY <2>3, <4>1, <4>2 DEF FreeAt
            <4> QED BY <2>5, <4>2, <4>3
        <3> QED BY <3>1, <3>2
    <2>7. MapAgrees'
        BY <1>01, <2>4, <2>5 DEF MapAgrees
    <2> QED BY <2>6, <2>7
<1>2. CASE Removes(m)
    <2>1. removeGeofenceItem(m.hw) /\ clients' = clients
        BY <1>0, <1>00, <1>2 DEF MapStep, Removes
    <2>2. CASE m.hw \in DOMAIN mGeofences /\ mGeofences[m.hw].key \in DOMAIN mGeofenceIds
        <3> DEFINE old == mGeofences[m.hw].key
        <3>1. mGeofenceIds' = Drop(mGeofenceIds, old) /\ mGeofences' = Drop(mGeofences, m.hw) /\ old \in Keys
            BY <1>02, <2>1, <2>2 DEF removeGeofenceItem
        <3>2. \A hw \in DOMAIN mGeofences : mGeofences[hw].key = old => hw = m.hw
            BY <2>2, <3>1 DEF Unique, Once, LoneInMap
        <3>3. mGeofences[m.hw].key = old
            OBVIOUS
        <3> HIDE DEF old
        <3>4. /\ DOMAIN mGeofences' = DOMAIN mGeofences \ {m.hw}
              /\ \A hw \in DOMAIN mGeofences \ {m.hw} : mGeofences'[hw] = mGeofences[hw]
              /\ DOMAIN mGeofenceIds' = DOMAIN mGeofenceIds \ {old}
              /\ \A key \in DOMAIN mGeofenceIds \ {old} : mGeofenceIds'[key] = mGeofenceIds[key]
            BY <3>1 DEF Drop, Restrict
        <3>5. IdsAgree'
            BY <1>01, <3>3, <3>4 DEF IdsAgree, KeyAt
        <3>6. MapAgrees'
            BY <1>01, <2>1, <3>2, <3>4 DEF MapAgrees
        <3> QED BY <3>5, <3>6
    <2>3. CASE ~(m.hw \in DOMAIN mGeofences /\ mGeofences[m.hw].key \in DOMAIN mGeofenceIds)
        BY <1>01, <2>1, <2>3 DEF removeGeofenceItem, IdsAgree, MapAgrees, KeyAt
    <2> QED BY <2>2, <2>3
<1>3. CASE Changes(m)
    <2>1. ChangeItem(m.kind, m.hw) /\ clients' = clients
        BY <1>0, <1>00, <1>3 DEF MapStep, Changes
    <2>2. mGeofences \in [DOMAIN mGeofences -> Fences]
        BY DEF Typed, MapsTyped
    <2>3. m.kind \in {"pause", "resume", "modify"}
        BY <1>3 DEF Changes
    <2>4. mGeofenceIds' = mGeofenceIds /\ DOMAIN mGeofences' = DOMAIN mGeofences
          /\ \A hw \in DOMAIN mGeofences : mGeofences'[hw].key = mGeofences[hw].key
        BY <2>1, <2>2, <2>3 DEF ChangeItem, Fences
    <2> QED BY <1>01, <2>1, <2>4 DEF IdsAgree, MapAgrees, KeyAt
<1>4. CASE Forgets(m)
    <2>1. m.kind = "remove" /\ m.ok /\ m.type = "client fence removed"
        BY <1>0, <1>4 DEF Forgets, Sound
    <2>2. mGeofences' = Drop(mGeofences, m.hw) /\ mGeofenceIds' = mGeofenceIds /\ clients' = clients
        BY <1>0, <1>00, <1>4, <2>1 DEF MapStep
    <2>3. KeyAt(m.hw, KeyOf(m))
        <3>1. m \in Responses
            BY <1>0, <2>1 DEF Responses, Response
        <3>2. Holds(1 - 1, m.hw, KeyOf(m))
            BY <1>0, <3>1 DEF Slots, OfMap
        <3>3. Holds(0, m.hw, KeyOf(m)) /\ KeyAt(m.hw, KeyOf(m)) \in BOOLEAN
            BY <3>2 DEF KeyAt
        <3> QED BY <3>3, EndsNow DEF Holds
    <2>4. KeyOf(m) \notin DOMAIN mGeofenceIds
        <3>1. KeyOf(m) \in Keys
            BY <1>0, <2>1, KeyInKeys
        <3>2. Some(inbox, Removals(KeyOf(m)))
            BY <1>0, <1>4, <2>1 DEF Some, Removals
        <3> QED BY <3>1, <3>2 DEF Ordered, OrderOf
    <2>5. DOMAIN mGeofences' = DOMAIN mGeofences \ {m.hw}
          /\ \A hw \in DOMAIN mGeofences \ {m.hw} : mGeofences'[hw] = mGeofences[hw]
        BY <2>2 DEF Drop, Restrict
    <2> QED BY <1>01, <2>2, <2>3, <2>4, <2>5 DEF IdsAgree, MapAgrees, KeyAt
<1>5. CASE m.type = "engine up"
    <2>1. mGeofences' = <<>> /\ mGeofenceIds' = IF mGeofences = <<>> THEN mGeofenceIds ELSE <<>>
        BY <1>0, <1>5 DEF MapStep
    <2>2. DOMAIN <<>> = {}
        OBVIOUS
    <2>3. mGeofences = <<>> => DOMAIN mGeofenceIds = {}
        BY <1>01, <2>2 DEF IdsAgree, KeyAt
    <2>4. DOMAIN mGeofences' = {} /\ DOMAIN mGeofenceIds' = {}
        BY <2>1, <2>2, <2>3
    <2> QED BY <2>4 DEF IdsAgree, MapAgrees
<1>6. CASE m.type = "remove client"
    <2>1. /\ mGeofences' = mGeofences /\ clients' = clients \ {m.c}
          /\ mGeofenceIds' = [key \in {k \in DOMAIN mGeofenceIds : k[1] # m.c} |-> mGeofenceIds[key]]
        BY <1>0, <1>00, <1>6 DEF MapStep
    <2> QED BY <1>01, <2>1 DEF IdsAgree, MapAgrees, KeyAt
<1>7. CASE ~Saves(m) /\ ~Removes(m) /\ ~Changes(m) /\ ~Forgets(m) /\ m.type \notin {"engine up", "remove client"}
    <2>1. SameMaps /\ clients' = clients
        BY <1>0, <1>00, <1>7 DEF MapStep
    <2> QED BY <1>01, <2>1 DEF IdsAgree, MapAgrees, KeyAt, SameMaps
<1> QED BY <1>1, <1>2, <1>3, <1>4, <1>5, <1>6, <1>7

\* A good answer to a command finds the entry its hwId had (Slots), so that no
\* geofence but its own is changed.
LEMMA OrderHandled ==
    ASSUME Typed, Unique, Slots, Without({"wrong"}), Ordered, NEW m \in Inbound, NEW r, Handled(m, r)
    PROVE  Ordered'
<1>1. /\ inbox # <<>> /\ m = Head(inbox) /\ inbox' = Tail(inbox) /\ calls' = calls \o r
      /\ r \in Seq(Outbound) /\ SendStep(m, r) /\ MapStep(m) /\ m \in Messages /\ Sound(m)
    BY DEF Handled, SendStep, Inbound
<1>2. inbox \in Seq(Inbound) /\ calls \in Seq(Outbound)
    BY QueuesOf
<1>3. IdsAgree' /\ MapAgrees'
    BY MapsHandled
<1>4. ASSUME NEW key \in Keys PROVE OrderOf(key)'
    <2>0. OrderOf(key) /\ Once(key) /\ LoneInMap(key)
        BY DEF Ordered, Unique, Once
    <2>1. \A S : Some(inbox, S) <=> m \in S \/ Some(inbox', S)
        BY <1>1, <1>2, SomeInRest
    <2>2. \A S : Some(calls', S) <=> Some(calls, S) \/ Some(r, S)
        BY <1>1, <1>2, SomeJoined
    <2>3. Has(inbox, key) <=> Carries(m, key) \/ Has(inbox', key)
        BY <1>1, <1>2, HasInRest
    <2>4. Carries(m, key) => ~Has(inbox', key)
        BY <1>1, <1>2, <2>0, HasInRest DEF Once
    <2>5. (Has(calls, key) <=> Some(calls, Carriers(key))) /\ (Has(r, key) <=> Some(r, Carriers(key)))
        BY <1>1, HasSome, SentHas
    <2>6. /\ Has(calls', key) => Has(calls, key) \/ Has(r, key)
          /\ Has(r, key) => (Carries(m, key) /\ m.type \in {"command", "perform"}) \/ (m.type = "engine up" /\ InMap(key))
        <3>1. Has(calls', key) => Has(calls, key) \/ Has(r, key)
            BY <1>1, <1>2, HasJoined
        <3> QED BY <1>1, <2>0, <3>1, SentCarries
    <2>7. key \in DOMAIN mGeofenceIds => InMap(key)
        BY DEF Ordered, IdsAgree, KeyAt, InMap
    <2>8. Some(r, Asks(key)) => /\ InMap(key) \/ (Carries(m, key) /\ m.type = "restored")
                                /\ m.type \in {"perform", "restored", "remove client"}
                                /\ m.type = "perform" => m.kind # "add"
        BY <1>1, <2>7, SentAsks
    <2>9. Some(r, Asks(key)) => ~Has(calls, key) /\ ~Has(inbox', key) /\ ~Has(r, key)
        <3>1. Some(r, Asks(key)) => ~Has(calls, key) /\ ~Has(inbox', key)
            BY <2>0, <2>3, <2>4, <2>8 DEF Once
        <3>2. Some(r, Asks(key)) => ~(Carries(m, key) /\ m.type \in {"command", "perform"}) /\ m.type # "engine up"
            BY <2>8 DEF Carries
        <3> QED BY <2>6, <3>1, <3>2
    <2>10. Some(calls', Asks(key)) => ~Has(inbox', key)
        BY <2>0, <2>2, <2>3, <2>9 DEF OrderOf
    <2>11. After(calls', Asks(key), Carriers(key))
        <3>1. After(r, Asks(key), Carriers(key))
            BY <2>5, <2>9 DEF After, Some
        <3>2. ~(Some(calls, Carriers(key)) /\ Some(r, Asks(key)))
            BY <2>5, <2>9
        <3> QED BY <1>1, <1>2, <2>0, <3>1, <3>2, AfterJoined DEF OrderOf
    <2>12. After(inbox', ResponsesTo(key), Clears) /\ (m \in Clears => ~Some(inbox, ResponsesTo(key)))
        BY <1>1, <1>2, <2>0, AfterInRest DEF OrderOf
    <2>13. Some(inbox', ResponsesTo(key)) => ~Has(inbox', key) /\ ~Has(calls', key)
        <3> SUFFICES ASSUME Some(inbox', ResponsesTo(key)) PROVE ~Has(inbox', key) /\ ~Has(calls', key)
            OBVIOUS
        <3>1. Some(inbox, ResponsesTo(key))
            BY <2>1
        <3>2. ~Has(inbox, key) /\ ~Has(calls, key)
            BY <2>0, <3>1 DEF OrderOf
        <3>3. m.type # "engine up"
            BY <1>1, <2>12, <3>1 DEF Clears
        <3> QED BY <2>3, <2>6, <3>2, <3>3
    <2>14. Some(calls', Removals(key)) \/ Some(inbox', Removals(key)) => key \notin DOMAIN mGeofenceIds'
        <3>1. /\ key \in DOMAIN mGeofenceIds' => key \in DOMAIN mGeofenceIds \/ (Saves(m) /\ key = KeyOf(m))
              /\ Saves(m) /\ key = KeyOf(m) => Carries(m, key)
            BY <1>1, MapStepKeys DEF Saves, Carries
        <3>2. Some(calls, Removals(key)) => Some(calls, Asks(key))
            <4>1. Removals(key) \cap Outbound \subseteq Asks(key)
                BY DEF Removals, Asks, Forgets, Outbound
            <4> QED BY <1>2, <4>1 DEF Some
        <3>3. Some(inbox, Removals(key)) => Some(inbox, ResponsesTo(key))
            <4>1. Removals(key) \cap Inbound \subseteq ResponsesTo(key)
                BY DEF Removals, ResponsesTo, Response, Forgets, Inbound
            <4> QED BY <1>2, <4>1 DEF Some
        <3>4. CASE Some(calls, Removals(key)) \/ Some(inbox, Removals(key))
            <4>1. ~Has(inbox, key) /\ key \notin DOMAIN mGeofenceIds
                BY <2>0, <3>2, <3>3, <3>4 DEF OrderOf
            <4> QED BY <2>3, <3>1, <4>1
        <3>5. CASE Some(r, Removals(key))
            <4>1. m.type = "remove client" /\ key[1] = m.c
                BY <1>1, <3>5, SentAsks
            <4>2. mGeofenceIds' = [k \in {k \in DOMAIN mGeofenceIds : k[1] # m.c} |-> mGeofenceIds[k]]
                BY <1>1, <4>1 DEF MapStep
            <4> QED BY <4>1, <4>2
        <3> QED BY <2>1, <2>2, <3>4, <3>5
    <2> QED BY <2>10, <2>11, <2>12, <2>13, <2>14 DEF OrderOf
<1> QED BY <1>3, <1>4 DEF Ordered

\* The modem performs a call on the geofence the call names, or the call went wrong.
LEMMA OrderShifted ==
    ASSUME Typed, Unique, Slots, Without({"wrong"})', Ordered, NEW n \in Outbound, NEW m,
           Shifted(n, m), Returned(n, m) \/ Failed(n, m) \/ Performed(n, m)
    PROVE  Ordered'
<1>1. /\ calls # <<>> /\ n = Head(calls) /\ calls' = Tail(calls) /\ m \in Inbound /\ inbox' = Append(inbox, m)
      /\ UNCHANGED <<mGeofences, mGeofenceIds, clients>> /\ m \in Messages /\ n \in Messages
    BY DEF Shifted, adapter, Inbound, Outbound
<1>2. inbox \in Seq(Inbound) /\ calls \in Seq(Outbound)
    BY QueuesOf
<1>3. IdsAgree' /\ MapAgrees'
    BY <1>1 DEF Ordered, IdsAgree, MapAgrees, KeyAt
<1>4. ASSUME NEW key \in Keys PROVE OrderOf(key)'
    <2>0. OrderOf(key) /\ Once(key)
        BY DEF Ordered, Unique
    <2>1. \A S : Some(calls, S) <=> n \in S \/ Some(calls', S)
        BY <1>1, <1>2, SomeInRest
    <2>2. \A S : Some(inbox', S) <=> Some(inbox, S) \/ m \in S
        BY <1>1, <1>2, SomeAppended
    <2>3. (Has(calls, key) <=> Carries(n, key) \/ Has(calls', key)) /\ (Has(inbox', key) <=> Has(inbox, key) \/ Carries(m, key))
        BY <1>1, <1>2, HasInRest, HasAppended
    <2>4. (Carries(m, key) => Carries(n, key)) /\ m.kind = n.kind /\ KeyOf(m) = KeyOf(n) /\ m.paused = n.paused
        BY ShiftCarries
    <2>5. After(calls', Asks(key), Carriers(key)) /\ (Carries(n, key) => ~Some(calls, Asks(key)))
        BY <1>1, <1>2, <2>0, AfterInRest DEF OrderOf, Carriers
    <2>6. Some(calls', Asks(key)) => ~Has(inbox', key)
        BY <2>0, <2>1, <2>3, <2>4, <2>5 DEF OrderOf
    <2>7. ASSUME m \in ResponsesTo(key)
          PROVE  ~Has(inbox', key) /\ ~Has(calls', key) /\ ~Some(inbox, Clears)
        <3>1. Response(m) /\ m.ok /\ m.kind # "add" /\ KeyOf(m) = key
            BY <2>7 DEF ResponsesTo, Response
        <3>2. Performed(n, m)
            <4>1. ~Returned(n, m)
                BY <1>1, <3>1 DEF Returned, Response, Messages
            <4>2. ~Failed(n, m)
                BY <1>1, <3>1 DEF Failed, AnswerOf, Messages
            <4> QED BY <4>1, <4>2
        <3>3. n \in Asks(key)
            BY <1>1, <2>4, <3>1, <3>2 DEF Asks, Performed
        <3>4. ~Has(inbox, key) /\ ~Carries(m, key)
            BY <2>0, <2>1, <3>1, <3>3 DEF OrderOf, Carries
        <3>5. n.hw \in DOMAIN fences /\ fences[n.hw].key = key
            <4>1. n.hw \in DOMAIN fences
                BY <2>4, <3>1, <3>2 DEF Performed, RemovesFence, ChangesFence
            <4>2. mishaps' = mishaps \cup (IF n.kind # "add" /\ fences[n.hw].key # KeyOf(n) THEN {"wrong"} ELSE {})
                BY <3>2 DEF Performed
            <4> QED BY <2>4, <3>1, <4>1, <4>2 DEF Without
        <3>6. Holds(Len(inbox), n.hw, key)
            BY <3>5 DEF Slots, ModemIsHeard
        <3>7. (\A i \in 1 .. Len(inbox) : inbox[i] \notin Touches(n.hw)) /\ KeyAt(n.hw, key)
            BY <3>4, <3>6, OfNoMessage
        <3>8. ~Some(inbox, Clears)
            BY <3>7 DEF Some, Touches
        <3>9. InMap(key)
            BY <3>7 DEF KeyAt, InMap
        <3> QED BY <2>0, <2>3, <3>4, <3>8, <3>9 DEF Once
    <2>8. Some(inbox', ResponsesTo(key)) => ~Has(inbox', key) /\ ~Has(calls', key)
        BY <2>0, <2>2, <2>3, <2>4, <2>7 DEF OrderOf
    <2>9. After(inbox', ResponsesTo(key), Clears)
        <3>1. m \in ResponsesTo(key) => m \notin Clears /\ ~Some(inbox, Clears)
            BY <2>7 DEF ResponsesTo, Response, Clears
        <3> QED BY <1>1, <1>2, <2>0, <3>1, AfterAppended DEF OrderOf
    <2>10. m \in Removals(key) => n \in Removals(key)
        <3> SUFFICES ASSUME m \in Removals(key) PROVE n \in Removals(key)
            OBVIOUS
        <3>1. m.type = "client fence removed" /\ m.kind = "remove" /\ KeyOf(m) = key
            BY <1>1 DEF Removals, Forgets, Inbound
        <3>2. n.type = "call" /\ (Failed(n, m) \/ Performed(n, m))
            BY <1>1, <3>1 DEF Returned, Failed, Performed, Messages
        <3>3. m.type = AnswerType(n)
            BY <1>1, <3>2 DEF Failed, Performed, AnswerOf, Messages
        <3>4. n.paused
            BY <2>4, <3>1, <3>3 DEF AnswerType
        <3> QED BY <1>1, <2>4, <3>1, <3>2, <3>4 DEF Removals
    <2> QED BY <1>1, <2>0, <2>1, <2>2, <2>5, <2>6, <2>8, <2>9, <2>10 DEF OrderOf
<1> QED BY <1>3, <1>4 DEF Ordered

\* A mishap is never forgotten.
LEMMA MishapsGrow ==
    ASSUME Typed, Step
    PROVE  mishaps \subseteq mishaps' /\ lost \subseteq lost' /\ refused \subseteq refused'
<1>1. CASE \E m \in Inbound : (\E id \in Ids : Commands(m, id)) \/ Destroys(m) \/ Breaches(m) \/ ComesUp(m)
    BY <1>1 DEF Commands, Destroys, Breaches, ComesUp, Posted
<1>2. CASE \E m \in Inbound : Sound(m) /\ m \in Messages /\ \E r : Handled(m, r)
    BY <1>2 DEF Handled
<1>3. CASE \E n \in Outbound : \E m : Shifted(n, m) /\ (Returned(n, m) \/ Failed(n, m) \/ Performed(n, m))
    BY <1>3 DEF Shifted, Returned, Failed, Performed
<1>4. CASE Crashed \/ Idle
    BY <1>4 DEF Crashed, Idle
<1> QED BY <1>1, <1>2, <1>3, <1>4 DEF Step

\* So the maps agree and the order is kept by each step.
LEMMA OrderStep == ASSUME Typed, Fresh, Unique, Slots, Order, Step PROVE Order'
<1> SUFFICES ASSUME Without({"wrong"})' PROVE Ordered'
    BY DEF Order
<1>0. Without({"wrong"}) /\ Ordered
    BY MishapsGrow DEF Order, Without
<1>1. CASE \E m \in Inbound : (\E id \in Ids : Commands(m, id)) \/ Destroys(m) \/ Breaches(m) \/ ComesUp(m)
    BY <1>0, <1>1, OrderPosted
<1>2. CASE \E m \in Inbound : Sound(m) /\ m \in Messages /\ \E r : Handled(m, r)
    BY <1>0, <1>2, OrderHandled
<1>3. CASE \E n \in Outbound : \E m : Shifted(n, m) /\ (Returned(n, m) \/ Failed(n, m) \/ Performed(n, m))
    BY <1>0, <1>3, OrderShifted
<1>4. CASE Crashed \/ Idle
    <2>1. UNCHANGED <<inbox, calls, mGeofences, mGeofenceIds, clients>>
        BY <1>4 DEF Crashed, Idle, adapter
    <2> QED BY <1>0, <2>1 DEF Ordered, OrderOf, IdsAgree, MapAgrees, KeyAt, Has, Some, After
<1> QED BY <1>1, <1>2, <1>3, <1>4 DEF Step

-----------------------------------------------------------------------------
(* What one map has forgotten                                              *)

RemovalsAt(hw, key) == {m \in Removals(key) : m.hw = hw}
\* What the one map has forgotten and the other has not is being removed, or its
\* removal failed.
StaleAt(hw) ==
    hw \in DOMAIN mGeofences =>
        LET key == mGeofences[hw].key
        IN  \/ key \in DOMAIN mGeofenceIds \/ key \in refused
            \/ Some(calls, RemovalsAt(hw, key)) \/ Some(inbox, RemovalsAt(hw, key))
Stale == Without({"wrong"}) => \A hw \in HwIds : StaleAt(hw)

LEMMA StaleInitially == ASSUME Init PROVE Stale
<1>1. DOMAIN mGeofences = {}
    <2>1. DOMAIN <<>> = {}
        OBVIOUS
    <2> QED BY <2>1 DEF Init
<1> QED BY <1>1 DEF Stale, StaleAt

LEMMA KeptEntry ==
    ASSUME Typed, Unique, NEW m \in Messages, Sound(m), MapStep(m), NEW hw \in DOMAIN mGeofences',
           mGeofences'[hw].key \notin DOMAIN mGeofenceIds'
    PROVE  /\ hw \in DOMAIN mGeofences /\ mGeofences'[hw].key = mGeofences[hw].key
           /\ ~(Forgets(m) /\ m.hw = hw)
           /\ mGeofences[hw].key \in DOMAIN mGeofenceIds => m.type = "remove client" /\ mGeofences[hw].key[1] = m.c
<1>0. mGeofences \in [DOMAIN mGeofences -> Fences] /\ \A x \in DOMAIN mGeofences : mGeofences[x].key \in Keys
    BY DEF Typed, MapsTyped, Fences
<1>1. CASE Saves(m)
    <2> DEFINE fence == Fence(KeyOf(m), FALSE, m.options)
    <2>4. saveGeofenceItem(m.hw, fence) /\ fence.key = KeyOf(m)
        BY <1>1, SavedFence DEF MapStep, Saves
    <2> HIDE DEF fence
    <2>5. /\ DOMAIN mGeofences' = DOMAIN mGeofences \cup {m.hw}
          /\ mGeofences'[m.hw] = fence
          /\ \A x \in DOMAIN mGeofences : x # m.hw => mGeofences'[x] = mGeofences[x]
          /\ DOMAIN mGeofenceIds' = DOMAIN mGeofenceIds \cup {KeyOf(m)}
        BY <2>4 DEF saveGeofenceItem, Put
    <2>6. hw # m.hw
        BY <2>4, <2>5
    <2>7. ~Forgets(m)
        BY <1>1 DEF Saves, Forgets
    <2> QED BY <2>5, <2>6, <2>7
<1>2. CASE Removes(m)
    <2>1. removeGeofenceItem(m.hw) /\ ~Forgets(m)
        BY <1>2 DEF MapStep, Removes, Forgets
    <2>2. CASE m.hw \in DOMAIN mGeofences /\ mGeofences[m.hw].key \in DOMAIN mGeofenceIds
        <3> DEFINE old == mGeofences[m.hw].key
        <3>1. mGeofenceIds' = Drop(mGeofenceIds, old) /\ mGeofences' = Drop(mGeofences, m.hw) /\ old \in Keys
            BY <1>0, <2>1, <2>2 DEF removeGeofenceItem
        <3>2. \A x \in DOMAIN mGeofences : mGeofences[x].key = old => x = m.hw
            BY <2>2, <3>1 DEF Unique, Once, LoneInMap
        <3> HIDE DEF old
        <3>4. /\ DOMAIN mGeofences' = DOMAIN mGeofences \ {m.hw}
              /\ \A x \in DOMAIN mGeofences \ {m.hw} : mGeofences'[x] = mGeofences[x]
              /\ DOMAIN mGeofenceIds' = DOMAIN mGeofenceIds \ {old}
            BY <3>1 DEF Drop, Restrict
        <3> QED BY <2>1, <3>2, <3>4
    <2>3. CASE ~(m.hw \in DOMAIN mGeofences /\ mGeofences[m.hw].key \in DOMAIN mGeofenceIds)
        BY <2>1, <2>3 DEF removeGeofenceItem
    <2> QED BY <2>2, <2>3
<1>3. CASE Changes(m)
    <2>1. ChangeItem(m.kind, m.hw) /\ m.kind \in {"pause", "resume", "modify"} /\ ~Forgets(m)
        BY <1>3 DEF MapStep, Changes, Forgets
    <2>4. mGeofenceIds' = mGeofenceIds /\ DOMAIN mGeofences' = DOMAIN mGeofences
          /\ \A x \in DOMAIN mGeofences : mGeofences'[x].key = mGeofences[x].key
        BY <1>0, <2>1 DEF ChangeItem, Fences
    <2> QED BY <2>1, <2>4
<1>4. CASE Forgets(m)
    <2>2. mGeofences' = Drop(mGeofences, m.hw) /\ mGeofenceIds' = mGeofenceIds
        BY <1>4 DEF MapStep
    <2>5. DOMAIN mGeofences' = DOMAIN mGeofences \ {m.hw}
          /\ \A x \in DOMAIN mGeofences \ {m.hw} : mGeofences'[x] = mGeofences[x]
        BY <2>2 DEF Drop, Restrict
    <2> QED BY <2>2, <2>5
<1>5. CASE m.type = "engine up"
    <2>1. mGeofences' = <<>>
        BY <1>5 DEF MapStep
    <2>2. DOMAIN <<>> = {}
        OBVIOUS
    <2> QED BY <2>1, <2>2
<1>6. CASE m.type = "remove client"
    <2>1. /\ mGeofences' = mGeofences /\ ~Forgets(m)
          /\ mGeofenceIds' = [key \in {k \in DOMAIN mGeofenceIds : k[1] # m.c} |-> mGeofenceIds[key]]
        BY <1>6 DEF MapStep, Forgets
    <2> QED BY <1>6, <2>1
<1>7. CASE ~Saves(m) /\ ~Removes(m) /\ ~Changes(m) /\ ~Forgets(m) /\ m.type \notin {"engine up", "remove client"}
    <2>1. SameMaps
        BY <1>7 DEF MapStep
    <2> QED BY <1>7, <2>1 DEF SameMaps
<1> QED BY <1>1, <1>2, <1>3, <1>4, <1>5, <1>6, <1>7

LEMMA StaleHandled ==
    ASSUME Typed, Unique, IdsAgree, \A hw \in HwIds : StaleAt(hw), NEW m \in Inbound, NEW r, Handled(m, r)
    PROVE  \A hw \in HwIds : StaleAt(hw)'
<1>1. /\ inbox # <<>> /\ m = Head(inbox) /\ inbox' = Tail(inbox) /\ calls' = calls \o r
      /\ r \in Seq(Outbound) /\ SendStep(m, r) /\ MapStep(m) /\ m \in Messages /\ Sound(m)
    BY DEF Handled, SendStep, Inbound
<1>2. inbox \in Seq(Inbound) /\ calls \in Seq(Outbound)
    BY QueuesOf
<1> SUFFICES ASSUME NEW hw \in DOMAIN mGeofences', hw \in HwIds, NEW key, key = mGeofences'[hw].key, key \notin DOMAIN mGeofenceIds',
                    key \notin refused'
             PROVE  Some(calls', RemovalsAt(hw, key)) \/ Some(inbox', RemovalsAt(hw, key))
    BY DEF StaleAt
<1>9. key \notin refused
    BY DEF Handled
<1>3. /\ hw \in DOMAIN mGeofences /\ key = mGeofences[hw].key /\ ~(Forgets(m) /\ m.hw = hw)
      /\ key \in DOMAIN mGeofenceIds => m.type = "remove client" /\ key[1] = m.c
    BY <1>1, KeptEntry
<1>4. \A S : (Some(inbox, S) <=> m \in S \/ Some(inbox', S)) /\ (Some(calls', S) <=> Some(calls, S) \/ Some(r, S))
    BY <1>1, <1>2, SomeInRest, SomeJoined
<1>5. m \notin RemovalsAt(hw, key)
    BY <1>1, <1>3 DEF RemovalsAt, Removals, Inbound
<1>6. CASE key \notin DOMAIN mGeofenceIds
    BY <1>3, <1>4, <1>5, <1>6, <1>9 DEF StaleAt
<1>7. CASE key \in DOMAIN mGeofenceIds
    <2>1. key \in Keys /\ key = <<key[1], key[2]>>
        BY <1>7 DEF Typed, MapsTyped, Keys
    <2>2. mGeofenceIds[key] = hw
        <3>1. KeyAt(mGeofenceIds[key], key)
            BY <1>7 DEF IdsAgree
        <3> QED BY <1>3, <2>1, <3>1 DEF KeyAt, Unique, Once, LoneInMap
    <2>3. key[2] \in SessionsOf(m.c)
        BY <1>3, <1>7 DEF SessionsOf
    <2>4. PICK i \in 1 .. Len(r) : r[i] = RemovalFor(m.c, key[2])
        BY <1>1, <1>3, <1>7, <2>3 DEF SendStep
    <2>5. r[i] \in Messages
        BY <1>1 DEF Outbound
    <2>6. /\ RemovalFor(m.c, key[2]).type = "call" /\ RemovalFor(m.c, key[2]).kind = "remove" /\ RemovalFor(m.c, key[2]).paused
          /\ RemovalFor(m.c, key[2]).hw = mGeofenceIds[<<m.c, key[2]>>] /\ KeyOf(RemovalFor(m.c, key[2])) = <<m.c, key[2]>>
        BY DEF RemovalFor, Message, KeyOf
    <2>7. <<m.c, key[2]>> = key
        BY <1>3, <1>7, <2>1
    <2>8. r[i] \in RemovalsAt(hw, key)
        BY <2>2, <2>4, <2>5, <2>6, <2>7 DEF RemovalsAt, Removals
    <2> QED BY <1>4, <2>8 DEF Some
<1> QED BY <1>6, <1>7

LEMMA StaleShifted ==
    ASSUME Typed, \A hw \in HwIds : StaleAt(hw), NEW n \in Outbound, NEW m,
           Shifted(n, m), Returned(n, m) \/ Failed(n, m) \/ Performed(n, m)
    PROVE  \A hw \in HwIds : StaleAt(hw)'
<1>1. /\ calls # <<>> /\ n = Head(calls) /\ calls' = Tail(calls) /\ m \in Inbound /\ inbox' = Append(inbox, m)
      /\ UNCHANGED <<mGeofences, mGeofenceIds>> /\ m \in Messages /\ n \in Messages
    BY DEF Shifted, adapter, Inbound, Outbound
<1>2. inbox \in Seq(Inbound) /\ calls \in Seq(Outbound)
    BY QueuesOf
<1>3. \A S : (Some(calls, S) <=> n \in S \/ Some(calls', S)) /\ (Some(inbox', S) <=> Some(inbox, S) \/ m \in S)
    BY <1>1, <1>2, SomeInRest, SomeAppended
<1>4. ASSUME NEW hw, NEW key, n \in RemovalsAt(hw, key) PROVE m \in RemovalsAt(hw, key) \/ key \in refused'
    <2>1. n.type = "call" /\ n.kind = "remove" /\ n.paused /\ n.hw = hw /\ KeyOf(n) = key
        BY <1>4 DEF RemovalsAt, Removals, Forgets, Outbound
    <2>0. CASE Failed(n, m)
        BY <2>0, <2>1 DEF Failed
    <2>2. CASE Performed(n, m)
      <3>0. m.hw = hw /\ m.type = "client fence removed" /\ m.kind = "remove" /\ m.ok /\ KeyOf(m) = key
        <4>1. m.hw = hw
            BY <2>1, <2>2 DEF Performed
        <4> QED BY <1>1, <2>1, <2>2, <4>1, AnswerIs
      <3> QED BY <1>1, <3>0 DEF RemovalsAt, Removals, Forgets
    <2>4. ~Returned(n, m)
        BY <2>1 DEF Returned
    <2> QED BY <2>0, <2>2, <2>4
<1>5. refused \subseteq refused'
    BY DEF Returned, Failed, Performed
<1> QED BY <1>1, <1>3, <1>4, <1>5 DEF StaleAt

\* Both maps lose a geofence in one handler, but for stopClientSessions, which
\* sends its removal.
LEMMA StaleStep == ASSUME Typed, Unique, Order, Stale, Step PROVE Stale'
<1> SUFFICES ASSUME Without({"wrong"})' PROVE \A hw \in HwIds : StaleAt(hw)'
    BY DEF Stale
<1>0. IdsAgree /\ \A hw \in HwIds : StaleAt(hw)
    BY MishapsGrow DEF Order, Ordered, Stale, Without
<1>1. CASE \E m \in Inbound : (\E id \in Ids : Commands(m, id)) \/ Destroys(m) \/ Breaches(m) \/ ComesUp(m)
    <2>1. PICK m \in Inbound : inbox' = Append(inbox, m) /\ UNCHANGED <<calls, mGeofences, mGeofenceIds, refused>>
        BY <1>1 DEF Commands, Destroys, Breaches, ComesUp, Posted, adapter
    <2>2. \A S : Some(inbox', S) <=> Some(inbox, S) \/ m \in S
        BY <2>1, QueuesOf, SomeAppended
    <2> QED BY <1>0, <2>1, <2>2 DEF StaleAt
<1>2. CASE \E m \in Inbound : Sound(m) /\ m \in Messages /\ \E r : Handled(m, r)
    BY <1>0, <1>2, StaleHandled
<1>3. CASE \E n \in Outbound : \E m : Shifted(n, m) /\ (Returned(n, m) \/ Failed(n, m) \/ Performed(n, m))
    BY <1>0, <1>3, StaleShifted
<1>4. CASE Crashed \/ Idle
    <2>1. UNCHANGED <<inbox, calls, mGeofences, mGeofenceIds, refused>>
        BY <1>4 DEF Crashed, Idle, adapter
    <2> QED BY <1>0, <2>1 DEF StaleAt, Some
<1> QED BY <1>1, <1>2, <1>3, <1>4 DEF Step

-----------------------------------------------------------------------------
(* The options of the modem                                                *)

Modifies(hw) == {m \in Messages : m.type = "answer" /\ m.kind = "modify" /\ m.ok /\ m.hw = hw}
Alters(hw) == Sets(hw) \cup Modifies(hw)
AltersTo(hw, options) ==
    {m \in Sets(hw) : m.options = options} \cup {m \in Modifies(hw) : options = "new"}
OptionsAt(hw, options) == hw \in DOMAIN mGeofences => mGeofences[hw].options = options
EndsWithOptions(hw, options) == Ends(inbox, Len(inbox), Alters(hw), AltersTo(hw, options), OptionsAt(hw, options))
\* The options of the modem are those of the map once all is handled.
OptionsAreHeard == \A hw \in DOMAIN fences : EndsWithOptions(hw, fences[hw].options)

LEMMA OptionsArrive ==
    ASSUME Typed, NEW m \in Inbound, inbox' = Append(inbox, m), SameMaps, NEW hw, NEW options
    PROVE  /\ m \notin Alters(hw) /\ EndsWithOptions(hw, options) => EndsWithOptions(hw, options)'
           /\ m \in AltersTo(hw, options) => EndsWithOptions(hw, options)'
<1>1. Len(inbox') = Len(inbox) + 1 /\ inbox \in Seq(Inbound)
    BY QueuesOf, Appended
<1>2. OptionsAt(hw, options)' = OptionsAt(hw, options)
    BY DEF OptionsAt, SameMaps
<1>3. m \in AltersTo(hw, options) => m \in Alters(hw)
    BY DEF AltersTo, Alters
<1>4. ASSUME m \notin Alters(hw), EndsWithOptions(hw, options) PROVE EndsWithOptions(hw, options)'
    <2>1. Ends(Append(inbox, m), Len(inbox) + 1, Alters(hw), AltersTo(hw, options), OptionsAt(hw, options))
        BY <1>1, <1>4, EndsAfterOther DEF EndsWithOptions
    <2> QED BY <1>1, <1>2, <2>1 DEF EndsWithOptions
<1>5. ASSUME m \in AltersTo(hw, options) PROVE EndsWithOptions(hw, options)'
    <2>1. Ends(Append(inbox, m), Len(inbox) + 1, Alters(hw), AltersTo(hw, options), OptionsAt(hw, options))
        BY <1>1, <1>3, <1>5, EndsWithGood
    <2> QED BY <1>1, <1>2, <2>1 DEF EndsWithOptions
<1> QED BY <1>4, <1>5

LEMMA OptionsHandled ==
    ASSUME Typed, NEW m \in Inbound, NEW r, Handled(m, r), NEW hw, NEW options, EndsWithOptions(hw, options)
    PROVE  EndsWithOptions(hw, options)'
<1>1. /\ inbox # <<>> /\ m = Head(inbox) /\ inbox' = Tail(inbox) /\ MapStep(m) /\ m \in Messages /\ Sound(m)
    BY DEF Handled, Inbound
<1>2. inbox \in Seq(Inbound) /\ Len(inbox) \in Nat \ {0} /\ Len(inbox') = Len(inbox) - 1
    <2>1. inbox \in Seq(Inbound)
        BY QueuesOf
    <2> QED BY <1>1, <2>1, RestOfQueue
<1>0. mGeofences \in [DOMAIN mGeofences -> Fences]
    BY DEF Typed, MapsTyped
<1>3. m \in Alters(hw) /\ m \in AltersTo(hw, options) => OptionsAt(hw, options)'
    <2>1. CASE m \in Sets(hw) /\ m.options = options
        <3>1. Saves(m) /\ m.hw = hw
            BY <2>1 DEF Sets
        <3> DEFINE fence == Fence(KeyOf(m), FALSE, m.options)
        <3>2. saveGeofenceItem(hw, fence) /\ fence.options = options
            BY <1>1, <2>1, <3>1, SavedFence DEF MapStep
        <3> HIDE DEF fence
        <3>3. mGeofences'[hw] = fence
            BY <3>2 DEF saveGeofenceItem, Put
        <3> QED BY <3>2, <3>3 DEF OptionsAt
    <2>2. CASE m \in Modifies(hw) /\ options = "new"
        <3>1. Changes(m) /\ m.kind = "modify" /\ m.hw = hw
            BY <2>2 DEF Modifies, Changes
        <3>2. ChangeItem("modify", hw)
            BY <1>1, <3>1 DEF MapStep
        <3> QED BY <1>0, <2>2, <3>2 DEF ChangeItem, OptionsAt, Fences
    <2> QED BY <2>1, <2>2 DEF AltersTo
<1>4. m \notin Alters(hw) /\ OptionsAt(hw, options) => OptionsAt(hw, options)'
    <2> SUFFICES ASSUME m \notin Alters(hw), OptionsAt(hw, options) PROVE OptionsAt(hw, options)'
        OBVIOUS
    <2>1. CASE Saves(m)
        <3>1. m.hw # hw
            BY <1>1, <2>1 DEF Alters, Sets
        <3> DEFINE fence == Fence(KeyOf(m), FALSE, m.options)
        <3>2. saveGeofenceItem(m.hw, fence)
            BY <1>1, <2>1 DEF MapStep
        <3> HIDE DEF fence
        <3> QED BY <3>1, <3>2 DEF saveGeofenceItem, Put, OptionsAt
    <2>2. CASE Removes(m)
        <3>1. removeGeofenceItem(m.hw)
            BY <1>1, <2>2 DEF MapStep
        <3> QED BY <3>1 DEF removeGeofenceItem, Drop, Restrict, OptionsAt
    <2>3. CASE Changes(m)
        <3>1. ChangeItem(m.kind, m.hw) /\ m.kind \in {"pause", "resume", "modify"} /\ (m.kind = "modify" => m.hw # hw)
            BY <1>1, <2>3 DEF MapStep, Changes, Alters, Modifies
        <3> QED BY <1>0, <3>1 DEF ChangeItem, OptionsAt, Fences
    <2>4. CASE Forgets(m)
        <3>1. mGeofences' = Drop(mGeofences, m.hw)
            BY <1>1, <2>4 DEF MapStep
        <3> QED BY <3>1 DEF Drop, Restrict, OptionsAt
    <2>5. CASE m.type = "engine up"
        <3>1. mGeofences' = <<>>
            BY <1>1, <2>5 DEF MapStep
        <3>2. DOMAIN <<>> = {}
            OBVIOUS
        <3> QED BY <3>1, <3>2 DEF OptionsAt
    <2>6. CASE ~Saves(m) /\ ~Removes(m) /\ ~Changes(m) /\ ~Forgets(m) /\ m.type # "engine up"
        <3>1. mGeofences' = mGeofences
            BY <1>1, <2>6 DEF MapStep, SameMaps
        <3> QED BY <3>1 DEF OptionsAt
    <2> QED BY <2>1, <2>2, <2>3, <2>4, <2>5, <2>6
<1>5. Ends(inbox, Len(inbox') + 1, Alters(hw), AltersTo(hw, options), OptionsAt(hw, options))
    BY <1>2 DEF EndsWithOptions
<1> DEFINE now == OptionsAt(hw, options)
           then == OptionsAt(hw, options)'
<1>6. /\ Ends(inbox, Len(inbox') + 1, Alters(hw), AltersTo(hw, options), now)
      /\ m \in Alters(hw) /\ m \in AltersTo(hw, options) => then
      /\ m \notin Alters(hw) /\ now => then
      /\ Len(inbox') \in Nat /\ Len(inbox') < Len(inbox)
    BY <1>2, <1>3, <1>4, <1>5
<1> HIDE DEF now, then
<1>7. Ends(Tail(inbox), Len(inbox'), Alters(hw), AltersTo(hw, options), then)
    BY <1>1, <1>2, <1>6, EndsOfRest
<1> QED BY <1>1, <1>7 DEF EndsWithOptions, then

\* An add brings the options it had, a modification that is good is answered.
LEMMA OptionsStep == ASSUME Typed, OptionsAreHeard, Step PROVE OptionsAreHeard'
<1>1. CASE \E m \in Inbound : (\E id \in Ids : Commands(m, id)) \/ Destroys(m) \/ Breaches(m) \/ ComesUp(m)
    <2>1. PICK m \in Inbound : /\ inbox' = Append(inbox, m) /\ SameMaps /\ fences' = fences
                               /\ m.type \in {"command", "remove client", "breach", "engine up"}
        BY <1>1 DEF Commands, Destroys, Breaches, ComesUp, Posted, adapter, SameMaps, fences
    <2>2. \A hw : m \notin Alters(hw)
        BY <2>1 DEF Alters, Sets, Saves, Modifies
    <2> SUFFICES ASSUME NEW hw \in DOMAIN fences', NEW options, options = fences'[hw].options PROVE EndsWithOptions(hw, options)'
        BY DEF OptionsAreHeard
    <2>3. EndsWithOptions(hw, options)
        BY <2>1 DEF OptionsAreHeard
    <2> QED BY <2>1, <2>2, <2>3, OptionsArrive
<1>2. CASE \E m \in Inbound : Sound(m) /\ m \in Messages /\ \E r : Handled(m, r)
    <2>1. PICK m \in Inbound : \E r : Handled(m, r)
        BY <1>2
    <2>2. PICK r : Handled(m, r)
        BY <2>1
    <2>3. fences' = fences
        BY <2>2 DEF Handled, fences
    <2> SUFFICES ASSUME NEW hw \in DOMAIN fences', NEW options, options = fences'[hw].options PROVE EndsWithOptions(hw, options)'
        BY DEF OptionsAreHeard
    <2>4. EndsWithOptions(hw, options)
        BY <2>3 DEF OptionsAreHeard
    <2> QED BY <2>2, <2>4, OptionsHandled
<1>3. CASE \E n \in Outbound : \E m : Shifted(n, m) /\ (Returned(n, m) \/ Failed(n, m) \/ Performed(n, m))
    <2>1. PICK n \in Outbound : \E m : Shifted(n, m) /\ (Returned(n, m) \/ Failed(n, m) \/ Performed(n, m))
        BY <1>3
    <2>2. PICK m : Shifted(n, m) /\ (Returned(n, m) \/ Failed(n, m) \/ Performed(n, m))
        BY <2>1
    <2>3. inbox' = Append(inbox, m) /\ SameMaps /\ m \in Inbound /\ m \in Messages /\ n \in Messages
        BY <2>2 DEF Shifted, adapter, SameMaps, Inbound, Outbound
    <2> SUFFICES ASSUME NEW hw \in DOMAIN fences', NEW options, options = fences'[hw].options PROVE EndsWithOptions(hw, options)'
        BY DEF OptionsAreHeard
    <2>4. CASE ~Performed(n, m)
        <3>1. fences' = fences
            BY <2>2, <2>4 DEF Returned, Failed, fences
        <3>2. m.type = "perform" \/ ~m.ok
            BY <2>2, <2>3, <2>4 DEF Returned, Failed, AnswerOf, Messages
        <3>3. m \notin Alters(hw)
            BY <3>2 DEF Alters, Sets, Saves, Modifies
        <3>4. EndsWithOptions(hw, options)
            BY <3>1 DEF OptionsAreHeard
        <3> QED BY <2>3, <3>3, <3>4, OptionsArrive
    <2>5. CASE Performed(n, m)
        <3>0. /\ m.ok /\ m.kind = n.kind /\ m.options = n.options
              /\ m.type \in {"answer", "restored", "client fence removed", "paused again"}
              /\ Saves(m) <=> n.kind = "add"
            BY <2>3, <2>5, AnswerIs, ShiftCarries
        <3>1. CASE n.kind = "add" /\ hw = m.hw
            <4>1. fences'[hw] = Fence(KeyOf(n), FALSE, n.options)
                BY <2>5, <3>1 DEF Performed, AddsFence
            <4>2. options = n.options
                BY <4>1 DEF Fence
            <4>3. m \in AltersTo(hw, options)
                BY <2>3, <3>0, <3>1, <4>2 DEF AltersTo, Sets
            <4> QED BY <2>3, <4>3, OptionsArrive
        <3>2. CASE n.kind = "add" /\ hw # m.hw
            <4>1. hw \in DOMAIN fences /\ fences'[hw] = fences[hw]
                BY <2>5, <3>2 DEF Performed, AddsFence
            <4>2. m \notin Alters(hw)
                BY <3>2 DEF Alters, Sets, Modifies
            <4>3. EndsWithOptions(hw, options)
                BY <4>1 DEF OptionsAreHeard
            <4> QED BY <2>3, <4>2, <4>3, OptionsArrive
        <3>3. CASE n.kind = "remove"
            <4>1. hw \in DOMAIN fences /\ fences'[hw] = fences[hw]
                BY <2>5, <3>3 DEF Performed, RemovesFence
            <4>2. m \notin Alters(hw)
                BY <3>0, <3>3 DEF Alters, Sets, Saves, Modifies
            <4>3. EndsWithOptions(hw, options)
                BY <4>1 DEF OptionsAreHeard
            <4> QED BY <2>3, <4>2, <4>3, OptionsArrive
        <3>4. CASE n.kind = "modify" /\ hw = m.hw
            <4>0. ChangesFence(n) /\ m.hw = n.hw
                BY <2>5, <3>4 DEF Performed
            <4>1. options = "new"
                BY <3>4, <4>0 DEF ChangesFence
            <4>2. m.type = "answer"
                <5>1. m.type = AnswerType(n)
                    BY <2>3, <2>5 DEF Performed, AnswerOf, Messages
                <5> QED BY <3>4, <5>1 DEF AnswerType
            <4>3. m \in AltersTo(hw, options)
                BY <2>3, <3>0, <3>4, <4>1, <4>2 DEF AltersTo, Modifies
            <4> QED BY <2>3, <4>3, OptionsArrive
        <3>5. CASE n.kind \notin {"add", "remove"} /\ ~(n.kind = "modify" /\ hw = m.hw)
            <4>0. ChangesFence(n) /\ m.hw = n.hw
                BY <2>5, <3>5 DEF Performed
            <4>1. hw \in DOMAIN fences /\ fences'[hw].options = fences[hw].options
                BY <3>5, <4>0 DEF ChangesFence
            <4>2. m \notin Alters(hw)
                BY <3>0, <3>5 DEF Alters, Sets, Modifies
            <4>3. EndsWithOptions(hw, options)
                BY <4>1 DEF OptionsAreHeard
            <4> QED BY <2>3, <4>2, <4>3, OptionsArrive
        <3> QED BY <3>1, <3>2, <3>3, <3>4, <3>5
    <2> QED BY <2>4, <2>5
<1>4. CASE Crashed
    BY <1>4 DEF Crashed, OptionsAreHeard
<1>5. CASE Idle
    BY <1>5 DEF Idle, adapter, OptionsAreHeard, EndsWithOptions, OptionsAt, fences
<1> QED BY <1>1, <1>2, <1>3, <1>4, <1>5 DEF Step

LEMMA OptionsInitially == ASSUME Init PROVE OptionsAreHeard
<1>1. DOMAIN <<>> = {}
    OBVIOUS
<1> QED BY <1>1 DEF Init, OptionsAreHeard, fences

\* When all is answered the modem has what the map has, but for what it refused to
\* remove.
LEMMA MapIsServed ==
    ASSUME Typed, Slots, Stale, OptionsAreHeard
    PROVE  ModemServesMap
<1> SUFFICES ASSUME Quiet, Without({"wrong"})
             PROVE  /\ \A hw \in DOMAIN fences :
                         /\ hw \in DOMAIN mGeofences /\ fences[hw].key = mGeofences[hw].key
                         /\ fences[hw].options = mGeofences[hw].options
                    /\ \A hw \in DOMAIN mGeofences : hw \in DOMAIN fences \/ mGeofences[hw].key \in refused
    BY DEF ModemServesMap, fences
<1>1. Len(inbox) = 0 /\ inbox = <<>> /\ calls = <<>> /\ modem.up
    BY DEF Quiet
<1>2. \A S : ~Some(inbox, S) /\ ~Some(calls, S)
    BY <1>1, SomeOfOne
<1>3. ASSUME NEW hw \in DOMAIN fences PROVE KeyAt(hw, fences[hw].key) /\ OptionsAt(hw, fences[hw].options)
    <2>1. Holds(0, hw, fences[hw].key)
        BY <1>1 DEF Slots, ModemIsHeard
    <2>2. EndsWithOptions(hw, fences[hw].options)
        BY DEF OptionsAreHeard
    <2>3. KeyAt(hw, fences[hw].key) \in BOOLEAN /\ OptionsAt(hw, fences[hw].options) \in BOOLEAN
        BY DEF KeyAt, OptionsAt
    <2> QED BY <1>1, <2>1, <2>2, <2>3, EndsNow DEF Holds, EndsWithOptions
<1>4. ASSUME NEW hw \in DOMAIN mGeofences, mGeofences[hw].key \notin refused PROVE hw \in DOMAIN fences
    <2> SUFFICES ASSUME hw \notin DOMAIN fences PROVE FALSE
        OBVIOUS
    <2>0. hw \in HwIds
        BY DEF Typed, MapsTyped
    <2>1. FreeSlot(0, hw)
        BY <1>1, <2>0 DEF Slots, FreeIsHeard
    <2>2. FreeAt(hw) \in BOOLEAN
        BY DEF FreeAt
    <2>3. FreeAt(hw)
        BY <2>1, <2>2, EndsNow DEF FreeSlot
    <2> QED BY <1>2, <1>4, <2>0, <2>3 DEF FreeAt, Stale, StaleAt
<1> QED BY <1>3, <1>4 DEF KeyAt, OptionsAt

-----------------------------------------------------------------------------
(* Who can name a geofence                                                 *)

\* What removes a geofence, from its command to its answer.
Ridding(key) == {m \in Messages : m.kind = "remove" /\ m.ok /\ m.type # "remove client" /\ KeyOf(m) = key}
Alive(key) == Has(inbox, key) \/ Has(calls, key) \/ InMap(key)
Named(key) == key[1] \in clients /\ \E id \in DOMAIN dict[key[1]] : dict[key[1]][id] = key[2]
Removing(key) == Some(calls, Ridding(key)) \/ Some(inbox, Ridding(key))
NamedOrRemoved(key) == Alive(key) => Named(key) \/ Removing(key)
\* A geofence that is somewhere has a name, or a removal under way, unless its
\* removal or its client's came too early or failed.
Owned == Without({"wrong"}) => \A key \in Keys \ (lost \cup refused) : NamedOrRemoved(key)

LEMMA HasAdding ==
    ASSUME Typed, NEW key, Has(inbox, key) \/ Has(calls, key)
    PROVE  Adding(key)
<1>1. DOMAIN inbox = 1 .. Len(inbox) /\ DOMAIN calls = 1 .. Len(calls)
    BY DEF Typed, QueuesTyped
<1>2. ToSet(inbox) = {inbox[i] : i \in 1 .. Len(inbox)} /\ ToSet(calls) = {calls[i] : i \in 1 .. Len(calls)}
    BY <1>1 DEF ToSet
<1>3. \A m \in ToSet(inbox) \cup ToSet(calls) : Carries(m, key) => Adding(key)
    BY DEF Carries, Adding, KeyOf
<1> QED BY <1>2, <1>3 DEF Has

LEMMA OwnedInitially == ASSUME Init PROVE Owned
<1>1. inbox = <<>> /\ calls = <<>> /\ DOMAIN mGeofences = {}
    <2>1. DOMAIN <<>> = {}
        OBVIOUS
    <2> QED BY <2>1 DEF Init
<1>2. Len(<<>>) = 0 /\ 1 .. 0 = {}
    OBVIOUS
<1>3. \A key : ~Alive(key)
    BY <1>1, <1>2 DEF Alive, Has, InMap
<1> QED BY <1>3 DEF Owned, NamedOrRemoved

LEMMA OwnedPosted ==
    ASSUME Typed, NEW key \in Keys, NamedOrRemoved(key), NEW m \in Inbound,
           (\E id \in Ids : Commands(m, id)) \/ Destroys(m) \/ Breaches(m) \/ ComesUp(m)
    PROVE  NamedOrRemoved(key)'
<1>1. inbox' = Append(inbox, m) /\ UNCHANGED <<calls, mGeofences, clients>>
    BY DEF Commands, Destroys, Breaches, ComesUp, Posted, adapter
<1>2. m \in Messages /\ Sound(m) /\ m.type \in {"command", "remove client", "breach", "engine up"}
    BY DEF Commands, Destroys, Breaches, ComesUp, Inbound
<1>3. \A S : Some(inbox', S) <=> Some(inbox, S) \/ m \in S
    BY <1>1, QueuesOf, SomeAppended
<1>4. Has(inbox', key) <=> Has(inbox, key) \/ Carries(m, key)
    BY <1>1, QueuesOf, HasAppended
<1>5. key[1] \in Clients /\ dict \in [Clients -> PartialFunctions(Ids, Sessions)] /\ clients \subseteq Clients
    BY DEF Typed, ClientsTyped, Keys
<1>6. CASE m.type # "command"
    <2>1. ~Carries(m, key)
        BY <1>2, <1>6 DEF Carries, Sound
    <2>2. dict' = dict
        BY <1>6 DEF Commands, Destroys, Breaches, ComesUp
    <2> QED BY <1>1, <1>3, <1>4, <2>1, <2>2 DEF NamedOrRemoved, Alive, Named, Removing, InMap
<1>7. CASE m.type = "command"
    <2>0. PICK id \in Ids : Commands(m, id)
        BY <1>7 DEF Destroys, Breaches, ComesUp
    <2>1. m.c \in clients /\ m.kind \in Kinds /\ m.c \in Clients
        BY <1>2, <1>5, <2>0 DEF Commands, Messages
    <2>2. CASE m.kind = "add"
        <3>1. id \notin DOMAIN dict[m.c] /\ dict' = [dict EXCEPT ![m.c] = Put(@, id, next)] /\ m.session = next
            BY <2>0, <2>2 DEF Commands
        <3>2. DOMAIN dict'[m.c] = DOMAIN dict[m.c] \cup {id} /\ dict'[m.c][id] = next
              /\ (\A x \in DOMAIN dict[m.c] : dict'[m.c][x] = dict[m.c][x])
              /\ \A c \in Clients : c # m.c => dict'[c] = dict[c]
            BY <1>5, <2>1, <3>1 DEF Put
        <3>3. Named(key) => Named(key)'
            BY <1>1, <1>5, <3>2 DEF Named
        <3>4. Carries(m, key) => Named(key)'
            <4> SUFFICES ASSUME Carries(m, key) PROVE Named(key)'
                OBVIOUS
            <4>1. key[1] = m.c /\ key[2] = next
                BY <3>1 DEF Carries, KeyOf
            <4> QED BY <1>1, <2>1, <3>2, <4>1 DEF Named
        <3> QED BY <1>1, <1>3, <1>4, <3>3, <3>4 DEF NamedOrRemoved, Alive, Removing, InMap
    <2>3. CASE m.kind = "remove"
        <3>1. id \in DOMAIN dict[m.c] /\ dict' = [dict EXCEPT ![m.c] = Drop(@, id)] /\ m.session = dict[m.c][id] /\ m.ok
            BY <1>2, <1>7, <2>0, <2>3 DEF Commands, Sound, OfCommands
        <3>2. DOMAIN dict'[m.c] = DOMAIN dict[m.c] \ {id}
              /\ (\A x \in DOMAIN dict[m.c] : x # id => dict'[m.c][x] = dict[m.c][x])
              /\ \A c \in Clients : c # m.c => dict'[c] = dict[c]
            BY <1>5, <2>1, <3>1 DEF Drop, Restrict
        <3>3. key = <<m.c, m.session>> => m \in Ridding(key)
            BY <1>2, <1>7, <2>3, <3>1 DEF Ridding, KeyOf
        <3>4. key = <<key[1], key[2]>>
            BY DEF Keys
        <3>5. Named(key) => Named(key)' \/ key = <<m.c, m.session>>
            BY <1>1, <1>5, <3>1, <3>2, <3>4 DEF Named
        <3>6. ~Carries(m, key)
            BY <2>3 DEF Carries
        <3> QED BY <1>1, <1>3, <1>4, <3>3, <3>5, <3>6 DEF NamedOrRemoved, Alive, Removing, InMap
    <2>4. CASE m.kind \notin {"add", "remove"}
        <3>1. dict' = dict /\ ~Carries(m, key)
            BY <2>0, <2>4 DEF Commands, Carries
        <3> QED BY <1>1, <1>3, <1>4, <3>1 DEF NamedOrRemoved, Alive, Named, Removing, InMap
    <2> QED BY <2>2, <2>3, <2>4
<1> QED BY <1>6, <1>7

LEMMA AliveHandled ==
    ASSUME Typed, Unique, NEW m \in Inbound, NEW r, Handled(m, r), NEW key \in Keys
    PROVE  /\ Alive(key)' => Alive(key)
           /\ Alive(key)' /\ m.type # "engine up" => Has(inbox, key) \/ Has(calls, key) \/ InMap(key)'
<1>1. /\ inbox # <<>> /\ m = Head(inbox) /\ inbox' = Tail(inbox) /\ calls' = calls \o r
      /\ r \in Seq(Outbound) /\ SendStep(m, r) /\ MapStep(m) /\ m \in Messages /\ Sound(m)
    BY DEF Handled, SendStep, Inbound
<1>2. inbox \in Seq(Inbound) /\ calls \in Seq(Outbound)
    BY QueuesOf
<1>3. Once(key) /\ LoneInMap(key)
    BY DEF Unique, Once
<1>4. Has(inbox, key) <=> Carries(m, key) \/ Has(inbox', key)
    BY <1>1, <1>2, HasInRest
<1>5. Has(calls', key) => Has(calls, key) \/ Has(r, key)
    BY <1>1, <1>2, HasJoined
<1>6. Has(r, key) => Carries(m, key) \/ (m.type = "engine up" /\ InMap(key))
    BY <1>1, <1>3, SentCarries
<1>7. ~(Carries(m, key) /\ InMap(key))
    BY <1>3, <1>4 DEF Once
<1>8. InMap(key)' => InMap(key) \/ Carries(m, key)
    BY <1>1, <1>3, <1>7, MapCarries
<1> QED BY <1>4, <1>5, <1>6, <1>8 DEF Alive

LEMMA RidHandled ==
    ASSUME Typed, Unique, Slots, Order, Stale, Without({"wrong"}),
           NEW m \in Inbound, NEW r, Handled(m, r), NEW key \in Keys, key \notin lost' \cup refused', m \in Ridding(key)
    PROVE  Alive(key)' => Removing(key)'
<1> SUFFICES ASSUME Alive(key)' PROVE Removing(key)'
    OBVIOUS
<1>1. /\ inbox # <<>> /\ m = Head(inbox) /\ inbox' = Tail(inbox) /\ calls' = calls \o r
      /\ r \in Seq(Outbound) /\ SendStep(m, r) /\ MapStep(m) /\ m \in Messages /\ Sound(m)
    BY DEF Handled, SendStep, Inbound
<1>2. inbox \in Seq(Inbound) /\ calls \in Seq(Outbound)
    BY QueuesOf
<1>3. Ordered
    BY DEF Order, Without
<1>4. m.kind = "remove" /\ m.ok /\ m.type # "remove client" /\ KeyOf(m) = key
    BY DEF Ridding
<1>5. \A S : (Some(inbox, S) <=> m \in S \/ Some(inbox', S)) /\ (Some(calls', S) <=> Some(calls, S) \/ Some(r, S))
    BY <1>1, <1>2, SomeInRest, SomeJoined
<1>6. CASE m.type = "command"
    <2> DEFINE n == [m EXCEPT !.type = "return"]
    <2>1. r = <<n>>
        BY <1>1, <1>6 DEF SendStep
    <2>2. n \in Ridding(key)
        BY <1>1, <1>4 DEF Ridding, Messages, Types, KeyOf
    <2> HIDE DEF n
    <2> QED BY <1>5, <2>1, <2>2, SomeOfOne DEF Removing
<1>10. key \notin refused
    BY DEF Handled
<1>11. ASSUME NEW hw \in DOMAIN mGeofences, mGeofences[hw].key = key, key \notin DOMAIN mGeofenceIds, ~Forgets(m), m.type # "call"
       PROVE  Removing(key)'
    <2>1. Some(calls, RemovalsAt(hw, key)) \/ Some(inbox, RemovalsAt(hw, key))
        <3>1. hw \in HwIds
            BY DEF Typed, MapsTyped
        <3> QED BY <1>10, <1>11, <3>1 DEF Stale, StaleAt
    <2>2. m \notin RemovalsAt(hw, key)
        BY <1>11 DEF RemovalsAt, Removals
    <2>3. Some(calls', RemovalsAt(hw, key)) \/ Some(inbox', RemovalsAt(hw, key))
        BY <1>5, <2>1, <2>2
    <2>4. (Outbound \cup Inbound) \cap RemovalsAt(hw, key) \subseteq Ridding(key)
        BY DEF RemovalsAt, Removals, Ridding, Outbound, Inbound, Sound, Forgets
    <2>5. inbox' \in Seq(Inbound) /\ calls' \in Seq(Outbound)
        BY <1>1, <1>2, RestOfQueue, Joined
    <2>6. (\A i \in 1 .. Len(inbox') : inbox'[i] \in Inbound) /\ (\A i \in 1 .. Len(calls') : calls'[i] \in Outbound)
        BY <2>5
    <2>7. Some(calls', RemovalsAt(hw, key)) => Some(calls', Ridding(key))
        BY <2>4, <2>6 DEF Some
    <2>8. Some(inbox', RemovalsAt(hw, key)) => Some(inbox', Ridding(key))
        BY <2>4, <2>6 DEF Some
    <2> QED BY <2>3, <2>7, <2>8 DEF Removing
<1>7. CASE m.type = "perform"
    <2>1. CASE Known(m)
        <3>2. r = <<CallOf(m)>>
            BY <1>1, <1>7, <2>1 DEF SendStep
        <3>3. CallOf(m) \in Outbound
            <4>1. \A i \in 1 .. Len(r) : r[i] \in Outbound
                BY <1>1
            <4> QED BY <3>2, <4>1
        <3>4. CallOf(m).type = "call" /\ CallOf(m).kind = m.kind /\ CallOf(m).ok = m.ok /\ KeyOf(CallOf(m)) = KeyOf(m)
            BY <1>1 DEF CallOf, Messages, KeyOf
        <3>5. CallOf(m) \in Ridding(key)
            BY <1>4, <3>3, <3>4 DEF Ridding, Outbound
        <3> QED BY <1>5, <3>2, <3>5, SomeOfOne DEF Removing
    <2>2. CASE ~Known(m)
        <3>1. ~Adding(key)
            BY <1>4, <1>7, <2>2 DEF Handled
        <3>2. Alive(key) /\ ~Has(inbox, key) /\ ~Has(calls, key)
            BY <3>1, AliveHandled, HasAdding
        <3>3. PICK hw \in DOMAIN mGeofences : mGeofences[hw].key = key
            BY <3>2 DEF Alive, InMap
        <3>4. key \notin DOMAIN mGeofenceIds
            BY <1>4, <2>2 DEF Known
        <3>5. ~Forgets(m)
            BY <1>7 DEF Forgets
        <3> QED BY <1>7, <1>11, <3>3, <3>4, <3>5
    <2> QED BY <2>1, <2>2
<1>8. CASE Removes(m) \/ Forgets(m)
    <2>1. Response(m) /\ m \in ResponsesTo(key)
        BY <1>1, <1>4, <1>8 DEF Removes, Forgets, Response, ResponsesTo
    <2>2. Some(inbox, ResponsesTo(key))
        BY <1>5, <2>1
    <2>3. ~Has(inbox, key) /\ ~Has(calls, key)
        BY <1>3, <2>2 DEF Ordered, OrderOf
    <2>4. InMap(key)' /\ m.type # "engine up"
        BY <1>4, <1>8, <2>3, AliveHandled DEF Removes, Forgets
    <2>5. KeyAt(m.hw, key)
        <3>0. Len(inbox) \in Nat \ {0} /\ Head(inbox) = inbox[1]
            BY <1>1, <1>2, RestOfQueue
        <3>1. 1 \in 1 .. Len(inbox) /\ m = inbox[1]
            BY <1>1, <3>0
        <3>2. m \in Responses
            BY <1>1, <2>1 DEF Responses
        <3>3. Holds(1 - 1, m.hw, key)
            BY <1>4, <3>1, <3>2 DEF Slots, OfMap, Without
        <3>4. Holds(0, m.hw, key)
            BY <3>3
        <3>5. KeyAt(m.hw, key) \in BOOLEAN
            BY DEF KeyAt
        <3> QED BY <3>4, <3>5, EndsNow DEF Holds
    <2>6. \A hw \in DOMAIN mGeofences : mGeofences[hw].key = key => hw = m.hw
        BY <2>5 DEF KeyAt, Unique, Once, LoneInMap
    <2>7. PICK x \in DOMAIN mGeofences' : mGeofences'[x].key = key
        BY <2>4 DEF InMap
    <2>8. CASE Forgets(m)
        <3>1. mGeofences' = Drop(mGeofences, m.hw)
            BY <1>1, <2>8 DEF MapStep
        <3>2. x \in DOMAIN mGeofences /\ x # m.hw /\ mGeofences[x].key = key
            BY <2>7, <3>1 DEF Drop, Restrict
        <3> QED BY <2>6, <3>2
    <2>9. CASE Removes(m)
        <3>1. removeGeofenceItem(m.hw)
            BY <1>1, <2>9 DEF MapStep
        <3>2. key \notin DOMAIN mGeofenceIds
            <4> SUFFICES ASSUME key \in DOMAIN mGeofenceIds PROVE FALSE
                OBVIOUS
            <4>1. mGeofences' = Drop(mGeofences, m.hw)
                BY <2>5, <3>1 DEF removeGeofenceItem, KeyAt
            <4>2. x \in DOMAIN mGeofences /\ x # m.hw /\ mGeofences[x].key = key
                BY <2>7, <4>1 DEF Drop, Restrict
            <4> QED BY <2>6, <4>2
        <3>3. ~Forgets(m) /\ m.type # "call"
            BY <2>9 DEF Removes, Forgets
        <3> QED BY <1>11, <2>5, <3>2, <3>3 DEF KeyAt
    <2> QED BY <1>8, <2>8, <2>9
<1>9. m.type \in {"command", "perform"} \/ Removes(m) \/ Forgets(m)
    BY <1>1, <1>4 DEF Inbound, Sound, Removes, Forgets, Messages, Types
<1> QED BY <1>6, <1>7, <1>8, <1>9

LEMMA OwnedHandled ==
    ASSUME Typed, Unique, Slots, Order, Stale, Without({"wrong"}),
           NEW key \in Keys, key \notin lost' \cup refused', NamedOrRemoved(key), NEW m \in Inbound, NEW r, Handled(m, r)
    PROVE  NamedOrRemoved(key)'
<1>1. /\ inbox # <<>> /\ m = Head(inbox) /\ inbox' = Tail(inbox) /\ calls' = calls \o r
      /\ r \in Seq(Outbound) /\ SendStep(m, r) /\ m \in Messages /\ Sound(m)
      /\ dict' = dict /\ clients' = IF m.type = "remove client" THEN clients \ {m.c} ELSE clients
    BY DEF Handled, SendStep, Inbound
<1>2. inbox \in Seq(Inbound) /\ calls \in Seq(Outbound)
    BY QueuesOf
<1>4. \A S : (Some(inbox, S) <=> m \in S \/ Some(inbox', S)) /\ (Some(calls', S) <=> Some(calls, S) \/ Some(r, S))
    BY <1>1, <1>2, SomeInRest, SomeJoined
<1> SUFFICES ASSUME Alive(key)' PROVE Named(key)' \/ Removing(key)'
    BY DEF NamedOrRemoved
<1>5. Alive(key)
    BY AliveHandled
<1>6. CASE Named(key) /\ ~(m.type = "remove client" /\ m.c = key[1])
    BY <1>1, <1>6 DEF Named
<1>7. CASE Named(key) /\ m.type = "remove client" /\ m.c = key[1]
    <2>1. ~Adding(key)
        BY <1>7 DEF Handled
    <2>4. ~Has(inbox, key) /\ ~Has(calls, key)
        BY <2>1, HasAdding
    <2>5. PICK hw \in DOMAIN mGeofences : mGeofences[hw].key = key
        BY <1>5, <2>4 DEF Alive, InMap
    <2>6. key \in DOMAIN mGeofenceIds
        <3>1. MapAgrees /\ key[1] \in clients
            BY <1>7 DEF Order, Ordered, Named
        <3> QED BY <2>5, <3>1 DEF MapAgrees
    <2>7. key[2] \in SessionsOf(m.c)
        BY <1>7, <2>6 DEF SessionsOf
    <2>8. PICK i \in 1 .. Len(r) : r[i] = RemovalFor(m.c, key[2])
        BY <1>1, <1>7, <2>7 DEF SendStep
    <2>9. r[i] \in Messages
        <3>0. r \in Seq(Outbound)
            BY <1>1
        <3>1. r[i] \in Outbound
            BY <3>0
        <3> QED BY <3>1 DEF Outbound
    <2>10. /\ RemovalFor(m.c, key[2]).type = "call" /\ RemovalFor(m.c, key[2]).kind = "remove" /\ RemovalFor(m.c, key[2]).ok
           /\ KeyOf(RemovalFor(m.c, key[2])) = <<m.c, key[2]>>
        BY DEF RemovalFor, Message, KeyOf
    <2>11. <<m.c, key[2]>> = key
        <3>1. key = <<key[1], key[2]>>
            BY DEF Keys
        <3> QED BY <1>7, <3>1
    <2>12. r[i] \in Ridding(key)
        BY <2>8, <2>9, <2>10, <2>11 DEF Ridding
    <2> QED BY <1>4, <2>12 DEF Some, Removing
<1>8. CASE Removing(key)
    <2>1. CASE m \in Ridding(key)
        BY <2>1, RidHandled
    <2>2. CASE m \notin Ridding(key)
        BY <1>4, <1>8, <2>2 DEF Removing
    <2> QED BY <2>1, <2>2
<1> QED BY <1>5, <1>6, <1>7, <1>8 DEF NamedOrRemoved

LEMMA OwnedShifted ==
    ASSUME Typed, NEW key \in Keys, key \notin refused', NamedOrRemoved(key), NEW n \in Outbound, NEW m,
           Shifted(n, m), Returned(n, m) \/ Failed(n, m) \/ Performed(n, m)
    PROVE  NamedOrRemoved(key)'
<1>1. /\ calls # <<>> /\ n = Head(calls) /\ calls' = Tail(calls) /\ m \in Inbound /\ inbox' = Append(inbox, m)
      /\ UNCHANGED <<mGeofences, clients, dict>> /\ m \in Messages /\ n \in Messages
    BY DEF Shifted, adapter, client, Inbound, Outbound
<1>2. inbox \in Seq(Inbound) /\ calls \in Seq(Outbound)
    BY QueuesOf
<1>3. \A S : (Some(calls, S) <=> n \in S \/ Some(calls', S)) /\ (Some(inbox', S) <=> Some(inbox, S) \/ m \in S)
    BY <1>1, <1>2, SomeInRest, SomeAppended
<1>4. (Has(calls, key) <=> Carries(n, key) \/ Has(calls', key)) /\ (Has(inbox', key) <=> Has(inbox, key) \/ Carries(m, key))
    BY <1>1, <1>2, HasInRest, HasAppended
<1>5. (Carries(m, key) => Carries(n, key)) /\ m.kind = n.kind /\ KeyOf(m) = KeyOf(n)
    BY ShiftCarries
<1>6. Alive(key)' => Alive(key)
    BY <1>1, <1>4, <1>5 DEF Alive, InMap
<1>7. Named(key)' = Named(key)
    BY <1>1 DEF Named
<1>8. n \in Ridding(key) => m \in Ridding(key)
    <2> SUFFICES ASSUME n \in Ridding(key) PROVE m \in Ridding(key)
        OBVIOUS
    <2>1. n.kind = "remove" /\ n.ok /\ KeyOf(n) = key
        BY DEF Ridding
    <2>2. ~Failed(n, m)
        BY <2>1 DEF Failed
    <2>3. Performed(n, m) => m.ok /\ m.type # "remove client"
        BY <1>1, AnswerIs
    <2>4. Returned(n, m) => m.ok = n.ok /\ m.type = "perform"
        BY <1>1 DEF Returned, Messages
    <2> QED BY <1>1, <1>5, <2>1, <2>2, <2>3, <2>4 DEF Ridding
<1> QED BY <1>3, <1>6, <1>7, <1>8 DEF NamedOrRemoved, Removing

\* A name is dropped with a command to remove; a client that is removed removes
\* what the map has of it.
LEMMA OwnedStep == ASSUME Typed, Unique, Slots, Order, Stale, Owned, Step PROVE Owned'
<1> SUFFICES ASSUME Without({"wrong"})', NEW key \in Keys, key \notin lost' \cup refused' PROVE NamedOrRemoved(key)'
    BY DEF Owned
<1>0. NamedOrRemoved(key) /\ Without({"wrong"})
    BY MishapsGrow DEF Owned, Without
<1>1. CASE \E m \in Inbound : (\E id \in Ids : Commands(m, id)) \/ Destroys(m) \/ Breaches(m) \/ ComesUp(m)
    BY <1>0, <1>1, OwnedPosted
<1>2. CASE \E m \in Inbound : Sound(m) /\ m \in Messages /\ \E r : Handled(m, r)
    BY <1>0, <1>2, OwnedHandled
<1>3. CASE \E n \in Outbound : \E m : Shifted(n, m) /\ (Returned(n, m) \/ Failed(n, m) \/ Performed(n, m))
    BY <1>0, <1>3, OwnedShifted
<1>4. CASE Crashed \/ Idle
    <2>1. UNCHANGED <<inbox, calls, mGeofences, clients, dict>>
        BY <1>4 DEF Crashed, Idle, adapter
    <2> QED BY <1>0, <2>1 DEF NamedOrRemoved, Alive, Named, Removing, Has, Some, InMap
<1> QED BY <1>1, <1>2, <1>3, <1>4 DEF Step

\* When all is answered no geofence of the modem lacks a name.
LEMMA NoneIsOrphan ==
    ASSUME Typed, Slots, Owned
    PROVE  NoOrphan
<1> SUFFICES ASSUME Quiet, Without({"wrong"}), NEW hw \in DOMAIN fences, NEW key, key = fences[hw].key,
                    key \notin lost \cup refused
             PROVE  key[1] \in clients /\ \E id \in DOMAIN dict[key[1]] : dict[key[1]][id] = key[2]
    BY DEF NoOrphan, fences
<1>1. Len(inbox) = 0 /\ inbox = <<>> /\ calls = <<>> /\ modem.up
    BY DEF Quiet
<1>2. \A S : ~Some(inbox, S) /\ ~Some(calls, S)
    BY <1>1, SomeOfOne
<1>3. KeyAt(hw, key)
    <2>1. Holds(0, hw, key)
        BY <1>1 DEF Slots, ModemIsHeard
    <2>2. KeyAt(hw, key) \in BOOLEAN
        BY DEF KeyAt
    <2> QED BY <2>1, <2>2, EndsNow DEF Holds
<1>4. key \in Keys
    BY DEF Typed, ModemTyped, Fences, fences
<1>5. Alive(key)
    BY <1>3 DEF KeyAt, Alive, InMap
<1> QED BY <1>2, <1>4, <1>5 DEF Owned, NamedOrRemoved, Named, Removing

-----------------------------------------------------------------------------
(* Restarts of the modem                                                   *)

\* At most one of S is in the queue.
Single(q, S) == \A i, j \in 1 .. Len(q) : q[i] \in S /\ q[j] \in S => i = j

LEMMA SingleAppended ==
    ASSUME NEW M, NEW q \in Seq(M), NEW m \in M, NEW S, Single(q, S), m \in S => ~Some(q, S)
    PROVE  Single(Append(q, m), S)
<1> DEFINE p == Append(q, m)
           n == Len(q)
           k == Len(p)
<1>1. k = n + 1 /\ n \in Nat /\ p[n + 1] = m /\ \A i \in 1 .. n : p[i] = q[i]
    BY Appended
<1>0. /\ \A i, j \in 1 .. n : q[i] \in S /\ q[j] \in S => i = j
      /\ m \in S => ~\E i \in 1 .. n : q[i] \in S
    BY DEF Single, Some
<1> HIDE DEF p, n, k
<1>2. \A i \in 1 .. k : i \in 1 .. n \/ i = n + 1
    BY <1>1
<1>3. ASSUME NEW i \in 1 .. k, NEW j \in 1 .. k, p[i] \in S, p[j] \in S PROVE i = j
    <2>1. CASE i \in 1 .. n /\ j \in 1 .. n
        BY <1>0, <1>1, <1>3, <2>1
    <2>2. CASE i = n + 1 /\ j \in 1 .. n
        BY <1>0, <1>1, <1>3, <2>2
    <2>3. CASE i \in 1 .. n /\ j = n + 1
        BY <1>0, <1>1, <1>3, <2>3
    <2> QED BY <1>2, <2>1, <2>2, <2>3
<1> QED BY <1>3 DEF Single, p, n, k

LEMMA SingleInRest ==
    ASSUME NEW M, NEW q \in Seq(M), q # <<>>, NEW S, Single(q, S)
    PROVE  Single(Tail(q), S) /\ (Head(q) \in S => ~Some(Tail(q), S))
<1> DEFINE n == Len(q)
           t == Tail(q)
<1>1. n \in Nat \ {0} /\ Len(t) = n - 1 /\ Head(q) = q[1] /\ \A i \in 1 .. n - 1 : t[i] = q[i + 1]
    BY RestOfQueue
<1>0. \A i, j \in 1 .. n : q[i] \in S /\ q[j] \in S => i = j
    BY DEF Single
<1> HIDE DEF n, t
<1>2. 1 \in 1 .. n /\ \A i \in 1 .. n - 1 : i + 1 \in 1 .. n /\ i + 1 # 1
    BY <1>1
<1>3. ASSUME NEW i \in 1 .. n - 1, NEW j \in 1 .. n - 1, t[i] \in S, t[j] \in S PROVE i = j
    <2>1. q[i + 1] \in S /\ q[j + 1] \in S
        BY <1>1, <1>3
    <2>2. i + 1 = j + 1
        BY <1>0, <1>2, <2>1
    <2> QED BY <1>1, <2>2
<1>4. ASSUME q[1] \in S, NEW i \in 1 .. n - 1, t[i] \in S PROVE FALSE
    <2>1. q[i + 1] \in S
        BY <1>1, <1>4
    <2> QED BY <1>0, <1>2, <1>4, <2>1
<1> QED BY <1>1, <1>3, <1>4 DEF Single, Some, n, t

\* What the mishaps say of the restarts of the modem.
Restarts ==
    /\ crashes \in Nat
    /\ crashes = 0 => "restart" \notin mishaps /\ modem.up /\ ~Some(inbox, Clears)
    /\ crashes # 0 => "restart" \in mishaps
    /\ Without({"restarts"}) => (~modem.up => ~Some(inbox, Clears)) /\ Single(inbox, Clears)

LEMMA RestartsInitially == ASSUME Init PROVE Restarts
<1>1. inbox = <<>> /\ crashes = 0 /\ mishaps = {} /\ modem.up
    BY DEF Init
<1>2. \A S : ~Some(inbox, S)
    BY <1>1, SomeOfOne
<1>3. Single(inbox, Clears)
    BY <1>2 DEF Single, Some
<1> QED BY <1>1, <1>2, <1>3 DEF Restarts

\* The modem is reported up once for each restart.
LEMMA RestartsStep == ASSUME Typed, Restarts, Step PROVE Restarts'
<1>1. ASSUME NEW m \in Inbound, inbox' = Append(inbox, m), UNCHANGED crashes, modem'.up = modem.up,
             "restart" \in mishaps' <=> "restart" \in mishaps, mishaps \subseteq mishaps', m \notin Clears
      PROVE  Restarts'
    <2>1. Some(inbox', Clears) <=> Some(inbox, Clears)
        BY <1>1, QueuesOf, SomeAppended
    <2>2. Single(inbox, Clears) => Single(inbox', Clears)
        BY <1>1, QueuesOf, SingleAppended
    <2> QED BY <1>1, <2>1, <2>2 DEF Restarts, Without
<1>2. ASSUME NEW m \in Inbound, (\E id \in Ids : Commands(m, id)) \/ Destroys(m) \/ Breaches(m) PROVE Restarts'
    <2>1. /\ inbox' = Append(inbox, m) /\ UNCHANGED <<crashes, modem, mishaps>>
          /\ m.type \in {"command", "remove client", "breach"}
        BY <1>2 DEF Commands, Destroys, Breaches, Posted
    <2>2. m \notin Clears
        BY <2>1 DEF Clears
    <2> QED BY <1>1, <2>1, <2>2
<1>3. ASSUME NEW m \in Inbound, ComesUp(m) PROVE Restarts'
    <2>1. inbox' = Append(inbox, m) /\ UNCHANGED <<crashes, mishaps>> /\ ~modem.up /\ modem'.up
        BY <1>3 DEF ComesUp, Posted
    <2>2. crashes # 0 /\ (Without({"restarts"}) => ~Some(inbox, Clears) /\ Single(inbox, Clears))
        BY <2>1 DEF Restarts
    <2>3. Without({"restarts"}) => Single(inbox', Clears)
        BY <2>1, <2>2, QueuesOf, SingleAppended
    <2> QED BY <2>1, <2>2, <2>3 DEF Restarts, Without
<1>4. ASSUME NEW m \in Inbound, NEW r, Handled(m, r) PROVE Restarts'
    <2>1. inbox # <<>> /\ inbox' = Tail(inbox) /\ UNCHANGED <<crashes, modem>> /\ mishaps \subseteq mishaps'
        BY <1>4 DEF Handled, counters
    <2>2. Some(inbox', Clears) => Some(inbox, Clears)
        BY <2>1, QueuesOf, SomeInRest
    <2>3. Single(inbox, Clears) => Single(inbox', Clears)
        BY <2>1, QueuesOf, SingleInRest
    <2>4. "restart" \in mishaps' => "restart" \in mishaps
        BY <1>4 DEF Handled, Losing
    <2> QED BY <2>1, <2>2, <2>3, <2>4 DEF Restarts, Without
<1>5. ASSUME NEW n \in Outbound, NEW m, Shifted(n, m), Returned(n, m) \/ Failed(n, m) \/ Performed(n, m) PROVE Restarts'
    <2>1. m \in Inbound /\ inbox' = Append(inbox, m) /\ UNCHANGED crashes /\ m \in Messages /\ n \in Messages
        BY <1>5 DEF Shifted, Inbound, Outbound
    <2>2. modem'.up = modem.up /\ mishaps \subseteq mishaps'
        <3>1. CASE Performed(n, m)
            <4>1. modem.up \in BOOLEAN /\ modem'.up \in BOOLEAN
                BY <3>1 DEF Performed, Typed, ModemTyped
            <4> QED BY <3>1, <4>1 DEF Performed
        <3>2. CASE ~Performed(n, m)
            BY <1>5, <3>2 DEF Returned, Failed
        <3> QED BY <3>1, <3>2
    <2>3. "restart" \in mishaps' <=> "restart" \in mishaps
        <3>1. n.kind \in Kinds
            BY <2>1 DEF Messages
        <3> QED BY <1>5, <3>1 DEF Returned, Failed, Performed, Kinds
    <2>4. m \notin Clears
        <3>1. m.type # "engine up"
            <4>1. CASE Performed(n, m)
                BY <2>1, <4>1, AnswerIs
            <4>2. CASE Returned(n, m)
                BY <2>1, <4>2 DEF Returned, Messages
            <4>3. CASE Failed(n, m)
                <5>1. m.type = AnswerType(n)
                    BY <2>1, <4>3 DEF Failed, AnswerOf, Messages
                <5> QED BY <5>1 DEF AnswerType
            <4> QED BY <1>5, <4>1, <4>2, <4>3
        <3> QED BY <3>1 DEF Clears
    <2> QED BY <1>1, <2>1, <2>2, <2>3, <2>4
<1>6. ASSUME Crashed PROVE Restarts'
    <2>1. /\ crashes' = crashes + 1 /\ modem.up /\ ~modem'.up /\ inbox' = inbox
          /\ mishaps' = mishaps \cup (IF crashes = 0 THEN {"restart"} ELSE {"restarts"})
        BY <1>6 DEF Crashed
    <2>2. crashes' \in Nat /\ crashes' # 0
        BY <2>1 DEF Restarts
    <2>3. "restart" \in mishaps'
        BY <2>1 DEF Restarts
    <2>4. Without({"restarts"})' => ~Some(inbox, Clears) /\ Single(inbox, Clears)
        <3>1. Without({"restarts"})' => crashes = 0 /\ Without({"restarts"})
            BY <2>1 DEF Without
        <3> QED BY <3>1 DEF Restarts
    <2>5. Some(inbox', Clears) = Some(inbox, Clears) /\ Single(inbox', Clears) = Single(inbox, Clears)
        BY <2>1
    <2> QED BY <2>2, <2>3, <2>4, <2>5 DEF Restarts
<1>7. ASSUME Idle PROVE Restarts'
    BY <1>7 DEF Idle, Restarts, Without, Single, Some
<1> QED BY <1>2, <1>3, <1>4, <1>5, <1>6, <1>7 DEF Step

-----------------------------------------------------------------------------
(* Paused geofences                                                        *)

Calm == Without({"wrong", "restarts", "pause"})
Restores == {m \in Messages : m.kind = "add" /\ m.ok /\ (m.type = "restored" \/ (m.type = "call" /\ m.hw # NoHwId))}
\* What adds a geofence that is not paused.
Unpaused(key) == {m \in Messages : Carries(m, key) /\ (m.type = "answer" \/ ~m.paused)}
\* What is due to pause it again.
Repauses(key) ==
    {m \in Messages : /\ KeyOf(m) = key /\ m.ok /\ m.paused
                      /\ m.type = "restored" \/ (m.type = "call" /\ m.kind = "pause")}
\* What tells its client that it is paused, or is not.
Tells(key) == {m \in Messages : m.type = "answer" /\ m.ok /\ m.kind \in {"pause", "resume"} /\ KeyOf(m) = key}
TellsResumed(key) == {m \in Tells(key) : m.kind = "resume"}
NotTold(key) == key \notin toldPaused
EndsResumed(key) == Ends(inbox, Len(inbox), Tells(key), TellsResumed(key), NotTold(key))
\* No geofence was restored so far.
Untouched == "restart" \notin mishaps \/ ~modem.up \/ Some(inbox, Clears)

MapIsPaused == \A hw \in DOMAIN mGeofences : mGeofences[hw].paused \/ mGeofences[hw].key \notin toldPaused
BeforeRestart == Untouched => ~Some(inbox, Restores) /\ ~Some(calls, Restores) /\ MapIsPaused
AddsUnpaused == \A key \in Keys : Some(inbox, Unpaused(key)) \/ Some(calls, Unpaused(key)) => key \notin toldPaused
ModemIsPaused ==
    \A hw \in DOMAIN fences :
        \/ fences[hw].paused
        \/ Some(inbox, Repauses(fences[hw].key)) \/ Some(calls, Repauses(fences[hw].key))
        \/ EndsResumed(fences[hw].key)

\* Before a restart no geofence is restored and the map says what is paused; what
\* is added unpaused was not told paused; what the modem has is paused, or due to
\* be paused again, or about to be told resumed.
PausedInStep == BeforeRestart /\ AddsUnpaused /\ ModemIsPaused
Paused == Calm => PausedInStep

LEMMA PausedInitially == ASSUME Init PROVE Paused
<1>1. inbox = <<>> /\ calls = <<>> /\ toldPaused = {}
    BY DEF Init
<1>2. \A S : ~Some(inbox, S) /\ ~Some(calls, S)
    BY <1>1, SomeOfOne
<1>3. DOMAIN <<>> = {}
    OBVIOUS
<1>4. DOMAIN fences = {}
    BY <1>3 DEF Init, fences
<1> QED BY <1>1, <1>2, <1>4 DEF Paused, PausedInStep, BeforeRestart, AddsUnpaused, ModemIsPaused, MapIsPaused

LEMMA PausedPosted ==
    ASSUME Typed, Fresh, PausedInStep, Restarts, NEW m \in Inbound,
           (\E id \in Ids : Commands(m, id)) \/ Destroys(m) \/ Breaches(m) \/ ComesUp(m)
    PROVE  PausedInStep'
<1>1. inbox' = Append(inbox, m) /\ UNCHANGED <<calls, mGeofences, toldPaused, mishaps, lost, refused>> /\ fences' = fences
    BY DEF Commands, Destroys, Breaches, ComesUp, Posted, adapter, fences
<1>2. m \in Messages /\ Sound(m) /\ m.type \in {"command", "remove client", "breach", "engine up"}
    BY DEF Commands, Destroys, Breaches, ComesUp, Inbound
<1>3. \A S : Some(inbox', S) <=> Some(inbox, S) \/ m \in S
    BY <1>1, QueuesOf, SomeAppended
<1>4. Untouched' => Untouched
    <2>1. CASE ComesUp(m)
        BY <2>1 DEF ComesUp, Untouched
    <2>2. CASE ~ComesUp(m)
        <3>1. modem' = modem /\ m.type # "engine up"
            BY <2>2 DEF Commands, Destroys, Breaches
        <3>2. m \notin Clears
            BY <3>1 DEF Clears
        <3> QED BY <1>1, <1>3, <3>1, <3>2 DEF Untouched
    <2> QED BY <2>1, <2>2
<1>5. m \notin Restores /\ \A key : m \notin Tells(key)
    BY <1>2 DEF Restores, Tells
<1>6. BeforeRestart'
    BY <1>1, <1>3, <1>4, <1>5 DEF PausedInStep, BeforeRestart, MapIsPaused
<1>7. AddsUnpaused'
    <2> SUFFICES ASSUME NEW key \in Keys, m \in Unpaused(key) PROVE key \notin toldPaused
        BY <1>1, <1>3 DEF PausedInStep, AddsUnpaused
    <2>1. m.type = "command" /\ m.kind = "add" /\ key = <<m.c, m.session>>
        BY <1>2 DEF Unpaused, Carries, Sound, KeyOf
    <2>2. m.session = next
        BY <2>1 DEF Commands, Destroys, Breaches, ComesUp
    <2>3. key[2] = next /\ next \in Int
        BY <2>1, <2>2 DEF Typed, ClientsTyped
    <2> QED BY <2>3 DEF Fresh
<1>8. ModemIsPaused'
    <2> SUFFICES ASSUME NEW hw \in DOMAIN fences, NEW key, key = fences[hw].key, EndsResumed(key) PROVE EndsResumed(key)'
        BY <1>1, <1>3 DEF PausedInStep, ModemIsPaused
    <2>1. Ends(Append(inbox, m), Len(inbox) + 1, Tells(key), TellsResumed(key), NotTold(key))
        BY <1>5, QueuesOf, EndsAfterOther DEF EndsResumed
    <2>2. Len(inbox') = Len(inbox) + 1
        BY <1>1, QueuesOf, Appended
    <2> QED BY <1>1, <2>1, <2>2 DEF EndsResumed, NotTold
<1> QED BY <1>6, <1>7, <1>8 DEF PausedInStep

\* What a handler sends of these.
LEMMA SentPauses ==
    ASSUME Typed, NEW m \in Messages, Sound(m), NEW r \in Seq(Outbound), SendStep(m, r), NEW key \in Keys
    PROVE  /\ m.type # "engine up" => ~Some(r, Restores)
           /\ Some(r, Unpaused(key)) => \/ m \in Unpaused(key)
                                        \/ m.type = "engine up" /\ \E hw \in DOMAIN mGeofences : mGeofences[hw].key = key /\ ~mGeofences[hw].paused
           /\ m \in Repauses(key) /\ m.type = "restored" => Some(r, Repauses(key))
<1>9. \A i \in 1 .. Len(r) : r[i] \in Outbound
    OBVIOUS
<1>0. \A hw \in HwIds : hw # NoHwId
    BY Constants
<1>2. CASE m.type = "command"
    <2> DEFINE n == [m EXCEPT !.type = "return"]
    <2>1. r = <<n>>
        BY <1>2 DEF SendStep
    <2>2. n.type = "return" /\ n.paused = m.paused /\ n.ok = m.ok /\ n.kind = m.kind /\ KeyOf(n) = KeyOf(m) /\ n \in Messages
        BY DEF Messages, KeyOf, Types
    <2> HIDE DEF n
    <2>3. n \notin Restores /\ (n \in Unpaused(key) => m \in Unpaused(key))
        BY <1>2, <2>2 DEF Restores, Unpaused, Carries
    <2> QED BY <1>2, <2>1, <2>3, SomeOfOne
<1>3. CASE m.type = "perform" /\ Known(m)
    <2> DEFINE n == CallOf(m)
    <2>1. r = <<n>>
        BY <1>3 DEF SendStep
    <2>2. /\ n.type = "call" /\ n.paused = m.paused /\ n.ok = m.ok /\ n.kind = m.kind /\ KeyOf(n) = KeyOf(m)
          /\ m.kind = "add" => n.hw = NoHwId
        BY DEF CallOf, Messages, KeyOf, Types
    <2> HIDE DEF n
    <2>3. n \notin Restores /\ (n \in Unpaused(key) => m \in Unpaused(key))
        BY <1>3, <2>2 DEF Restores, Unpaused, Carries
    <2> QED BY <1>3, <2>1, <2>3, SomeOfOne
<1>4. CASE m.type = "restored" /\ m.ok /\ m.paused
    <2> DEFINE n == PauseOf(m)
    <2>1. r = <<n>>
        BY <1>4 DEF SendStep
    <2>2. n.kind = "pause" /\ n.type = "call" /\ n.paused /\ n.ok /\ KeyOf(n) = KeyOf(m)
        BY DEF PauseOf, Message, KeyOf
    <2>3. \A i \in 1 .. Len(r) : r[i] \in Messages
        BY <1>9 DEF Outbound
    <2> HIDE DEF n
    <2>4. n \in Messages
        BY <2>1, <2>3
    <2>5. n \notin Restores /\ n \notin Unpaused(key) /\ (m \in Repauses(key) => n \in Repauses(key))
        BY <2>2, <2>4 DEF Restores, Unpaused, Carries, Repauses
    <2> QED BY <1>4, <2>1, <2>5, SomeOfOne
<1>5. CASE m.type = "engine up"
    <2>1. \A i \in 1 .. Len(r) : \E hw \in DOMAIN mGeofences : r[i] = Again(hw)
        BY <1>5 DEF SendStep
    <2> SUFFICES ASSUME NEW i \in 1 .. Len(r), r[i] \in Unpaused(key)
                 PROVE  \E hw \in DOMAIN mGeofences : mGeofences[hw].key = key /\ ~mGeofences[hw].paused
        BY <1>5 DEF Some
    <2>2. PICK hw \in DOMAIN mGeofences : r[i] = Again(hw)
        BY <2>1
    <2>3. mGeofences[hw].key = <<mGeofences[hw].key[1], mGeofences[hw].key[2]>>
        <3>1. mGeofences[hw].key \in Keys
            BY DEF Typed, MapsTyped, Fences
        <3> QED BY <3>1 DEF Keys
    <2>4. Again(hw).type = "call" /\ KeyOf(Again(hw)) = mGeofences[hw].key /\ Again(hw).paused = mGeofences[hw].paused
        BY <2>3 DEF Again, Message, KeyOf
    <2> QED BY <2>2, <2>4 DEF Unpaused, Carries
<1>6. CASE m.type = "remove client"
    <2>1. \A i \in 1 .. Len(r) : \E s \in SessionsOf(m.c) : r[i] = RemovalFor(m.c, s)
        BY <1>6 DEF SendStep
    <2>2. \A s : RemovalFor(m.c, s).kind = "remove"
        BY DEF RemovalFor, Message
    <2>3. \A i \in 1 .. Len(r) : r[i].kind = "remove"
        BY <2>1, <2>2
    <2>4. ~Some(r, Restores) /\ ~Some(r, Unpaused(key))
        BY <2>3 DEF Some, Restores, Unpaused, Carries
    <2> QED BY <1>6, <2>4
<1>7. CASE r = <<>> /\ ~(m.type = "restored" /\ m.ok /\ m.paused)
    BY <1>7, SomeOfOne DEF Repauses
<1> QED BY <1>2, <1>3, <1>4, <1>5, <1>6, <1>7 DEF SendStep

\* A good answer comes when its hwId is that of its geofence, which nothing adds.
LEMMA Answers ==
    ASSUME Typed, Slots, Without({"wrong"}), Ordered, NEW m \in Inbound, inbox # <<>>, m = Head(inbox), Response(m)
    PROVE  /\ KeyOf(m) \in Keys /\ KeyAt(m.hw, KeyOf(m))
           /\ ~Has(inbox, KeyOf(m)) /\ ~Has(calls, KeyOf(m))
<1>1. inbox \in Seq(Inbound) /\ m \in Messages /\ Sound(m)
    BY QueuesOf DEF Inbound
<1>2. Len(inbox) \in Nat \ {0} /\ Head(inbox) = inbox[1]
    BY <1>1, RestOfQueue
<1>3. 1 \in 1 .. Len(inbox) /\ inbox[1] = m
    BY <1>2
<1>4. KeyOf(m) \in Keys
    BY <1>1, KeyInKeys DEF Response
<1>5. Some(inbox, ResponsesTo(KeyOf(m)))
    BY <1>1, <1>3 DEF Some, ResponsesTo
<1>6. m \in Responses
    BY <1>1 DEF Responses
<1>7. Holds(1 - 1, m.hw, KeyOf(m))
    BY <1>3, <1>6 DEF Slots, OfMap
<1>8. Holds(0, m.hw, KeyOf(m))
    BY <1>7
<1>9. KeyAt(m.hw, KeyOf(m)) \in BOOLEAN
    BY DEF KeyAt
<1>10. KeyAt(m.hw, KeyOf(m))
    BY <1>8, <1>9, EndsNow DEF Holds
<1> QED BY <1>4, <1>5, <1>10 DEF Ordered, OrderOf

LEMMA MapPausedHandled ==
    ASSUME Typed, Unique, Slots, Without({"wrong"}), Ordered, NEW m \in Inbound, NEW r, Handled(m, r),
           MapIsPaused, m \notin Restores, AddsUnpaused, m.type # "engine up"
    PROVE  MapIsPaused'
<1>1. /\ inbox # <<>> /\ m = Head(inbox) /\ MapStep(m) /\ m \in Messages /\ Sound(m)
    BY DEF Handled, Inbound
<1>2. mGeofences \in [DOMAIN mGeofences -> Fences] /\ \A hw \in DOMAIN mGeofences : mGeofences[hw].key \in Keys
    BY DEF Typed, MapsTyped, Fences
<1>3. CASE Saves(m)
    <2>1. m.type = "answer" /\ m.kind = "add" /\ m.ok /\ Carries(m, KeyOf(m))
        BY <1>1, <1>3 DEF Restores, Saves, Carries
    <2>2. toldPaused' = toldPaused
        BY <2>1 DEF Handled
    <2>3. KeyOf(m) \notin toldPaused
        <3>1. KeyOf(m) \in Keys
            BY <1>1, <2>1, KeyInKeys
        <3>2. m \in Unpaused(KeyOf(m))
            BY <1>1, <2>1 DEF Unpaused
        <3>3. Some(inbox, Unpaused(KeyOf(m)))
            BY <1>1, <3>2, QueuesOf, SomeInRest
        <3> QED BY <3>1, <3>3 DEF AddsUnpaused
    <2> DEFINE fence == Fence(KeyOf(m), FALSE, m.options)
    <2>4. saveGeofenceItem(m.hw, fence) /\ fence.key = KeyOf(m)
        BY <1>1, <1>3, SavedFence DEF MapStep
    <2> HIDE DEF fence
    <2>5. /\ DOMAIN mGeofences' = DOMAIN mGeofences \cup {m.hw} /\ mGeofences'[m.hw] = fence
          /\ \A hw \in DOMAIN mGeofences : hw # m.hw => mGeofences'[hw] = mGeofences[hw]
        BY <2>4 DEF saveGeofenceItem, Put
    <2> QED BY <2>2, <2>3, <2>4, <2>5 DEF MapIsPaused
<1>4. CASE Changes(m)
    <2>1. ChangeItem(m.kind, m.hw) /\ m.kind \in {"pause", "resume", "modify"} /\ m.type = "answer" /\ m.ok /\ Response(m)
        BY <1>1, <1>4 DEF MapStep, Changes, Response
    <2>2. KeyAt(m.hw, KeyOf(m)) /\ KeyOf(m) \in Keys
        BY <1>1, <2>1, Answers
    <2>3. \A hw \in DOMAIN mGeofences : mGeofences[hw].key = KeyOf(m) => hw = m.hw
        BY <2>2 DEF KeyAt, Unique, Once, LoneInMap
    <2> DEFINE key == KeyOf(m)
    <2>4. mGeofences[m.hw].key = key /\ m.hw \in DOMAIN mGeofences
        BY <2>2 DEF KeyAt
    <2>5. /\ m.kind = "pause" => toldPaused' = toldPaused \cup {key}
          /\ m.kind = "resume" => toldPaused' = toldPaused \ {key}
          /\ m.kind = "modify" => toldPaused' = toldPaused
        BY <2>1 DEF Handled
    <2> HIDE DEF key
    <2>6. CASE m.kind = "pause"
        <3>1. mGeofences' = [mGeofences EXCEPT ![m.hw].paused = TRUE]
            BY <2>1, <2>4, <2>6 DEF ChangeItem
        <3>2. /\ DOMAIN mGeofences' = DOMAIN mGeofences /\ mGeofences'[m.hw].paused = TRUE
              /\ \A hw \in DOMAIN mGeofences : hw # m.hw => mGeofences'[hw] = mGeofences[hw]
            BY <1>2, <2>4, <3>1 DEF Fences
        <3> QED BY <2>3, <2>5, <2>6, <3>2 DEF MapIsPaused, key
    <2>7. CASE m.kind = "resume"
        <3>1. mGeofences' = [mGeofences EXCEPT ![m.hw].paused = FALSE]
            BY <2>1, <2>4, <2>7 DEF ChangeItem
        <3>2. /\ DOMAIN mGeofences' = DOMAIN mGeofences /\ mGeofences'[m.hw].key = key
              /\ \A hw \in DOMAIN mGeofences : hw # m.hw => mGeofences'[hw] = mGeofences[hw]
            BY <1>2, <2>4, <3>1 DEF Fences
        <3> QED BY <2>5, <2>7, <3>2 DEF MapIsPaused
    <2>8. CASE m.kind = "modify"
        <3>1. mGeofences' = [mGeofences EXCEPT ![m.hw].options = "new"]
            BY <2>1, <2>4, <2>8 DEF ChangeItem
        <3>2. /\ DOMAIN mGeofences' = DOMAIN mGeofences
              /\ \A hw \in DOMAIN mGeofences : mGeofences'[hw].key = mGeofences[hw].key /\ mGeofences'[hw].paused = mGeofences[hw].paused
            BY <1>2, <2>4, <3>1 DEF Fences
        <3> QED BY <2>5, <2>8, <3>2 DEF MapIsPaused
    <2> QED BY <2>1, <2>6, <2>7, <2>8
<1>5. CASE ~Saves(m) /\ ~Changes(m)
    <2>1. toldPaused' = toldPaused
        <3>1. ~(m.type = "answer" /\ m.kind \in {"pause", "resume"} /\ m.ok)
            BY <1>5 DEF Changes
        <3> QED BY <3>1 DEF Handled
    <2>2. \A hw \in DOMAIN mGeofences' : hw \in DOMAIN mGeofences /\ mGeofences'[hw] = mGeofences[hw]
        <3>1. CASE Removes(m)
            <4>1. removeGeofenceItem(m.hw)
                BY <1>1, <3>1 DEF MapStep
            <4> QED BY <4>1 DEF removeGeofenceItem, Drop, Restrict
        <3>2. CASE Forgets(m)
            <4>1. mGeofences' = Drop(mGeofences, m.hw)
                BY <1>1, <3>2 DEF MapStep
            <4> QED BY <4>1 DEF Drop, Restrict
        <3>3. CASE ~Removes(m) /\ ~Forgets(m)
            <4>1. mGeofences' = mGeofences
                BY <1>1, <1>5, <3>3 DEF MapStep, SameMaps
            <4> QED BY <4>1
        <3> QED BY <3>1, <3>2, <3>3
    <2> QED BY <2>1, <2>2 DEF MapIsPaused
<1> QED BY <1>3, <1>4, <1>5

LEMMA ElementsOf == ASSUME NEW M, NEW q \in Seq(M) PROVE \A i \in 1 .. Len(q) : q[i] \in M
OBVIOUS

LEMMA NotRestoring ==
    ASSUME Typed, NEW m \in Messages, Sound(m), NEW r \in Seq(Outbound), SendStep(m, r), m.type # "engine up"
    PROVE  ~Some(r, Restores)
<1>1. CASE Keys = {}
    <2>1. \A i \in 1 .. Len(r) : r[i] \in Outbound
        BY ElementsOf
    <2>2. \A n \in Outbound : n \notin Restores
        <3> SUFFICES ASSUME NEW n \in Outbound, n \in Restores PROVE FALSE
            OBVIOUS
        <3>1. n \in Messages /\ Sound(n) /\ n.type \in {"call", "return"}
            BY DEF Outbound
        <3>2. KeyOf(n) \in Keys
            BY <3>1, KeyInKeys
        <3> QED BY <1>1, <3>2
    <2> QED BY <2>1, <2>2 DEF Some
<1>2. CASE Keys # {}
    BY <1>2, SentPauses
<1> QED BY <1>1, <1>2

LEMMA PausedHandled ==
    ASSUME Typed, Unique, Slots, Without({"wrong"}), Ordered, Restarts, Without({"restarts"}), PausedInStep,
           NEW m \in Inbound, NEW r, Handled(m, r)
    PROVE  PausedInStep'
<1>1. /\ inbox # <<>> /\ m = Head(inbox) /\ inbox' = Tail(inbox) /\ calls' = calls \o r
      /\ r \in Seq(Outbound) /\ SendStep(m, r) /\ m \in Messages /\ Sound(m) /\ modem' = modem /\ fences' = fences
      /\ mishaps \subseteq mishaps' /\ mishaps' \subseteq mishaps \cup Losing
    BY DEF Handled, SendStep, Inbound, fences
<1>2. inbox \in Seq(Inbound) /\ calls \in Seq(Outbound)
    BY QueuesOf
<1>3. \A S : (Some(inbox, S) <=> m \in S \/ Some(inbox', S)) /\ (Some(calls', S) <=> Some(calls, S) \/ Some(r, S))
    BY <1>1, <1>2, SomeInRest, SomeJoined
<1>4. Untouched' => Untouched /\ m.type # "engine up"
    <2>1. Untouched' => Untouched
        BY <1>1, <1>3 DEF Untouched
    <2>2. ASSUME m.type = "engine up" PROVE ~Untouched'
        <3>1. m \in Clears /\ Some(inbox, Clears)
            BY <1>1, <1>3, <2>2 DEF Clears
        <3>2. "restart" \in mishaps /\ modem.up /\ Single(inbox, Clears)
            BY <3>1 DEF Restarts
        <3>3. ~Some(inbox', Clears)
            BY <1>1, <1>2, <3>1, <3>2, SingleInRest
        <3> QED BY <1>1, <3>2, <3>3 DEF Untouched
    <2> QED BY <2>1, <2>2
<1>5. BeforeRestart'
    <2> SUFFICES ASSUME Untouched' PROVE ~Some(inbox', Restores) /\ ~Some(calls', Restores) /\ MapIsPaused'
        BY DEF BeforeRestart
    <2>1. m.type # "engine up" /\ ~Some(inbox, Restores) /\ ~Some(calls, Restores) /\ MapIsPaused
        BY <1>4 DEF PausedInStep, BeforeRestart
    <2>4. m \notin Restores
        BY <1>3, <2>1
    <2>5. MapIsPaused'
        BY <2>1, <2>4, MapPausedHandled DEF PausedInStep
    <2>6. ~Some(r, Restores)
        BY <1>1, <2>1, NotRestoring
    <2> QED BY <1>3, <2>1, <2>5, <2>6
<1>6. ASSUME NEW key \in Keys, key \notin toldPaused, key \in toldPaused'
      PROVE  key = KeyOf(m) /\ Response(m) /\ m.type = "answer" /\ m.kind = "pause"
    <2>1. m.type = "answer" /\ m.kind = "pause" /\ m.ok /\ key = KeyOf(m)
        BY <1>6 DEF Handled
    <2> QED BY <2>1 DEF Response
<1>7. AddsUnpaused'
    <2> SUFFICES ASSUME NEW key \in Keys, Some(inbox', Unpaused(key)) \/ Some(calls', Unpaused(key)) PROVE key \notin toldPaused'
        BY DEF AddsUnpaused
    <2>1. \/ Some(inbox, Unpaused(key)) \/ Some(calls, Unpaused(key))
          \/ m.type = "engine up" /\ \E hw \in DOMAIN mGeofences : mGeofences[hw].key = key /\ ~mGeofences[hw].paused
        <3>1. Some(r, Unpaused(key)) => \/ m \in Unpaused(key)
                                        \/ m.type = "engine up" /\ \E hw \in DOMAIN mGeofences : mGeofences[hw].key = key /\ ~mGeofences[hw].paused
            BY <1>1, SentPauses
        <3> QED BY <1>3, <3>1
    <2>2. key \notin toldPaused
        <3>1. CASE Some(inbox, Unpaused(key)) \/ Some(calls, Unpaused(key))
            BY <3>1 DEF PausedInStep, AddsUnpaused
        <3>2. CASE m.type = "engine up" /\ \E hw \in DOMAIN mGeofences : mGeofences[hw].key = key /\ ~mGeofences[hw].paused
            <4>1. Some(inbox, Clears)
                BY <1>1, <1>3, <3>2 DEF Clears
            <4>2. MapIsPaused
                BY <4>1 DEF PausedInStep, BeforeRestart, Untouched
            <4> QED BY <3>2, <4>2 DEF MapIsPaused
        <3> QED BY <2>1, <3>1, <3>2
    <2>3. ASSUME key \in toldPaused' PROVE FALSE
        <3>1. key = KeyOf(m) /\ Response(m) /\ m.type # "engine up"
            BY <1>6, <2>2, <2>3
        <3>2. ~Has(inbox, key) /\ ~Has(calls, key)
            BY <1>1, <3>1, Answers
        <3>3. Some(inbox, Carriers(key)) \/ Some(calls, Carriers(key))
            BY <2>1, <3>1 DEF Some, Unpaused, Carriers
        <3> QED BY <3>2, <3>3, HasSome
    <2> QED BY <2>3
<1>8. ModemIsPaused'
    <2> SUFFICES ASSUME NEW hw \in DOMAIN fences, NEW key, key = fences[hw].key, ~fences[hw].paused
                 PROVE  Some(inbox', Repauses(key)) \/ Some(calls', Repauses(key)) \/ EndsResumed(key)'
        BY <1>1 DEF ModemIsPaused
    <2>0. key \in Keys
        BY DEF Typed, ModemTyped, Fences, fences
    <2>1. CASE Some(inbox, Repauses(key)) \/ Some(calls, Repauses(key))
        <3>1. m \in Repauses(key) => m.type = "restored"
            BY DEF Repauses, Inbound
        <3>2. m \in Repauses(key) => Some(r, Repauses(key))
            BY <1>1, <2>0, <3>1, SentPauses
        <3> QED BY <1>3, <2>1, <3>2
    <2>2. CASE EndsResumed(key)
        <3>1. Len(inbox) \in Nat \ {0} /\ Len(inbox') = Len(inbox) - 1
            BY <1>1, <1>2, RestOfQueue
        <3> DEFINE now == NotTold(key)
                   then == NotTold(key)'
        <3>2. m \in Tells(key) /\ m \in TellsResumed(key) => then
            <4> SUFFICES ASSUME m \in TellsResumed(key) PROVE key \notin toldPaused'
                BY DEF NotTold
            <4>1. m.type = "answer" /\ m.kind = "resume" /\ m.ok /\ KeyOf(m) = key
                BY DEF TellsResumed, Tells
            <4>2. toldPaused' = toldPaused \ {key}
                BY <4>1 DEF Handled
            <4> QED BY <4>2
        <3>3. m \notin Tells(key) /\ now => then
            <4> SUFFICES ASSUME m \notin Tells(key), key \notin toldPaused, key \in toldPaused' PROVE FALSE
                BY DEF NotTold
            <4>1. key = KeyOf(m) /\ Response(m) /\ m.type = "answer" /\ m.kind = "pause"
                BY <1>6, <2>0
            <4> QED BY <1>1, <4>1 DEF Tells, Response
        <3>4. Ends(inbox, Len(inbox') + 1, Tells(key), TellsResumed(key), now) /\ Len(inbox') \in Nat /\ Len(inbox') < Len(inbox)
            BY <2>2, <3>1 DEF EndsResumed
        <3> HIDE DEF now, then
        <3>5. Ends(Tail(inbox), Len(inbox'), Tells(key), TellsResumed(key), then)
            BY <1>1, <1>2, <3>2, <3>3, <3>4, EndsOfRest
        <3> QED BY <1>1, <3>5 DEF EndsResumed, then
    <2> QED BY <2>1, <2>2 DEF PausedInStep, ModemIsPaused
<1> QED BY <1>5, <1>7, <1>8 DEF PausedInStep

\* Where nothing of a geofence is in the inbox, its client is told nothing more.
LEMMA NothingToTell ==
    ASSUME NEW key, ~Some(inbox, Tells(key)), NotTold(key)
    PROVE  EndsResumed(key)
BY DEF EndsResumed, Ends, Some

LEMMA ToldOther ==
    ASSUME Typed, NEW m \in Inbound, inbox' = Append(inbox, m), toldPaused' = toldPaused, NEW key
    PROVE  /\ EndsResumed(key) /\ m \notin Tells(key) => EndsResumed(key)'
           /\ m \in TellsResumed(key) => EndsResumed(key)'
<1>1. Len(inbox') = Len(inbox) + 1 /\ inbox \in Seq(Inbound)
    BY QueuesOf, Appended
<1>2. NotTold(key)' = NotTold(key)
    BY DEF NotTold
<1>3. m \in TellsResumed(key) => m \in Tells(key)
    BY DEF TellsResumed
<1>4. ASSUME m \notin Tells(key), EndsResumed(key) PROVE EndsResumed(key)'
    <2>1. Ends(Append(inbox, m), Len(inbox) + 1, Tells(key), TellsResumed(key), NotTold(key))
        BY <1>1, <1>4, EndsAfterOther DEF EndsResumed
    <2> QED BY <1>1, <1>2, <2>1 DEF EndsResumed
<1>5. ASSUME m \in TellsResumed(key) PROVE EndsResumed(key)'
    <2>1. Ends(Append(inbox, m), Len(inbox) + 1, Tells(key), TellsResumed(key), NotTold(key))
        BY <1>1, <1>3, <1>5, EndsWithGood
    <2> QED BY <1>1, <1>2, <2>1 DEF EndsResumed
<1> QED BY <1>4, <1>5

\* The modem knows a geofence that is asked for under one hwId only.
LEMMA OneHwId ==
    ASSUME Typed, Unique, Slots, Ordered, NEW key \in Keys, Some(calls, Asks(key)),
           NEW hw \in DOMAIN fences, NEW x \in DOMAIN fences, fences[hw].key = key, fences[x].key = key
    PROVE  hw = x
<1>1. ~Has(inbox, key)
    BY DEF Ordered, OrderOf
<1>2. Holds(Len(inbox), hw, key) /\ Holds(Len(inbox), x, key)
    BY DEF Slots, ModemIsHeard
<1>3. KeyAt(hw, key) /\ KeyAt(x, key)
    BY <1>1, <1>2, OfNoMessage
<1> QED BY <1>3 DEF KeyAt, Unique, Once, LoneInMap

\* The modem restores a geofence unpaused, and the answer has it paused again.
LEMMA PausedShifted ==
    ASSUME Typed, Unique, Slots, Calm', Ordered, PausedInStep, NEW n \in Outbound, NEW m,
           Shifted(n, m), Returned(n, m) \/ Failed(n, m) \/ Performed(n, m)
    PROVE  PausedInStep'
<1>1. /\ calls # <<>> /\ n = Head(calls) /\ calls' = Tail(calls) /\ m \in Inbound /\ inbox' = Append(inbox, m)
      /\ UNCHANGED <<mGeofences, toldPaused>> /\ m \in Messages /\ n \in Messages /\ Sound(n) /\ n.type \in {"return", "call"}
    BY DEF Shifted, adapter, Inbound, Outbound
<1>2. inbox \in Seq(Inbound) /\ calls \in Seq(Outbound)
    BY QueuesOf
<1>3. \A S : (Some(calls, S) <=> n \in S \/ Some(calls', S)) /\ (Some(inbox', S) <=> Some(inbox, S) \/ m \in S)
    BY <1>1, <1>2, SomeInRest, SomeAppended
<1>4. (\A key : Carries(m, key) => Carries(n, key)) /\ m.kind = n.kind /\ KeyOf(m) = KeyOf(n) /\ m.paused = n.paused
    BY ShiftCarries
<1>5. Untouched' => Untouched
    <2>1. modem'.up => modem.up
        BY DEF Returned, Failed, Performed
    <2>2. ~modem'.up => ~modem.up
        BY DEF Returned, Failed, Performed
    <2>3. mishaps \subseteq mishaps'
        BY DEF Returned, Failed, Performed
    <2>4. m \notin Clears
        <3>1. Performed(n, m) => m.type # "engine up"
            BY <1>1, AnswerIs
        <3>2. Returned(n, m) => m.type # "engine up"
            BY <1>1 DEF Returned, Messages
        <3>3. Failed(n, m) => m.type # "engine up"
            BY <1>1 DEF Failed, AnswerOf, AnswerType, Messages
        <3> QED BY <3>1, <3>2, <3>3 DEF Clears
    <2> QED BY <1>3, <2>2, <2>3, <2>4 DEF Untouched
\* What the answer of a call is, or that there is none.
<1>6. CASE ~Performed(n, m)
    <2>1. /\ m.type = "perform" \/ ~m.ok
          /\ fences' = fences
        BY <1>1, <1>6 DEF Returned, Failed, AnswerOf, Messages, fences
    <2>2. m \notin Restores
        <3>1. m.type = "perform" => m.type # "restored" /\ m.type # "call"
            OBVIOUS
        <3> QED BY <2>1, <3>1 DEF Restores
    <2>3. \A key : m \notin Tells(key)
        BY <2>1 DEF Tells
    <2>4. ASSUME NEW key, m \in Unpaused(key) PROVE n \in Unpaused(key)
        <3>1. Carries(m, key) /\ m.type = "perform" /\ ~m.paused
            BY <2>1, <2>4 DEF Unpaused, Carries
        <3> QED BY <1>1, <1>4, <3>1 DEF Unpaused
    <2>5. ASSUME NEW key, n \in Repauses(key) PROVE FALSE
        <3>1. n.type = "call" /\ n.kind = "pause"
            BY <1>1, <2>5 DEF Repauses
        <3>2. Failed(n, m)
            BY <1>6, <3>1 DEF Returned
        <3>3. "pause" \in mishaps'
            BY <3>1, <3>2 DEF Failed
        <3> QED BY <3>3 DEF Calm, Without
    <2>6. BeforeRestart'
        BY <1>1, <1>3, <1>5, <2>2 DEF PausedInStep, BeforeRestart, MapIsPaused
    <2>7. AddsUnpaused'
        BY <1>1, <1>3, <2>4 DEF PausedInStep, AddsUnpaused
    <2>8. ModemIsPaused'
        <3> SUFFICES ASSUME NEW hw \in DOMAIN fences, NEW key, key = fences[hw].key, ~fences[hw].paused
                     PROVE  Some(inbox', Repauses(key)) \/ Some(calls', Repauses(key)) \/ EndsResumed(key)'
            BY <2>1 DEF ModemIsPaused
        <3>1. Some(inbox, Repauses(key)) \/ Some(calls, Repauses(key)) \/ EndsResumed(key)
            BY DEF PausedInStep, ModemIsPaused
        <3>2. EndsResumed(key) => EndsResumed(key)'
            BY <1>1, <2>3, ToldOther
        <3> QED BY <1>3, <2>5, <3>1, <3>2
    <2> QED BY <2>6, <2>7, <2>8 DEF PausedInStep
<1>7. CASE Performed(n, m)
    <2>0. /\ m.ok /\ n.type = "call" /\ n.ok
          /\ m.type \in {"answer", "restored", "client fence removed", "paused again"}
          /\ m.type = "restored" <=> n.kind = "add" /\ n.hw # NoHwId
          /\ m.type = "paused again" <=> n.kind = "pause" /\ n.paused
          /\ m.type = "client fence removed" <=> n.kind = "remove" /\ n.paused
        BY <1>1, <1>7, AnswerIs DEF Performed, Sound
    <2>1. m \in Restores => n \in Restores
        BY <1>1, <2>0 DEF Restores
    <2>2. ASSUME NEW key, m \in Unpaused(key) PROVE n \in Unpaused(key)
        <3>1. Carries(m, key) /\ Carries(n, key) /\ n.kind = "add" /\ (m.type = "answer" \/ ~m.paused)
            BY <1>4, <2>2 DEF Unpaused, Carries
        <3>2. m.type = "answer" => n.hw = NoHwId
            BY <2>0, <3>1
        <3>3. n.hw = NoHwId => ~n.paused
            BY <1>1, <2>0, <3>1 DEF Sound
        <3> QED BY <1>1, <1>4, <3>1, <3>2, <3>3 DEF Unpaused
    <2>3. BeforeRestart'
        BY <1>1, <1>3, <1>5, <2>1 DEF PausedInStep, BeforeRestart, MapIsPaused
    <2>4. AddsUnpaused'
        BY <1>1, <1>3, <2>2 DEF PausedInStep, AddsUnpaused
    <2>5. n.kind # "add" => n.hw \in DOMAIN fences /\ fences[n.hw].key = KeyOf(n) /\ n \in Asks(KeyOf(n)) /\ m.hw = n.hw
        <3> SUFFICES ASSUME n.kind # "add" PROVE n.hw \in DOMAIN fences /\ fences[n.hw].key = KeyOf(n) /\ n \in Asks(KeyOf(n)) /\ m.hw = n.hw
            OBVIOUS
        <3>1. n.hw \in DOMAIN fences /\ m.hw = n.hw
            BY <1>7 DEF Performed, RemovesFence, ChangesFence
        <3>2. mishaps' = mishaps \cup (IF n.kind # "add" /\ fences[n.hw].key # KeyOf(n) THEN {"wrong"} ELSE {})
            BY <1>7 DEF Performed
        <3>3. fences[n.hw].key = KeyOf(n)
            BY <3>2 DEF Calm, Without
        <3> QED BY <1>1, <2>0, <3>1, <3>3 DEF Asks
    <2>6. KeyOf(n) \in Keys
        BY <1>1, <2>0, KeyInKeys
    <2>7. \A key : n \in Repauses(key) => n.kind = "pause" /\ key = KeyOf(n)
        BY <2>0 DEF Repauses
    <2>8. \A key : m \in Tells(key) => m.kind \in {"pause", "resume"} /\ key = KeyOf(m)
        BY DEF Tells
    \* A geofence that the call leaves alone.
    <2>9. ASSUME NEW hw \in DOMAIN fences, NEW key, key = fences[hw].key, ~fences[hw].paused,
                 key # KeyOf(n) \/ n.kind \notin {"pause", "resume"}
          PROVE  Some(inbox', Repauses(key)) \/ Some(calls', Repauses(key)) \/ EndsResumed(key)'
        <3>1. Some(inbox, Repauses(key)) \/ Some(calls, Repauses(key)) \/ EndsResumed(key)
            BY <2>9 DEF PausedInStep, ModemIsPaused
        <3>2. n \notin Repauses(key) /\ m \notin Tells(key)
            BY <1>4, <2>7, <2>8, <2>9
        <3>3. EndsResumed(key) => EndsResumed(key)'
            BY <1>1, <3>2, ToldOther
        <3> QED BY <1>3, <3>1, <3>2, <3>3
    <2>10. ASSUME NEW hw \in DOMAIN fences', NEW key, key = fences'[hw].key, ~fences'[hw].paused
           PROVE  Some(inbox', Repauses(key)) \/ Some(calls', Repauses(key)) \/ EndsResumed(key)'
        <3>1. CASE n.kind = "add"
            <4>1. AddsFence(n, m)
                BY <1>7, <3>1 DEF Performed
            <4>2. CASE hw # m.hw
                <5>1. hw \in DOMAIN fences /\ fences[hw] = fences'[hw]
                    BY <4>1, <4>2 DEF AddsFence
                <5> QED BY <2>9, <2>10, <3>1, <5>1
            <4>3. CASE hw = m.hw
                <5>1. fences'[hw] = Fence(KeyOf(n), FALSE, n.options)
                    BY <4>1, <4>3 DEF AddsFence
                <5>2. key = KeyOf(n) /\ key \in Keys
                    BY <2>6, <2>10, <5>1 DEF Fence
                <5>3. CASE n.paused
                    <6>1. n.hw # NoHwId
                        BY <1>1, <2>0, <3>1, <5>3 DEF Sound
                    <6>2. m.type = "restored"
                        BY <2>0, <3>1, <6>1
                    <6>3. m \in Repauses(key)
                        BY <1>1, <1>4, <2>0, <5>2, <5>3, <6>2 DEF Repauses
                    <6> QED BY <1>3, <6>3
                <5>4. CASE ~n.paused
                    <6>1. Carries(n, key)
                        BY <2>0, <3>1, <5>2 DEF Carries
                    <6>2. n \in Unpaused(key)
                        BY <1>1, <5>4, <6>1 DEF Unpaused
                    <6>3. NotTold(key)
                        BY <1>3, <5>2, <6>2 DEF NotTold, PausedInStep, AddsUnpaused
                    <6>4. Has(calls, key)
                        BY <1>1, <1>2, <6>1, HasInRest
                    <6>5. ~Some(inbox, ResponsesTo(key))
                        BY <5>2, <6>4 DEF Ordered, OrderOf
                    <6>6. Tells(key) \subseteq ResponsesTo(key)
                        BY DEF Tells, ResponsesTo, Response
                    <6>7. ~Some(inbox, Tells(key))
                        BY <6>5, <6>6 DEF Some
                    <6>8. EndsResumed(key)
                        BY <6>3, <6>7, NothingToTell
                    <6>9. m \notin Tells(key)
                        BY <1>4, <2>8, <3>1
                    <6> QED BY <1>1, <6>8, <6>9, ToldOther
                <5> QED BY <5>3, <5>4
            <4> QED BY <4>2, <4>3
        <3>2. CASE n.kind = "remove"
            <4>1. hw \in DOMAIN fences /\ fences[hw] = fences'[hw]
                BY <1>7, <3>2 DEF Performed, RemovesFence
            <4> QED BY <2>9, <2>10, <3>2, <4>1
        <3>3. CASE n.kind \notin {"add", "remove"}
            <4>0. ChangesFence(n)
                BY <1>7, <3>3 DEF Performed
            <4>1. /\ hw \in DOMAIN fences /\ fences[hw].key = key
                  /\ hw # n.hw => fences[hw] = fences'[hw]
                BY <2>10, <4>0 DEF ChangesFence
            <4>2. CASE hw # n.hw
                <5>1. key # KeyOf(n)
                    <6> SUFFICES ASSUME key = KeyOf(n) PROVE FALSE
                        OBVIOUS
                    <6>1. Some(calls, Asks(key))
                        BY <1>3, <2>5, <3>3
                    <6> QED BY <2>5, <2>6, <3>3, <4>1, <4>2, <6>1, OneHwId
                <5> QED BY <2>9, <2>10, <4>1, <4>2, <5>1
            <4>3. CASE hw = n.hw
                <5>1. CASE n.kind = "modify"
                    <6>1. ~fences[hw].paused
                        BY <2>10, <4>0, <4>3, <5>1 DEF ChangesFence
                    <6> QED BY <2>9, <4>1, <5>1, <6>1
                <5>2. CASE n.kind # "modify"
                    <6>1. n.kind # "pause"
                        BY <2>10, <4>0, <4>3, <5>2 DEF ChangesFence
                    <6>2. n.kind = "resume"
                        BY <1>1, <3>3, <5>2, <6>1 DEF Messages, Kinds
                    <6>3. key = KeyOf(m) /\ m.kind = "resume"
                        BY <1>4, <2>5, <3>3, <4>1, <4>3, <6>2
                    <6>4. m.type = "answer"
                        BY <2>0, <6>2
                    <6>5. m \in TellsResumed(key)
                        BY <1>1, <2>0, <6>3, <6>4 DEF TellsResumed, Tells
                    <6> QED BY <1>1, <6>5, ToldOther
                <5> QED BY <5>1, <5>2
            <4> QED BY <4>2, <4>3
        <3> QED BY <3>1, <3>2, <3>3
    <2>11. ModemIsPaused'
        BY <2>10 DEF ModemIsPaused
    <2> QED BY <2>3, <2>4, <2>11 DEF PausedInStep
<1> QED BY <1>6, <1>7

\* A restart restores what the map says.  The map does not say it a second time.
LEMMA PausedStep == ASSUME Typed, Fresh, Unique, Slots, Order, Restarts, Paused, Step PROVE Paused'
<1> SUFFICES ASSUME Calm' PROVE PausedInStep'
    BY DEF Paused
<1>0. Without({"wrong"}) /\ Without({"restarts"}) /\ Ordered /\ PausedInStep
    BY MishapsGrow DEF Order, Paused, Without, Calm
<1>1. CASE \E m \in Inbound : (\E id \in Ids : Commands(m, id)) \/ Destroys(m) \/ Breaches(m) \/ ComesUp(m)
    BY <1>0, <1>1, PausedPosted
<1>2. CASE \E m \in Inbound : Sound(m) /\ m \in Messages /\ \E r : Handled(m, r)
    BY <1>0, <1>2, PausedHandled
<1>3. CASE \E n \in Outbound : \E m : Shifted(n, m) /\ (Returned(n, m) \/ Failed(n, m) \/ Performed(n, m))
    BY <1>0, <1>3, PausedShifted
<1>4. CASE Crashed
    <2>1. UNCHANGED <<inbox, calls, mGeofences, toldPaused>> /\ DOMAIN fences' = {}
          /\ mishaps' = mishaps \cup (IF crashes = 0 THEN {"restart"} ELSE {"restarts"})
        BY <1>4 DEF Crashed, adapter
    <2>2. "restart" \notin mishaps
        BY <2>1 DEF Calm, Without, Restarts
    <2>3. ~Some(inbox, Restores) /\ ~Some(calls, Restores) /\ MapIsPaused
        BY <1>0, <2>2 DEF PausedInStep, BeforeRestart, Untouched
    <2> QED BY <1>0, <2>1, <2>3 DEF PausedInStep, BeforeRestart, AddsUnpaused, ModemIsPaused, MapIsPaused, Some
<1>5. CASE Idle
    BY <1>0, <1>5 DEF Idle, adapter, PausedInStep, BeforeRestart, AddsUnpaused, ModemIsPaused, MapIsPaused, Some, Untouched, EndsResumed, NotTold, fences
<1> QED BY <1>1, <1>2, <1>3, <1>4, <1>5 DEF Step

\* When all is answered what was told paused is paused.
LEMMA PausedOnesStay ==
    ASSUME Typed, Paused
    PROVE  PausedStays
<1> SUFFICES ASSUME Quiet, Without({"wrong", "pause", "restarts"}), NEW hw \in DOMAIN fences, ~fences[hw].paused
             PROVE  fences[hw].key \notin toldPaused
    BY DEF PausedStays, fences
<1>1. Len(inbox) = 0 /\ inbox = <<>> /\ calls = <<>>
    BY DEF Quiet
<1>2. \A S : ~Some(inbox, S) /\ ~Some(calls, S)
    BY <1>1, SomeOfOne
<1> DEFINE key == fences[hw].key
<1>3. ModemIsPaused
    BY DEF Paused, PausedInStep, Calm, Without
<1>4. EndsResumed(key)
    BY <1>2, <1>3 DEF ModemIsPaused
<1> HIDE DEF key
<1>5. Ends(inbox, 0, Tells(key), TellsResumed(key), NotTold(key)) /\ NotTold(key) \in BOOLEAN
    BY <1>1, <1>4 DEF EndsResumed, NotTold
<1>6. NotTold(key)
    BY <1>5, EndsNow
<1> QED BY <1>6 DEF NotTold, key

-----------------------------------------------------------------------------
(* The requests a queue of messages stands for                             *)

\* The request a message was sent for.
Asked(m) == [kind |-> m.kind, session |-> m.session]

\* The messages of q that are in S asked, in their order, for what is at a + 1 .. b of u.
ListsBy(f, q, S, u, a, b) ==
    /\ \A i \in a + 1 .. b : f[i] \in 1 .. Len(q) /\ q[f[i]] \in S /\ u[i] = Asked(q[f[i]])
    /\ \A i, j \in a + 1 .. b : i < j => f[i] < f[j]
    /\ \A k \in 1 .. Len(q) : q[k] \in S => \E i \in a + 1 .. b : f[i] = k
Lists(q, S, u, a, b) == \E f : ListsBy(f, q, S, u, a, b)

\* None of none, and none of what is added at the end.
LEMMA ListsNone ==
    ASSUME NEW S, NEW u, NEW a \in Nat
    PROVE  Lists(<<>>, S, u, a, a)
<1>1. a + 1 .. a = {} /\ 1 .. Len(<<>>) = {}
    OBVIOUS
<1>2. ListsBy(<<>>, <<>>, S, u, a, a)
    BY <1>1 DEF ListsBy
<1> QED BY <1>2 DEF Lists

LEMMA ListsJoined ==
    ASSUME NEW M, NEW q \in Seq(M), NEW r \in Seq(M), NEW S, NEW u, NEW a \in Nat, NEW b \in Nat,
           \A i \in 1 .. Len(r) : r[i] \notin S
    PROVE  Lists(q, S, u, a, b) => Lists(q \o r, S, u, a, b)
<1> SUFFICES ASSUME NEW f, ListsBy(f, q, S, u, a, b) PROVE ListsBy(f, q \o r, S, u, a, b)
    BY DEF Lists
<1> DEFINE p == q \o r
           n == Len(q)
<1>1. /\ n \in Nat /\ Len(r) \in Nat /\ Len(p) = n + Len(r)
      /\ \A i \in 1 .. n : p[i] = q[i]
      /\ \A i \in n + 1 .. Len(p) : p[i] = r[i - n] /\ i - n \in 1 .. Len(r)
    OBVIOUS
<1>2. ListsBy(f, q, S, u, a, b)
    OBVIOUS
<1> HIDE DEF p
<1>3. \A i \in a + 1 .. b : f[i] \in 1 .. Len(p) /\ p[f[i]] \in S /\ u[i] = Asked(p[f[i]])
    <2> SUFFICES ASSUME NEW i \in a + 1 .. b PROVE f[i] \in 1 .. Len(p) /\ p[f[i]] \in S /\ u[i] = Asked(p[f[i]])
        OBVIOUS
    <2>1. f[i] \in 1 .. n /\ q[f[i]] \in S /\ u[i] = Asked(q[f[i]])
        BY <1>2 DEF ListsBy
    <2>2. f[i] \in 1 .. Len(p) /\ p[f[i]] = q[f[i]]
        BY <1>1, <2>1
    <2> QED BY <2>1, <2>2
<1>4. \A k \in 1 .. Len(p) : p[k] \in S => \E i \in a + 1 .. b : f[i] = k
    <2> SUFFICES ASSUME NEW k \in 1 .. Len(p), p[k] \in S PROVE \E i \in a + 1 .. b : f[i] = k
        OBVIOUS
    <2>1. k \in 1 .. n
        <3>1. k \in 1 .. n \/ k \in n + 1 .. Len(p)
            BY <1>1
        <3> QED BY <1>1, <3>1
    <2>2. q[k] \in S
        BY <1>1, <2>1
    <2> QED BY <1>2, <2>1, <2>2 DEF ListsBy
<1>5. \A i, j \in a + 1 .. b : i < j => f[i] < f[j]
    BY <1>2 DEF ListsBy
<1>6. ListsBy(f, p, S, u, a, b)
    BY <1>3, <1>4, <1>5 DEF ListsBy
<1> QED BY <1>6 DEF p

\* One more of S at the end asks for the next place.
LEMMA ListsOneMore ==
    ASSUME NEW M, NEW q \in Seq(M), NEW m \in M, NEW S, NEW u, NEW a \in Nat, NEW b \in Nat, a <= b,
           m \in S, u[b + 1] = Asked(m), Lists(q, S, u, a, b)
    PROVE  Lists(Append(q, m), S, u, a, b + 1)
<1> DEFINE p == Append(q, m)
           n == Len(q)
<1>1. n \in Nat /\ Len(p) = n + 1 /\ p[n + 1] = m /\ \A i \in 1 .. n : p[i] = q[i]
    OBVIOUS
<1>2. PICK f : ListsBy(f, q, S, u, a, b)
    BY DEF Lists
<1> HIDE DEF p
<1> DEFINE g == [i \in a + 1 .. b + 1 |-> IF i = b + 1 THEN n + 1 ELSE f[i]]
<1>3. /\ \A i \in a + 1 .. b : i \in a + 1 .. b + 1 /\ i < b + 1 /\ g[i] = f[i]
      /\ b + 1 \in a + 1 .. b + 1 /\ g[b + 1] = n + 1
      /\ \A i \in a + 1 .. b + 1 : i \in a + 1 .. b \/ i = b + 1
    OBVIOUS
<1> HIDE DEF g
<1>4. \A i \in a + 1 .. b : f[i] \in 1 .. n /\ q[f[i]] \in S /\ u[i] = Asked(q[f[i]])
    BY <1>2 DEF ListsBy
<1>5. \A i \in a + 1 .. b : g[i] \in 1 .. Len(p) /\ p[g[i]] \in S /\ u[i] = Asked(p[g[i]])
    <2> SUFFICES ASSUME NEW i \in a + 1 .. b PROVE g[i] \in 1 .. Len(p) /\ p[g[i]] \in S /\ u[i] = Asked(p[g[i]])
        OBVIOUS
    <2>1. g[i] = f[i] /\ f[i] \in 1 .. n
        BY <1>3, <1>4
    <2>2. p[g[i]] = q[f[i]] /\ g[i] \in 1 .. Len(p)
        BY <1>1, <2>1
    <2> QED BY <1>4, <2>2
<1>6. g[b + 1] \in 1 .. Len(p) /\ p[g[b + 1]] = m
    BY <1>1, <1>3
<1>7. \A i \in a + 1 .. b + 1 : g[i] \in 1 .. Len(p) /\ p[g[i]] \in S /\ u[i] = Asked(p[g[i]])
    BY <1>3, <1>5, <1>6
<1>8. ASSUME NEW i \in a + 1 .. b + 1, NEW j \in a + 1 .. b + 1, i < j PROVE g[i] < g[j]
    <2>1. i \in a + 1 .. b
        BY <1>8
    <2>2. CASE j \in a + 1 .. b
        BY <1>2, <1>3, <1>8, <2>1, <2>2 DEF ListsBy
    <2>3. CASE j = b + 1
        <3>1. g[i] = f[i] /\ f[i] \in 1 .. n
            BY <1>3, <1>4, <2>1
        <3> QED BY <1>1, <1>3, <2>3, <3>1
    <2> QED BY <1>3, <2>2, <2>3
<1>9. ASSUME NEW k \in 1 .. Len(p), p[k] \in S PROVE \E i \in a + 1 .. b + 1 : g[i] = k
    <2>1. CASE k = n + 1
        BY <1>3, <2>1
    <2>2. CASE k \in 1 .. n
        <3>1. q[k] \in S
            BY <1>1, <1>9, <2>2
        <3>2. PICK i \in a + 1 .. b : f[i] = k
            BY <1>2, <2>2, <3>1 DEF ListsBy
        <3> QED BY <1>3, <3>2
    <2> QED BY <1>1, <2>1, <2>2
<1>10. ListsBy(g, p, S, u, a, b + 1)
    BY <1>7, <1>8, <1>9 DEF ListsBy
<1> QED BY <1>10 DEF Lists, p

\* The head leaves: it was not listed, or it was the first.
LEMMA ListsOtherLeft ==
    ASSUME NEW M, NEW q \in Seq(M), q # <<>>, NEW S, NEW u, NEW a \in Nat, NEW b \in Nat,
           Head(q) \notin S, Lists(q, S, u, a, b)
    PROVE  Lists(Tail(q), S, u, a, b)
<1> DEFINE p == Tail(q)
           n == Len(q)
<1>1. n \in Nat \ {0} /\ Len(p) = n - 1 /\ (\A i \in 1 .. n - 1 : p[i] = q[i + 1]) /\ q[1] \notin S
    BY RestOfQueue
<1>2. PICK f : ListsBy(f, q, S, u, a, b)
    BY DEF Lists
<1> HIDE DEF p, n
<1> DEFINE g == [i \in a + 1 .. b |-> f[i] - 1]
<1>3. \A i \in a + 1 .. b : g[i] = f[i] - 1
    OBVIOUS
<1> HIDE DEF g
<1>4. \A i \in a + 1 .. b : f[i] \in 1 .. n /\ q[f[i]] \in S /\ u[i] = Asked(q[f[i]])
    BY <1>2 DEF ListsBy, n
<1>5. \A i \in a + 1 .. b : f[i] # 1 /\ g[i] \in 1 .. n - 1 /\ g[i] + 1 = f[i]
    BY <1>1, <1>3, <1>4
<1>6. \A i \in a + 1 .. b : g[i] \in 1 .. Len(p) /\ p[g[i]] \in S /\ u[i] = Asked(p[g[i]])
    <2> SUFFICES ASSUME NEW i \in a + 1 .. b PROVE g[i] \in 1 .. Len(p) /\ p[g[i]] = q[f[i]]
        BY <1>4
    <2> QED BY <1>1, <1>5
<1>7. ASSUME NEW i \in a + 1 .. b, NEW j \in a + 1 .. b, i < j PROVE g[i] < g[j]
    <2>1. f[i] < f[j]
        BY <1>2, <1>7 DEF ListsBy
    <2>2. f[i] \in Nat /\ f[j] \in Nat
        BY <1>1, <1>4
    <2> QED BY <1>3, <2>1, <2>2
<1>8. ASSUME NEW k \in 1 .. Len(p), p[k] \in S PROVE \E i \in a + 1 .. b : g[i] = k
    <2>1. k + 1 \in 1 .. n /\ q[k + 1] \in S
        BY <1>1, <1>8
    <2>2. PICK i \in a + 1 .. b : f[i] = k + 1
        BY <1>2, <2>1 DEF ListsBy, n
    <2> QED BY <1>3, <2>2
<1>9. ListsBy(g, p, S, u, a, b)
    BY <1>6, <1>7, <1>8 DEF ListsBy
<1> QED BY <1>9 DEF Lists, p

LEMMA ListsFirstLeft ==
    ASSUME NEW M, NEW q \in Seq(M), q # <<>>, NEW S, NEW u, NEW a \in Nat, NEW b \in Nat,
           Head(q) \in S, Lists(q, S, u, a, b)
    PROVE  a + 1 <= b /\ u[a + 1] = Asked(Head(q)) /\ Lists(Tail(q), S, u, a + 1, b)
<1> DEFINE p == Tail(q)
           n == Len(q)
           h == Head(q)
<1>1. n \in Nat \ {0} /\ Len(p) = n - 1 /\ (\A i \in 1 .. n - 1 : p[i] = q[i + 1]) /\ q[1] = h /\ h \in S
    BY RestOfQueue
<1>2. PICK f : ListsBy(f, q, S, u, a, b)
    BY DEF Lists
<1> HIDE DEF p, n, h
<1>3. PICK x \in a + 1 .. b : f[x] = 1
    BY <1>1, <1>2 DEF ListsBy, n
<1>4. \A i \in a + 1 .. b : f[i] \in 1 .. n /\ q[f[i]] \in S /\ u[i] = Asked(q[f[i]])
    BY <1>2 DEF ListsBy, n
<1>5. \A i, j \in a + 1 .. b : i < j => f[i] < f[j]
    BY <1>2 DEF ListsBy
<1>6. x = a + 1
    <2> SUFFICES ASSUME x # a + 1 PROVE FALSE
        OBVIOUS
    <2>1. a + 1 \in a + 1 .. b /\ a + 1 < x
        OBVIOUS
    <2>2. f[a + 1] < 1 /\ f[a + 1] \in 1 .. n
        BY <1>3, <1>4, <1>5, <2>1
    <2> QED BY <1>1, <2>2
<1>7. a + 1 \in a + 1 .. b /\ f[a + 1] = 1 /\ a + 1 <= b
    BY <1>3, <1>6
<1>8. u[a + 1] = Asked(h)
    BY <1>1, <1>4, <1>7
<1> DEFINE g == [i \in a + 2 .. b |-> f[i] - 1]
<1>9. \A i \in a + 2 .. b : g[i] = f[i] - 1 /\ i \in a + 1 .. b
    OBVIOUS
<1> HIDE DEF g
<1>10. \A i \in a + 2 .. b : f[i] \in 2 .. n /\ g[i] \in 1 .. n - 1 /\ g[i] + 1 = f[i]
    <2> SUFFICES ASSUME NEW i \in a + 2 .. b PROVE f[i] \in 2 .. n /\ g[i] \in 1 .. n - 1 /\ g[i] + 1 = f[i]
        OBVIOUS
    <2>1. i \in a + 1 .. b /\ a + 1 < i
        OBVIOUS
    <2>3. f[a + 1] < f[i]
        BY <1>5, <1>7, <2>1
    <2>4. f[i] \in 1 .. n
        BY <1>4, <2>1
    <2>5. g[i] = f[i] - 1
        BY <1>9
    <2>6. f[i] \in 2 .. n
        BY <1>1, <1>7, <2>3, <2>4
    <2> QED BY <1>1, <2>5, <2>6
<1>11. \A i \in a + 2 .. b : g[i] \in 1 .. Len(p) /\ p[g[i]] \in S /\ u[i] = Asked(p[g[i]])
    <2> SUFFICES ASSUME NEW i \in a + 2 .. b PROVE g[i] \in 1 .. Len(p) /\ p[g[i]] = q[f[i]]
        BY <1>4, <1>9
    <2> QED BY <1>1, <1>10
<1>12. ASSUME NEW i \in a + 2 .. b, NEW j \in a + 2 .. b, i < j PROVE g[i] < g[j]
    <2>1. f[i] < f[j]
        BY <1>5, <1>9, <1>12
    <2>2. f[i] \in Nat /\ f[j] \in Nat
        BY <1>1, <1>4, <1>9
    <2> QED BY <1>9, <2>1, <2>2
<1>13. ASSUME NEW k \in 1 .. Len(p), p[k] \in S PROVE \E i \in a + 2 .. b : g[i] = k
    <2>1. k + 1 \in 1 .. n /\ q[k + 1] \in S
        BY <1>1, <1>13
    <2>2. PICK i \in a + 1 .. b : f[i] = k + 1
        BY <1>2, <2>1 DEF ListsBy, n
    <2>3. i # a + 1
        BY <1>7, <2>2
    <2>4. i \in a + 2 .. b
        BY <2>3
    <2> QED BY <1>9, <2>2, <2>4
<1>14. (a + 1) + 1 = a + 2
    OBVIOUS
<1>15. ListsBy(g, p, S, u, a + 1, b)
    BY <1>11, <1>12, <1>13, <1>14 DEF ListsBy
<1> QED BY <1>7, <1>8, <1>15 DEF Lists, p, h

\* The same list in another sequence, at other places.
LEMMA ListsMoved ==
    ASSUME NEW q, NEW S, NEW u, NEW v, NEW a \in Nat, NEW b \in Nat, NEW d \in {0, 1}, d <= a,
           \A i \in a + 1 .. b : v[i - d] = u[i], Lists(q, S, u, a, b)
    PROVE  Lists(q, S, v, a - d, b - d)
<1>1. PICK f : ListsBy(f, q, S, u, a, b)
    BY DEF Lists
<1> DEFINE g == [i \in a - d + 1 .. b - d |-> f[i + d]]
<1>2. \A i \in a - d + 1 .. b - d : g[i] = f[i + d] /\ i + d \in a + 1 .. b /\ (i + d) - d = i
    OBVIOUS
<1>3. \A i \in a + 1 .. b : i - d \in a - d + 1 .. b - d /\ (i - d) + d = i
    OBVIOUS
<1> HIDE DEF g
<1>4. \A i \in a - d + 1 .. b - d : g[i] \in 1 .. Len(q) /\ q[g[i]] \in S /\ v[i] = Asked(q[g[i]])
    <2> SUFFICES ASSUME NEW i \in a - d + 1 .. b - d
                 PROVE  g[i] \in 1 .. Len(q) /\ q[g[i]] \in S /\ v[i] = Asked(q[g[i]])
        OBVIOUS
    <2>1. PICK k \in a + 1 .. b : k = i + d /\ k - d = i /\ g[i] = f[k]
        BY <1>2
    <2>2. v[i] = u[k]
        BY <2>1
    <2> QED BY <1>1, <2>1, <2>2 DEF ListsBy
<1>5. ASSUME NEW i \in a - d + 1 .. b - d, NEW j \in a - d + 1 .. b - d, i < j PROVE g[i] < g[j]
    <2>1. i + d < j + d
        BY <1>5
    <2> QED BY <1>1, <1>2, <2>1 DEF ListsBy
<1>6. ASSUME NEW k \in 1 .. Len(q), q[k] \in S PROVE \E i \in a - d + 1 .. b - d : g[i] = k
    <2>1. PICK i \in a + 1 .. b : f[i] = k
        BY <1>1, <1>6 DEF ListsBy
    <2>2. g[i - d] = k
        BY <1>2, <1>3, <2>1
    <2> QED BY <1>3, <2>2
<1> QED BY <1>4, <1>5, <1>6 DEF ListsBy, Lists

-----------------------------------------------------------------------------
(* Where the requests of a client are                                      *)

\* A call that is answered to the client that asked.
ForClient(m) ==
    /\ ~(m.kind = "add" /\ m.hw # NoHwId)
    /\ ~(m.kind = "remove" /\ m.paused)
    /\ ~(m.kind = "pause" /\ m.paused)
Answering(c) == {m \in Messages : m.type = "answer" /\ m.c = c}
CalledFor(c) == {m \in Messages : m.type = "call" /\ m.c = c /\ ForClient(m)}
Performing(c) == {m \in Messages : m.type = "perform" /\ m.c = c}
Returning(c) == {m \in Messages : m.type = "return" /\ m.c = c}
Commanded(c) == {m \in Messages : m.type = "command" /\ m.c = c}

\* The requests u of c, oldest first: those whose answers are in the inbox, those
\* the modem has still to serve, those to be performed, those on their way through
\* LocApi's thread, and those whose commands are in the inbox.
WaitsAt(in, out, u, c, n1, n2, n3, n4) ==
    /\ n1 <= n2 /\ n2 <= n3 /\ n3 <= n4 /\ n4 <= Len(u)
    /\ Lists(in, Answering(c), u, 0, n1)
    /\ Lists(out, CalledFor(c), u, n1, n2)
    /\ Lists(in, Performing(c), u, n2, n3)
    /\ Lists(out, Returning(c), u, n3, n4)
    /\ Lists(in, Commanded(c), u, n4, Len(u))
Waits(in, out, u, c) == \E n1, n2, n3, n4 \in Nat : WaitsAt(in, out, u, c, n1, n2, n3, n4)
InboxOf(c) == Answering(c) \cup Performing(c) \cup Commanded(c)
CallsOf(c) == CalledFor(c) \cup Returning(c)

\* A message is in one stage of its request.
LEMMA Stages ==
    ASSUME NEW c
    PROVE  /\ \A m \in Answering(c) : m \notin Performing(c) /\ m \notin Commanded(c)
           /\ \A m \in Performing(c) : m \notin Answering(c) /\ m \notin Commanded(c)
           /\ \A m \in Commanded(c) : m \notin Performing(c) /\ m \notin Answering(c)
           /\ \A m \in CalledFor(c) : m \notin Returning(c)
           /\ \A m \in Returning(c) : m \notin CalledFor(c)
BY DEF Answering, Performing, Commanded, CalledFor, Returning

\* The lists of an empty queue.
LEMMA WaitsInitially ==
    ASSUME NEW c
    PROVE  Waits(<<>>, <<>>, <<>>, c)
<1>1. 0 \in Nat /\ 0 <= 0 /\ Len(<<>>) = 0
    OBVIOUS
<1>2. \A S : Lists(<<>>, S, <<>>, 0, 0)
    BY <1>1, ListsNone
<1>3. WaitsAt(<<>>, <<>>, <<>>, c, 0, 0, 0, 0)
    BY <1>1, <1>2 DEF WaitsAt
<1> QED BY <1>1, <1>3 DEF Waits

LEMMA ListsAppended ==
    ASSUME NEW M, NEW q \in Seq(M), NEW m \in M, NEW S, m \notin S, NEW u, NEW a \in Nat, NEW b \in Nat,
           Lists(q, S, u, a, b)
    PROVE  Lists(Append(q, m), S, u, a, b)
<1>1. q \o <<m>> = Append(q, m) /\ <<m>> \in Seq(M) /\ \A i \in 1 .. Len(<<m>>) : <<m>>[i] \notin S
    OBVIOUS
<1> QED BY <1>1, ListsJoined

\* A list in a sequence that grows.
LEMMA ListsGrown ==
    ASSUME NEW q, NEW S, NEW R, NEW u \in Seq(R), NEW x \in R, NEW a \in Nat, NEW b \in Nat, b <= Len(u),
           Lists(q, S, u, a, b)
    PROVE  Lists(q, S, Append(u, x), a, b)
<1> DEFINE v == Append(u, x)
<1>1. \A i \in a + 1 .. b : i - 0 = i /\ i \in 1 .. Len(u)
    OBVIOUS
<1>2. \A i \in 1 .. Len(u) : v[i] = u[i]
    OBVIOUS
<1> HIDE DEF v
<1>3. \A i \in a + 1 .. b : v[i - 0] = u[i]
    BY <1>1, <1>2
<1>4. a - 0 = a /\ b - 0 = b /\ 0 <= a /\ 0 \in {0, 1}
    OBVIOUS
<1>5. Lists(q, S, v, a - 0, b - 0)
    BY <1>3, <1>4, ListsMoved
<1> QED BY <1>4, <1>5 DEF v

\* A list in the rest of a sequence.
LEMMA ListsShrunk ==
    ASSUME NEW q, NEW S, NEW R, NEW u \in Seq(R), u # <<>>, NEW a \in Nat, NEW b \in Nat, 1 <= a, b <= Len(u),
           Lists(q, S, u, a, b)
    PROVE  Lists(q, S, Tail(u), a - 1, b - 1)
<1> DEFINE v == Tail(u)
           n == Len(u)
<1>1. n \in Nat \ {0} /\ \A i \in 1 .. n - 1 : v[i] = u[i + 1]
    BY RestOfQueue
<1>0. b <= n
    OBVIOUS
<1> HIDE DEF v, n
<1>2. \A i \in a + 1 .. b : i - 1 \in 1 .. n - 1 /\ (i - 1) + 1 = i
    BY <1>0, <1>1
<1>3. \A i \in a + 1 .. b : v[i - 1] = u[i]
    BY <1>1, <1>2
<1>4. 1 \in {0, 1}
    OBVIOUS
<1> QED BY <1>3, <1>4, ListsMoved DEF v

\* A client asks: its command is the last stage of its last request.
LEMMA WaitsAsked ==
    ASSUME NEW c, NEW in \in Seq(Inbound), NEW out, NEW u \in Seq(Requests), NEW m \in Inbound, m \in Commanded(c),
           Asked(m) \in Requests, Waits(in, out, u, c)
    PROVE  Waits(Append(in, m), out, Append(u, Asked(m)), c)
<1> DEFINE v == Append(u, Asked(m))
           n == Len(u)
<1>1. PICK n1 \in Nat, n2 \in Nat, n3 \in Nat, n4 \in Nat : WaitsAt(in, out, u, c, n1, n2, n3, n4)
    BY DEF Waits
<1>2. n \in Nat /\ Len(v) = n + 1 /\ v[n + 1] = Asked(m)
    OBVIOUS
<1>3. n1 <= n2 /\ n2 <= n3 /\ n3 <= n4 /\ n4 <= n /\ n1 <= n /\ n2 <= n /\ n3 <= n
    BY <1>1, <1>2 DEF WaitsAt
<1>4. m \notin Answering(c) /\ m \notin Performing(c)
    BY Stages
<1>9. n = Len(u)
    OBVIOUS
<1> HIDE DEF n
<1>5. Lists(in, Answering(c), v, 0, n1) /\ Lists(in, Performing(c), v, n2, n3) /\ Lists(in, Commanded(c), v, n4, n)
    BY <1>1, <1>2, <1>3, <1>9, ListsGrown DEF WaitsAt
<1>6. Lists(out, CalledFor(c), v, n1, n2) /\ Lists(out, Returning(c), v, n3, n4)
    BY <1>1, <1>2, <1>3, <1>9, ListsGrown DEF WaitsAt
<1> HIDE DEF v
<1>7. Lists(Append(in, m), Answering(c), v, 0, n1) /\ Lists(Append(in, m), Performing(c), v, n2, n3)
    BY <1>4, <1>5, ListsAppended
<1>8. Lists(Append(in, m), Commanded(c), v, n4, n + 1)
    BY <1>2, <1>3, <1>5, ListsOneMore
<1>10. n4 <= n + 1
    BY <1>2, <1>3
<1>11. WaitsAt(Append(in, m), out, v, c, n1, n2, n3, n4)
    BY <1>2, <1>3, <1>6, <1>7, <1>8, <1>10 DEF WaitsAt
<1> QED BY <1>11 DEF Waits, v

\* Messages that are not of a request of c come and go.
LEMMA WaitsHandled ==
    ASSUME NEW c, NEW in \in Seq(Inbound), in # <<>>, NEW out \in Seq(Outbound), NEW r \in Seq(Outbound), NEW u \in Seq(Requests),
           Head(in) \notin InboxOf(c), \A i \in 1 .. Len(r) : r[i] \notin CallsOf(c), Waits(in, out, u, c)
    PROVE  Waits(Tail(in), out \o r, u, c)
<1>1. PICK n1 \in Nat, n2 \in Nat, n3 \in Nat, n4 \in Nat : WaitsAt(in, out, u, c, n1, n2, n3, n4)
    BY DEF Waits
<1>2. Len(u) \in Nat /\ Head(in) \notin Answering(c) /\ Head(in) \notin Performing(c) /\ Head(in) \notin Commanded(c)
    BY DEF InboxOf
<1>3. /\ Lists(Tail(in), Answering(c), u, 0, n1) /\ Lists(Tail(in), Performing(c), u, n2, n3)
      /\ Lists(Tail(in), Commanded(c), u, n4, Len(u))
    BY <1>1, <1>2, ListsOtherLeft DEF WaitsAt
<1>4. (\A i \in 1 .. Len(r) : r[i] \notin CalledFor(c)) /\ (\A i \in 1 .. Len(r) : r[i] \notin Returning(c))
    BY DEF CallsOf
<1>5. Lists(out \o r, CalledFor(c), u, n1, n2) /\ Lists(out \o r, Returning(c), u, n3, n4)
    BY <1>1, <1>4, ListsJoined DEF WaitsAt
<1>6. WaitsAt(Tail(in), out \o r, u, c, n1, n2, n3, n4)
    BY <1>1, <1>3, <1>5 DEF WaitsAt
<1> QED BY <1>6 DEF Waits

\* The same when a message is only posted, and when a call is answered.
LEMMA WaitsPosted ==
    ASSUME NEW c, NEW in \in Seq(Inbound), NEW m \in Inbound, NEW out, NEW u \in Seq(Requests),
           m \notin InboxOf(c), Waits(in, out, u, c)
    PROVE  Waits(Append(in, m), out, u, c)
<1>1. PICK n1 \in Nat, n2 \in Nat, n3 \in Nat, n4 \in Nat : WaitsAt(in, out, u, c, n1, n2, n3, n4)
    BY DEF Waits
<1>2. Len(u) \in Nat /\ m \notin Answering(c) /\ m \notin Performing(c) /\ m \notin Commanded(c)
    BY DEF InboxOf
<1>3. /\ Lists(Append(in, m), Answering(c), u, 0, n1) /\ Lists(Append(in, m), Performing(c), u, n2, n3)
      /\ Lists(Append(in, m), Commanded(c), u, n4, Len(u))
    BY <1>1, <1>2, ListsAppended DEF WaitsAt
<1>6. WaitsAt(Append(in, m), out, u, c, n1, n2, n3, n4)
    BY <1>1, <1>3 DEF WaitsAt
<1> QED BY <1>6 DEF Waits

LEMMA WaitsShifted ==
    ASSUME NEW c, NEW in \in Seq(Inbound), NEW m \in Inbound, NEW out \in Seq(Outbound), out # <<>>, NEW u \in Seq(Requests),
           m \notin InboxOf(c), Head(out) \notin CallsOf(c), Waits(in, out, u, c)
    PROVE  Waits(Append(in, m), Tail(out), u, c)
<1>0. Waits(Append(in, m), out, u, c)
    BY WaitsPosted
<1>1. PICK n1 \in Nat, n2 \in Nat, n3 \in Nat, n4 \in Nat : WaitsAt(Append(in, m), out, u, c, n1, n2, n3, n4)
    BY <1>0 DEF Waits
<1>2. Head(out) \notin CalledFor(c) /\ Head(out) \notin Returning(c)
    BY DEF CallsOf
<1>3. Lists(Tail(out), CalledFor(c), u, n1, n2) /\ Lists(Tail(out), Returning(c), u, n3, n4)
    BY <1>1, <1>2, ListsOtherLeft DEF WaitsAt
<1>6. WaitsAt(Append(in, m), Tail(out), u, c, n1, n2, n3, n4)
    BY <1>1, <1>3 DEF WaitsAt
<1> QED BY <1>6 DEF Waits

\* The first of a list goes to the end of the list before it.
LEMMA ListsPass ==
    ASSUME NEW M, NEW N, NEW p \in Seq(M), NEW q \in Seq(N), q # <<>>, NEW m \in M, NEW S, NEW T, NEW u,
           NEW a \in Nat, NEW b \in Nat, NEW d \in Nat, a <= b,
           m \in S, Head(q) \in T, Asked(m) = Asked(Head(q)), Lists(p, S, u, a, b), Lists(q, T, u, b, d)
    PROVE  Lists(Append(p, m), S, u, a, b + 1) /\ Lists(Tail(q), T, u, b + 1, d) /\ b + 1 <= d
<1>1. b + 1 <= d /\ u[b + 1] = Asked(Head(q)) /\ Lists(Tail(q), T, u, b + 1, d)
    BY ListsFirstLeft
<1>2. u[b + 1] = Asked(m)
    BY <1>1
<1>3. Lists(Append(p, m), S, u, a, b + 1)
    BY <1>2, ListsOneMore
<1> QED BY <1>1, <1>3

\* From one stage to the next, always the first.
LEMMA WaitsCommand ==
    ASSUME NEW c, NEW in \in Seq(Inbound), in # <<>>, NEW out \in Seq(Outbound), NEW m \in Outbound, NEW u \in Seq(Requests),
           Head(in) \in Commanded(c), m \in Returning(c), Asked(m) = Asked(Head(in)), Waits(in, out, u, c)
    PROVE  Waits(Tail(in), Append(out, m), u, c)
<1>1. PICK n1 \in Nat, n2 \in Nat, n3 \in Nat, n4 \in Nat : WaitsAt(in, out, u, c, n1, n2, n3, n4)
    BY DEF Waits
<1>2. /\ n1 <= n2 /\ n2 <= n3 /\ n3 <= n4 /\ n4 <= Len(u) /\ Len(u) \in Nat
      /\ Lists(in, Answering(c), u, 0, n1) /\ Lists(out, CalledFor(c), u, n1, n2)
      /\ Lists(in, Performing(c), u, n2, n3) /\ Lists(out, Returning(c), u, n3, n4)
      /\ Lists(in, Commanded(c), u, n4, Len(u))
    BY <1>1 DEF WaitsAt
<1>3. Head(in) \notin Answering(c) /\ Head(in) \notin Performing(c) /\ m \notin CalledFor(c)
    BY Stages
<1>4. Lists(Tail(in), Answering(c), u, 0, n1) /\ Lists(Tail(in), Performing(c), u, n2, n3)
    BY <1>2, <1>3, ListsOtherLeft
<1>5. Lists(Append(out, m), CalledFor(c), u, n1, n2)
    BY <1>2, <1>3, ListsAppended
<1>6. /\ Lists(Append(out, m), Returning(c), u, n3, n4 + 1) /\ Lists(Tail(in), Commanded(c), u, n4 + 1, Len(u))
      /\ n4 + 1 <= Len(u)
    BY <1>2, ListsPass
<1>7. n4 + 1 \in Nat /\ n3 <= n4 + 1
    BY <1>2
<1>8. WaitsAt(Tail(in), Append(out, m), u, c, n1, n2, n3, n4 + 1)
    BY <1>2, <1>4, <1>5, <1>6, <1>7 DEF WaitsAt
<1> QED BY <1>7, <1>8 DEF Waits

LEMMA WaitsReturn ==
    ASSUME NEW c, NEW in \in Seq(Inbound), NEW out \in Seq(Outbound), out # <<>>, NEW m \in Inbound, NEW u \in Seq(Requests),
           Head(out) \in Returning(c), m \in Performing(c), Asked(m) = Asked(Head(out)), Waits(in, out, u, c)
    PROVE  Waits(Append(in, m), Tail(out), u, c)
<1>1. PICK n1 \in Nat, n2 \in Nat, n3 \in Nat, n4 \in Nat : WaitsAt(in, out, u, c, n1, n2, n3, n4)
    BY DEF Waits
<1>2. /\ n1 <= n2 /\ n2 <= n3 /\ n3 <= n4 /\ n4 <= Len(u) /\ Len(u) \in Nat
      /\ Lists(in, Answering(c), u, 0, n1) /\ Lists(out, CalledFor(c), u, n1, n2)
      /\ Lists(in, Performing(c), u, n2, n3) /\ Lists(out, Returning(c), u, n3, n4)
      /\ Lists(in, Commanded(c), u, n4, Len(u))
    BY <1>1 DEF WaitsAt
<1>3. m \notin Answering(c) /\ m \notin Commanded(c) /\ Head(out) \notin CalledFor(c)
    BY Stages
<1>4. Lists(Append(in, m), Answering(c), u, 0, n1) /\ Lists(Append(in, m), Commanded(c), u, n4, Len(u))
    BY <1>2, <1>3, ListsAppended
<1>5. Lists(Tail(out), CalledFor(c), u, n1, n2)
    BY <1>2, <1>3, ListsOtherLeft
<1>6. /\ Lists(Append(in, m), Performing(c), u, n2, n3 + 1) /\ Lists(Tail(out), Returning(c), u, n3 + 1, n4)
      /\ n3 + 1 <= n4
    BY <1>2, ListsPass
<1>7. n3 + 1 \in Nat /\ n2 <= n3 + 1
    BY <1>2
<1>8. WaitsAt(Append(in, m), Tail(out), u, c, n1, n2, n3 + 1, n4)
    BY <1>2, <1>4, <1>5, <1>6, <1>7 DEF WaitsAt
<1> QED BY <1>7, <1>8 DEF Waits

LEMMA WaitsPerform ==
    ASSUME NEW c, NEW in \in Seq(Inbound), in # <<>>, NEW out \in Seq(Outbound), NEW m \in Outbound, NEW u \in Seq(Requests),
           Head(in) \in Performing(c), m \in CalledFor(c), Asked(m) = Asked(Head(in)), Waits(in, out, u, c)
    PROVE  Waits(Tail(in), Append(out, m), u, c)
<1>1. PICK n1 \in Nat, n2 \in Nat, n3 \in Nat, n4 \in Nat : WaitsAt(in, out, u, c, n1, n2, n3, n4)
    BY DEF Waits
<1>2. /\ n1 <= n2 /\ n2 <= n3 /\ n3 <= n4 /\ n4 <= Len(u) /\ Len(u) \in Nat
      /\ Lists(in, Answering(c), u, 0, n1) /\ Lists(out, CalledFor(c), u, n1, n2)
      /\ Lists(in, Performing(c), u, n2, n3) /\ Lists(out, Returning(c), u, n3, n4)
      /\ Lists(in, Commanded(c), u, n4, Len(u))
    BY <1>1 DEF WaitsAt
<1>3. Head(in) \notin Answering(c) /\ Head(in) \notin Commanded(c) /\ m \notin Returning(c)
    BY Stages
<1>4. Lists(Tail(in), Answering(c), u, 0, n1) /\ Lists(Tail(in), Commanded(c), u, n4, Len(u))
    BY <1>2, <1>3, ListsOtherLeft
<1>5. Lists(Append(out, m), Returning(c), u, n3, n4)
    BY <1>2, <1>3, ListsAppended
<1>6. /\ Lists(Append(out, m), CalledFor(c), u, n1, n2 + 1) /\ Lists(Tail(in), Performing(c), u, n2 + 1, n3)
      /\ n2 + 1 <= n3
    BY <1>2, ListsPass
<1>7. n2 + 1 \in Nat /\ n1 <= n2 + 1
    BY <1>2
<1>8. WaitsAt(Tail(in), Append(out, m), u, c, n1, n2 + 1, n3, n4)
    BY <1>2, <1>4, <1>5, <1>6, <1>7 DEF WaitsAt
<1> QED BY <1>7, <1>8 DEF Waits

LEMMA WaitsServed ==
    ASSUME NEW c, NEW in \in Seq(Inbound), NEW out \in Seq(Outbound), out # <<>>, NEW m \in Inbound, NEW u \in Seq(Requests),
           Head(out) \in CalledFor(c), m \in Answering(c), Asked(m) = Asked(Head(out)), Waits(in, out, u, c)
    PROVE  Waits(Append(in, m), Tail(out), u, c)
<1>1. PICK n1 \in Nat, n2 \in Nat, n3 \in Nat, n4 \in Nat : WaitsAt(in, out, u, c, n1, n2, n3, n4)
    BY DEF Waits
<1>2. /\ n1 <= n2 /\ n2 <= n3 /\ n3 <= n4 /\ n4 <= Len(u) /\ Len(u) \in Nat /\ 0 \in Nat /\ 0 <= n1
      /\ Lists(in, Answering(c), u, 0, n1) /\ Lists(out, CalledFor(c), u, n1, n2)
      /\ Lists(in, Performing(c), u, n2, n3) /\ Lists(out, Returning(c), u, n3, n4)
      /\ Lists(in, Commanded(c), u, n4, Len(u))
    BY <1>1 DEF WaitsAt
<1>3. m \notin Performing(c) /\ m \notin Commanded(c) /\ Head(out) \notin Returning(c)
    BY Stages
<1>4. Lists(Append(in, m), Performing(c), u, n2, n3) /\ Lists(Append(in, m), Commanded(c), u, n4, Len(u))
    BY <1>2, <1>3, ListsAppended
<1>5. Lists(Tail(out), Returning(c), u, n3, n4)
    BY <1>2, <1>3, ListsOtherLeft
<1>6. /\ Lists(Append(in, m), Answering(c), u, 0, n1 + 1) /\ Lists(Tail(out), CalledFor(c), u, n1 + 1, n2)
      /\ n1 + 1 <= n2
    BY <1>2, ListsPass
<1>7. n1 + 1 \in Nat
    BY <1>2
<1>8. WaitsAt(Append(in, m), Tail(out), u, c, n1 + 1, n2, n3, n4)
    BY <1>2, <1>4, <1>5, <1>6, <1>7 DEF WaitsAt
<1> QED BY <1>7, <1>8 DEF Waits

\* An answer is for the oldest request.
LEMMA WaitsAnswer ==
    ASSUME NEW c, NEW in \in Seq(Inbound), in # <<>>, NEW out \in Seq(Outbound), NEW u \in Seq(Requests),
           Head(in) \in Answering(c), Waits(in, out, u, c)
    PROVE  u # <<>> /\ Head(u) = Asked(Head(in)) /\ Waits(Tail(in), out, Tail(u), c)
<1>1. PICK n1 \in Nat, n2 \in Nat, n3 \in Nat, n4 \in Nat : WaitsAt(in, out, u, c, n1, n2, n3, n4)
    BY DEF Waits
<1>2. /\ n1 <= n2 /\ n2 <= n3 /\ n3 <= n4 /\ n4 <= Len(u) /\ Len(u) \in Nat /\ 0 \in Nat
      /\ Lists(in, Answering(c), u, 0, n1) /\ Lists(out, CalledFor(c), u, n1, n2)
      /\ Lists(in, Performing(c), u, n2, n3) /\ Lists(out, Returning(c), u, n3, n4)
      /\ Lists(in, Commanded(c), u, n4, Len(u))
    BY <1>1 DEF WaitsAt
<1>3. Head(in) \notin Performing(c) /\ Head(in) \notin Commanded(c)
    BY Stages
<1>4. Lists(Tail(in), Performing(c), u, n2, n3) /\ Lists(Tail(in), Commanded(c), u, n4, Len(u))
    BY <1>2, <1>3, ListsOtherLeft
<1>51. 0 + 1 <= n1 /\ u[0 + 1] = Asked(Head(in)) /\ Lists(Tail(in), Answering(c), u, 0 + 1, n1)
    BY <1>2, ListsFirstLeft
<1>50. 0 + 1 = 1
    OBVIOUS
<1>5. 1 <= n1 /\ u[1] = Asked(Head(in)) /\ Lists(Tail(in), Answering(c), u, 1, n1) /\ 1 \in Nat
    BY <1>50, <1>51
<1>6. u # <<>> /\ Len(Tail(u)) = Len(u) - 1
    <2>1. Len(u) # 0
        BY <1>2, <1>5
    <2> QED BY <2>1
<1>7. Head(u) = Asked(Head(in))
    BY <1>5, <1>6, RestOfQueue
<1>8. 1 <= n2 /\ 1 <= n3 /\ 1 <= n4 /\ n1 <= Len(u) /\ n2 <= Len(u) /\ n3 <= Len(u) /\ Len(u) <= Len(u) /\ 1 <= 1
    BY <1>2, <1>5
<1>9. /\ Lists(Tail(in), Answering(c), Tail(u), 1 - 1, n1 - 1) /\ Lists(out, CalledFor(c), Tail(u), n1 - 1, n2 - 1)
      /\ Lists(Tail(in), Performing(c), Tail(u), n2 - 1, n3 - 1) /\ Lists(out, Returning(c), Tail(u), n3 - 1, n4 - 1)
      /\ Lists(Tail(in), Commanded(c), Tail(u), n4 - 1, Len(u) - 1)
    BY <1>2, <1>4, <1>5, <1>6, <1>8, ListsShrunk
<1>10. /\ 1 - 1 = 0 /\ n1 - 1 \in Nat /\ n2 - 1 \in Nat /\ n3 - 1 \in Nat /\ n4 - 1 \in Nat
       /\ n1 - 1 <= n2 - 1 /\ n2 - 1 <= n3 - 1 /\ n3 - 1 <= n4 - 1 /\ n4 - 1 <= Len(u) - 1
    BY <1>2, <1>5, <1>8
<1>11. WaitsAt(Tail(in), out, Tail(u), c, n1 - 1, n2 - 1, n3 - 1, n4 - 1)
    BY <1>6, <1>9, <1>10 DEF WaitsAt
<1>12. Waits(Tail(in), out, Tail(u), c)
    BY <1>10, <1>11 DEF Waits
<1> QED BY <1>6, <1>7, <1>12

-----------------------------------------------------------------------------
(* An answer is heard by the request it is for                             *)

Unheard == {"unknown", "resume"}
FailedResumes == {m \in Messages : m.type = "answer" /\ m.kind = "resume" /\ ~m.ok}

\* A resume that failed is a mishap before it is answered.
FailuresAreNoted == Some(inbox, FailedResumes) => "resume" \in mishaps

\* But for requests that are answered out of turn or never, no answer was
\* misheard, and the requests of each client are where they wait.
Heard == Without(Unheard) => misheard = {} /\ \A c \in clients : Waits(inbox, calls, queue[c], c)

LEMMA HeardInitially == ASSUME Init PROVE FailuresAreNoted /\ Heard
<1>1. inbox = <<>> /\ calls = <<>> /\ misheard = {}
    BY DEF Init
<1>2. clients \in SUBSET Clients /\ \A c \in Clients : queue[c] = <<>>
    BY GeofenceAssumption DEF GeofenceAssumption, Init
<1>3. Len(<<>>) = 0 /\ 1 .. 0 = {}
    OBVIOUS
<1>4. ~Some(inbox, FailedResumes)
    BY <1>1, <1>3 DEF Some
<1>5. \A c \in clients : Waits(inbox, calls, queue[c], c)
    BY <1>1, <1>2, WaitsInitially
<1> QED BY <1>1, <1>4, <1>5 DEF FailuresAreNoted, Heard

\* The queues after a handler.
LEMMA HandledIs ==
    ASSUME NEW m, NEW r, Handled(m, r)
    PROVE  /\ inbox # <<>> /\ m = Head(inbox) /\ inbox' = Tail(inbox)
           /\ r \in Seq(Outbound) /\ SendStep(m, r) /\ calls' = calls \o r
           /\ clients' \in SUBSET clients /\ mishaps \in SUBSET mishaps'
<1>1. clients' = clients \/ clients' = clients \ {m.c}
    BY Zenon DEF Handled
<1>2. clients' \in SUBSET clients
    BY <1>1
<1>3. mishaps \in SUBSET mishaps'
    BY Zenon DEF Handled
<1> QED BY <1>2, <1>3, Zenon DEF Handled, SendStep

\* What a handler sends of itself is answered to no client.
LEMMA SentForNone ==
    ASSUME Typed, NEW c, NEW m \in Messages, Sound(m), NEW r \in Seq(Outbound), SendStep(m, r),
           m.type # "command", m.type # "perform"
    PROVE  \A i \in 1 .. Len(r) : r[i] \notin CallsOf(c)
<1>1. ASSUME NEW n, n.type = "call", ~ForClient(n) PROVE n \notin CallsOf(c)
    BY <1>1 DEF CallsOf, CalledFor, Returning
<1>3. CASE m.type = "restored" /\ m.ok /\ m.paused
    <2>1. r = <<PauseOf(m)>>
        BY <1>3 DEF SendStep
    <2>2. PauseOf(m).type = "call" /\ ~ForClient(PauseOf(m))
        BY DEF PauseOf, Message, ForClient
    <2>3. PauseOf(m) \notin CallsOf(c)
        BY <1>1, <2>2
    <2> HIDE DEF CallsOf
    <2>4. \A i \in 1 .. Len(r) : r[i] = PauseOf(m)
        BY <2>1
    <2> QED BY <2>3, <2>4
<1>4. CASE m.type = "engine up"
    <2> SUFFICES ASSUME NEW i \in 1 .. Len(r) PROVE r[i] \notin CallsOf(c)
        OBVIOUS
    <2>1. PICK hw \in DOMAIN mGeofences : r[i] = Again(hw)
        BY <1>4, Zenon DEF SendStep
    <2>2. hw # NoHwId
        BY Constants DEF Typed, MapsTyped
    <2>3. Again(hw).type = "call" /\ ~ForClient(Again(hw))
        BY <2>2 DEF Again, Message, ForClient
    <2> QED BY <1>1, <2>1, <2>3
<1>5. CASE m.type = "remove client"
    <2> SUFFICES ASSUME NEW i \in 1 .. Len(r) PROVE r[i] \notin CallsOf(c)
        OBVIOUS
    <2>1. PICK s \in SessionsOf(m.c) : r[i] = RemovalFor(m.c, s)
        BY <1>5, Zenon DEF SendStep
    <2>2. RemovalFor(m.c, s).type = "call" /\ ~ForClient(RemovalFor(m.c, s))
        BY DEF RemovalFor, Message, ForClient
    <2> QED BY <1>1, <2>1, <2>2
<1>6. CASE r = <<>>
    <2>1. 1 .. Len(<<>>) = {}
        OBVIOUS
    <2> QED BY <1>6, <2>1
<1> QED BY <1>3, <1>4, <1>5, <1>6, Zenon DEF SendStep

\* A message that is not of a request is handled.
LEMMA HeardOther ==
    ASSUME Typed, NEW c \in Clients, NEW r, Handled(Head(inbox), r), UNCHANGED queue,
           Head(inbox).type \notin {"command", "perform", "answer"}, Waits(inbox, calls, queue[c], c)
    PROVE  Waits(inbox, calls, queue[c], c)'
<1> DEFINE m == Head(inbox)
<1>1. /\ inbox # <<>> /\ inbox' = Tail(inbox) /\ r \in Seq(Outbound) /\ SendStep(m, r) /\ calls' = calls \o r
      /\ inbox \in Seq(Inbound) /\ calls \in Seq(Outbound) /\ queue[c] \in Seq(Requests)
    BY HandledIs DEF Typed, QueuesTyped, ClientsTyped
<1>2. m \in Messages /\ Sound(m)
    BY <1>1, RestOfQueue DEF Inbound
<1>3. m \notin InboxOf(c)
    BY DEF InboxOf, Answering, Performing, Commanded
<1>4. \A i \in 1 .. Len(r) : r[i] \notin CallsOf(c)
    BY <1>1, <1>2, SentForNone
<1>5. Waits(Tail(inbox), calls \o r, queue[c], c)
    BY <1>1, <1>3, <1>4, WaitsHandled
<1> QED BY <1>1, <1>5

\* A command is put through LocApi's thread.
LEMMA HeardCommand ==
    ASSUME Typed, NEW c \in Clients, Command, Waits(inbox, calls, queue[c], c)
    PROVE  Waits(inbox, calls, queue[c], c)'
<1> DEFINE m == Head(inbox)
           n == [m EXCEPT !.type = "return"]
<1>1. /\ inbox # <<>> /\ inbox' = Tail(inbox) /\ calls' = Append(calls, n) /\ queue' = queue /\ m.type = "command"
      /\ inbox \in Seq(Inbound) /\ calls \in Seq(Outbound) /\ queue[c] \in Seq(Requests)
    BY DEF Command, Received, Done, client, Typed, QueuesTyped, ClientsTyped
<1>2. m \in Messages /\ Sound(m)
    BY <1>1, RestOfQueue DEF Inbound
<1>3. n \in Outbound
    BY <1>1, <1>2 DEF Outbound, Messages, Sound, OfCommands, Types
<1>4. n \in Messages /\ n.type = "return" /\ n.c = m.c /\ Asked(n) = Asked(m)
    BY <1>2, <1>3 DEF Outbound, Messages, Asked
<1> HIDE DEF n
<1>5. CASE m.c = c
    <2>1. m \in Commanded(c) /\ n \in Returning(c)
        BY <1>1, <1>2, <1>4, <1>5 DEF Commanded, Returning
    <2>2. Waits(Tail(inbox), Append(calls, n), queue[c], c)
        BY <1>1, <1>3, <1>4, <2>1, WaitsCommand
    <2> QED BY <1>1, <2>2
<1>6. CASE m.c # c
    <2>1. m \notin InboxOf(c) /\ n \notin CallsOf(c)
        BY <1>4, <1>6 DEF InboxOf, CallsOf, Commanded, Returning, Performing, Answering, CalledFor
    <2>2. <<n>> \in Seq(Outbound) /\ calls \o <<n>> = Append(calls, n) /\ \A i \in 1 .. Len(<<n>>) : <<n>>[i] = n
        BY <1>1, <1>3
    <2>3. \A i \in 1 .. Len(<<n>>) : <<n>>[i] \notin CallsOf(c)
        BY <2>1, <2>2
    <2>4. Waits(Tail(inbox), calls \o <<n>>, queue[c], c)
        BY <1>1, <2>1, <2>2, <2>3, WaitsHandled
    <2> QED BY <1>1, <2>2, <2>4
<1> QED BY <1>5, <1>6

\* Without an unknown geofence nothing is answered out of turn.
LEMMA PerformIsKnown ==
    ASSUME Perform, Without(Unheard)'
    PROVE  Known(Head(inbox)) /\ UNCHANGED <<queue, misheard>>
<1>1. ~Known(Head(inbox)) => "unknown" \in mishaps'
    BY Zenon DEF Perform, Known, KeyOf, Mishap
<1>2. Known(Head(inbox))
    BY <1>1 DEF Without, Unheard
<1> QED BY <1>2 DEF Perform, Known, KeyOf

LEMMA HeardPerform ==
    ASSUME Typed, NEW c \in Clients, Perform, Without(Unheard)', Waits(inbox, calls, queue[c], c)
    PROVE  Waits(inbox, calls, queue[c], c)'
<1> DEFINE m == Head(inbox)
           n == CallOf(m)
<1>1. /\ inbox # <<>> /\ inbox' = Tail(inbox) /\ m.type = "perform"
      /\ inbox \in Seq(Inbound) /\ calls \in Seq(Outbound) /\ queue[c] \in Seq(Requests)
    BY DEF Perform, Received, Done, Typed, QueuesTyped, ClientsTyped
<1>2. m \in Messages /\ Sound(m)
    BY <1>1, RestOfQueue DEF Inbound
<1>7. Known(m)
    BY PerformIsKnown
<1>8. calls' = Append(calls, n) /\ UNCHANGED <<queue, misheard>>
    BY <1>7, PerformIsKnown DEF Perform, Known, CallOf, KeyOf
<1>3. n \in Outbound
    <2>1. m.kind = "add" \/ mGeofenceIds[KeyOf(m)] \in HwIds
        BY <1>7 DEF Known, Typed, MapsTyped
    <2> QED BY <1>1, <1>2, <2>1, Constants DEF CallOf, Outbound, Messages, Sound, OfCommands, Types
<1>9. n.type = "call" /\ n.c = m.c /\ Asked(n) = Asked(m) /\ ~n.paused /\ (n.kind = "add" => n.hw = NoHwId)
    BY <1>1, <1>2 DEF CallOf, Messages, Asked, Sound, OfCommands
<1>4. n \in Messages /\ ForClient(n)
    BY <1>3, <1>9 DEF Outbound, ForClient
<1> HIDE DEF n
<1>5. CASE m.c = c
    <2>1. m \in Performing(c) /\ n \in CalledFor(c)
        BY <1>1, <1>2, <1>4, <1>5, <1>9 DEF Performing, CalledFor
    <2>2. Waits(Tail(inbox), Append(calls, n), queue[c], c)
        BY <1>1, <1>3, <1>9, <2>1, WaitsPerform
    <2> QED BY <1>1, <1>8, <2>2
<1>6. CASE m.c # c
    <2>1. m \notin InboxOf(c) /\ n \notin CallsOf(c)
        BY <1>6, <1>9 DEF InboxOf, CallsOf, Commanded, Returning, Performing, Answering, CalledFor
    <2>2. <<n>> \in Seq(Outbound) /\ calls \o <<n>> = Append(calls, n) /\ \A i \in 1 .. Len(<<n>>) : <<n>>[i] = n
        BY <1>1, <1>3
    <2>3. \A i \in 1 .. Len(<<n>>) : <<n>>[i] \notin CallsOf(c)
        BY <2>1, <2>2
    <2>4. Waits(Tail(inbox), calls \o <<n>>, queue[c], c)
        BY <1>1, <2>1, <2>2, <2>3, WaitsHandled
    <2> QED BY <1>1, <1>8, <2>2, <2>4
<1> QED BY <1>5, <1>6

\* The client takes the answer for its oldest request, which it is for.
LEMMA HeardAnswer ==
    ASSUME Typed, FailuresAreNoted, Without(Unheard), mishaps' = mishaps, Answer, misheard = {},
           \A c \in clients : Waits(inbox, calls, queue[c], c)
    PROVE  misheard' = {} /\ \A c \in clients : Waits(inbox, calls, queue[c], c)'
<1> DEFINE m == Head(inbox)
           d == m.c
<1>1. /\ inbox # <<>> /\ inbox' = Tail(inbox) /\ m.type = "answer" /\ calls' = calls /\ Answered(m)
      /\ inbox \in Seq(Inbound) /\ calls \in Seq(Outbound) /\ queue \in [Clients -> Seq(Requests)]
      /\ clients \in SUBSET Clients
    BY DEF Answer, Received, Done, Typed, QueuesTyped, ClientsTyped
<1>2. m \in Messages /\ Sound(m)
    BY <1>1, RestOfQueue DEF Inbound
<1>3. m.kind # "resume" \/ m.ok
    <2> SUFFICES ASSUME m.kind = "resume", ~m.ok PROVE FALSE
        OBVIOUS
    <2>1. m \in FailedResumes
        BY <1>1, <1>2 DEF FailedResumes
    <2>2. Some(inbox, FailedResumes)
        BY <1>1, <2>1, RestOfQueue DEF Some
    <2> QED BY <2>2 DEF FailuresAreNoted, Without, Unheard
<1>4. Respond(d, m.kind, m.session)
    BY <1>1, <1>3 DEF Answered
<1>5. ASSUME NEW c \in clients, c # d PROVE Waits(Tail(inbox), calls, queue[c], c)
    <2>1. m \notin InboxOf(c)
        BY <1>5 DEF InboxOf, Commanded, Performing, Answering
    <2>2. <<>> \in Seq(Outbound) /\ calls \o <<>> = calls /\ \A i \in 1 .. Len(<<>>) : <<>>[i] \notin CallsOf(c)
        BY <1>1
    <2>3. queue[c] \in Seq(Requests) /\ Waits(inbox, calls, queue[c], c)
        BY <1>1
    <2>4. Waits(Tail(inbox), calls \o <<>>, queue[c], c)
        BY <1>1, <2>1, <2>2, <2>3, WaitsHandled
    <2> QED BY <2>2, <2>4
<1>6. CASE d \notin clients
    <2>1. queue' = queue /\ misheard' = misheard
        BY <1>4, <1>6 DEF Respond
    <2> QED BY <1>1, <1>5, <1>6, <2>1
<1>7. CASE d \in clients
    <2>1. m \in Answering(d) /\ d \in Clients /\ queue[d] \in Seq(Requests)
        BY <1>1, <1>2, <1>7 DEF Answering
    <2>2. Waits(inbox, calls, queue[d], d)
        BY <1>7
    <2> HIDE DEF d
    <2>3. queue[d] # <<>> /\ Head(queue[d]) = Asked(m) /\ Waits(Tail(inbox), calls, Tail(queue[d]), d)
        BY <1>1, <2>1, <2>2, WaitsAnswer
    <2>4. queue' = [queue EXCEPT ![d] = Tail(@)] /\ misheard' = misheard
        BY <1>4, <1>7, <2>3 DEF Respond, Asked
    <2>5. queue'[d] = Tail(queue[d]) /\ \A c \in clients : c # d => queue'[c] = queue[c]
        BY <1>1, <2>1, <2>4
    <2> QED BY <1>1, <1>5, <2>3, <2>4, <2>5
<1> QED BY <1>6, <1>7

\* A client asks.
LEMMA HeardCall ==
    ASSUME Typed, NEW d \in Clients, NEW kind \in Kinds, NEW session \in Sessions, Call(d, kind, session),
           UNCHANGED calls, NEW c \in Clients, Waits(inbox, calls, queue[c], c)
    PROVE  Waits(inbox, calls, queue[c], c)'
<1> DEFINE m == Message("command", kind, d, session)
<1>1. /\ inbox' = Append(inbox, m) /\ queue' = [queue EXCEPT ![d] = Append(@, [kind |-> kind, session |-> session])]
      /\ inbox \in Seq(Inbound) /\ queue \in [Clients -> Seq(Requests)]
    BY DEF Call, Typed, QueuesTyped, ClientsTyped
<1>2. m \in Inbound /\ m.type = "command" /\ m.c = d
    BY CommandMessage
<1>3. Asked(m) = [kind |-> kind, session |-> session] /\ Asked(m) \in Requests /\ m \in Messages
    BY <1>2, CommandMessage DEF Asked, Requests, Inbound
<1> HIDE DEF m
<1>4. CASE c = d
    <2>1. m \in Commanded(c)
        BY <1>2, <1>3, <1>4 DEF Commanded
    <2>2. Waits(Append(inbox, m), calls, Append(queue[c], Asked(m)), c)
        BY <1>1, <1>2, <1>3, <2>1, WaitsAsked
    <2>3. queue'[c] = Append(queue[c], Asked(m))
        BY <1>1, <1>3, <1>4
    <2> QED BY <1>1, <2>2, <2>3
<1>5. CASE c # d
    <2>1. m \notin InboxOf(c)
        BY <1>2, <1>5 DEF InboxOf, Commanded, Performing, Answering
    <2>2. queue'[c] = queue[c] /\ queue[c] \in Seq(Requests)
        BY <1>1, <1>5
    <2>3. Waits(Append(inbox, m), calls, queue[c], c)
        BY <1>1, <1>2, <2>1, <2>2, WaitsPosted
    <2> QED BY <1>1, <2>2, <2>3
<1> QED BY <1>4, <1>5

\* A message that is not of a request is posted.
LEMMA HeardPosted ==
    ASSUME Typed, NEW m \in Inbound, inbox' = Append(inbox, m), m.type \notin {"command", "perform", "answer"},
           UNCHANGED <<calls, queue>>, NEW c \in Clients, Waits(inbox, calls, queue[c], c)
    PROVE  Waits(inbox, calls, queue[c], c)'
<1>1. inbox \in Seq(Inbound) /\ queue[c] \in Seq(Requests)
    BY DEF Typed, QueuesTyped, ClientsTyped
<1>2. m \notin InboxOf(c)
    BY DEF InboxOf, Commanded, Performing, Answering
<1> QED BY <1>1, <1>2, WaitsPosted

\* Which calls are answered to a client.
LEMMA WhoseAnswer ==
    ASSUME NEW n
    PROVE  AnswerType(n) = "answer" <=> ForClient(n)
BY Zenon DEF AnswerType, ForClient

\* A call comes back from the thread or the modem.
LEMMA HeardShifted ==
    ASSUME Typed, NEW n \in Outbound, NEW m, Shifted(n, m), Returned(n, m) \/ Failed(n, m) \/ Performed(n, m),
           NEW c \in Clients, Waits(inbox, calls, queue[c], c)
    PROVE  Waits(inbox, calls, queue[c], c)'
<1>1. /\ calls # <<>> /\ n = Head(calls) /\ calls' = Tail(calls) /\ m \in Inbound /\ inbox' = Append(inbox, m) /\ queue' = queue
      /\ inbox \in Seq(Inbound) /\ calls \in Seq(Outbound) /\ queue[c] \in Seq(Requests)
    BY DEF Shifted, client, Typed, QueuesTyped, ClientsTyped
<1>2. n \in Messages /\ m \in Messages
    BY <1>1 DEF Outbound, Inbound
<1>3. CASE Returned(n, m)
    <2>1. n.type = "return" /\ m.type = "perform" /\ m.c = n.c /\ Asked(m) = Asked(n)
        BY <1>2, <1>3 DEF Returned, Messages, Asked
    <2>2. CASE n.c = c
        <3>1. n \in Returning(c) /\ m \in Performing(c)
            BY <1>2, <2>1, <2>2 DEF Returning, Performing
        <3> QED BY <1>1, <2>1, <3>1, WaitsReturn
    <2>3. CASE n.c # c
        <3>1. m \notin InboxOf(c) /\ n \notin CallsOf(c)
            BY <2>1, <2>3 DEF InboxOf, CallsOf, Commanded, Returning, Performing, Answering, CalledFor
        <3> QED BY <1>1, <3>1, WaitsShifted
    <2> QED BY <2>2, <2>3
<1>4. CASE Failed(n, m) \/ Performed(n, m)
    <2>1. PICK hw, ok : m = AnswerOf(n, hw, ok)
        BY <1>4 DEF Failed, Performed
    <2>2. n.type = "call"
        BY <1>4, Zenon DEF Failed, Performed
    <2>3. m.type = AnswerType(n) /\ m.c = n.c /\ Asked(m) = Asked(n)
        BY <1>2, <2>1 DEF AnswerOf, Messages, Asked
    <2>4. CASE n.c = c /\ ForClient(n)
        <3>1. m.type = "answer"
            BY <2>3, <2>4, WhoseAnswer
        <3>2. n \in CalledFor(c) /\ m \in Answering(c)
            BY <1>2, <2>2, <2>3, <2>4, <3>1 DEF CalledFor, Answering
        <3> QED BY <1>1, <2>3, <3>2, WaitsServed
    <2>5. CASE n.c # c
        <3>1. m.type # "perform" /\ m.type # "command"
            BY <2>3, Zenon DEF AnswerType
        <3>2. m \notin InboxOf(c) /\ n \notin CallsOf(c)
            BY <2>3, <2>5 DEF InboxOf, CallsOf, Commanded, Returning, Performing, Answering, CalledFor
        <3> QED BY <1>1, <3>2, WaitsShifted
    <2>6. CASE ~ForClient(n)
        <3>1. m.type # "perform" /\ m.type # "command"
            BY <2>3, Zenon DEF AnswerType
        <3>3. m.type # "answer"
            BY <2>3, <2>6, WhoseAnswer
        <3>2. m \notin InboxOf(c) /\ n \notin CallsOf(c)
            BY <2>2, <2>6, <3>1, <3>3 DEF InboxOf, CallsOf, Commanded, Returning, Performing, Answering, CalledFor
        <3> QED BY <1>1, <3>2, WaitsShifted
    <2> QED BY <2>4, <2>5, <2>6
<1> QED BY <1>3, <1>4

LEMMA FailuresStep == ASSUME Typed, FailuresAreNoted, Step PROVE FailuresAreNoted'
<1>0. inbox \in Seq(Inbound) /\ mishaps \in SUBSET mishaps'
    BY MishapsGrow DEF Typed, QueuesTyped
<1>1. ASSUME NEW m \in Inbound, inbox' = Append(inbox, m), m \in FailedResumes => "resume" \in mishaps' PROVE FailuresAreNoted'
    BY <1>0, <1>1, SomeAppended DEF FailuresAreNoted
<1>2. CASE \E m \in Inbound : (\E id \in Ids : Commands(m, id)) \/ Destroys(m) \/ Breaches(m) \/ ComesUp(m)
    <2>1. PICK m \in Inbound : (\E id \in Ids : Commands(m, id)) \/ Destroys(m) \/ Breaches(m) \/ ComesUp(m)
        BY <1>2
    <2>2. inbox' = Append(inbox, m) /\ m.type # "answer"
        BY <2>1, Zenon DEF Commands, Destroys, Breaches, ComesUp, Posted
    <2>3. m \notin FailedResumes
        BY <2>2 DEF FailedResumes
    <2> QED BY <1>1, <2>2, <2>3
<1>3. CASE \E m \in Inbound : Sound(m) /\ m \in Messages /\ \E r : Handled(m, r)
    <2>1. inbox # <<>> /\ inbox' = Tail(inbox)
        BY <1>3, HandledIs
    <2>2. Some(inbox', FailedResumes) => Some(inbox, FailedResumes)
        BY <1>0, <2>1, SomeInRest
    <2> QED BY <1>0, <2>2 DEF FailuresAreNoted
<1>4. CASE \E n \in Outbound : \E m : Shifted(n, m) /\ (Returned(n, m) \/ Failed(n, m) \/ Performed(n, m))
    <2>1. PICK n \in Outbound, m \in Inbound : Shifted(n, m) /\ (Returned(n, m) \/ Failed(n, m) \/ Performed(n, m))
        BY <1>4 DEF Shifted
    <2>2. m \in Inbound /\ inbox' = Append(inbox, m) /\ n \in Messages
        BY <2>1 DEF Shifted, Outbound
    <2>3. CASE Returned(n, m)
        <3>1. m.type = "perform"
            BY <2>2, <2>3 DEF Returned, Messages
        <3>2. m \notin FailedResumes
            BY <3>1 DEF FailedResumes
        <3> QED BY <1>1, <2>2, <3>2
    <2>4. CASE Failed(n, m)
        <3>1. m.kind = n.kind /\ n.kind \in mishaps'
            BY <2>2, <2>4 DEF Failed, AnswerOf, Messages
        <3>2. m \in FailedResumes => "resume" \in mishaps'
            BY <3>1 DEF FailedResumes
        <3> QED BY <1>1, <2>2, <3>2
    <2>5. CASE Performed(n, m)
        <3>1. m.ok
            BY <2>2, <2>5, AnswerIs
        <3>2. m \notin FailedResumes
            BY <3>1 DEF FailedResumes
        <3> QED BY <1>1, <2>2, <3>2
    <2> QED BY <2>1, <2>3, <2>4, <2>5
<1>5. CASE Crashed \/ Idle
    <2>1. inbox' = inbox
        BY <1>5, Zenon DEF Crashed, Idle
    <2> QED BY <1>0, <2>1 DEF FailuresAreNoted
<1> QED BY <1>2, <1>3, <1>4, <1>5 DEF Step

\* Every step keeps it.
LEMMA HeardStep == ASSUME Typed, FailuresAreNoted, Heard, [Next]_vars PROVE Heard'
<1> SUFFICES ASSUME Without(Unheard)' PROVE misheard' = {} /\ \A c \in clients' : Waits(inbox, calls, queue[c], c)'
    BY DEF Heard
<1>0. Without(Unheard) /\ misheard = {} /\ (\A c \in clients : Waits(inbox, calls, queue[c], c)) /\ clients \in SUBSET Clients
    <2>1. Step
        BY NextIsStep
    <2>2. mishaps \in SUBSET mishaps'
        BY <2>1, MishapsGrow
    <2> QED BY <2>2 DEF Heard, Without, Typed, ClientsTyped
<1>9. ASSUME clients' \in SUBSET clients, misheard' = misheard, \A c \in clients : Waits(inbox, calls, queue[c], c)'
      PROVE  misheard' = {} /\ \A c \in clients' : Waits(inbox, calls, queue[c], c)'
    BY <1>0, <1>9
<1>1. ASSUME NEW c \in Clients, NEW id \in Ids,
             locAPIAddGeofences(c, id) \/ locAPIRemoveGeofences(c, id) \/ locAPIChangeGeofences(c, id)
      PROVE  misheard' = {} /\ \A d \in clients' : Waits(inbox, calls, queue[d], d)'
    <2>1. UNCHANGED <<clients, calls, misheard>>
        BY <1>1 DEF locAPIAddGeofences, locAPIRemoveGeofences, locAPIChangeGeofences, adapter, history
    <2>2. \E kind \in Kinds, session \in Sessions : Call(c, kind, session)
        <3>1. CASE locAPIAddGeofences(c, id)
            <4>1. next \in Sessions /\ "add" \in Kinds
                BY <3>1, Constants DEF locAPIAddGeofences, Typed, ClientsTyped, Sessions, Kinds
            <4> QED BY <3>1, <4>1 DEF locAPIAddGeofences
        <3>2. CASE locAPIRemoveGeofences(c, id)
            <4>1. dict[c][id] \in Sessions /\ "remove" \in Kinds
                BY <3>2, NamedSession DEF locAPIRemoveGeofences, Kinds
            <4> QED BY <3>2, <4>1 DEF locAPIRemoveGeofences
        <3>3. CASE locAPIChangeGeofences(c, id)
            <4>1. dict[c][id] \in Sessions /\ {"pause", "resume", "modify"} \subseteq Kinds
                BY <3>3, NamedSession DEF locAPIChangeGeofences, Kinds
            <4> QED BY <3>3, <4>1 DEF locAPIChangeGeofences
        <3> QED BY <1>1, <3>1, <3>2, <3>3
    <2>3. \A d \in clients : Waits(inbox, calls, queue[d], d)'
        BY <1>0, <2>1, <2>2, HeardCall
    <2> QED BY <1>9, <2>1, <2>3
<1>2. ASSUME NEW m \in Inbound, inbox' = Append(inbox, m), m.type \notin {"command", "perform", "answer"},
             UNCHANGED <<calls, queue, clients, misheard>>
      PROVE  misheard' = {} /\ \A c \in clients' : Waits(inbox, calls, queue[c], c)'
    <2>1. \A c \in clients : Waits(inbox, calls, queue[c], c)'
        BY <1>0, <1>2, HeardPosted
    <2> QED BY <1>9, <1>2, <2>1
<1>3. ASSUME NEW c \in Clients, Destroy(c)
      PROVE  misheard' = {} /\ \A d \in clients' : Waits(inbox, calls, queue[d], d)'
    <2>1. PICK m \in Inbound : Destroys(m)
        BY <1>3, DestroyPosts
    <2>2. inbox' = Append(inbox, m) /\ m.type \notin {"command", "perform", "answer"}
        BY <2>1, Zenon DEF Destroys, Posted
    <2>3. UNCHANGED <<calls, queue, clients, misheard>>
        BY <1>3 DEF Destroy, client, adapter, history
    <2> QED BY <1>2, <2>2, <2>3
<1>4. ASSUME NEW hw \in HwIds, Breach(hw)
      PROVE  misheard' = {} /\ \A d \in clients' : Waits(inbox, calls, queue[d], d)'
    <2>1. PICK m \in Inbound : Breaches(m)
        BY <1>4, BreachPosts
    <2>2. inbox' = Append(inbox, m) /\ m.type \notin {"command", "perform", "answer"}
        BY <2>1 DEF Breaches, Posted
    <2>3. UNCHANGED <<calls, queue, clients, misheard>>
        BY <1>4 DEF Breach, client, adapter, history
    <2> QED BY <1>2, <2>2, <2>3
<1>5. ASSUME EngineUp
      PROVE  misheard' = {} /\ \A d \in clients' : Waits(inbox, calls, queue[d], d)'
    <2>1. PICK m \in Inbound : ComesUp(m)
        BY <1>5, EngineUpPosts
    <2>2. inbox' = Append(inbox, m) /\ m.type \notin {"command", "perform", "answer"}
        BY <2>1, Zenon DEF ComesUp, Posted
    <2>3. UNCHANGED <<calls, queue, clients, misheard>>
        BY <1>5 DEF EngineUp, client, adapter, history
    <2> QED BY <1>2, <2>2, <2>3
<1>6. CASE Command
    <2>1. UNCHANGED <<clients, misheard>>
        BY <1>6 DEF Command, adapter, history
    <2>2. \A c \in clients : Waits(inbox, calls, queue[c], c)'
        BY <1>0, <1>6, HeardCommand
    <2> QED BY <1>9, <2>1, <2>2
<1>7. CASE Perform
    <2>1. clients' = clients
        BY <1>7 DEF Perform, adapter
    <2>2. \A c \in clients : Waits(inbox, calls, queue[c], c)'
        BY <1>0, <1>7, HeardPerform
    <2>3. misheard' = misheard
        BY <1>7, PerformIsKnown
    <2> QED BY <1>0, <2>1, <2>2, <2>3
<1>8. CASE Answer
    <2>1. mishaps' = mishaps /\ clients' = clients
        BY <1>8 DEF Answer
    <2> QED BY <1>0, <1>8, <2>1, HeardAnswer
<1>10. CASE RemoveClient \/ ClientFenceRemoved \/ HandleEngineUp \/ Restored \/ PausedAgain \/ GeofenceBreach
    <2>1. PICK r : Handled(Head(inbox), r)
        BY <1>10, RemoveClientHandled, ClientFenceRemovedHandled, EngineUpHandled, RestoredHandled, PausedAgainHandled, BreachHandled
    <2>2. UNCHANGED <<queue, misheard>>
        BY <1>10 DEF RemoveClient, ClientFenceRemoved, HandleEngineUp, Restored, PausedAgain, GeofenceBreach, client, history
    <2>3. Head(inbox).type \notin {"command", "perform", "answer"}
        BY <1>10, Zenon DEF RemoveClient, ClientFenceRemoved, HandleEngineUp, Restored, PausedAgain, GeofenceBreach, Received
    <2>4. clients' \in SUBSET clients
        BY <2>1, HandledIs
    <2>5. \A c \in clients : Waits(inbox, calls, queue[c], c)'
        BY <1>0, <2>1, <2>2, <2>3, HeardOther
    <2> QED BY <1>9, <2>2, <2>4, <2>5
<1>11. CASE Api
    <2>1. UNCHANGED <<clients, misheard>>
        BY <1>11 DEF Api, ApiReturns, ModemFails, ModemServes, adapter, history
    <2>2. PICK n \in Outbound, m \in Inbound : Shifted(n, m) /\ (Returned(n, m) \/ Failed(n, m) \/ Performed(n, m))
        BY <1>11, ReturnsShift, FailsShift, ServesShift DEF Api, Shifted
    <2>3. \A c \in clients : Waits(inbox, calls, queue[c], c)'
        BY <1>0, <2>2, HeardShifted
    <2> QED BY <1>9, <2>1, <2>3
<1>12. CASE Crash \/ UNCHANGED vars
    <2>1. UNCHANGED <<inbox, calls, queue, clients, misheard>>
        BY <1>12 DEF Crash, vars, client, adapter, history
    <2> QED BY <1>0, <2>1
<1> QED BY <1>1, <1>3, <1>4, <1>5, <1>6, <1>7, <1>8, <1>10, <1>11, <1>12 DEF Next, Handle

-----------------------------------------------------------------------------
(* A breach is told to the client it is for; the theorems                  *)

\* The second part of RightCallback.
BreachIsRight == breached.told \subseteq {breached.of}

\* A breach comes when the map has its geofence at its hwId (Slots).
LEMMA BreachStep == ASSUME Typed, Slots, BreachIsRight, [Next]_vars PROVE BreachIsRight'
<1>1. CASE GeofenceBreach
    <2> DEFINE m == Head(inbox)
    <2>1. m \in Messages /\ m.type = "breach" /\ inbox # <<>> /\ inbox \in Seq(Inbound)
        BY <1>1, FirstMessage DEF GeofenceBreach, Typed, QueuesTyped
    <2>2. m \in BreachMessages /\ inbox[1] = m /\ 1 \in 1 .. Len(inbox)
        BY <2>1, RestOfQueue DEF BreachMessages
    <2>3. Holds(1 - 1, m.hw, KeyOf(m))
        BY <2>2 DEF Slots, OfMap
    <2>0. 1 - 1 = 0
        OBVIOUS
    <2>4. Holds(0, m.hw, KeyOf(m))
        BY <2>0, <2>3
    <2>5. KeyAt(m.hw, KeyOf(m)) \in BOOLEAN
        BY DEF KeyAt
    <2>6. KeyAt(m.hw, KeyOf(m))
        BY <2>4, <2>5, EndsNow DEF Holds
    <2>7. breached' = [of |-> KeyOf(m), told |-> Addressed(m.hw)]
        BY <1>1 DEF GeofenceBreach, KeyOf
    <2> QED BY <2>6, <2>7 DEF BreachIsRight, Addressed, KeyAt
<1>2. CASE \E c \in Clients, id \in Ids :
             locAPIAddGeofences(c, id) \/ locAPIRemoveGeofences(c, id) \/ locAPIChangeGeofences(c, id)
    BY <1>2 DEF locAPIAddGeofences, locAPIRemoveGeofences, locAPIChangeGeofences, history, BreachIsRight
<1>3. CASE (\E c \in Clients : Destroy(c)) \/ (\E hw \in HwIds : Breach(hw)) \/ EngineUp \/ Crash \/ UNCHANGED vars
    BY <1>3 DEF Destroy, Breach, EngineUp, Crash, vars, history, BreachIsRight
<1>4. CASE Command \/ Perform \/ Answer \/ RemoveClient \/ ClientFenceRemoved
    BY <1>4 DEF Command, Perform, Answer, RemoveClient, ClientFenceRemoved, history, BreachIsRight
<1>5. CASE HandleEngineUp \/ Restored \/ PausedAgain
    BY <1>5 DEF HandleEngineUp, Restored, PausedAgain, history, BreachIsRight
<1>6. CASE Api
    BY <1>6 DEF Api, ApiReturns, ModemFails, ModemServes, history, BreachIsRight
<1> QED BY <1>1, <1>2, <1>3, <1>4, <1>5, <1>6 DEF Next, Handle

\* The maps agree when they are in order.
LEMMA MapsAreInStep ==
    ASSUME Typed, Order
    PROVE  MapsAgree
<1>1. ASSUME Without({"wrong"}), NEW key \in DOMAIN mGeofenceIds
      PROVE  mGeofenceIds[key] \in DOMAIN mGeofences /\ mGeofences[mGeofenceIds[key]].key = key
    BY <1>1 DEF Order, Ordered, IdsAgree, KeyAt
<1>2. ASSUME Without({"wrong"}), NEW hw \in DOMAIN mGeofences
      PROVE  mGeofences[hw].key[1] \in clients => mGeofences[hw].key \in DOMAIN mGeofenceIds
    BY <1>2 DEF Order, Ordered, MapAgrees
<1> QED BY <1>1, <1>2 DEF MapsAgree

\* The inductive invariant.
InStep ==
    /\ Typed /\ Fresh /\ Unique /\ Slots /\ Order
    /\ Stale /\ OptionsAreHeard /\ Owned /\ Restarts /\ Paused
    /\ FailuresAreNoted /\ Heard /\ BreachIsRight

LEMMA InStepInitially == ASSUME Init PROVE InStep
<1>1. BreachIsRight
    BY DEF Init, BreachIsRight
<1> QED BY <1>1, TypedInitially, FreshInitially, UniqueInitially, SlotsInitially, OrderInitially, StaleInitially,
           OptionsInitially, OwnedInitially, RestartsInitially, PausedInitially, HeardInitially DEF InStep

\* Each part is kept by a step from the parts before it.
LEMMA InStepStays == ASSUME InStep, [Next]_vars PROVE InStep'
<1>1. Step /\ Typed'
    BY NextIsStep, TypedStep DEF InStep
<1>2. Fresh' /\ Unique' /\ Slots' /\ Order'
    BY <1>1, FreshStep, UniqueStep, SlotsStep, OrderStep DEF InStep
<1>3. Stale' /\ OptionsAreHeard' /\ Owned' /\ Restarts' /\ Paused'
    BY <1>1, StaleStep, OptionsStep, OwnedStep, RestartsStep, PausedStep DEF InStep
<1>4. FailuresAreNoted' /\ Heard' /\ BreachIsRight'
    BY <1>1, FailuresStep, HeardStep, BreachStep DEF InStep
<1> QED BY <1>1, <1>2, <1>3, <1>4 DEF InStep

\* The invariant holds in every behaviour.
THEOREM InStepAlways == Spec => []InStep
BY InStepInitially, InStepStays, PTL DEF Spec

\* MapsInStep, whatever the clients, geofences, refusals, restarts and breaches, and
\* in whatever order the messages are handled and the calls answered.  The maps
\* agree and, once all is answered, the modem monitors the geofences of the map with
\* their options and no other, until a call hits the geofence of another client; a
\* geofence of which the modem failed a removal may stay in the map.  What a client
\* was told is paused is paused, unless a pause failed or the modem restarted twice.
THEOREM MapsStayInStep == Spec => []MapsInStep
<1>1. ASSUME InStep PROVE MapsInStep
    BY <1>1, TypedIsOK, MapsAreInStep, MapIsServed, PausedOnesStay DEF InStep, MapsInStep
<1> QED BY <1>1, InStepAlways, PTL

\* Once all is answered, a geofence that is monitored although its client cannot name
\* it, or is gone, is one of which the removal, or that of the client, was handled
\* while it was being added, or of which the modem failed a removal; until a call hits
\* the geofence of another client.  Restarts, and clients that leave, are included.
THEOREM NoneIsLeft == Spec => []NoOrphan
<1>1. ASSUME InStep PROVE NoOrphan
    BY <1>1, NoneIsOrphan DEF InStep
<1> QED BY <1>1, InStepAlways, PTL

\* A client never takes an answer for that of another request, though its queue
\* has no ids, unless a geofence was unknown, which is answered out of turn, or a
\* resume failed, which is not answered; and a breach is told to the client whose
\* geofence the modem meant, or to nobody, with no exception.
THEOREM AnswersAreHeard == Spec => []RightCallback
<1>1. ASSUME InStep PROVE RightCallback
    BY <1>1 DEF InStep, Heard, Unheard, BreachIsRight, RightCallback
<1> QED BY <1>1, InStepAlways, PTL
=============================================================================
