------------------------ MODULE ModemRequests_proofs ------------------------
(***************************************************************************)
(* Proofs about ModemRequests, for any number of requests, any restarts of *)
(* the modem and any configuration: type correctness, that ODCPI follows   *)
(* the modem, and that NI requests get the answers of the user.            *)
(***************************************************************************)
EXTENDS ModemRequests, SequenceTheorems, TLAPS

-----------------------------------------------------------------------------
(* The message queue *)

Holds(q, m) == \E i \in 1 .. Len(q) : q[i] = m
NoOdcpi(q) == \A i \in 1 .. Len(q) : q[i].type # "odcpi"
\* m is the last ODCPI request in q
IsLast(q, m) ==
    \E i \in 1 .. Len(q) :
        /\ q[i] = m /\ m.type = "odcpi"
        /\ \A j \in i + 1 .. Len(q) : q[j].type # "odcpi"

\* a message sent comes last
LEMMA Sent ==
    ASSUME NEW q \in Seq(Messages), NEW x \in Messages
    PROVE  /\ Append(q, x) \in Seq(Messages)
           /\ \A m : Holds(Append(q, x), m) <=> Holds(q, m) \/ m = x
           /\ x.type # "odcpi" =>
                /\ NoOdcpi(Append(q, x)) <=> NoOdcpi(q)
                /\ \A m : IsLast(Append(q, x), m) <=> IsLast(q, m)
           /\ x.type = "odcpi" =>
                /\ ~NoOdcpi(Append(q, x))
                /\ \A m : IsLast(Append(q, x), m) <=> m = x
<1>. DEFINE r == Append(q, x)
<1>1. /\ r \in Seq(Messages) /\ Len(r) = Len(q) + 1 /\ r[Len(q) + 1] = x
      /\ Len(q) \in Nat
      /\ \A i \in 1 .. Len(q) : r[i] = q[i]
  BY AppendProperties
<1>. HIDE DEF r
<1>2. \A m : Holds(r, m) <=> Holds(q, m) \/ m = x
  BY <1>1 DEF Holds
<1>3. ASSUME x.type # "odcpi"
      PROVE  /\ NoOdcpi(r) <=> NoOdcpi(q)
             /\ \A m : IsLast(r, m) <=> IsLast(q, m)
  <2>1. NoOdcpi(r) <=> NoOdcpi(q)
    BY <1>1, <1>3 DEF NoOdcpi
  <2>2. ASSUME NEW m, IsLast(r, m) PROVE IsLast(q, m)
    <3>1. PICK i \in 1 .. Len(r) : /\ r[i] = m /\ m.type = "odcpi"
                                   /\ \A j \in i + 1 .. Len(r) : r[j].type # "odcpi"
      BY <2>2 DEF IsLast
    <3>2. i \in 1 .. Len(q)
      BY <1>1, <1>3, <3>1
    <3>3. \A j \in i + 1 .. Len(q) : j \in i + 1 .. Len(r) /\ r[j] = q[j]
      BY <1>1, <3>2
    <3>. QED BY <1>1, <3>1, <3>2, <3>3 DEF IsLast
  <2>3. ASSUME NEW m, IsLast(q, m) PROVE IsLast(r, m)
    <3>1. PICK i \in 1 .. Len(q) : /\ q[i] = m /\ m.type = "odcpi"
                                   /\ \A j \in i + 1 .. Len(q) : q[j].type # "odcpi"
      BY <2>3 DEF IsLast
    <3>2. i \in 1 .. Len(r) /\ r[i] = m
      BY <1>1, <3>1
    <3>3. \A j \in i + 1 .. Len(r) : r[j].type # "odcpi"
      BY <1>1, <1>3, <3>1
    <3>. QED BY <3>1, <3>2, <3>3 DEF IsLast
  <2>. QED BY <2>1, <2>2, <2>3
<1>4. ASSUME x.type = "odcpi"
      PROVE  /\ ~NoOdcpi(r)
             /\ \A m : IsLast(r, m) <=> m = x
  <2>1. ~NoOdcpi(r)
    BY <1>1, <1>4 DEF NoOdcpi
  <2>2. IsLast(r, x)
    <3>1. Len(q) + 1 \in 1 .. Len(r) /\ (Len(q) + 1) + 1 .. Len(r) = {}
      BY <1>1
    <3>. QED BY <1>1, <1>4, <3>1 DEF IsLast
  <2>3. ASSUME NEW m, IsLast(r, m) PROVE m = x
    <3>1. PICK i \in 1 .. Len(r) : /\ r[i] = m
                                   /\ \A j \in i + 1 .. Len(r) : r[j].type # "odcpi"
      BY <2>3 DEF IsLast
    <3>2. Len(q) + 1 \notin i + 1 .. Len(r)
      BY <1>1, <1>4, <3>1
    <3>. QED BY <1>1, <3>1, <3>2
  <2>. QED BY <2>1, <2>2, <2>3
<1>. QED BY <1>1, <1>2, <1>3, <1>4 DEF r

\* a message received is the first
LEMMA Received ==
    ASSUME NEW q \in Seq(Messages), q # << >>
    PROVE  /\ Head(q) \in Messages
           /\ Tail(q) \in Seq(Messages)
           /\ \A m : Holds(q, m) <=> Holds(Tail(q), m) \/ m = Head(q)
           /\ \A m : IsLast(Tail(q), m) => IsLast(q, m)
           /\ NoOdcpi(Tail(q)) /\ Head(q).type # "odcpi" => NoOdcpi(q)
           /\ NoOdcpi(Tail(q)) /\ Head(q).type = "odcpi" => IsLast(q, Head(q))
<1>. DEFINE r == Tail(q)
<1>1. /\ r \in Seq(Messages) /\ Head(q) \in Messages /\ Head(q) = q[1]
      /\ Len(q) \in Nat /\ Len(q) >= 1 /\ Len(r) = Len(q) - 1
      /\ \A i \in 1 .. Len(r) : r[i] = q[i + 1]
  BY HeadTailProperties, EmptySeq, LenProperties
<1>. HIDE DEF r
<1>2. \A i \in 1 .. Len(q) : i # 1 => i - 1 \in 1 .. Len(r) /\ r[i - 1] = q[i]
  BY <1>1
<1>3. \A m : Holds(q, m) <=> Holds(r, m) \/ m = Head(q)
  <2>1. ASSUME NEW m, Holds(q, m) PROVE Holds(r, m) \/ m = Head(q)
    BY <1>1, <1>2, <2>1 DEF Holds
  <2>2. ASSUME NEW m, Holds(r, m) \/ m = Head(q) PROVE Holds(q, m)
    <3>1. CASE m = Head(q)
      BY <1>1, <3>1 DEF Holds
    <3>2. CASE Holds(r, m)
      <4>1. PICK i \in 1 .. Len(r) : r[i] = m
        BY <3>2 DEF Holds
      <4>2. i + 1 \in 1 .. Len(q) /\ q[i + 1] = m
        BY <1>1, <4>1
      <4>. QED BY <4>2 DEF Holds
    <3>. QED BY <2>2, <3>1, <3>2
  <2>. QED BY <2>1, <2>2
<1>4. ASSUME NEW m, IsLast(r, m) PROVE IsLast(q, m)
  <2>1. PICK i \in 1 .. Len(r) : /\ r[i] = m /\ m.type = "odcpi"
                                 /\ \A j \in i + 1 .. Len(r) : r[j].type # "odcpi"
    BY <1>4 DEF IsLast
  <2>2. i + 1 \in 1 .. Len(q) /\ q[i + 1] = m
    BY <1>1, <2>1
  <2>3. ASSUME NEW j \in (i + 1) + 1 .. Len(q) PROVE q[j].type # "odcpi"
    <3>1. j - 1 \in i + 1 .. Len(r) /\ r[j - 1] = q[j]
      BY <1>1, <1>2
    <3>. QED BY <2>1, <3>1
  <2>. QED BY <2>1, <2>2, <2>3 DEF IsLast
<1>5. NoOdcpi(r) => \A j \in 2 .. Len(q) : q[j].type # "odcpi"
  BY <1>1, <1>2 DEF NoOdcpi
<1>6. NoOdcpi(r) /\ Head(q).type # "odcpi" => NoOdcpi(q)
  BY <1>1, <1>5 DEF NoOdcpi
<1>7. NoOdcpi(r) /\ Head(q).type = "odcpi" => IsLast(q, Head(q))
  <2>1. 1 \in 1 .. Len(q) /\ 1 + 1 = 2
    BY <1>1
  <2>. QED BY <1>1, <1>5, <2>1 DEF IsLast
<1>. QED BY <1>1, <1>3, <1>4, <1>6, <1>7 DEF r

-----------------------------------------------------------------------------
(* Type correctness                                                        *)

\* a thread that has not taken its request finds it in a slot
RequestsAreHeld ==
    \A n \in NiRequests : thread[n] \in {"waiting", "timedOut"} =>
        \E s \in Slots : slots[s].rawRequest = n

TypeInv == TypeOK /\ RequestsAreHeld

\* the messages that are sent
LEMMA MessageTypes ==
    /\ \A n \in NiRequests, w \in Notifications : Notify(n, w) \in Messages
    /\ \A id \in Nat, r \in UserResponses : Respond(id, r) \in Messages
    /\ \A n \in NiRequests, r \in UserResponses : Inform(n, r) \in Messages
    /\ \A op \in {"start", "stop"}, e \in BOOLEAN : Odcpi(op, e) \in Messages
    /\ TimerExpired \in Messages /\ EngineUp \in Messages
BY DEF Messages, Notify, Respond, Inform, Odcpi

\* what a received message is made of
LEMMA MessageParts ==
    ASSUME NEW m \in Messages
    PROVE  /\ m.type = "notify" => m.n \in NiRequests /\ m.what \in Notifications
           /\ m.type = "respond" => m.id \in Nat /\ m.resp \in UserResponses
           /\ m.type = "inform" => m.n \in NiRequests /\ m.resp \in UserResponses
           /\ m.type = "odcpi" => m.op \in {"start", "stop"} /\ m.emergency \in BOOLEAN
           /\ m.type = "timerExpired" => m = TimerExpired
           /\ m.type = "engineUp" => m = EngineUp
BY DEF Messages, TimerExpired, EngineUp

\* the slot of a thread that has not taken its request
LEMMA SlotOfHeld ==
    ASSUME RequestsAreHeld, NEW n \in NiRequests, thread[n] \in {"waiting", "timedOut"}
    PROVE  SlotOf(n) \in Slots /\ slots[SlotOf(n)].rawRequest = n
BY DEF SlotOf, RequestsAreHeld

LEMMA SendType ==
    ASSUME inbox \in Seq(Messages), NEW x \in Messages, sendMsg(x)
    PROVE  inbox' \in Seq(Messages)
BY Sent DEF sendMsg

\* fields of a slot set
SlotTables == [Slots -> [rawRequest : NiRequests \cup {NULL}, reqID : Nat,
                         respRecvd : BOOLEAN, resp : Responses]]

LEMMA SlotTypes ==
    ASSUME NEW t \in SlotTables, NEW s \in Slots, NEW u,
           \/ \E n \in NiRequests \cup {NULL} : u = [t EXCEPT ![s].rawRequest = n]
           \/ \E id \in Nat : u = [t EXCEPT ![s].reqID = id]
           \/ \E b \in BOOLEAN : u = [t EXCEPT ![s].respRecvd = b]
           \/ \E r \in Responses : u = [t EXCEPT ![s].resp = r]
    PROVE  u \in SlotTables
BY DEF SlotTables

\* nobody's request changes with the other fields
LEMMA RequestsKept ==
    ASSUME NEW t \in SlotTables, NEW s \in Slots, NEW u,
           \/ \E id \in Nat : u = [t EXCEPT ![s].reqID = id]
           \/ \E b \in BOOLEAN : u = [t EXCEPT ![s].respRecvd = b]
           \/ \E r \in Responses : u = [t EXCEPT ![s].resp = r]
    PROVE  \A x \in Slots : u[x].rawRequest = t[x].rawRequest
BY DEF SlotTables

\* steps of the ODCPI part
LEMMA OdcpiTypes ==
    ASSUME TypeInv, load' = load,
           \/ InitOdcpi \/ ModemAsks \/ HandleOdcpi \/ TimerExpires
           \/ HandleTimerExpired \/ Crash \/ HandleEngineUp
    PROVE  TypeInv'
<1>1. niVars' = niVars
  BY DEF InitOdcpi, ModemAsks, HandleOdcpi, TimerExpires, HandleTimerExpired, Crash,
         HandleEngineUp
<1>2. NiTypeOK' /\ RequestsAreHeld'
  BY <1>1 DEF niVars, TypeInv, TypeOK, NiTypeOK, RequestsAreHeld
<1>3. inbox' \in Seq(Messages) /\ OdcpiTypeOK'
  <2>. inbox \in Seq(Messages) /\ OdcpiTypeOK
       /\ load.odcpi \in Nat /\ load.crashes \in Nat
    BY LoadsAssumption DEF TypeInv, TypeOK
  <2>. USE DEF OdcpiTypeOK
  <2>1. CASE InitOdcpi
    BY <2>1 DEF InitOdcpi
  <2>2. CASE ModemAsks
    <3>1. PICK e \in BOOLEAN : \/ /\ sendMsg(Odcpi("start", e))
                                /\ wants' = IF e THEN "emergency" ELSE "normal"
                             \/ /\ sendMsg(Odcpi("stop", e))
                                /\ wants' = "nothing"
      BY <2>2 DEF ModemAsks
    <3>2. inbox' \in Seq(Messages)
      BY <3>1, SendType, MessageTypes
    <3>3. wants' \in {"nothing", "normal", "emergency"}
      BY <3>1
    <3>. QED BY <2>2, <3>2, <3>3 DEF ModemAsks
  <2>3. CASE HandleOdcpi
    <3>1. inbox' \in Seq(Messages) /\ Head(inbox).emergency \in BOOLEAN
      BY <2>3, Received, MessageParts DEF HandleOdcpi, Receive
    <3>2. odcpi' \in [callback : BOOLEAN, active : BOOLEAN, requestActive : BOOLEAN,
                     emergency : BOOLEAN, timer : BOOLEAN]
      BY <2>3, <3>1 DEF HandleOdcpi
    <3>3. running' \in BOOLEAN /\ emergencyCall' \in BOOLEAN
      BY <2>3, <3>1 DEF HandleOdcpi
    <3>4. asked' \in {"nothing", "normal", "emergency"}
      BY <2>3, <3>1 DEF HandleOdcpi, fireOdcpiRequest
    <3>. QED BY <2>3, <3>1, <3>2, <3>3, <3>4 DEF HandleOdcpi
  <2>4. CASE TimerExpires
    BY <2>4, SendType, MessageTypes DEF TimerExpires
  <2>5. CASE HandleTimerExpired
    <3>1. inbox' \in Seq(Messages)
      BY <2>5, Received DEF HandleTimerExpired, Receive
    <3>2. asked' \in {"nothing", "normal", "emergency"}
      BY <2>5 DEF HandleTimerExpired, fireOdcpiRequest
    <3>. QED BY <2>5, <3>1, <3>2 DEF HandleTimerExpired
  <2>6. CASE Crash
    BY <2>6, SendType, MessageTypes DEF Crash
  <2>7. CASE HandleEngineUp
    BY <2>7, Received DEF HandleEngineUp, Receive
  <2>. QED BY <2>1, <2>2, <2>3, <2>4, <2>5, <2>6, <2>7
<1>. QED BY <1>2, <1>3 DEF TypeInv, TypeOK

\* what is left for the message thread to store
LEMMA TodoTypes ==
    ASSUME TypeInv
    PROVE  /\ IgnoreSession \in Seq([slot : Slots, resp : Responses])
           /\ \A s \in Slots, r \in UserResponses :
                /\ <<[slot |-> s, resp |-> r]>> \in Seq([slot : Slots, resp : Responses])
                /\ IgnoreSession \o <<[slot |-> s, resp |-> r]>>
                     \in Seq([slot : Slots, resp : Responses])
<1>. DEFINE T == [slot : Slots, resp : Responses]
<1>1. /\ [slot |-> "session", resp |-> "ignore"] \in T
      /\ \A s \in Slots, r \in UserResponses : [slot |-> s, resp |-> r] \in T
  BY DEF Slots, Responses
<1>. HIDE DEF T
<1>2. \A x \in T : <<x>> \in Seq(T)
  OBVIOUS
<1>3. IgnoreSession \in Seq(T)
  BY <1>1, <1>2, EmptySeq DEF IgnoreSession
<1>. QED BY <1>1, <1>2, <1>3, ConcatProperties DEF T

LEMMA NotifyTypes ==
    ASSUME TypeInv, load' = load, HandleNotify
    PROVE  TypeInv'
<1>. USE DEF TypeInv, TypeOK, NiTypeOK
<1>. OdcpiTypeOK'
  BY DEF HandleNotify, odcpiVars, OdcpiTypeOK
<1>. DEFINE m == Head(inbox)
<1>1. inbox' \in Seq(Messages) /\ m.n \in NiRequests
  BY Received, MessageParts DEF HandleNotify, Receive
<1>. HIDE DEF m
<1>2. ASSUME NEW r \in UserResponses, informNiResponse(m.n, r)
      PROVE  answers' \in [NiRequests -> Seq(UserResponses)]
  BY <1>1, <1>2 DEF informNiResponse
<1>3. CASE /\ informNiResponse(m.n, Verdict(m.what)) /\ Verdict(m.what) # "ask"
           /\ UNCHANGED <<slots, reqIDCounter, todo, thread, idOf, marks>>
  <2>1. Verdict(m.what) \in UserResponses
    BY <1>3 DEF Verdict, UserResponses
  <2>. QED BY <1>1, <1>2, <1>3, <2>1 DEF HandleNotify, RequestsAreHeld
<1>4. CASE requestNiNotify(m.n, m.what.kind)
  <2>. DEFINE slot == IF m.what.kind = "suplEs" THEN "sessionEs" ELSE "session"
  <2>1. CASE informNiResponse(m.n, "accept") /\ todo' = IgnoreSession
             /\ UNCHANGED <<slots, reqIDCounter, thread, idOf, marks>>
    <3>1. "accept" \in UserResponses
      BY DEF UserResponses
    <3>. QED BY <1>1, <1>2, <2>1, <3>1, TodoTypes DEF HandleNotify, RequestsAreHeld
  <2>2. CASE SlotIsFree(slot) /\ Ask(m.n, slot) /\ UNCHANGED <<todo, answers>>
    <3>1. slot \in Slots /\ slots[slot].rawRequest = NULL /\ NULL \notin NiRequests
      BY <2>2 DEF SlotIsFree, Slots, NULL, NiRequests
    <3>. HIDE DEF slot
    <3>2. RequestsAreHeld'
      <4>. SUFFICES ASSUME NEW n \in NiRequests, thread'[n] \in {"waiting", "timedOut"}
                    PROVE  \E s \in Slots : slots'[s].rawRequest = n
        BY DEF RequestsAreHeld
      <4>1. CASE n = m.n
        BY <2>2, <3>1, <4>1 DEF Ask
      <4>2. CASE n # m.n
        <5>1. thread[n] \in {"waiting", "timedOut"}
          BY <2>2, <4>2 DEF Ask
        <5>2. PICK s \in Slots : slots[s].rawRequest = n
          BY <5>1 DEF RequestsAreHeld
        <5>3. s # slot
          BY <3>1, <5>2
        <5>. QED BY <2>2, <5>2, <5>3 DEF Ask
      <4>. QED BY <4>1, <4>2
    <3>3. slots' \in SlotTables
      <4>. DEFINE t == [slots EXCEPT ![slot].rawRequest = m.n]
      <4>1. t \in SlotTables
        <5>1. slots \in SlotTables
          BY DEF SlotTables
        <5>. QED BY <1>1, <3>1, <5>1, SlotTypes
      <4>2. slots' = [t EXCEPT ![slot].reqID = reqIDCounter + 1]
        BY <2>2 DEF Ask
      <4>3. reqIDCounter + 1 \in Nat
        OBVIOUS
      <4>. HIDE DEF t
      <4>. QED BY <3>1, <4>1, <4>2, <4>3, SlotTypes
    <3>. QED BY <1>1, <2>2, <3>1, <3>2, <3>3 DEF HandleNotify, Ask, SlotTables
  <2>3. CASE UNCHANGED <<slots, reqIDCounter, todo, thread, idOf, answers, marks>>
    BY <1>1, <2>3 DEF HandleNotify, RequestsAreHeld
  <2>. QED BY <1>4, <2>1, <2>2, <2>3 DEF requestNiNotify
<1>. QED BY <1>3, <1>4 DEF HandleNotify, m

LEMMA TakeTypes ==
    ASSUME TypeInv, load' = load, NEW n \in NiRequests, TakeResponse(n)
    PROVE  TypeInv'
<1>. DEFINE s == SlotOf(n)
<1>1. s \in Slots /\ slots[s].rawRequest = n
  BY SlotOfHeld DEF TypeInv, TakeResponse
<1>. HIDE DEF s
<1>2. PICK resp \in Responses :
        /\ slots' = [slots EXCEPT ![s].resp = resp, ![s].respRecvd = FALSE,
                                  ![s].rawRequest = NULL]
        /\ taken' = [taken EXCEPT ![n] = resp]
  BY <1>1 DEF TakeResponse, TypeInv, TypeOK, NiTypeOK, Responses, UserResponses, s
<1>3. thread' = [thread EXCEPT ![n] = IF s = "session" THEN "leaving" ELSE "leavingEs"]
  BY DEF TakeResponse, s
<1>4. TypeOK'
  <2>1. slots' \in SlotTables
    <3>. DEFINE t == [slots EXCEPT ![s].resp = resp]
               u == [t EXCEPT ![s].respRecvd = FALSE]
    <3>1. t \in SlotTables
      <4>1. slots \in SlotTables
        BY DEF SlotTables, TypeInv, TypeOK, NiTypeOK
      <4>. QED BY <1>1, <4>1, SlotTypes
    <3>2. u \in SlotTables
      BY <1>1, <3>1, SlotTypes
    <3>3. slots' = [u EXCEPT ![s].rawRequest = NULL]
      BY <1>2
    <3>. HIDE DEF u
    <3>. QED BY <1>1, <3>2, <3>3, SlotTypes
  <2>. QED BY <1>2, <1>3, <2>1 DEF SlotTables, TakeResponse, TypeInv, TypeOK, NiTypeOK, OdcpiTypeOK, odcpiVars
<1>5. RequestsAreHeld'
  <2>. SUFFICES ASSUME NEW k \in NiRequests, thread'[k] \in {"waiting", "timedOut"}
                PROVE  \E x \in Slots : slots'[x].rawRequest = k
    BY DEF RequestsAreHeld
  <2>1. k # n /\ thread[k] \in {"waiting", "timedOut"}
    BY <1>3 DEF TypeInv, TypeOK, NiTypeOK
  <2>2. PICK x \in Slots : slots[x].rawRequest = k
    BY <2>1 DEF TypeInv, RequestsAreHeld
  <2>3. x # s
    BY <1>1, <2>1, <2>2
  <2>. QED BY <1>2, <2>2, <2>3 DEF TypeInv, TypeOK, NiTypeOK
<1>. QED BY <1>4, <1>5 DEF TypeInv

LEMMA NiTypes ==
    ASSUME TypeInv, load' = load,
           \/ ModemNotifies \/ NiClientLeaves \/ HandleRespond \/ StoreResponse \/ HandleInform
           \/ \E n \in NiRequests : UserResponds(n) \/ TimedWaitExpires(n) \/ Leave(n)
    PROVE  TypeInv'
<1>. USE DEF TypeInv, TypeOK, NiTypeOK, RequestsAreHeld
<1>. OdcpiTypeOK'
  <2>1. odcpiVars' = odcpiVars
    BY DEF ModemNotifies, NiClientLeaves, HandleRespond, StoreResponse, HandleInform,
           UserResponds, TimedWaitExpires, Leave
  <2>. QED BY <2>1 DEF odcpiVars, OdcpiTypeOK
<1>. load \in Loads /\ MaxRequests \in Nat /\ load.ni \in 0 .. MaxRequests
     /\ load.notifications \subseteq Notifications /\ load.says \subseteq UserResponses
  BY LoadsAssumption
<1>1. CASE ModemNotifies
  <2>1. sent + 1 \in NiRequests
    BY <1>1 DEF ModemNotifies, NiRequests
  <2>. QED BY <1>1, <2>1, SendType, MessageTypes DEF ModemNotifies
<1>2. CASE NiClientLeaves
  BY <1>2 DEF NiClientLeaves
<1>3. CASE HandleRespond
  <2>. DEFINE m == Head(inbox)
  <2>1. inbox' \in Seq(Messages) /\ m.resp \in UserResponses
    BY <1>3, Received, MessageParts DEF HandleRespond, Receive
  <2>2. todo' \in Seq([slot : Slots, resp : Responses])
    <3>1. "session" \in Slots /\ "sessionEs" \in Slots
      BY DEF Slots
    <3>2. \/ todo' = IgnoreSession \o <<[slot |-> "sessionEs", resp |-> m.resp]>>
          \/ todo' = << >> \o <<[slot |-> "sessionEs", resp |-> m.resp]>>
          \/ todo' = <<[slot |-> "session", resp |-> m.resp]>>
          \/ todo' = << >>
      BY <1>3 DEF HandleRespond
    <3>3. << >> \o <<[slot |-> "sessionEs", resp |-> m.resp]>>
            = <<[slot |-> "sessionEs", resp |-> m.resp]>>
      OBVIOUS
    <3>. HIDE DEF m
    <3>4. /\ IgnoreSession \o <<[slot |-> "sessionEs", resp |-> m.resp]>>
               \in Seq([slot : Slots, resp : Responses])
          /\ <<[slot |-> "sessionEs", resp |-> m.resp]>> \in Seq([slot : Slots, resp : Responses])
          /\ <<[slot |-> "session", resp |-> m.resp]>> \in Seq([slot : Slots, resp : Responses])
      BY <2>1, <3>1, TodoTypes
    <3>5. << >> \in Seq([slot : Slots, resp : Responses])
      BY EmptySeq
    <3>. HIDE DEF TypeInv, TypeOK, NiTypeOK
    <3>. QED BY ONLY <3>2, <3>3, <3>4, <3>5
  <2>. QED BY <1>3, <2>1, <2>2 DEF HandleRespond
<1>4. CASE StoreResponse
  <2>1. Head(todo) \in [slot : Slots, resp : Responses]
        /\ todo' \in Seq([slot : Slots, resp : Responses])
    BY <1>4, HeadTailProperties DEF StoreResponse
  <2>2. slots' \in SlotTables /\ \A s \in Slots : slots'[s].rawRequest = slots[s].rawRequest
    <3>. DEFINE h == Head(todo)
               t == [slots EXCEPT ![h.slot].resp = h.resp]
    <3>1. h.slot \in Slots /\ h.resp \in Responses
      BY <2>1
    <3>2. t \in SlotTables /\ \A s \in Slots : t[s].rawRequest = slots[s].rawRequest
      <4>1. slots \in SlotTables
        BY DEF SlotTables
      <4>2. t \in SlotTables
        BY <3>1, <4>1, SlotTypes
      <4>. QED BY <3>1, <4>1, <4>2, RequestsKept
    <3>3. slots' = [t EXCEPT ![h.slot].respRecvd = TRUE]
      BY <1>4 DEF StoreResponse
    <3>. HIDE DEF t, h
    <3>4. slots' \in SlotTables
      BY <3>1, <3>2, <3>3, SlotTypes
    <3>. QED BY <3>1, <3>2, <3>3, <3>4, RequestsKept
  <2>3. marks' \in [NiRequests -> SUBSET {"overruled", "stale"}] /\ late' \subseteq Slots
    BY <1>4, <2>1 DEF StoreResponse
  <2>. QED BY <1>4, <2>1, <2>2, <2>3 DEF StoreResponse, SlotTables
<1>5. CASE HandleInform
  <2>1. inbox' \in Seq(Messages) /\ Head(inbox).n \in NiRequests
        /\ Head(inbox).resp \in UserResponses
    BY <1>5, Received, MessageParts DEF HandleInform, Receive
  <2>. QED BY <1>5, <2>1 DEF HandleInform, informNiResponse
<1>6. ASSUME NEW n \in NiRequests, UserResponds(n) PROVE TypeInv'
  BY <1>6, SendType, MessageTypes DEF UserResponds
<1>7. ASSUME NEW n \in NiRequests, TimedWaitExpires(n) PROVE TypeInv'
  BY <1>7 DEF TimedWaitExpires
<1>8. ASSUME NEW n \in NiRequests, Leave(n) PROVE TypeInv'
  <2>1. inbox' \in Seq(Messages)
    <3>1. taken[n] # "ignore" => taken[n] \in UserResponses
      BY DEF Responses
    <3>. QED BY <1>8, <3>1, SendType, MessageTypes DEF Leave
  <2>2. slots' \in SlotTables /\ \A s \in Slots : slots'[s].rawRequest = slots[s].rawRequest
    <3>1. PICK s \in Slots : slots' = [slots EXCEPT ![s].reqID = NULL]
      BY <1>8 DEF Leave, Slots
    <3>2. slots \in SlotTables
      BY DEF SlotTables
    <3>3. NULL \in Nat
      BY DEF NULL
    <3>4. slots' \in SlotTables
      BY <3>1, <3>2, <3>3, SlotTypes
    <3>. QED BY <3>1, <3>2, <3>3, <3>4, RequestsKept
  <2>3. /\ thread' \in [NiRequests -> {"none", "waiting", "timedOut", "leaving", "leavingEs", "ended"}]
        /\ \A k \in NiRequests : thread'[k] \in {"waiting", "timedOut"} => thread'[k] = thread[k]
    BY <1>8 DEF Leave
  <2>. QED BY <1>8, <2>1, <2>2, <2>3 DEF Leave, SlotTables
<1>. HIDE DEF TypeInv, TypeOK, NiTypeOK, RequestsAreHeld
<1>. QED BY <1>1, <1>2, <1>3, <1>4, <1>5, <1>6, <1>7, <1>8

LEMMA TypeInit == Init => TypeInv
<1>. SUFFICES ASSUME Init PROVE TypeInv
  OBVIOUS
<1>. load \in Loads /\ load.ni \in Nat /\ load.odcpi \in Nat /\ load.crashes \in Nat
  BY LoadsAssumption DEF Init
<1>1. "noResponse" \in Responses /\ NULL \in Nat
  BY DEF Responses, UserResponses, NULL
<1>2. slots \in SlotTables
  BY <1>1 DEF Init, SlotTables
<1>3. answers \in [NiRequests -> Seq(UserResponses)] /\ todo \in Seq([slot : Slots, resp : Responses])
  BY EmptySeq DEF Init
<1>4. NiTypeOK
  BY <1>1, <1>2, <1>3 DEF Init, NiTypeOK, SlotTables, NULL
<1>5. OdcpiTypeOK
  <2>1. odcpi \in [callback : BOOLEAN, active : BOOLEAN, requestActive : BOOLEAN,
                   emergency : BOOLEAN, timer : BOOLEAN]
    BY DEF Init
  <2>2. odcpiSent \in 0 .. load.odcpi /\ crashes \in 0 .. load.crashes
    BY DEF Init
  <2>. QED BY <2>1, <2>2 DEF Init, OdcpiTypeOK
<1>6. inbox \in Seq(Messages) /\ RequestsAreHeld
  BY EmptySeq DEF Init, RequestsAreHeld
<1>. QED BY <1>4, <1>5, <1>6 DEF TypeInv, TypeOK

LEMMA TypeStep == TypeInv /\ [Next]_vars => TypeInv'
<1>. SUFFICES ASSUME TypeInv, [Next]_vars PROVE TypeInv'
  OBVIOUS
<1>1. CASE MessageThread
  BY <1>1, OdcpiTypes, NotifyTypes, NiTypes DEF MessageThread
<1>2. CASE TimerThread
  BY <1>2, OdcpiTypes DEF TimerThread
<1>3. CASE Environment
  BY <1>3, OdcpiTypes, NiTypes DEF Environment
<1>4. ASSUME NEW n \in NiRequests, NiThread(n) \/ NiTimeout(n) PROVE TypeInv'
  BY <1>4, TakeTypes, NiTypes DEF NiThread, NiTimeout
<1>5. CASE UNCHANGED vars
  BY <1>5 DEF vars, niVars, odcpiVars, TypeInv, TypeOK, NiTypeOK, OdcpiTypeOK, RequestsAreHeld
<1>. QED BY <1>1, <1>2, <1>3, <1>4, <1>5 DEF Next

\* Type correctness, with the request of every waiting thread in a slot.
THEOREM TypeCorrect == Spec => []TypeOK
<1>1. TypeInv => TypeOK
  BY DEF TypeInv
<1>. QED BY <1>1, TypeInit, TypeStep, PTL DEF Spec

-----------------------------------------------------------------------------
(* ODCPI follows the modem                                                 *)

\* what the handled requests have come to is what the modem wants
Agree ==
    /\ odcpi.active => wants # "nothing"
    /\ ~odcpi.requestActive =>
         /\ wants # "nothing" => odcpi.active
         /\ wants = "emergency" => odcpi.emergency

\* what the modem wants is what m asks for
AsksFor(m) ==
    /\ wants = "nothing" <=> m.op = "stop"
    /\ wants = "emergency" <=> m.op = "start" /\ m.emergency

\* The last request on its way is what the modem wants, and when there is none
\* the adapter agrees with the modem; an emergency that is active was passed on;
\* no timer is lost, and no engine-up comes without a restart.
OdcpiInv ==
    /\ odcpi.active => odcpi.timer
    /\ odcpi.timer => running \/ Holds(inbox, TimerExpired)
    /\ running => odcpi.timer
    /\ odcpi.active /\ odcpi.emergency => asked = "emergency" /\ emergencyCall
    /\ crashes = 0 =>
         /\ ~Holds(inbox, EngineUp)
         /\ NoOdcpi(inbox) => Agree
         /\ \A m : IsLast(inbox, m) => AsksFor(m)

\* a message is sent that is none of the ODCPI part
LEMMA OtherSent ==
    ASSUME TypeInv, OdcpiInv, NEW x \in Messages, x.type \in {"notify", "respond", "inform"},
           sendMsg(x), odcpiVars' = odcpiVars
    PROVE  OdcpiInv'
<1>1. /\ \A m : Holds(inbox', m) <=> Holds(inbox, m) \/ m = x
      /\ NoOdcpi(inbox') <=> NoOdcpi(inbox)
      /\ \A m : IsLast(inbox', m) <=> IsLast(inbox, m)
  BY Sent DEF sendMsg, TypeInv, TypeOK
<1>2. x # EngineUp
  BY DEF EngineUp
<1>. QED BY <1>1, <1>2 DEF OdcpiInv, Agree, AsksFor, odcpiVars

\* a message is received that is none of the ODCPI part
LEMMA OtherReceived ==
    ASSUME TypeInv, OdcpiInv, inbox # << >>, inbox' = Tail(inbox),
           Head(inbox).type \notin {"odcpi", "engineUp", "timerExpired"},
           odcpiVars' = odcpiVars
    PROVE  OdcpiInv'
<1>1. /\ \A m : Holds(inbox, m) <=> Holds(inbox', m) \/ m = Head(inbox)
      /\ NoOdcpi(inbox') => NoOdcpi(inbox)
      /\ \A m : IsLast(inbox', m) => IsLast(inbox, m)
  BY Received DEF TypeInv, TypeOK
<1>2. Head(inbox) # EngineUp /\ Head(inbox) # TimerExpired
  BY DEF EngineUp, TimerExpired
<1>. QED BY <1>1, <1>2 DEF OdcpiInv, Agree, AsksFor, odcpiVars

\* the NI part
LEMMA NiKeepsOdcpi ==
    ASSUME TypeInv, OdcpiInv,
           \/ ModemNotifies \/ NiClientLeaves \/ HandleNotify \/ HandleRespond
           \/ StoreResponse \/ HandleInform
           \/ \E n \in NiRequests :
                UserResponds(n) \/ TimedWaitExpires(n) \/ TakeResponse(n) \/ Leave(n)
    PROVE  OdcpiInv'
<1>1. odcpiVars' = odcpiVars
  BY DEF ModemNotifies, NiClientLeaves, HandleNotify, HandleRespond, StoreResponse,
         HandleInform, UserResponds, TimedWaitExpires, TakeResponse, Leave
<1>2. CASE \E x \in Messages : x.type \in {"notify", "respond", "inform"} /\ sendMsg(x)
  <2>1. PICK x \in Messages : x.type \in {"notify", "respond", "inform"} /\ sendMsg(x)
    BY <1>2
  <2>. QED BY <1>1, <2>1, OtherSent
<1>3. CASE inbox # << >> /\ inbox' = Tail(inbox)
           /\ Head(inbox).type \in {"notify", "respond", "inform"}
  BY <1>1, <1>3, OtherReceived
<1>4. CASE inbox' = inbox
  BY <1>1, <1>4 DEF OdcpiInv, Agree, AsksFor, odcpiVars
<1>5. ASSUME ModemNotifies
      PROVE  \E x \in Messages : x.type \in {"notify", "respond", "inform"} /\ sendMsg(x)
  <2>1. sent + 1 \in NiRequests /\ load.notifications \subseteq Notifications
    BY <1>5, LoadsAssumption DEF ModemNotifies, NiRequests, TypeInv, TypeOK, NiTypeOK
  <2>2. PICK w \in Notifications : sendMsg(Notify(sent + 1, w))
    BY <1>5, <2>1 DEF ModemNotifies
  <2>3. Notify(sent + 1, w).type = "notify"
    BY DEF Notify
  <2>. QED BY <2>1, <2>2, <2>3, MessageTypes
<1>6. ASSUME NEW n \in NiRequests, UserResponds(n)
      PROVE  \E x \in Messages : x.type \in {"notify", "respond", "inform"} /\ sendMsg(x)
  <2>1. idOf[n] \in Nat /\ load.says \subseteq UserResponses
    BY LoadsAssumption DEF TypeInv, TypeOK, NiTypeOK
  <2>2. PICK r \in UserResponses : sendMsg(Respond(idOf[n], r))
    BY <1>6, <2>1 DEF UserResponds
  <2>3. Respond(idOf[n], r).type = "respond"
    BY DEF Respond
  <2>. QED BY <2>1, <2>2, <2>3, MessageTypes
<1>7. ASSUME NEW n \in NiRequests, Leave(n)
      PROVE  \/ inbox' = inbox
             \/ \E x \in Messages : x.type \in {"notify", "respond", "inform"} /\ sendMsg(x)
  <2>1. CASE taken[n] = "ignore"
    BY <1>7, <2>1 DEF Leave
  <2>2. CASE taken[n] # "ignore"
    <3>1. taken[n] \in UserResponses
      BY <2>2 DEF TypeInv, TypeOK, NiTypeOK, Responses
    <3>2. Inform(n, taken[n]).type = "inform"
      BY DEF Inform
    <3>. QED BY <1>7, <2>2, <3>1, <3>2, MessageTypes DEF Leave
  <2>. QED BY <2>1, <2>2
<1>8. ASSUME HandleNotify \/ HandleRespond \/ HandleInform
      PROVE  inbox # << >> /\ inbox' = Tail(inbox)
             /\ Head(inbox).type \in {"notify", "respond", "inform"}
  BY <1>8 DEF HandleNotify, HandleRespond, HandleInform, Receive
<1>9. ASSUME \/ NiClientLeaves \/ StoreResponse
             \/ \E n \in NiRequests : TimedWaitExpires(n) \/ TakeResponse(n)
      PROVE  inbox' = inbox
  BY <1>9 DEF NiClientLeaves, StoreResponse, TimedWaitExpires, TakeResponse
<1>. QED BY <1>2, <1>3, <1>4, <1>5, <1>6, <1>7, <1>8, <1>9

\* an ODCPI request is sent
LEMMA ModemAsksKeepsOdcpi ==
    ASSUME TypeInv, OdcpiInv, ModemAsks
    PROVE  OdcpiInv'
<1>1. PICK op \in {"start", "stop"}, e \in BOOLEAN :
        /\ sendMsg(Odcpi(op, e))
        /\ wants' = IF op = "stop" THEN "nothing" ELSE IF e THEN "emergency" ELSE "normal"
  BY DEF ModemAsks
<1>. DEFINE x == Odcpi(op, e)
<1>2. x \in Messages /\ x.type = "odcpi" /\ x.op = op /\ x.emergency = e
  BY MessageTypes DEF Odcpi
<1>3. x # EngineUp /\ x # TimerExpired
  BY <1>2 DEF EngineUp, TimerExpired
<1>4. inbox' = Append(inbox, x)
  BY <1>1 DEF sendMsg
<1>. HIDE DEF x
<1>5. /\ \A m : Holds(inbox', m) <=> Holds(inbox, m) \/ m = x
      /\ ~NoOdcpi(inbox')
      /\ \A m : IsLast(inbox', m) <=> m = x
  BY <1>2, <1>4, Sent DEF TypeInv, TypeOK
<1>6. AsksFor(x)'
  BY <1>1, <1>2 DEF AsksFor
<1>. QED BY <1>3, <1>5, <1>6 DEF ModemAsks, OdcpiInv

\* an ODCPI request is handled
LEMMA HandleOdcpiKeepsOdcpi ==
    ASSUME TypeInv, OdcpiInv, HandleOdcpi
    PROVE  OdcpiInv'
<1>. DEFINE h == Head(inbox)
<1>1. /\ h.type = "odcpi" /\ h.op \in {"start", "stop"} /\ h.emergency \in BOOLEAN
      /\ h # EngineUp /\ h # TimerExpired
  BY Received, MessageParts
  DEF HandleOdcpi, Receive, TypeInv, TypeOK, EngineUp, TimerExpired
<1>2. /\ \A m : Holds(inbox, m) <=> Holds(inbox', m) \/ m = h
      /\ \A m : IsLast(inbox', m) => IsLast(inbox, m)
      /\ NoOdcpi(inbox') => IsLast(inbox, h)
  BY <1>1, Received DEF HandleOdcpi, Receive, TypeInv, TypeOK
<1>3. /\ odcpi \in [callback : BOOLEAN, active : BOOLEAN, requestActive : BOOLEAN,
                    emergency : BOOLEAN, timer : BOOLEAN]
      /\ wants' = wants /\ crashes' = crashes
  BY DEF HandleOdcpi, TypeInv, TypeOK, OdcpiTypeOK
<1>4. ASSUME crashes = 0
      PROVE  ~Holds(inbox', EngineUp) /\ \A m : IsLast(inbox', m) => AsksFor(m)'
  BY <1>1, <1>2, <1>3, <1>4 DEF OdcpiInv, AsksFor
<1>5. ASSUME crashes = 0, NoOdcpi(inbox') PROVE AsksFor(h)
  BY <1>2, <1>5 DEF OdcpiInv
<1>6. Holds(inbox, TimerExpired) <=> Holds(inbox', TimerExpired)
  BY <1>1, <1>2
<1>. HIDE DEF h
<1>7. CASE h.op = "start" /\ PassedOn(h.emergency)
  <2>1. /\ odcpi' = [odcpi EXCEPT !.active = TRUE, !.timer = TRUE, !.emergency = h.emergency]
        /\ running' = TRUE /\ emergencyCall' = (h.emergency \/ emergencyCall)
        /\ asked' = IF h.emergency THEN "emergency" ELSE "normal"
    BY <1>7 DEF HandleOdcpi, fireOdcpiRequest, h
  <2>2. /\ odcpi'.active /\ odcpi'.timer /\ odcpi'.emergency = h.emergency
        /\ odcpi'.requestActive = odcpi.requestActive
    BY <1>3, <2>1
  <2>3. crashes = 0 /\ NoOdcpi(inbox') => Agree'
    BY <1>1, <1>3, <1>5, <1>7, <2>2 DEF Agree, AsksFor
  <2>. QED BY <1>3, <1>4, <2>1, <2>2, <2>3 DEF OdcpiInv
<1>8. CASE h.op = "start" /\ ~PassedOn(h.emergency)
  <2>1. /\ odcpi' = [odcpi EXCEPT !.requestActive = @ \/ odcpi.timer, !.emergency = h.emergency]
        /\ running' = running /\ emergencyCall' = emergencyCall /\ asked' = asked
    BY <1>8 DEF HandleOdcpi, h
  <2>2. /\ odcpi'.active = odcpi.active /\ odcpi'.timer = odcpi.timer
        /\ odcpi'.emergency = h.emergency
        /\ odcpi'.requestActive = (odcpi.requestActive \/ odcpi.timer)
    BY <1>3, <2>1
  <2>3. (odcpi.active \/ odcpi.timer) /\ (odcpi.emergency \/ ~h.emergency)
    BY <1>8 DEF PassedOn
  <2>4. crashes = 0 /\ NoOdcpi(inbox') => Agree'
    BY <1>1, <1>3, <1>5, <1>8, <2>2, <2>3 DEF Agree, AsksFor
  <2>. QED BY <1>3, <1>4, <1>6, <2>1, <2>2, <2>3, <2>4 DEF OdcpiInv
<1>9. CASE h.op = "stop"
  <2>1. /\ odcpi' = [odcpi EXCEPT !.active = FALSE]
        /\ running' = running
    BY <1>9 DEF HandleOdcpi, h
  <2>2. ~odcpi'.active /\ odcpi'.timer = odcpi.timer
    BY <1>3, <2>1
  <2>3. crashes = 0 /\ NoOdcpi(inbox') => Agree'
    BY <1>3, <1>5, <1>9, <2>2 DEF Agree, AsksFor
  <2>. QED BY <1>3, <1>4, <1>6, <2>1, <2>2, <2>3 DEF OdcpiInv
<1>. QED BY <1>1, <1>7, <1>8, <1>9

\* the expiry is handled
LEMMA HandleTimerExpiredKeepsOdcpi ==
    ASSUME TypeInv, OdcpiInv, HandleTimerExpired
    PROVE  OdcpiInv'
<1>. DEFINE h == Head(inbox)
<1>1. h.type = "timerExpired" /\ h # EngineUp
  BY DEF HandleTimerExpired, Receive, EngineUp
<1>2. /\ \A m : Holds(inbox, m) <=> Holds(inbox', m) \/ m = h
      /\ \A m : IsLast(inbox', m) => IsLast(inbox, m)
      /\ NoOdcpi(inbox') => NoOdcpi(inbox)
  BY <1>1, Received DEF HandleTimerExpired, Receive, TypeInv, TypeOK
<1>3. /\ wants' = wants /\ crashes' = crashes /\ emergencyCall' = emergencyCall
      /\ odcpi \in [callback : BOOLEAN, active : BOOLEAN, requestActive : BOOLEAN,
                    emergency : BOOLEAN, timer : BOOLEAN]
  BY DEF HandleTimerExpired, TypeInv, TypeOK, OdcpiTypeOK
<1>. HIDE DEF h
<1>4. CASE odcpi.active
  <2>1. /\ odcpi' = odcpi /\ running' = TRUE
        /\ asked' = IF odcpi.emergency THEN "emergency" ELSE "normal"
    BY <1>4 DEF HandleTimerExpired, fireOdcpiRequest
  <2>. QED BY <1>1, <1>2, <1>3, <1>4, <2>1 DEF OdcpiInv, Agree, AsksFor
<1>5. CASE ~odcpi.active
  <2>1. odcpi' = [odcpi EXCEPT !.timer = FALSE] /\ running' = FALSE
    BY <1>5 DEF HandleTimerExpired
  <2>2. /\ ~odcpi'.timer /\ ~odcpi'.active /\ odcpi'.emergency = odcpi.emergency
        /\ odcpi'.requestActive = odcpi.requestActive
    BY <1>3, <1>5, <2>1
  <2>. QED BY <1>1, <1>2, <1>3, <1>5, <2>1, <2>2 DEF OdcpiInv, Agree, AsksFor
<1>. QED BY <1>4, <1>5

\* the timer expires, the callback is set, the modem restarts
LEMMA OthersKeepOdcpi ==
    ASSUME TypeInv, OdcpiInv, InitOdcpi \/ TimerExpires \/ Crash \/ HandleEngineUp
    PROVE  OdcpiInv'
<1>0. odcpi \in [callback : BOOLEAN, active : BOOLEAN, requestActive : BOOLEAN,
                emergency : BOOLEAN, timer : BOOLEAN]
      /\ crashes \in Nat /\ inbox \in Seq(Messages)
  BY LoadsAssumption DEF TypeInv, TypeOK, OdcpiTypeOK
<1>1. CASE InitOdcpi
  <2>1. /\ odcpi'.active = odcpi.active /\ odcpi'.timer = odcpi.timer
        /\ odcpi'.emergency = odcpi.emergency /\ odcpi'.requestActive = odcpi.requestActive
    BY <1>0, <1>1 DEF InitOdcpi
  <2>. QED BY <1>1, <2>1 DEF InitOdcpi, OdcpiInv, Agree, AsksFor
<1>2. CASE TimerExpires
  <2>1. TimerExpired \in Messages /\ TimerExpired.type \notin {"odcpi", "engineUp"}
    BY MessageTypes DEF TimerExpired
  <2>2. \A m : Holds(inbox', m) <=> Holds(inbox, m) \/ m = TimerExpired
    BY <1>0, <1>2, <2>1, Sent DEF TimerExpires, sendMsg
  <2>3. /\ NoOdcpi(inbox') <=> NoOdcpi(inbox)
        /\ \A m : IsLast(inbox', m) <=> IsLast(inbox, m)
    BY <1>0, <1>2, <2>1, Sent DEF TimerExpires, sendMsg
  <2>4. TimerExpired # EngineUp
    BY DEF TimerExpired, EngineUp
  <2>. QED BY <1>2, <2>2, <2>3, <2>4 DEF TimerExpires, OdcpiInv, Agree, AsksFor
<1>3. CASE Crash
  <2>1. crashes' # 0
    BY <1>0, <1>3 DEF Crash
  <2>2. \A m : Holds(inbox', m) <=> Holds(inbox, m) \/ m = EngineUp
    BY <1>0, <1>3, MessageTypes, Sent DEF Crash, sendMsg
  <2>. QED BY <1>3, <2>1, <2>2 DEF Crash, OdcpiInv
<1>4. CASE HandleEngineUp
  <2>1. Head(inbox) = EngineUp /\ EngineUp # TimerExpired
    BY <1>0, <1>4, Received, MessageParts DEF HandleEngineUp, Receive, EngineUp, TimerExpired
  <2>2. \A m : Holds(inbox, m) <=> Holds(inbox', m) \/ m = EngineUp
    BY <1>0, <1>4, <2>1, Received DEF HandleEngineUp, Receive
  <2>3. crashes # 0
    BY <2>2 DEF OdcpiInv
  <2>4. /\ odcpi'.active = odcpi.active /\ odcpi'.timer = odcpi.timer
        /\ odcpi'.emergency = odcpi.emergency
    BY <1>0, <1>4 DEF HandleEngineUp
  <2>. QED BY <1>4, <2>1, <2>2, <2>3, <2>4 DEF HandleEngineUp, OdcpiInv
<1>. QED BY <1>1, <1>2, <1>3, <1>4

LEMMA OdcpiInit == Init => OdcpiInv
BY DEF Init, OdcpiInv, NoOdcpi, Holds, IsLast, Agree

LEMMA OdcpiStep == TypeInv /\ OdcpiInv /\ [Next]_vars => OdcpiInv'
<1>. SUFFICES ASSUME TypeInv, OdcpiInv, [Next]_vars PROVE OdcpiInv'
  OBVIOUS
<1>1. CASE MessageThread
  BY <1>1, NiKeepsOdcpi, HandleOdcpiKeepsOdcpi, HandleTimerExpiredKeepsOdcpi, OthersKeepOdcpi
  DEF MessageThread
<1>2. CASE TimerThread
  BY <1>2, OthersKeepOdcpi DEF TimerThread
<1>3. CASE Environment
  BY <1>3, NiKeepsOdcpi, ModemAsksKeepsOdcpi, OthersKeepOdcpi DEF Environment
<1>4. ASSUME NEW n \in NiRequests, NiThread(n) \/ NiTimeout(n) PROVE OdcpiInv'
  BY <1>4, NiKeepsOdcpi DEF NiThread, NiTimeout
<1>5. CASE UNCHANGED vars
  BY <1>5 DEF vars, odcpiVars, OdcpiInv, Agree, AsksFor
<1>. QED BY <1>1, <1>2, <1>3, <1>4, <1>5 DEF Next

\* In every reachable state the ODCPI timer of an active request runs or is about
\* to be handled, and once all requests of the modem are handled the framework has
\* been asked for what the modem wants.
THEOREM OdcpiIsFollowed == Spec => []OdcpiFollowsModem
<1>1. OdcpiInv => OdcpiFollowsModem
  <2>. SUFFICES ASSUME OdcpiInv PROVE OdcpiFollowsModem
    OBVIOUS
  <2>1. OdcpiIsAskedAgain
    BY DEF OdcpiInv, OdcpiIsAskedAgain, Holds
  <2>2. Settled => NoOdcpi(inbox)
    BY DEF Settled, NoOdcpi
  <2>. QED BY <2>1, <2>2 DEF OdcpiInv, OdcpiFollowsModem, Settled, Agree
<1>. QED BY <1>1, TypeInit, TypeStep, OdcpiInit, OdcpiStep, PTL DEF Spec


-----------------------------------------------------------------------------
(* NI requests: the answers                                                *)

\* the request a message is about, if any
Concerns(m, n) == m.type \in {"notify", "inform"} /\ m.n = n

\* at most one message about each request
Once(q) ==
    \A i, j \in 1 .. Len(q) : \A n \in NiRequests :
        Concerns(q[i], n) /\ Concerns(q[j], n) => i = j

\* an answer to n that is the user's, or that there was none
IsAnswerTo(n, r) == "stale" \in marks[n] \/ r \in {said[n], "noResponse"}
Ignored(n, r) == r = "ignore" \/ IsAnswerTo(n, r)
Held == {"waiting", "timedOut"}

\* A message about a request comes before its thread, or after it; an answer of
\* the user was given to the request with its id.
MessageRight(m) ==
    /\ m.type = "notify" => m.n <= sent /\ thread[m.n] = "none" /\ answers[m.n] = << >>
    /\ m.type = "inform" =>
         thread[m.n] = "ended" /\ answers[m.n] = << >> /\ IsAnswerTo(m.n, m.resp)
    /\ m.type = "respond" =>
         m.id # NULL /\ \E n \in NiRequests : idOf[n] = m.id /\ said[n] = m.resp

RequestRight(n) ==
    /\ n > sent => thread[n] = "none" /\ answers[n] = << >>
    /\ thread[n] = "none" <=> idOf[n] = NULL
    /\ idOf[n] <= reqIDCounter
    /\ Len(answers[n]) <= 1
    /\ thread[n] \notin {"none", "ended"} => answers[n] = << >>
    /\ thread[n] \in {"leaving", "leavingEs"} => Ignored(n, taken[n])
    /\ answers[n] # << >> /\ thread[n] # "none" => IsAnswerTo(n, answers[n][1])

SlotRight(s) ==
    LET n == slots[s].rawRequest IN
    /\ n # NULL => /\ thread[n] \in Held
                   /\ slots[s].reqID \in {idOf[n], NULL}
                   /\ slots[s].respRecvd => Ignored(n, slots[s].resp)
    /\ n = NULL /\ slots[s].respRecvd => s \in late

\* what is still to be stored is for the request in the slot
TodoRight(t) ==
    LET n == slots[t.slot].rawRequest IN n # NULL => t.resp \in {"ignore", said[n]}

NoSharing ==
    /\ \A n, k \in NiRequests : idOf[n] = idOf[k] /\ idOf[n] # NULL => n = k
    /\ slots["session"].rawRequest = slots["sessionEs"].rawRequest
         => slots["session"].rawRequest = NULL

NiInv ==
    /\ TypeInv
    /\ Once(inbox)
    /\ \A m \in Messages : Holds(inbox, m) => MessageRight(m)
    /\ \A n \in NiRequests : RequestRight(n)
    /\ \A s \in Slots : SlotRight(s)
    /\ \A i \in 1 .. Len(todo) : TodoRight(todo[i])
    /\ NoSharing

\* a message sent keeps them apart
LEMMA SentOnce ==
    ASSUME NEW q \in Seq(Messages), NEW x \in Messages, Once(q),
           \A n \in NiRequests : \A m : Concerns(x, n) /\ Holds(q, m) => ~Concerns(m, n)
    PROVE  Once(Append(q, x))
<1>. DEFINE r == Append(q, x)
<1>1. /\ Len(r) = Len(q) + 1 /\ r[Len(q) + 1] = x /\ Len(q) \in Nat
      /\ \A i \in 1 .. Len(q) : r[i] = q[i]
  BY AppendProperties
<1>. HIDE DEF r
<1>2. \A i \in 1 .. Len(r) : i \in 1 .. Len(q) \/ i = Len(q) + 1
  BY <1>1
<1>. SUFFICES ASSUME NEW i \in 1 .. Len(r), NEW j \in 1 .. Len(r), NEW n \in NiRequests,
                     Concerns(r[i], n), Concerns(r[j], n)
              PROVE  i = j
  BY DEF Once, r
<1>3. CASE i \in 1 .. Len(q) /\ j \in 1 .. Len(q)
  BY <1>1, <1>3 DEF Once
<1>4. CASE i \in 1 .. Len(q) /\ j = Len(q) + 1
  <2>1. Holds(q, r[i]) /\ r[j] = x
    BY <1>1, <1>4 DEF Holds
  <2>. QED BY <2>1
<1>5. CASE j \in 1 .. Len(q) /\ i = Len(q) + 1
  <2>1. Holds(q, r[j]) /\ r[i] = x
    BY <1>1, <1>5 DEF Holds
  <2>. QED BY <2>1
<1>. QED BY <1>2, <1>3, <1>4, <1>5

\* and of a message received there is no other
LEMMA ReceivedOnce ==
    ASSUME NEW q \in Seq(Messages), q # << >>, Once(q)
    PROVE  /\ Once(Tail(q))
           /\ \A n \in NiRequests : \A m : Concerns(Head(q), n) /\ Holds(Tail(q), m) => ~Concerns(m, n)
<1>. DEFINE r == Tail(q)
<1>1. /\ Head(q) = q[1] /\ Len(q) \in Nat /\ Len(q) >= 1 /\ Len(r) = Len(q) - 1
      /\ \A i \in 1 .. Len(r) : r[i] = q[i + 1]
  BY HeadTailProperties, EmptySeq, LenProperties
<1>. HIDE DEF r
<1>2. \A i \in 1 .. Len(r) : i + 1 \in 1 .. Len(q) /\ i + 1 # 1 /\ q[i + 1] = r[i]
  BY <1>1
<1>3. ASSUME NEW i \in 1 .. Len(r), NEW j \in 1 .. Len(r), NEW n \in NiRequests,
             Concerns(r[i], n), Concerns(r[j], n)
      PROVE  i = j
  <2>1. i + 1 = j + 1
    BY <1>2, <1>3 DEF Once
  <2>. QED BY <2>1
<1>4. ASSUME NEW n \in NiRequests, NEW m, Concerns(Head(q), n), Holds(r, m)
      PROVE  ~Concerns(m, n)
  <2>1. PICK i \in 1 .. Len(r) : r[i] = m
    BY <1>4 DEF Holds
  <2>2. 1 \in 1 .. Len(q)
    BY <1>1
  <2>. QED BY <1>1, <1>2, <1>4, <2>1, <2>2 DEF Once
<1>. QED BY <1>3, <1>4 DEF Once, r

\* no message of NI comes
NiQueueKept ==
    /\ Once(inbox')
    /\ \A m : Holds(inbox', m) /\ m.type \in {"notify", "respond", "inform"} => Holds(inbox, m)

\* steps that concern no NI request
LEMMA OthersKeepNi ==
    ASSUME NiInv, TypeInv', NiQueueKept,
           UNCHANGED <<slots, reqIDCounter, todo, thread, taken, sent, idOf, said, answers,
                       late, marks>>
    PROVE  NiInv'
<1>. USE DEF NiInv, NiQueueKept
<1>1. \A m \in Messages : MessageRight(m) => MessageRight(m)'
  BY DEF MessageRight, IsAnswerTo
<1>2. \A m \in Messages : m.type \notin {"notify", "respond", "inform"} => MessageRight(m)'
  BY DEF MessageRight
<1>3. (\A n \in NiRequests : RequestRight(n))'
  BY DEF RequestRight, IsAnswerTo, Ignored
<1>4. (\A s \in Slots : SlotRight(s))'
  BY DEF SlotRight, IsAnswerTo, Ignored
<1>5. (\A i \in 1 .. Len(todo) : TodoRight(todo[i]))'
  BY DEF TodoRight
<1>6. NoSharing'
  BY DEF NoSharing
<1>. QED BY <1>1, <1>2, <1>3, <1>4, <1>5, <1>6

LEMMA OdcpiKeepsNi ==
    ASSUME NiInv, TypeInv', load' = load,
           \/ InitOdcpi \/ ModemAsks \/ HandleOdcpi \/ TimerExpires
           \/ HandleTimerExpired \/ Crash \/ HandleEngineUp
    PROVE  NiInv'
<1>. inbox \in Seq(Messages) /\ Once(inbox)
  BY DEF NiInv, TypeInv, TypeOK
<1>1. niVars' = niVars
  BY DEF InitOdcpi, ModemAsks, HandleOdcpi, TimerExpires, HandleTimerExpired, Crash,
         HandleEngineUp
<1>2. ASSUME NEW x \in Messages, sendMsg(x), x.type \in {"odcpi", "timerExpired", "engineUp"}
      PROVE  NiQueueKept
  BY <1>2, Sent, SentOnce DEF sendMsg, Concerns, NiQueueKept
<1>3. ASSUME inbox # << >>, inbox' = Tail(inbox) PROVE NiQueueKept
  BY <1>3, Received, ReceivedOnce DEF NiQueueKept
<1>4. ASSUME InitOdcpi PROVE NiQueueKept
  <2>1. inbox' = inbox
    BY <1>4 DEF InitOdcpi
  <2>. QED BY <2>1 DEF NiQueueKept
<1>5. ASSUME ModemAsks PROVE NiQueueKept
  <2>1. PICK op \in {"start", "stop"}, e \in BOOLEAN : sendMsg(Odcpi(op, e))
    BY <1>5 DEF ModemAsks
  <2>2. Odcpi(op, e).type = "odcpi" /\ Odcpi(op, e) \in Messages
    BY MessageTypes DEF Odcpi
  <2>. QED BY <1>2, <2>1, <2>2
<1>6. ASSUME TimerExpires \/ Crash PROVE NiQueueKept
  <2>1. TimerExpired.type = "timerExpired" /\ EngineUp.type = "engineUp"
    BY DEF TimerExpired, EngineUp
  <2>. QED BY <1>2, <1>6, <2>1, MessageTypes DEF TimerExpires, Crash
<1>7. ASSUME HandleOdcpi \/ HandleTimerExpired \/ HandleEngineUp PROVE NiQueueKept
  BY <1>3, <1>7 DEF HandleOdcpi, HandleTimerExpired, HandleEngineUp, Receive
<1>8. NiQueueKept
  BY <1>4, <1>5, <1>6, <1>7
<1>. QED BY <1>1, <1>8, OthersKeepNi DEF niVars

\* what may be sent and what is received
LEMMA NiSent ==
    ASSUME NiInv, NEW x \in Messages, sendMsg(x),
           \A n \in NiRequests, m \in Messages :
               Concerns(x, n) /\ Holds(inbox, m) /\ MessageRight(m) => ~Concerns(m, n)
    PROVE  /\ Once(inbox')
           /\ \A m : Holds(inbox', m) <=> Holds(inbox, m) \/ m = x
<1>1. inbox \in Seq(Messages) /\ Once(inbox)
  BY DEF NiInv, TypeInv, TypeOK
<1>2. \A m : Holds(inbox, m) => m \in Messages
  BY <1>1 DEF Holds
<1>3. \A n \in NiRequests : \A m : Concerns(x, n) /\ Holds(inbox, m) => ~Concerns(m, n)
  BY <1>2 DEF NiInv
<1>. QED BY <1>1, <1>3, Sent, SentOnce DEF sendMsg

LEMMA NiReceived ==
    ASSUME NiInv, inbox # << >>, inbox' = Tail(inbox)
    PROVE  /\ Head(inbox) \in Messages /\ MessageRight(Head(inbox))
           /\ Once(inbox')
           /\ \A m : Holds(inbox', m) => Holds(inbox, m)
           /\ \A n \in NiRequests : \A m : Concerns(Head(inbox), n) /\ Holds(inbox', m) => ~Concerns(m, n)
<1>1. inbox \in Seq(Messages) /\ Once(inbox)
  BY DEF NiInv, TypeInv, TypeOK
<1>. QED BY <1>1, Received, ReceivedOnce DEF NiInv

\* an answer that is the user's stays so, whatever the user says of others
LEMMA AnswersStay ==
    ASSUME NiInv, NEW n \in NiRequests, NEW k \in NiRequests, NEW r,
           said[k] = "none", r # "none", marks' = marks,
           \E u \in UserResponses : said' = [said EXCEPT ![k] = u]
    PROVE  /\ IsAnswerTo(n, r) => IsAnswerTo(n, r)'
           /\ Ignored(n, r) => Ignored(n, r)'
<1>1. IsAnswerTo(n, r) => IsAnswerTo(n, r)'
  BY DEF IsAnswerTo, NiInv, TypeInv, TypeOK, NiTypeOK
<1>. QED BY <1>1 DEF Ignored

\* what is to be stored names a slot
LEMMA StoredSlots ==
    ASSUME NiInv, NEW i \in 1 .. Len(todo)
    PROVE  todo[i].slot \in Slots /\ todo[i].resp \in Responses
<1>1. todo \in Seq([slot : Slots, resp : Responses])
  BY DEF NiInv, TypeInv, TypeOK, NiTypeOK
<1>2. todo[i] \in [slot : Slots, resp : Responses]
  BY ONLY <1>1, ElementOfSeq, i \in 1 .. Len(todo)
<1>. QED BY <1>2

LEMMA ModemNotifiesKeepsNi ==
    ASSUME NiInv, TypeInv', load' = load, ModemNotifies
    PROVE  NiInv'
<1>. USE DEF NiInv
<1>. sent \in Nat /\ load.notifications \subseteq Notifications /\ sent + 1 \in NiRequests
  BY LoadsAssumption DEF ModemNotifies, NiRequests, TypeInv, TypeOK, NiTypeOK
<1>1. PICK w \in Notifications : sendMsg(Notify(sent + 1, w))
  BY DEF ModemNotifies
<1>. DEFINE x == Notify(sent + 1, w)
<1>2. x \in Messages /\ x.type = "notify" /\ x.n = sent + 1
  BY MessageTypes DEF Notify
<1>. HIDE DEF x
<1>3. UNCHANGED <<slots, reqIDCounter, todo, thread, taken, idOf, said, answers, late, marks>>
      /\ sent' = sent + 1
  BY DEF ModemNotifies
<1>4. thread[sent + 1] = "none" /\ answers[sent + 1] = << >>
  BY DEF RequestRight
<1>5. ASSUME NEW n \in NiRequests, NEW m \in Messages, Concerns(x, n), MessageRight(m)
      PROVE  ~Concerns(m, n)
  BY <1>2, <1>4, <1>5 DEF Concerns, MessageRight
<1>6. /\ Once(inbox')
      /\ \A m : Holds(inbox', m) <=> Holds(inbox, m) \/ m = x
  BY <1>1, <1>2, <1>5, NiSent DEF x
<1>7. ASSUME NEW m \in Messages, Holds(inbox', m) PROVE MessageRight(m)'
  <2>1. CASE m = x
    BY <1>2, <1>3, <1>4, <2>1 DEF MessageRight
  <2>2. CASE Holds(inbox, m)
    <3>1. MessageRight(m) /\ (m.type = "notify" => m.n \in Nat)
      BY <2>2, MessageParts DEF NiRequests
    <3>. QED BY <1>3, <3>1 DEF MessageRight, IsAnswerTo
  <2>. QED BY <1>6, <1>7, <2>1, <2>2
<1>8. (\A n \in NiRequests : RequestRight(n))'
  BY <1>3 DEF RequestRight, Ignored, IsAnswerTo, NiRequests
<1>9. (\A s \in Slots : SlotRight(s))' /\ (\A i \in 1 .. Len(todo) : TodoRight(todo[i]))' /\ NoSharing'
  BY <1>3 DEF SlotRight, TodoRight, NoSharing, Ignored, IsAnswerTo
<1>. QED BY <1>6, <1>7, <1>8, <1>9

LEMMA UserRespondsKeepsNi ==
    ASSUME NiInv, TypeInv', load' = load, NEW k \in NiRequests, UserResponds(k)
    PROVE  NiInv'
<1>. USE DEF NiInv
<1>. TypeOK /\ NiTypeOK /\ load.says \subseteq UserResponses
  BY LoadsAssumption DEF TypeInv, TypeOK
<1>1. PICK r \in UserResponses : sendMsg(Respond(idOf[k], r)) /\ said' = [said EXCEPT ![k] = r]
  BY DEF UserResponds
<1>. DEFINE x == Respond(idOf[k], r)
<1>2. x \in Messages /\ x.type = "respond" /\ x.id = idOf[k] /\ x.resp = r
  BY MessageTypes DEF Respond, NiTypeOK
<1>. HIDE DEF x
<1>3. UNCHANGED <<slots, reqIDCounter, todo, thread, taken, sent, idOf, answers, late, marks>>
      /\ idOf[k] # NULL /\ said[k] = "none"
  BY DEF UserResponds
<1>4. /\ Once(inbox')
      /\ \A m : Holds(inbox', m) <=> Holds(inbox, m) \/ m = x
  <2>1. \A n \in NiRequests : ~Concerns(x, n)
    BY <1>2 DEF Concerns
  <2>. QED BY <1>1, <1>2, <2>1, NiSent DEF x
<1>5. said'[k] = r /\ r # "none" /\ \A n \in NiRequests : said[n] # "none" => said'[n] = said[n]
  BY <1>1, <1>3 DEF NiTypeOK, UserResponses
<1>6. \A n \in NiRequests : \A u : u # "none" =>
        /\ IsAnswerTo(n, u) => IsAnswerTo(n, u)'
        /\ Ignored(n, u) => Ignored(n, u)'
  BY <1>1, <1>3, AnswersStay
<1>7. ASSUME NEW m \in Messages, Holds(inbox', m) PROVE MessageRight(m)'
  <2>1. CASE m = x
    BY <1>2, <1>3, <1>5, <2>1 DEF MessageRight
  <2>2. CASE Holds(inbox, m)
    <3>1. MessageRight(m)
      BY <2>2
    <3>2. /\ m.type = "inform" => m.n \in NiRequests /\ m.resp # "none"
          /\ m.type = "respond" => m.resp # "none"
      BY MessageParts DEF UserResponses
    <3>3. m.type = "inform" => IsAnswerTo(m.n, m.resp)'
      BY <1>6, <3>1, <3>2 DEF MessageRight
    <3>4. m.type = "respond" =>
             m.id # NULL /\ \E n \in NiRequests : idOf'[n] = m.id /\ said'[n] = m.resp
      BY <1>3, <1>5, <3>1, <3>2 DEF MessageRight
    <3>. QED BY <1>3, <3>1, <3>3, <3>4 DEF MessageRight
  <2>. QED BY <1>4, <1>7, <2>1, <2>2
<1>8. ASSUME NEW n \in NiRequests PROVE RequestRight(n)'
  <2>1. RequestRight(n) /\ taken[n] # "none" /\ answers[n] \in Seq(UserResponses)
    BY DEF NiTypeOK, Responses, UserResponses
  <2>2. answers[n] # << >> => answers[n][1] # "none"
    BY <2>1 DEF UserResponses
  <2>. QED BY <1>3, <1>6, <2>1, <2>2 DEF RequestRight
<1>9. ASSUME NEW s \in Slots PROVE SlotRight(s)'
  <2>1. SlotRight(s) /\ slots[s].resp # "none" /\ slots[s].rawRequest \in NiRequests \cup {NULL}
    BY DEF NiTypeOK, Responses, UserResponses
  <2>. QED BY <1>3, <1>6, <2>1 DEF SlotRight
<1>10. ASSUME NEW i \in 1 .. Len(todo) PROVE TodoRight(todo[i])'
  <2>1. TodoRight(todo[i]) /\ todo[i].slot \in Slots /\ todo[i].resp \in Responses
    BY StoredSlots
  <2>2. todo[i].resp # "none" /\ slots[todo[i].slot].rawRequest \in NiRequests \cup {NULL}
    BY <2>1 DEF NiTypeOK, Responses, UserResponses
  <2>. QED BY <1>3, <1>5, <2>1, <2>2 DEF TodoRight
<1>11. NoSharing'
  BY <1>3 DEF NoSharing
<1>. QED BY <1>3, <1>4, <1>7, <1>8, <1>9, <1>10, <1>11

\* the answer of a thread is passed on to the modem
LEMMA InformKeepsNi ==
    ASSUME NiInv, TypeInv', load' = load, HandleInform
    PROVE  NiInv'
<1>. USE DEF NiInv
<1>. NiTypeOK
  BY DEF TypeInv, TypeOK
<1>. DEFINE x == Head(inbox)
<1>1. /\ x \in Messages /\ MessageRight(x) /\ x.type = "inform"
      /\ Once(inbox')
      /\ \A m : Holds(inbox', m) => Holds(inbox, m)
      /\ \A n \in NiRequests : \A m : Concerns(x, n) /\ Holds(inbox', m) => ~Concerns(m, n)
  BY NiReceived DEF HandleInform, Receive
<1>2. UNCHANGED <<slots, reqIDCounter, todo, thread, taken, sent, idOf, said, late, marks>>
      /\ answers' = [answers EXCEPT ![x.n] = Append(@, x.resp)]
  BY DEF HandleInform, informNiResponse
<1>. HIDE DEF x
<1>3. /\ x.n \in NiRequests /\ x.resp \in UserResponses
      /\ thread[x.n] = "ended" /\ answers[x.n] = << >> /\ IsAnswerTo(x.n, x.resp)
  BY <1>1, MessageParts DEF MessageRight
<1>4. /\ answers'[x.n] = <<x.resp>>
      /\ \A n \in NiRequests : n # x.n => answers'[n] = answers[n]
  BY <1>2, <1>3 DEF NiTypeOK
<1>5. ASSUME NEW m \in Messages, Holds(inbox', m) PROVE MessageRight(m)'
  <2>1. MessageRight(m) /\ ~Concerns(m, x.n)
    BY <1>1, <1>3, <1>5 DEF Concerns
  <2>2. m.type \in {"notify", "inform"} => m.n \in NiRequests /\ m.n # x.n
    BY <2>1, MessageParts DEF Concerns
  <2>. QED BY <1>2, <1>4, <2>1, <2>2 DEF MessageRight, IsAnswerTo
<1>6. ASSUME NEW n \in NiRequests PROVE RequestRight(n)'
  <2>1. RequestRight(n)
    OBVIOUS
  <2>2. CASE n = x.n
    <3>1. Len(answers'[n]) = 1 /\ answers'[n][1] = x.resp
      <4>1. Len(<<x.resp>>) = 1 /\ <<x.resp>>[1] = x.resp
        OBVIOUS
      <4>. QED BY ONLY <1>4, <2>2, <4>1
    <3>2. ~(n > sent)
      BY <1>3, <2>1, <2>2 DEF RequestRight
    <3>. QED BY <1>2, <1>3, <2>1, <2>2, <3>1, <3>2 DEF RequestRight, IsAnswerTo, Ignored
  <2>3. CASE n # x.n
    BY <1>2, <1>4, <2>1, <2>3 DEF RequestRight, IsAnswerTo, Ignored
  <2>. QED BY <2>2, <2>3
<1>7. (\A s \in Slots : SlotRight(s))' /\ (\A i \in 1 .. Len(todo) : TodoRight(todo[i]))' /\ NoSharing'
  BY <1>2 DEF SlotRight, TodoRight, NoSharing, Ignored, IsAnswerTo
<1>. QED BY <1>1, <1>5, <1>6, <1>7

\* what the thread of a request does before it takes the response
LEMMA TimedWaitKeepsNi ==
    ASSUME NiInv, TypeInv', load' = load, NEW k \in NiRequests, TimedWaitExpires(k)
    PROVE  NiInv'
<1>. USE DEF NiInv
<1>. NiTypeOK
  BY DEF TypeInv, TypeOK
<1>1. UNCHANGED <<inbox, slots, reqIDCounter, todo, taken, sent, idOf, said, answers, late, marks>>
      /\ thread[k] = "waiting" /\ thread'[k] = "timedOut"
      /\ \A n \in NiRequests : n # k => thread'[n] = thread[n]
  BY DEF TimedWaitExpires, NiTypeOK
<1>2. ASSUME NEW m \in Messages, Holds(inbox', m) PROVE MessageRight(m)'
  <2>1. MessageRight(m)
    BY <1>1, <1>2
  <2>2. m.type \in {"notify", "inform"} => m.n \in NiRequests /\ m.n # k
    BY <1>1, <2>1, MessageParts DEF MessageRight
  <2>. QED BY <1>1, <2>1, <2>2 DEF MessageRight, IsAnswerTo
<1>3. ASSUME NEW n \in NiRequests PROVE RequestRight(n)'
  <2>1. RequestRight(n)
    OBVIOUS
  <2>. QED BY <1>1, <2>1 DEF RequestRight, IsAnswerTo, Ignored
<1>4. ASSUME NEW s \in Slots PROVE SlotRight(s)'
  <2>1. SlotRight(s) /\ slots[s].rawRequest \in NiRequests \cup {NULL}
    BY DEF NiTypeOK
  <2>. QED BY <1>1, <2>1 DEF SlotRight, Held, IsAnswerTo, Ignored
<1>5. (\A i \in 1 .. Len(todo) : TodoRight(todo[i]))' /\ NoSharing'
  BY <1>1 DEF TodoRight, NoSharing
<1>6. Once(inbox')
  BY <1>1
<1>. QED BY <1>2, <1>3, <1>4, <1>5, <1>6

\* the response is taken from the slot, by the thread of the request in it
LEMMA TakeKeepsNi ==
    ASSUME NiInv, TypeInv', load' = load, NEW k \in NiRequests, TakeResponse(k)
    PROVE  NiInv'
<1>. USE DEF NiInv
<1>. NiTypeOK
  BY DEF TypeInv, TypeOK
<1>. DEFINE s == SlotOf(k)
           resp == IF thread[k] = "timedOut" THEN "noResponse" ELSE slots[s].resp
<1>0. thread[k] \in Held
  BY DEF TakeResponse, Held
<1>1. s \in Slots /\ slots[s].rawRequest = k /\ k # NULL
  BY <1>0, SlotOfHeld DEF TypeInv, Held, NiRequests, NULL
<1>2. Ignored(k, resp)
  <2>1. CASE thread[k] = "timedOut"
    BY <2>1 DEF Ignored, IsAnswerTo
  <2>2. CASE thread[k] # "timedOut"
    BY <1>1, <2>2 DEF TakeResponse, SlotRight
  <2>. QED BY <2>1, <2>2
<1>3. /\ UNCHANGED <<inbox, reqIDCounter, todo, sent, idOf, said, answers, marks>>
      /\ slots' = [slots EXCEPT ![s].resp = resp, ![s].respRecvd = FALSE,
                                ![s].rawRequest = NULL]
      /\ taken' = [taken EXCEPT ![k] = resp]
      /\ late' = late \ {s}
      /\ thread' = [thread EXCEPT ![k] = IF s = "session" THEN "leaving" ELSE "leavingEs"]
  BY DEF TakeResponse
<1>. PICK r : r = resp
  OBVIOUS
<1>. HIDE DEF s, resp
<1>4. /\ slots'[s].rawRequest = NULL /\ slots'[s].respRecvd = FALSE
      /\ \A t \in Slots : t # s => slots'[t] = slots[t]
      /\ taken'[k] = r /\ thread'[k] \in {"leaving", "leavingEs"}
      /\ \A n \in NiRequests : n # k => taken'[n] = taken[n] /\ thread'[n] = thread[n]
  BY <1>1, <1>3 DEF NiTypeOK
<1>5. ASSUME NEW m \in Messages, Holds(inbox', m) PROVE MessageRight(m)'
  <2>1. MessageRight(m)
    BY <1>3, <1>5
  <2>2. m.type \in {"notify", "inform"} => m.n \in NiRequests /\ m.n # k
    BY <1>0, <2>1, MessageParts DEF MessageRight, Held
  <2>. QED BY <1>3, <1>4, <2>1, <2>2 DEF MessageRight, IsAnswerTo
<1>6. ASSUME NEW n \in NiRequests PROVE RequestRight(n)'
  <2>1. RequestRight(n)
    OBVIOUS
  <2>2. Ignored(k, r)'
    BY <1>2, <1>3 DEF Ignored, IsAnswerTo
  <2>3. CASE n = k
    BY <1>0, <1>3, <1>4, <2>1, <2>2, <2>3 DEF RequestRight, Held
  <2>4. CASE n # k
    BY <1>3, <1>4, <2>1, <2>4 DEF RequestRight, IsAnswerTo, Ignored
  <2>. QED BY <2>3, <2>4
<1>7. ASSUME NEW t \in Slots PROVE SlotRight(t)'
  <2>1. CASE t = s
    BY <1>4, <2>1 DEF SlotRight
  <2>2. CASE t # s
    <3>1. SlotRight(t) /\ slots[t].rawRequest \in NiRequests \cup {NULL}
      BY DEF NiTypeOK
    <3>2. slots[t].rawRequest # k
      BY <1>1, <2>2 DEF NoSharing, Slots
    <3>. QED BY <1>3, <1>4, <2>2, <3>1, <3>2 DEF SlotRight, IsAnswerTo, Ignored
  <2>. QED BY <2>1, <2>2
<1>8. ASSUME NEW i \in 1 .. Len(todo) PROVE TodoRight(todo[i])'
  <2>1. TodoRight(todo[i]) /\ todo[i].slot \in Slots
    BY StoredSlots
  <2>. QED BY <1>3, <1>4, <2>1 DEF TodoRight
<1>9. NoSharing'
  BY <1>1, <1>3, <1>4 DEF NoSharing, Slots
<1>10. Once(inbox')
  BY <1>3
<1>. QED BY <1>3, <1>5, <1>6, <1>7, <1>8, <1>9, <1>10

\* the thread is done, and sends what it has taken
LEMMA LeaveKeepsNi ==
    ASSUME NiInv, TypeInv', load' = load, NEW k \in NiRequests, Leave(k)
    PROVE  NiInv'
<1>. USE DEF NiInv
<1>. NiTypeOK /\ inbox \in Seq(Messages)
  BY DEF TypeInv, TypeOK
<1>1. /\ UNCHANGED <<reqIDCounter, todo, taken, sent, idOf, said, answers, late, marks>>
      /\ thread[k] \in {"leaving", "leavingEs"} /\ thread'[k] = "ended"
      /\ \A n \in NiRequests : n # k => thread'[n] = thread[n]
  BY DEF Leave, NiTypeOK
<1>2. \A t \in Slots : /\ slots'[t].rawRequest = slots[t].rawRequest
                      /\ slots'[t].respRecvd = slots[t].respRecvd
                      /\ slots'[t].resp = slots[t].resp
                      /\ slots'[t].reqID \in {slots[t].reqID, NULL}
  <2>1. PICK z \in Slots : slots' = [slots EXCEPT ![z].reqID = NULL]
    BY DEF Leave, Slots
  <2>. QED BY <2>1 DEF NiTypeOK
<1>3. RequestRight(k) /\ answers[k] = << >> /\ Ignored(k, taken[k])
  BY <1>1 DEF RequestRight
<1>4. \A n \in NiRequests, m \in Messages : MessageRight(m) /\ Concerns(m, n) => n # k
  BY <1>1 DEF MessageRight, Concerns
<1>5. ASSUME NEW m \in Messages, MessageRight(m) PROVE MessageRight(m)'
  <2>1. m.type \in {"notify", "inform"} => m.n \in NiRequests /\ m.n # k
    BY <1>4, <1>5, MessageParts DEF Concerns
  <2>. QED BY <1>1, <1>5, <2>1 DEF MessageRight, IsAnswerTo
<1>6. /\ Once(inbox')
      /\ \A m \in Messages : Holds(inbox', m) => MessageRight(m)'
  <2>1. CASE taken[k] = "ignore"
    <3>1. inbox' = inbox
      BY <2>1 DEF Leave
    <3>. QED BY <1>5, <3>1
  <2>2. CASE taken[k] # "ignore"
    <3>1. PICK x : x = Inform(k, taken[k])
      OBVIOUS
    <3>2. taken[k] \in UserResponses
      BY <2>2 DEF NiTypeOK, Responses
    <3>3. x \in Messages /\ x.type = "inform" /\ x.n = k /\ x.resp = taken[k] /\ sendMsg(x)
      BY <2>2, <3>1, <3>2, MessageTypes DEF Inform, Leave
    <3>4. \A n \in NiRequests, m \in Messages :
             Concerns(x, n) /\ Holds(inbox, m) /\ MessageRight(m) => ~Concerns(m, n)
      BY <1>4, <3>3 DEF Concerns
    <3>5. /\ Once(inbox')
          /\ \A m : Holds(inbox', m) <=> Holds(inbox, m) \/ m = x
      BY <3>3, <3>4, NiSent
    <3>6. MessageRight(x)'
      BY <1>1, <1>3, <2>2, <3>3 DEF MessageRight, Ignored, IsAnswerTo
    <3>. QED BY <1>5, <3>5, <3>6
  <2>. QED BY <2>1, <2>2
<1>7. ASSUME NEW n \in NiRequests PROVE RequestRight(n)'
  <2>1. RequestRight(n)
    OBVIOUS
  <2>. QED BY <1>1, <1>3, <2>1 DEF RequestRight, IsAnswerTo, Ignored
<1>8. ASSUME NEW s \in Slots PROVE SlotRight(s)'
  <2>1. SlotRight(s) /\ slots[s].rawRequest \in NiRequests \cup {NULL}
    BY DEF NiTypeOK
  <2>2. slots[s].rawRequest # NULL => slots[s].rawRequest # k
    BY <1>1, <2>1 DEF SlotRight, Held
  <2>. QED BY <1>1, <1>2, <2>1, <2>2 DEF SlotRight, IsAnswerTo, Ignored
<1>9. ASSUME NEW i \in 1 .. Len(todo) PROVE TodoRight(todo[i])'
  <2>1. TodoRight(todo[i]) /\ todo[i].slot \in Slots
    BY StoredSlots
  <2>. QED BY <1>1, <1>2, <2>1 DEF TodoRight
<1>10. NoSharing'
  BY <1>1, <1>2 DEF NoSharing, Slots
<1>. QED BY <1>1, <1>6, <1>7, <1>8, <1>9, <1>10

\* the message thread stores an answer
LEMMA StoreKeepsNi ==
    ASSUME NiInv, TypeInv', load' = load, StoreResponse
    PROVE  NiInv'
<1>. USE DEF NiInv
<1>. NiTypeOK
  BY DEF TypeInv, TypeOK
<1>0. PICK t, k : t = Head(todo) /\ k = slots[t.slot].rawRequest
  OBVIOUS
<1>1. /\ t \in [slot : Slots, resp : Responses] /\ TodoRight(t)
      /\ \A i \in 1 .. Len(Tail(todo)) : i + 1 \in 1 .. Len(todo) /\ Tail(todo)[i] = todo[i + 1]
  <2>1. todo \in Seq([slot : Slots, resp : Responses]) /\ todo # << >>
    BY DEF NiTypeOK, StoreResponse
  <2>2. /\ t \in [slot : Slots, resp : Responses] /\ t = todo[1] /\ 1 \in 1 .. Len(todo)
        /\ \A i \in 1 .. Len(Tail(todo)) : i + 1 \in 1 .. Len(todo) /\ Tail(todo)[i] = todo[i + 1]
    <3>. DEFINE T == [slot : Slots, resp : Responses]
    <3>. HIDE DEF T
    <3>1. todo \in Seq(T) /\ todo # << >>
      BY <2>1 DEF T
    <3>2. /\ Head(todo) = todo[1] /\ Head(todo) \in T
          /\ Len(todo) \in Nat /\ Len(todo) >= 1 /\ Len(Tail(todo)) = Len(todo) - 1
          /\ \A i \in 1 .. Len(Tail(todo)) : Tail(todo)[i] = todo[i + 1]
      BY <3>1, HeadTailProperties, EmptySeq, LenProperties
    <3>. QED BY <1>0, <3>2 DEF T
  <2>. QED BY <2>2
<1>2. /\ UNCHANGED <<inbox, reqIDCounter, thread, taken, sent, idOf, said, answers>>
      /\ slots' = [slots EXCEPT ![t.slot].resp = t.resp, ![t.slot].respRecvd = TRUE]
      /\ marks' = IF t.resp = "ignore" /\ k # NULL
                  THEN [marks EXCEPT ![k] = @ \cup {"overruled"}] ELSE marks
      /\ late' = IF k = NULL THEN late \cup {t.slot} ELSE late
      /\ todo' = Tail(todo)
  BY <1>0 DEF StoreResponse
<1>3. /\ slots'[t.slot].resp = t.resp /\ slots'[t.slot].respRecvd = TRUE
      /\ slots'[t.slot].rawRequest = k /\ slots'[t.slot].reqID = slots[t.slot].reqID
      /\ \A s \in Slots : s # t.slot => slots'[s] = slots[s]
      /\ \A s \in Slots : slots'[s].rawRequest = slots[s].rawRequest
  BY <1>0, <1>1, <1>2 DEF NiTypeOK
<1>4. \A n \in NiRequests : "stale" \in marks[n] => "stale" \in marks'[n]
  BY <1>2 DEF NiTypeOK
<1>5. k \in NiRequests \cup {NULL}
  BY <1>0, <1>1 DEF NiTypeOK
<1>6. ASSUME NEW m \in Messages, Holds(inbox', m) PROVE MessageRight(m)'
  <2>1. MessageRight(m) /\ (m.type = "inform" => m.n \in NiRequests)
    BY <1>2, <1>6, MessageParts
  <2>. QED BY <1>2, <1>4, <2>1 DEF MessageRight, IsAnswerTo
<1>7. ASSUME NEW n \in NiRequests PROVE RequestRight(n)'
  <2>1. RequestRight(n)
    OBVIOUS
  <2>. QED BY <1>2, <1>4, <2>1 DEF RequestRight, IsAnswerTo, Ignored
<1>8. ASSUME NEW s \in Slots PROVE SlotRight(s)'
  <2>1. SlotRight(s) /\ slots[s].rawRequest \in NiRequests \cup {NULL}
    BY DEF NiTypeOK
  <2>2. CASE s = t.slot
    <3>1. k # NULL => t.resp \in {"ignore", said[k]}
      BY <1>0, <1>1 DEF TodoRight
    <3>2. k # NULL => Ignored(k, t.resp)'
      BY <1>2, <3>1 DEF Ignored, IsAnswerTo
    <3>3. /\ k # NULL => thread'[k] \in Held /\ slots'[s].reqID \in {idOf'[k], NULL}
          /\ k = NULL => s \in late'
      BY <1>0, <1>2, <1>3, <2>1, <2>2 DEF SlotRight
    <3>4. slots'[s].resp = t.resp /\ slots'[s].rawRequest = k
      BY <1>3, <2>2
    <3>. QED BY <3>2, <3>3, <3>4 DEF SlotRight
  <2>3. CASE s # t.slot
    <3>1. slots'[s] = slots[s] /\ (s \in late => s \in late')
      BY <1>2, <1>3, <2>3
    <3>. QED BY <1>2, <1>4, <2>1, <3>1 DEF SlotRight, IsAnswerTo, Ignored
  <2>. QED BY <2>2, <2>3
<1>9. ASSUME NEW i \in 1 .. Len(todo') PROVE TodoRight(todo[i])'
  <2>1. PICK e : e = todo[i + 1]
    OBVIOUS
  <2>2. todo'[i] = e /\ i + 1 \in 1 .. Len(todo)
    BY <1>1, <1>2, <2>1
  <2>3. TodoRight(e) /\ e.slot \in Slots
    BY <2>1, <2>2, StoredSlots
  <2>4. slots'[e.slot].rawRequest = slots[e.slot].rawRequest /\ said' = said
    BY <1>2, <1>3, <2>3
  <2>. QED BY <2>2, <2>3, <2>4 DEF TodoRight
<1>10. NoSharing'
  BY <1>2, <1>3 DEF NoSharing, Slots
<1>11. Once(inbox')
  BY <1>2
<1>. QED BY <1>6, <1>7, <1>8, <1>9, <1>10, <1>11

\* an answer of the user finds its request
LEMMA RespondKeepsNi ==
    ASSUME NiInv, TypeInv', load' = load, HandleRespond
    PROVE  NiInv'
<1>. USE DEF NiInv
<1>. NiTypeOK
  BY DEF TypeInv, TypeOK
<1>0. PICK x : x = Head(inbox)
  OBVIOUS
<1>1. /\ x \in Messages /\ MessageRight(x) /\ x.type = "respond" /\ todo = << >>
      /\ Once(inbox')
      /\ \A m : Holds(inbox', m) => Holds(inbox, m)
  BY <1>0, NiReceived DEF HandleRespond, Receive
<1>2. UNCHANGED <<slots, reqIDCounter, thread, taken, sent, idOf, said, answers, late, marks>>
  BY DEF HandleRespond
<1>3. PICK k \in NiRequests : idOf[k] = x.id /\ said[k] = x.resp /\ x.id # NULL
  BY <1>1 DEF MessageRight
<1>4. ASSUME NEW s \in Slots, Matches(x.id, s)
      PROVE  slots[s].rawRequest # NULL => x.resp \in {"ignore", said[slots[s].rawRequest]}
  <2>1. SlotRight(s) /\ slots[s].rawRequest \in NiRequests \cup {NULL}
    BY DEF NiTypeOK
  <2>2. slots[s].rawRequest # NULL => slots[s].rawRequest = k
    BY <1>3, <1>4, <2>1 DEF SlotRight, Matches, NoSharing
  <2>. QED BY <1>3, <2>2
<1>5. ASSUME NEW i \in 1 .. Len(todo')
      PROVE  \/ todo'[i].resp = "ignore"
             \/ \E s \in Slots : Matches(x.id, s) /\ todo'[i] = [slot |-> s, resp |-> x.resp]
  <2>. DEFINE ig == [slot |-> "session", resp |-> "ignore"]
             e(s) == [slot |-> s, resp |-> x.resp]
  <2>1. \/ todo' = IgnoreSession \o <<e("sessionEs")>> /\ Matches(x.id, "sessionEs")
        \/ todo' = << >> \o <<e("sessionEs")>> /\ Matches(x.id, "sessionEs")
        \/ todo' = <<e("session")>> /\ Matches(x.id, "session")
        \/ todo' = << >>
    BY <1>0 DEF HandleRespond
  <2>2. IgnoreSession = <<ig>> \/ IgnoreSession = << >>
    BY DEF IgnoreSession
  <2>3. ASSUME NEW a, NEW b
        PROVE  /\ << >> \o <<b>> = <<b>>
               /\ \A j \in 1 .. Len(<<a>> \o <<b>>) : (<<a>> \o <<b>>)[j] \in {a, b}
    <3>. DEFINE S == {a, b}
    <3>1. <<a>> \in Seq(S) /\ <<b>> \in Seq(S)
      OBVIOUS
    <3>. HIDE DEF S
    <3>2. <<a>> \o <<b>> \in Seq(S) /\ << >> \o <<b>> = <<b>>
      BY ONLY <3>1, ConcatProperties, ConcatEmptySeq
    <3>3. \A j \in 1 .. Len(<<a>> \o <<b>>) : (<<a>> \o <<b>>)[j] \in S
      BY ONLY <3>2, ElementOfSeq
    <3>. QED BY <3>2, <3>3 DEF S
  <2>4. ig.resp = "ignore" /\ "session" \in Slots /\ "sessionEs" \in Slots
    BY DEF Slots
  <2>5. \A s : e(s) = [slot |-> s, resp |-> x.resp]
    OBVIOUS
  <2>. HIDE DEF ig, e
  <2>6. \/ todo' = <<ig>> \o <<e("sessionEs")>> /\ Matches(x.id, "sessionEs")
        \/ todo' = <<e("sessionEs")>> /\ Matches(x.id, "sessionEs")
        \/ todo' = <<e("session")>> /\ Matches(x.id, "session")
        \/ todo' = << >>
    BY <2>1, <2>2, <2>3
  <2>7. \/ todo'[i] = ig
        \/ todo'[i] = e("sessionEs") /\ Matches(x.id, "sessionEs")
        \/ todo'[i] = e("session") /\ Matches(x.id, "session")
    BY <1>5, <2>3, <2>6
  <2>. QED BY <2>4, <2>5, <2>7
<1>6. ASSUME NEW i \in 1 .. Len(todo') PROVE TodoRight(todo[i])'
  <2>1. CASE todo'[i].resp = "ignore"
    BY <2>1 DEF TodoRight
  <2>2. ASSUME NEW s \in Slots, Matches(x.id, s), todo'[i] = [slot |-> s, resp |-> x.resp]
        PROVE  TodoRight(todo[i])'
    <3>1. todo'[i].slot = s /\ todo'[i].resp = x.resp
      BY <2>2
    <3>2. slots[s].rawRequest # NULL => x.resp \in {"ignore", said[slots[s].rawRequest]}
      BY <1>4, <2>2
    <3>. QED BY <1>2, <3>1, <3>2 DEF TodoRight
  <2>. QED BY <1>5, <1>6, <2>1, <2>2
<1>7. ASSUME NEW m \in Messages, Holds(inbox', m) PROVE MessageRight(m)'
  <2>1. MessageRight(m)
    BY <1>1, <1>7
  <2>. QED BY <1>2, <2>1 DEF MessageRight, IsAnswerTo
<1>8. (\A n \in NiRequests : RequestRight(n))' /\ (\A s \in Slots : SlotRight(s))' /\ NoSharing'
  BY <1>2 DEF RequestRight, SlotRight, NoSharing, IsAnswerTo, Ignored
<1>. QED BY <1>1, <1>6, <1>7, <1>8

\* an NI request gets its answer, or a slot and an id that no other has
LEMMA NotifyKeepsNi ==
    ASSUME NiInv, TypeInv', load' = load, HandleNotify
    PROVE  NiInv'
<1>. USE DEF NiInv
<1>. NiTypeOK
  BY DEF TypeInv, TypeOK
<1>0. PICK x, k : x = Head(inbox) /\ k = x.n
  OBVIOUS
<1>1. /\ x \in Messages /\ MessageRight(x) /\ x.type = "notify" /\ todo = << >>
      /\ Once(inbox')
      /\ \A m : Holds(inbox', m) => Holds(inbox, m)
      /\ \A n \in NiRequests : \A m : Concerns(x, n) /\ Holds(inbox', m) => ~Concerns(m, n)
  BY <1>0, NiReceived DEF HandleNotify, Receive
<1>2. /\ k \in NiRequests /\ k <= sent /\ thread[k] = "none" /\ answers[k] = << >>
      /\ idOf[k] = NULL
  BY <1>0, <1>1, MessageParts DEF MessageRight, RequestRight
<1>3. ASSUME NEW m \in Messages, Holds(inbox', m)
      PROVE  /\ MessageRight(m)
             /\ m.type \in {"notify", "inform"} => m.n \in NiRequests /\ m.n # k
  <2>1. MessageRight(m) /\ ~Concerns(m, k)
    BY <1>0, <1>1, <1>2, <1>3 DEF Concerns
  <2>. QED BY <1>3, <2>1, MessageParts DEF Concerns
<1>4. UNCHANGED <<taken, sent, said, late>>
  BY DEF HandleNotify
<1>5. CASE /\ UNCHANGED <<slots, reqIDCounter, thread, idOf, marks>>
           /\ \E r \in UserResponses : informNiResponse(k, r)
           /\ todo' = IgnoreSession \/ todo' = todo
  <2>1. PICK r \in UserResponses : informNiResponse(k, r)
    BY <1>5
  <2>2. /\ answers'[k] = <<r>>
        /\ \A n \in NiRequests : n # k => answers'[n] = answers[n]
    BY <1>2, <2>1 DEF informNiResponse, NiTypeOK
  <2>3. ASSUME NEW m \in Messages, Holds(inbox', m) PROVE MessageRight(m)'
    BY <1>3, <1>4, <1>5, <2>2, <2>3 DEF MessageRight, IsAnswerTo
  <2>4. ASSUME NEW n \in NiRequests PROVE RequestRight(n)'
    <3>1. RequestRight(n)
      OBVIOUS
    <3>2. CASE n = k
      <4>1. Len(<<r>>) = 1
        OBVIOUS
      <4>2. Len(answers'[n]) = 1
        BY <2>2, <3>2, <4>1
      <4>3. thread'[n] = "none" /\ idOf'[n] = NULL /\ idOf'[n] <= reqIDCounter'
        BY <1>2, <1>5, <3>1, <3>2 DEF RequestRight
      <4>4. ~(n > sent')
        BY <1>2, <1>4, <3>2 DEF NiRequests, NiTypeOK
      <4>. QED BY <4>2, <4>3, <4>4 DEF RequestRight
    <3>3. CASE n # k
      BY <1>4, <1>5, <2>2, <3>1, <3>3 DEF RequestRight, IsAnswerTo, Ignored
    <3>. QED BY <3>2, <3>3
  <2>5. (\A s \in Slots : SlotRight(s))' /\ NoSharing'
    BY <1>4, <1>5 DEF SlotRight, NoSharing, IsAnswerTo, Ignored
  <2>6. ASSUME NEW i \in 1 .. Len(todo') PROVE TodoRight(todo[i])'
    <3>1. todo'[i].resp = "ignore"
      BY <1>1, <1>5, <2>6 DEF IgnoreSession
    <3>. QED BY <3>1 DEF TodoRight
  <2>. QED BY <1>1, <2>3, <2>4, <2>5, <2>6
<1>6. CASE \E s \in Slots : SlotIsFree(s) /\ Ask(k, s) /\ UNCHANGED <<todo, answers>>
  <2>0. PICK id : id = reqIDCounter + 1
    OBVIOUS
  <2>1. PICK s \in Slots : id = reqIDCounter + 1 /\ Ask(k, s) /\ slots[s].rawRequest = NULL
    BY <1>6, <2>0 DEF SlotIsFree, Slots
  <2>2. id \in Nat /\ id # NULL /\ \A n \in NiRequests : idOf[n] < id /\ idOf[n] \in Nat
    BY <2>1 DEF RequestRight, NiTypeOK, NULL
  <2>3. /\ thread'[k] = "waiting" /\ idOf'[k] = id /\ reqIDCounter' = id
        /\ \A n \in NiRequests : n # k =>
             thread'[n] = thread[n] /\ idOf'[n] = idOf[n] /\ marks'[n] = marks[n]
    BY <1>2, <2>1 DEF Ask, NiTypeOK
  <2>4. marks'[k] = IF s \in late THEN {"stale"} ELSE {}
    BY <1>2, <2>1 DEF Ask, NiTypeOK
  <2>5. /\ slots'[s].rawRequest = k /\ slots'[s].reqID = id
        /\ slots'[s].respRecvd = slots[s].respRecvd
        /\ \A t \in Slots : t # s => slots'[t] = slots[t]
    BY <2>1 DEF Ask, NiTypeOK
  <2>6. ASSUME NEW m \in Messages, Holds(inbox', m) PROVE MessageRight(m)'
    <3>1. m.type \in {"notify", "inform"} => MessageRight(m)'
      BY <1>3, <1>4, <1>6, <2>3, <2>6 DEF MessageRight, IsAnswerTo
    <3>2. m.type = "respond" =>
            m.id # NULL /\ \E n \in NiRequests : idOf'[n] = m.id /\ said'[n] = m.resp
      BY <1>2, <1>3, <1>4, <2>3, <2>6 DEF MessageRight
    <3>. QED BY <3>1, <3>2 DEF MessageRight
  <2>7. ASSUME NEW n \in NiRequests PROVE RequestRight(n)'
    <3>1. RequestRight(n) /\ reqIDCounter \in Nat /\ idOf[n] \in Nat
      BY DEF NiTypeOK
    <3>2. CASE n = k
      <4>1. answers'[n] = << >> /\ Len(<< >>) = 0 /\ ~(n > sent')
        BY <1>2, <1>4, <1>6, <3>1, <3>2 DEF NiRequests, NiTypeOK
      <4>. QED BY <2>2, <2>3, <3>2, <4>1 DEF RequestRight
    <3>3. CASE n # k
      BY <1>4, <1>6, <2>1, <2>3, <3>1, <3>3 DEF RequestRight, IsAnswerTo, Ignored
    <3>. QED BY <3>2, <3>3
  <2>8. ASSUME NEW t \in Slots PROVE SlotRight(t)'
    <3>1. SlotRight(t) /\ slots[t].rawRequest \in NiRequests \cup {NULL}
      BY DEF NiTypeOK
    <3>2. CASE t = s
      <4>1. slots'[t].respRecvd => marks'[k] = {"stale"}
        BY <2>1, <2>4, <2>5, <3>1, <3>2 DEF SlotRight
      <4>2. k # NULL
        BY <1>2 DEF NiRequests, NULL
      <4>. QED BY <2>3, <2>5, <3>2, <4>1, <4>2 DEF SlotRight, Held, IsAnswerTo, Ignored
    <3>3. CASE t # s
      <4>1. slots[t].rawRequest # NULL => slots[t].rawRequest # k
        BY <1>2, <3>1 DEF SlotRight, Held
      <4>. QED BY <1>4, <2>3, <2>5, <3>1, <3>3, <4>1 DEF SlotRight, IsAnswerTo, Ignored
    <3>. QED BY <3>2, <3>3
  <2>9. NoSharing'
    <3>1. \A t \in Slots : t # s => slots[t].rawRequest # k
      <4>1. \A t \in Slots : SlotRight(t) /\ k # NULL
        BY <1>2 DEF NiRequests, NULL
      <4>. QED BY <1>2, <4>1 DEF SlotRight, Held
    <3>2. \A n, j \in NiRequests : idOf'[n] = idOf'[j] /\ idOf'[n] # NULL => n = j
      BY <2>2, <2>3 DEF NoSharing
    <3>3. \A t \in Slots : t # s => slots'[t].rawRequest # slots'[s].rawRequest
      BY <2>5, <3>1
    <3>. QED BY <2>1, <3>2, <3>3 DEF NoSharing, Slots
  <2>10. todo' = << >>
    BY <1>1, <1>6
  <2>. QED BY <1>1, <2>6, <2>7, <2>8, <2>9, <2>10
<1>7. CASE UNCHANGED <<slots, reqIDCounter, todo, thread, idOf, answers, marks>>
  <2>1. NiQueueKept
    BY <1>1 DEF NiQueueKept
  <2>. QED BY <1>4, <1>7, <2>1, OthersKeepNi
<1>8. Verdict(x.what) # "ask" => Verdict(x.what) \in UserResponses
  BY DEF Verdict, UserResponses
<1>9. "accept" \in UserResponses /\ "session" \in Slots /\ "sessionEs" \in Slots
  BY DEF UserResponses, Slots
<1>. QED BY <1>0, <1>5, <1>6, <1>7, <1>8, <1>9 DEF HandleNotify, requestNiNotify

LEMMA NiInit == Init => NiInv
<1>. SUFFICES ASSUME Init PROVE NiInv
  OBVIOUS
<1>1. TypeInv
  BY TypeInit
<1>2. Once(inbox) /\ \A m \in Messages : ~Holds(inbox, m)
  BY EmptySeq DEF Init, Once, Holds
<1>3. ASSUME NEW n \in NiRequests PROVE RequestRight(n)
  <2>1. Len(answers[n]) = 0 /\ n \in Nat /\ ~(n <= 0)
    BY EmptySeq DEF Init, NiRequests
  <2>. QED BY <2>1 DEF Init, RequestRight, NULL, NiRequests
<1>4. (\A s \in Slots : SlotRight(s)) /\ NoSharing
  BY DEF Init, SlotRight, NoSharing, Slots, NULL
<1>5. \A i \in 1 .. Len(todo) : TodoRight(todo[i])
  BY EmptySeq DEF Init
<1>. QED BY <1>1, <1>2, <1>3, <1>4, <1>5 DEF NiInv

LEMMA NiStep == NiInv /\ [Next]_vars => NiInv'
<1>. SUFFICES ASSUME NiInv, [Next]_vars PROVE NiInv'
  OBVIOUS
<1>1. TypeInv'
  BY TypeStep DEF NiInv
<1>2. CASE UNCHANGED vars
  <2>1. NiQueueKept /\ UNCHANGED <<slots, reqIDCounter, todo, thread, taken, sent, idOf, said,
                                   answers, late, marks>>
    BY <1>2 DEF NiInv, NiQueueKept, vars, niVars
  <2>. QED BY <1>1, <2>1, OthersKeepNi
<1>3. ASSUME NiClientLeaves PROVE NiInv'
  <2>1. NiQueueKept /\ UNCHANGED <<slots, reqIDCounter, todo, thread, taken, sent, idOf, said,
                                   answers, late, marks>>
    BY <1>3 DEF NiInv, NiQueueKept, NiClientLeaves
  <2>. QED BY <1>1, <2>1, OthersKeepNi
<1>4. CASE MessageThread
  BY <1>1, <1>4, NotifyKeepsNi, RespondKeepsNi, StoreKeepsNi, InformKeepsNi, OdcpiKeepsNi
     DEF MessageThread
<1>5. CASE TimerThread
  BY <1>1, <1>5, OdcpiKeepsNi DEF TimerThread
<1>6. CASE Environment
  BY <1>1, <1>3, <1>6, ModemNotifiesKeepsNi, UserRespondsKeepsNi, OdcpiKeepsNi DEF Environment
<1>7. ASSUME NEW n \in NiRequests, NiThread(n) \/ NiTimeout(n) PROVE NiInv'
  BY <1>1, <1>7, TakeKeepsNi, LeaveKeepsNi, TimedWaitKeepsNi DEF NiThread, NiTimeout
<1>. QED BY <1>2, <1>4, <1>5, <1>6, <1>7 DEF Next

\* The modem gets at most one answer to each NI request, and it is the answer of
\* the user to that request, or that there was none, whatever slots and ids are
\* used again and however late the user answers.
THEOREM NiAnswersAreTheUsers == Spec => []NiAnswersAreRight
<1>1. NiInv => NiAnswersAreRight
  <2>. SUFFICES ASSUME NiInv PROVE NiAnswersAreRight
    OBVIOUS
  <2>1. TypeOK
    BY DEF NiInv, TypeInv
  <2>2. \A n \in NiRequests : RequestRight(n)
    BY DEF NiInv
  <2>. QED BY <2>1, <2>2 DEF NiAnswersAreRight, RequestRight, IsAnswerTo
<1>. QED BY <1>1, NiInit, NiStep, PTL DEF Spec

=============================================================================
