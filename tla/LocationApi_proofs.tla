------------------------- MODULE LocationApi_proofs --------------------------
(***************************************************************************)
(* Proofs about the instances of LocationAPI, for any addresses, adapters  *)
(* and callbacks: an instance exists as long as anything names it, and the *)
(* adapters come to know the clients there are.                            *)
(***************************************************************************)
EXTENDS LocationApi, SequenceTheorems, FiniteSetTheorems, TLAPS

-----------------------------------------------------------------------------
(* The inductive invariant *)

AddMsg(a, i, k) == [op |-> "add", to |-> a, client |-> i, callbacks |-> k]
RemoveMsg(a, i) == [op |-> "remove", to |-> a, client |-> i]
RequestMsg(a, i) == [op |-> "capabilities", to |-> a, client |-> i]

Addition(n, i, a) == \E k \in LocationCallbacks : inbox[n] = AddMsg(a, i, k)
Removal(n, i, a) == inbox[n] = RemoveMsg(a, i)
WaitedFor(i, a) == \E n \in 1 .. Len(inbox) : Removal(n, i, a)

\* Of an instance and an adapter: a removal is under way exactly when it is
\* waited for, once, and never of a client; a client that is destroyed is
\* removed behind its last addition, and only from an adapter that is loaded.
RemovedLast(i, a) ==
    /\ a \in destroyData[i] <=> WaitedFor(i, a)
    /\ \A m, n \in 1 .. Len(inbox) : Removal(m, i, a) /\ Removal(n, i, a) => m = n
    /\ clientData[i] # NoEntry => ~WaitedFor(i, a)
    /\ clientData[i] = NoEntry => \A n \in 1 .. Len(inbox) :
           Addition(n, i, a) => \E m \in 1 .. Len(inbox) : m > n /\ Removal(m, i, a)
    /\ clientData[i] = NoEntry /\ mClientData[a][i] # NoEntry => WaitedFor(i, a)
AddedIfLoaded(i, a) ==
    /\ \A n \in 1 .. Len(inbox) : Addition(n, i, a) => loaded[a] = "yes"
    /\ mClientData[a][i] # NoEntry => loaded[a] = "yes"

\* An object exists for a client, and for an instance that waits for adapters.
Exists(i) == object[i] = "alive" <=> clientData[i] # NoEntry \/ destroyData[i] # {}

\* The last a loaded adapter hears of a client are the callbacks it gave last.
Agrees(n, i, a) ==
    \A k \in LocationCallbacks : inbox[n] = AddMsg(a, i, k) => k = clientData[i]
HeardLast(i, a) ==
    \/ \E n \in 1 .. Len(inbox) :
          /\ Addition(n, i, a)
          /\ \A m \in 1 .. Len(inbox) : m >= n => Agrees(m, i, a)
    \/ /\ mClientData[a][i] = clientData[i]
       /\ \A m \in 1 .. Len(inbox) : Agrees(m, i, a)
Informed(i, a) ==
    clientData[i] # NoEntry /\ a \in clientData[i] =>
        loaded[a] # "no" /\ (loaded[a] = "yes" => HeardLast(i, a))

InStep(i, a) == RemovedLast(i, a) /\ AddedIfLoaded(i, a) /\ Informed(i, a)

Counted ==
    /\ refCount = Cardinality(Clients)
    /\ framework <=> Clients # {}

IInv ==
    /\ \A i \in Instances : Exists(i)
    /\ \A i \in Instances, a \in Adapters : InStep(i, a)
    /\ Counted

-----------------------------------------------------------------------------
(* Messages *)

LEMMA NoEntryIsNone == NoEntry \notin LocationCallbacks
BY DEF NoEntry, LocationCallbacks

\* The three forms of a message, which no message shares.
LEMMA Forms ==
    /\ \A a \in Adapters, i \in Instances, k \in LocationCallbacks : AddMsg(a, i, k) \in Messages
    /\ \A a \in Adapters, i \in Instances : RemoveMsg(a, i) \in Messages /\ RequestMsg(a, i) \in Messages
    /\ \A m \in Messages :
          /\ m.op = "add" => \E a \in Adapters, i \in Instances, k \in LocationCallbacks :
                                m = AddMsg(a, i, k)
          /\ m.op = "remove" => \E a \in Adapters, i \in Instances : m = RemoveMsg(a, i)
          /\ m.op = "capabilities" => \E a \in Adapters, i \in Instances : m = RequestMsg(a, i)
          /\ m.op \in {"add", "remove", "capabilities"}
<1>1. /\ \A a \in Adapters, i \in Instances, k \in LocationCallbacks : AddMsg(a, i, k) \in Messages
      /\ \A a \in Adapters, i \in Instances : RemoveMsg(a, i) \in Messages /\ RequestMsg(a, i) \in Messages
  BY DEF AddMsg, RemoveMsg, RequestMsg, Messages
<1>2. ASSUME NEW m \in Messages
      PROVE  /\ m.op = "add" => \E a \in Adapters, i \in Instances, k \in LocationCallbacks :
                                   m = AddMsg(a, i, k)
             /\ m.op = "remove" => \E a \in Adapters, i \in Instances : m = RemoveMsg(a, i)
             /\ m.op = "capabilities" => \E a \in Adapters, i \in Instances : m = RequestMsg(a, i)
             /\ m.op \in {"add", "remove", "capabilities"}
  <2>1. CASE m \in [op : {"add"}, to : Adapters, client : Instances, callbacks : LocationCallbacks]
    <3>1. m.op = "add" /\ m = AddMsg(m.to, m.client, m.callbacks)
      BY <2>1 DEF AddMsg
    <3>2. m.to \in Adapters /\ m.client \in Instances /\ m.callbacks \in LocationCallbacks
      BY <2>1
    <3>. QED BY <3>1, <3>2
  <2>2. CASE m \in [op : {"remove", "capabilities"}, to : Adapters, client : Instances]
    <3>1. /\ m.op = "remove" => m = RemoveMsg(m.to, m.client)
          /\ m.op = "capabilities" => m = RequestMsg(m.to, m.client)
      BY <2>2 DEF RemoveMsg, RequestMsg
    <3>2. m.to \in Adapters /\ m.client \in Instances /\ m.op \in {"remove", "capabilities"}
      BY <2>2
    <3>. QED BY <3>1, <3>2
  <2>. QED BY <2>1, <2>2 DEF Messages
<1>. QED BY <1>1, <1>2

LEMMA Fields ==
    /\ \A a, i, k : /\ AddMsg(a, i, k).op = "add" /\ AddMsg(a, i, k).to = a
                    /\ AddMsg(a, i, k).client = i /\ AddMsg(a, i, k).callbacks = k
    /\ \A a, i : RemoveMsg(a, i).op = "remove" /\ RemoveMsg(a, i).to = a /\ RemoveMsg(a, i).client = i
    /\ \A a, i : RequestMsg(a, i).op = "capabilities" /\ RequestMsg(a, i).to = a
                 /\ RequestMsg(a, i).client = i
BY DEF AddMsg, RemoveMsg, RequestMsg

LEMMA Distinct ==
    /\ \A a, b, i, j, k, l : AddMsg(a, i, k) = AddMsg(b, j, l) => a = b /\ i = j /\ k = l
    /\ \A a, b, i, j : RemoveMsg(a, i) = RemoveMsg(b, j) => a = b /\ i = j
    /\ \A a, b, i, j, k : AddMsg(a, i, k) # RemoveMsg(b, j)
    /\ \A a, b, i, j, k : AddMsg(a, i, k) # RequestMsg(b, j)
    /\ \A a, b, i, j : RemoveMsg(a, i) # RequestMsg(b, j)
BY Fields

\* The adapters of a set, each once.
LEMMA EachInOrder ==
    ASSUME NEW S, S \subseteq AllAdapters
    PROVE  /\ InOrder(S) \in Seq(S)
           /\ Len(InOrder(S)) \in Nat
           /\ \A a \in S : \E n \in 1 .. Len(InOrder(S)) : InOrder(S)[n] = a
           /\ \A m, n \in 1 .. Len(InOrder(S)) : InOrder(S)[m] = InOrder(S)[n] => m = n
<1>. DEFINE p == IfIn("gnss", S)
            q == IfIn("batching", S)
            r == IfIn("geofence", S)
<1>1. p \in Seq(S) /\ q \in Seq(S) /\ r \in Seq(S)
  BY DEF IfIn
<1>2. /\ \A a : Len(IfIn(a, S)) = IF a \in S THEN 1 ELSE 0
      /\ \A a : a \in S => IfIn(a, S)[1] = a
  BY DEF IfIn
<1>. HIDE DEF p, q, r
<1>3. /\ p \o q \in Seq(S) /\ Len(p \o q) = Len(p) + Len(q)
      /\ \A i \in 1 .. Len(p) + Len(q) : (p \o q)[i] = IF i <= Len(p) THEN p[i] ELSE q[i - Len(p)]
  BY <1>1, ConcatProperties
<1>4. /\ (p \o q) \o r \in Seq(S) /\ Len((p \o q) \o r) = Len(p \o q) + Len(r)
      /\ \A i \in 1 .. Len(p \o q) + Len(r) : ((p \o q) \o r)[i] =
            IF i <= Len(p \o q) THEN (p \o q)[i] ELSE r[i - Len(p \o q)]
  BY <1>1, <1>3, ConcatProperties
<1>5. /\ Len(p) = IF "gnss" \in S THEN 1 ELSE 0
      /\ Len(q) = IF "batching" \in S THEN 1 ELSE 0
      /\ Len(r) = IF "geofence" \in S THEN 1 ELSE 0
      /\ "gnss" \in S => p[1] = "gnss"
      /\ "batching" \in S => q[1] = "batching"
      /\ "geofence" \in S => r[1] = "geofence"
  BY <1>2 DEF p, q, r
<1>6. InOrder(S) = (p \o q) \o r
  BY DEF InOrder, p, q, r
<1>7. \A a \in S : a \in {"gnss", "batching", "geofence"}
  BY DEF AllAdapters
<1>. DEFINE t == (p \o q) \o r
<1>8. /\ "gnss" \in S => t[1] = "gnss"
      /\ "batching" \in S => t[Len(p) + 1] = "batching"
      /\ "geofence" \in S => t[Len(p) + Len(q) + 1] = "geofence"
      /\ Len(t) = Len(p) + Len(q) + Len(r)
      /\ Len(p) \in {0, 1} /\ Len(q) \in {0, 1} /\ Len(r) \in {0, 1}
  BY <1>3, <1>4, <1>5
<1>. HIDE DEF t
<1>9. \A a \in S : \E n \in 1 .. Len(t) : t[n] = a
  BY <1>5, <1>7, <1>8
<1>10. \A m, n \in 1 .. Len(t) : t[m] = t[n] => m = n
  <2>1. ASSUME NEW n \in 1 .. Len(t)
        PROVE  \/ t[n] = "gnss" /\ n = 1
               \/ t[n] = "batching" /\ n = Len(p) + 1
               \/ t[n] = "geofence" /\ n = Len(p) + Len(q) + 1
    <3>1. CASE "gnss" \in S
      BY <1>5, <1>8, <3>1
    <3>2. CASE "gnss" \notin S
      BY <1>5, <1>8, <3>2
    <3>. QED BY <3>1, <3>2
  <2>. QED BY <2>1
<1>11. t \in Seq(S) /\ t = InOrder(S)
  BY <1>4, <1>6 DEF t
<1>. QED BY <1>8, <1>9, <1>10, <1>11

\* A function on 1 .. N is a sequence of length N.
LEMMA FunctionIsSeq ==
    ASSUME NEW M, NEW N \in Nat, NEW f \in [1 .. N -> M]
    PROVE  /\ f \in Seq(M) /\ Len(f) = N
<1>1. DOMAIN f = 1 .. N
  OBVIOUS
<1>2. f \in Seq(M)
  BY IsASeq
<1>. QED BY <1>1, <1>2, LenProperties

\* Messages that add client i with callbacks k to the adapters of S.
Announce(s, S, i, k) ==
    /\ s \in Seq(Messages)
    /\ \A n \in 1 .. Len(s) :
          \/ \E a \in Adapters : s[n] = RequestMsg(a, i)
          \/ \E a \in S : s[n] = AddMsg(a, i, k)
    /\ \A a \in S : \E n \in 1 .. Len(s) : s[n] = AddMsg(a, i, k)

LEMMA AddToEffect ==
    ASSUME NEW S \in SUBSET Adapters, NEW as \in Seq(S), NEW i \in Instances,
           NEW k \in LocationCallbacks
    PROVE  /\ AddTo(as, i, k) \in Seq(Messages)
           /\ Len(AddTo(as, i, k)) = Len(as)
           /\ \A n \in 1 .. Len(as) : AddTo(as, i, k)[n] = AddMsg(as[n], i, k) /\ as[n] \in S
<1>. DEFINE s == AddTo(as, i, k)
<1>1. Len(as) \in Nat /\ DOMAIN as = 1 .. Len(as)
  BY LenProperties
<1>2. \A n \in 1 .. Len(as) : as[n] \in S
  BY ElementOfSeq
<1>3. s = [n \in 1 .. Len(as) |-> AddMsg(as[n], i, k)]
  BY <1>1 DEF AddTo, AddMsg
<1>4. \A n \in 1 .. Len(as) : AddMsg(as[n], i, k) \in Messages
  BY <1>2, Forms
<1>5. s \in [1 .. Len(as) -> Messages]
  BY <1>3, <1>4
<1>6. \A n \in 1 .. Len(as) : s[n] = AddMsg(as[n], i, k)
  BY <1>3
<1>. HIDE DEF s
<1>7. s \in Seq(Messages) /\ Len(s) = Len(as)
  BY <1>1, <1>5, FunctionIsSeq
<1>8. /\ s \in Seq(Messages) /\ Len(s) = Len(as)
      /\ \A n \in 1 .. Len(as) : s[n] = AddMsg(as[n], i, k) /\ as[n] \in S
  BY <1>2, <1>6, <1>7
<1>. QED BY <1>8 DEF s

LEMMA UpdateAnnounces ==
    ASSUME NEW S \in SUBSET Adapters, NEW i \in Instances, NEW k \in LocationCallbacks
    PROVE  Announce(AddTo(InOrder(S), i, k), S, i, k)
<1>. DEFINE as == InOrder(S)
            s == AddTo(as, i, k)
<1>1. as \in Seq(S) /\ \A a \in S : \E n \in 1 .. Len(as) : as[n] = a
  BY LocationApiAssumption, EachInOrder DEF LocationApiAssumption
<1>. HIDE DEF as
<1>2. /\ s \in Seq(Messages) /\ Len(s) = Len(as)
      /\ \A n \in 1 .. Len(as) : s[n] = AddMsg(as[n], i, k) /\ as[n] \in S
  BY <1>1, AddToEffect
<1>. HIDE DEF s
<1>3. /\ \A n \in 1 .. Len(s) : \E a \in S : s[n] = AddMsg(a, i, k)
      /\ \A a \in S : \E n \in 1 .. Len(s) : s[n] = AddMsg(a, i, k)
  BY <1>1, <1>2
<1>4. Announce(s, S, i, k)
  BY <1>2, <1>3 DEF Announce
<1>. QED BY <1>4 DEF s, as

LEMMA Singleton ==
    ASSUME NEW S, NEW e \in S
    PROVE  <<e>> \in Seq(S) /\ Len(<<e>>) = 1 /\ <<e>>[1] = e
OBVIOUS

\* The elements of a concatenation are those of its parts.
Joins(u, s, t) ==
    /\ \A n \in 1 .. Len(u) : \/ \E m \in 1 .. Len(s) : u[n] = s[m]
                            \/ \E m \in 1 .. Len(t) : u[n] = t[m]
    /\ \A m \in 1 .. Len(s) : \E n \in 1 .. Len(u) : u[n] = s[m]
    /\ \A m \in 1 .. Len(t) : \E n \in 1 .. Len(u) : u[n] = t[m]

LEMMA Joined ==
    ASSUME NEW M, NEW s \in Seq(M), NEW t \in Seq(M)
    PROVE  s \o t \in Seq(M) /\ Joins(s \o t, s, t)
<1>. DEFINE u == s \o t
<1>1. /\ u \in Seq(M) /\ Len(u) = Len(s) + Len(t)
      /\ \A n \in 1 .. Len(s) + Len(t) : u[n] = IF n <= Len(s) THEN s[n] ELSE t[n - Len(s)]
  BY ConcatProperties
<1>2. Len(s) \in Nat /\ Len(t) \in Nat
  BY LenProperties
<1>. HIDE DEF u
<1>3. ASSUME NEW n \in 1 .. Len(u)
      PROVE  \/ \E m \in 1 .. Len(s) : u[n] = s[m]
             \/ \E m \in 1 .. Len(t) : u[n] = t[m]
  <2>1. CASE n <= Len(s)
    BY <1>1, <1>2, <2>1
  <2>2. CASE ~(n <= Len(s))
    <3>1. n - Len(s) \in 1 .. Len(t)
      BY <1>1, <1>2, <2>2
    <3>. QED BY <1>1, <2>2, <3>1
  <2>. QED BY <2>1, <2>2
<1>4. ASSUME NEW m \in 1 .. Len(s)
      PROVE  \E n \in 1 .. Len(u) : u[n] = s[m]
  BY <1>1, <1>2
<1>5. ASSUME NEW m \in 1 .. Len(t)
      PROVE  \E n \in 1 .. Len(u) : u[n] = t[m]
  <2>1. Len(s) + m \in 1 .. Len(u) /\ ~(Len(s) + m <= Len(s)) /\ (Len(s) + m) - Len(s) = m
    BY <1>1, <1>2
  <2>. QED BY <1>1, <2>1
<1>6. Joins(u, s, t)
  BY <1>3, <1>4, <1>5 DEF Joins
<1>. QED BY <1>1, <1>6 DEF u

\* The elements of a sequence are its head and those of its tail.
LEMMA HeadOrTail ==
    ASSUME NEW M, NEW s \in Seq(M), s # << >>
    PROVE  /\ Head(s) \in M /\ Tail(s) \in Seq(M)
           /\ \A n \in 1 .. Len(s) : s[n] = Head(s) \/ \E m \in 1 .. Len(Tail(s)) : s[n] = Tail(s)[m]
<1>1. /\ Head(s) \in M /\ Tail(s) \in Seq(M) /\ Len(Tail(s)) = Len(s) - 1
      /\ \A n \in 1 .. Len(Tail(s)) : Tail(s)[n] = s[n + 1]
  BY HeadTailProperties
<1>2. Len(s) \in Nat
  BY LenProperties
<1>3. Head(s) = s[1]
  OBVIOUS
<1>4. ASSUME NEW n \in 1 .. Len(s)
      PROVE  s[n] = Head(s) \/ \E m \in 1 .. Len(Tail(s)) : s[n] = Tail(s)[m]
  <2>1. CASE n = 1
    BY <1>3, <2>1
  <2>2. CASE n # 1
    <3>1. n - 1 \in 1 .. Len(Tail(s)) /\ (n - 1) + 1 = n
      BY <1>1, <1>2, <2>2
    <3>. QED BY <1>1, <3>1
  <2>. QED BY <2>1, <2>2
<1>. QED BY <1>1, <1>4

LEMMA AdditionsAnnounce ==
    ASSUME NEW S \in SUBSET Adapters, NEW as \in Seq(S), as # << >>,
           \A a \in S : \E n \in 1 .. Len(as) : as[n] = a,
           NEW i \in Instances, NEW k \in LocationCallbacks
    PROVE  Announce(Additions(as, i, k), S, i, k)
<1>. DEFINE h == <<Head(as)>>
            c == <<RequestMsg(Head(as), i)>>
            T == Tail(as)
            x == AddTo(h, i, k)
            z == AddTo(T, i, k)
<1>1. /\ Head(as) \in S /\ T \in Seq(S)
      /\ \A n \in 1 .. Len(as) : as[n] = Head(as) \/ \E m \in 1 .. Len(T) : as[n] = T[m]
  BY HeadOrTail
<1>2. h \in Seq(S) /\ Len(h) = 1 /\ h[1] = Head(as)
  BY <1>1, Singleton
<1>3. RequestMsg(Head(as), i) \in Messages
  BY <1>1, Forms
<1>4. c \in Seq(Messages) /\ Len(c) = 1 /\ c[1] = RequestMsg(Head(as), i)
  BY <1>3, Singleton
<1>5. Additions(as, i, k) = (x \o c) \o z
  BY DEF Additions, RequestMsg
<1>. HIDE DEF h, c, T
<1>6. /\ x \in Seq(Messages) /\ Len(x) = Len(h)
      /\ \A n \in 1 .. Len(h) : x[n] = AddMsg(h[n], i, k)
  BY <1>2, AddToEffect
<1>7. /\ z \in Seq(Messages) /\ Len(z) = Len(T)
      /\ \A n \in 1 .. Len(T) : z[n] = AddMsg(T[n], i, k) /\ T[n] \in S
  BY <1>1, AddToEffect
<1>. HIDE DEF x, z
<1>8. 1 \in 1 .. Len(h) /\ Len(x) = 1
  BY <1>2, <1>6
<1>9. x[1] = AddMsg(Head(as), i, k)
  BY <1>2, <1>6, <1>8
<1>. DEFINE y == x \o c
            s == y \o z
<1>10. y \in Seq(Messages) /\ Joins(y, x, c)
  BY <1>4, <1>6, Joined
<1>. HIDE DEF y
<1>11. s \in Seq(Messages) /\ Joins(s, y, z)
  BY <1>7, <1>10, Joined
<1>. HIDE DEF s
<1>12. ASSUME NEW n \in 1 .. Len(y)
       PROVE  y[n] = AddMsg(Head(as), i, k) \/ y[n] = RequestMsg(Head(as), i)
  <2>1. CASE \E m \in 1 .. Len(x) : y[n] = x[m]
    <3>1. PICK m \in 1 .. Len(x) : y[n] = x[m]
      BY <2>1
    <3>2. m = 1
      BY <1>8, <3>1
    <3>. QED BY <1>9, <3>1, <3>2
  <2>2. CASE \E m \in 1 .. Len(c) : y[n] = c[m]
    <3>1. PICK m \in 1 .. Len(c) : y[n] = c[m]
      BY <2>2
    <3>2. m = 1
      BY <1>4, <3>1
    <3>. QED BY <1>4, <3>1, <3>2
  <2>. QED BY <1>10, <2>1, <2>2 DEF Joins
<1>13. \E n \in 1 .. Len(y) : y[n] = AddMsg(Head(as), i, k)
  <2>1. 1 \in 1 .. Len(x)
    BY <1>8
  <2>2. PICK n \in 1 .. Len(y) : y[n] = x[1]
    BY <1>10, <2>1 DEF Joins
  <2>. QED BY <1>9, <2>2
<1>14. ASSUME NEW n \in 1 .. Len(s)
       PROVE  \/ \E a \in Adapters : s[n] = RequestMsg(a, i)
              \/ \E a \in S : s[n] = AddMsg(a, i, k)
  <2>1. CASE \E m \in 1 .. Len(y) : s[n] = y[m]
    <3>1. PICK m \in 1 .. Len(y) : s[n] = y[m]
      BY <2>1
    <3>2. s[n] = AddMsg(Head(as), i, k) \/ s[n] = RequestMsg(Head(as), i)
      BY <1>12, <3>1
    <3>. QED BY <1>1, <3>2
  <2>2. CASE \E m \in 1 .. Len(z) : s[n] = z[m]
    <3>1. PICK m \in 1 .. Len(z) : s[n] = z[m]
      BY <2>2
    <3>2. z[m] = AddMsg(T[m], i, k) /\ T[m] \in S
      BY <1>7
    <3>. QED BY <3>1, <3>2
  <2>. QED BY <1>11, <2>1, <2>2 DEF Joins
<1>15. ASSUME NEW a \in S
       PROVE  \E n \in 1 .. Len(s) : s[n] = AddMsg(a, i, k)
  <2>1. PICK n \in 1 .. Len(as) : as[n] = a
    OBVIOUS
  <2>2. CASE a = Head(as)
    BY <1>11, <1>13, <2>2 DEF Joins
  <2>3. CASE \E m \in 1 .. Len(T) : a = T[m]
    BY <1>7, <1>11, <2>3 DEF Joins
  <2>. QED BY <1>1, <2>1, <2>2, <2>3
<1>16. Announce(s, S, i, k)
  BY <1>11, <1>14, <1>15 DEF Announce
<1>. QED BY <1>5, <1>16 DEF s, y

LEMMA CreateAnnounces ==
    ASSUME NEW S \in SUBSET Adapters, NEW i \in Instances, NEW k \in LocationCallbacks
    PROVE  Announce(Additions(InOrder(S), i, k), S, i, k)
<1>. DEFINE as == InOrder(S)
<1>1. as \in Seq(S) /\ Len(as) \in Nat /\ \A a \in S : \E n \in 1 .. Len(as) : as[n] = a
  BY LocationApiAssumption, EachInOrder DEF LocationApiAssumption
<1>. HIDE DEF as
<1>2. CASE as = << >>
  <2>1. Additions(as, i, k) = << >> /\ S = {}
    BY <1>1, <1>2 DEF Additions
  <2>2. << >> \in Seq(Messages) /\ Len(<< >>) = 0
    BY EmptySeq
  <2>3. Announce(<< >>, S, i, k)
    BY <2>1, <2>2 DEF Announce
  <2>. QED BY <2>1, <2>3 DEF as
<1>3. CASE as # << >>
  <2>1. Announce(Additions(as, i, k), S, i, k)
    BY <1>1, <1>3, AdditionsAnnounce
  <2>. QED BY <2>1 DEF as
<1>. QED BY <1>2, <1>3

\* Messages that remove client i from the adapters of S, one from each.
Withdraw(s, S, i) ==
    /\ s \in Seq(Messages)
    /\ \A n \in 1 .. Len(s) : \E a \in S : s[n] = RemoveMsg(a, i)
    /\ \A a \in S : \E n \in 1 .. Len(s) : s[n] = RemoveMsg(a, i)
    /\ \A m, n \in 1 .. Len(s) : s[m] = s[n] => m = n

LEMMA DestroyWithdraws ==
    ASSUME NEW S \in SUBSET Adapters, NEW i \in Instances
    PROVE  Withdraw(RemoveFrom(InOrder(S), i), S, i)
<1>. DEFINE as == InOrder(S)
            s == RemoveFrom(as, i)
<1>1. /\ as \in Seq(S)
      /\ \A a \in S : \E n \in 1 .. Len(as) : as[n] = a
      /\ \A m, n \in 1 .. Len(as) : as[m] = as[n] => m = n
  BY LocationApiAssumption, EachInOrder DEF LocationApiAssumption
<1>. HIDE DEF as
<1>2. Len(as) \in Nat /\ DOMAIN as = 1 .. Len(as)
  BY <1>1, LenProperties
<1>3. \A n \in 1 .. Len(as) : as[n] \in S
  BY <1>1, ElementOfSeq
<1>4. s = [n \in 1 .. Len(as) |-> RemoveMsg(as[n], i)]
  BY <1>2 DEF RemoveFrom, RemoveMsg
<1>5. \A n \in 1 .. Len(as) : RemoveMsg(as[n], i) \in Messages
  BY <1>3, Forms
<1>6. s \in [1 .. Len(as) -> Messages]
  BY <1>4, <1>5
<1>7. \A n \in 1 .. Len(as) : s[n] = RemoveMsg(as[n], i)
  BY <1>4
<1>. HIDE DEF s
<1>8. s \in Seq(Messages) /\ Len(s) = Len(as)
  BY <1>2, <1>6, FunctionIsSeq
<1>9. /\ \A n \in 1 .. Len(s) : \E a \in S : s[n] = RemoveMsg(a, i)
      /\ \A a \in S : \E n \in 1 .. Len(s) : s[n] = RemoveMsg(a, i)
  BY <1>1, <1>3, <1>7, <1>8
<1>10. \A m, n \in 1 .. Len(s) : s[m] = s[n] => m = n
  <2>. SUFFICES ASSUME NEW m \in 1 .. Len(s), NEW n \in 1 .. Len(s), s[m] = s[n]
                PROVE  m = n
    OBVIOUS
  <2>1. RemoveMsg(as[m], i) = RemoveMsg(as[n], i)
    BY <1>7, <1>8
  <2>2. as[m] = as[n]
    BY <2>1, Distinct
  <2>. QED BY <1>1, <1>8, <2>2
<1>11. Withdraw(s, S, i)
  BY <1>8, <1>9, <1>10 DEF Withdraw
<1>. QED BY <1>11 DEF s, as

\* Requests for capabilities of an adapter.
Requests(s, a) ==
    /\ s \in Seq(Messages)
    /\ \A n \in 1 .. Len(s) : \E i \in Instances : s[n] = RequestMsg(a, i)

LEMMA ResentAreRequests ==
    ASSUME NEW a \in Adapters, pending[a] \in Seq(Instances)
    PROVE  Requests(Resent(a), a)
<1>. DEFINE is == pending[a]
            s == Resent(a)
<1>1. Len(is) \in Nat /\ DOMAIN is = 1 .. Len(is)
  BY LenProperties
<1>2. \A n \in 1 .. Len(is) : is[n] \in Instances
  BY ElementOfSeq
<1>3. s = [n \in 1 .. Len(is) |-> RequestMsg(a, is[n])]
  BY <1>1 DEF Resent, RequestMsg
<1>4. \A n \in 1 .. Len(is) : RequestMsg(a, is[n]) \in Messages
  BY <1>2, Forms
<1>5. s \in [1 .. Len(is) -> Messages]
  BY <1>3, <1>4
<1>6. \A n \in 1 .. Len(is) : s[n] = RequestMsg(a, is[n])
  BY <1>3
<1>. HIDE DEF s, is
<1>7. s \in Seq(Messages) /\ Len(s) = Len(is)
  BY <1>1, <1>5, FunctionIsSeq
<1>8. Requests(s, a)
  BY <1>2, <1>6, <1>7 DEF Requests
<1>. QED BY <1>8 DEF s

-----------------------------------------------------------------------------
(* Types *)

LEMMA TypeStep == TypeOK /\ Counted /\ [Next]_vars => TypeOK'
<1>. SUFFICES ASSUME TypeOK, Counted, [Next]_vars
              PROVE  TypeOK'
  OBVIOUS
<1>. USE LocationApiAssumption DEF LocationApiAssumption
<1>1. inbox \in Seq(Messages) /\ pending \in [Adapters -> Seq(Instances)]
  BY DEF TypeOK
<1>2. CASE UNCHANGED vars
  BY <1>2 DEF TypeOK, vars
<1>3. ASSUME NEW k \in LocationCallbacks, NEW l \in Loads(k)
      PROVE  l \in [Adapters -> {"no", "yes", "failed"}] /\ k \cap Available(l) \in SUBSET Adapters
  BY DEF Loads, Available
<1>4. ASSUME NEW s \in Seq(Messages)
      PROVE  inbox \o s \in Seq(Messages)
  BY <1>1, <1>4, ConcatProperties
<1>5. ASSUME NEW i \in Instances, NEW k \in LocationCallbacks, createInstance(i, k)
      PROVE  TypeOK'
  <2>1. PICK l \in Loads(k) :
          LET as == InOrder(k \cap Available(l))
          IN  /\ loaded' = l
              /\ inbox' = inbox \o Additions(as, i, k)
              /\ capabilities' = [capabilities EXCEPT ![i] =
                                    IF as = << >> THEN "unasked" ELSE "asked"]
    BY <1>5 DEF createInstance
  <2>2. Additions(InOrder(k \cap Available(l)), i, k) \in Seq(Messages)
    BY <1>3, CreateAnnounces DEF Announce
  <2>3. inbox' \in Seq(Messages)
    BY <1>4, <2>1, <2>2
  <2>4. loaded' \in [Adapters -> {"no", "yes", "failed"}]
    BY <1>3, <2>1
  <2>5. capabilities' \in [Instances -> {"unasked", "asked", "told"}]
    BY <2>1 DEF TypeOK
  <2>6. /\ object' \in [Instances -> {"free", "alive"}]
        /\ clientData' \in [Instances -> LocationCallbacks \cup {NoEntry}]
        /\ refCount' \in Nat /\ framework' \in BOOLEAN
    BY <1>5 DEF createInstance, TypeOK
  <2>. QED BY <1>5, <2>3, <2>4, <2>5, <2>6 DEF createInstance, TypeOK, adapters
<1>6. ASSUME NEW i \in Instances, NEW k \in LocationCallbacks, updateCallbacks(i, k)
      PROVE  TypeOK'
  <2>1. PICK l \in Loads(k) :
          /\ loaded' = l
          /\ inbox' = inbox \o AddTo(InOrder(k \cap Available(l)), i, k)
    BY <1>6 DEF updateCallbacks
  <2>2. AddTo(InOrder(k \cap Available(l)), i, k) \in Seq(Messages)
    BY <1>3, UpdateAnnounces DEF Announce
  <2>3. inbox' \in Seq(Messages)
    BY <1>4, <2>1, <2>2
  <2>4. loaded' \in [Adapters -> {"no", "yes", "failed"}]
    BY <1>3, <2>1
  <2>5. clientData' \in [Instances -> LocationCallbacks \cup {NoEntry}]
    BY <1>6 DEF updateCallbacks, TypeOK
  <2>. QED BY <1>6, <2>3, <2>4, <2>5 DEF updateCallbacks, TypeOK, adapters
<1>7. ASSUME NEW i \in Instances, destroy(i)
      PROVE  TypeOK'
  <2>1. Available(loaded) \in SUBSET Adapters
    BY DEF Available
  <2>2. RemoveFrom(InOrder(Available(loaded)), i) \in Seq(Messages)
    BY <2>1, DestroyWithdraws DEF Withdraw
  <2>3. inbox' \in Seq(Messages)
    BY <1>4, <1>7, <2>2 DEF destroy
  <2>4. /\ object' \in [Instances -> {"free", "alive"}]
        /\ destroyData' \in [Instances -> SUBSET Adapters]
        /\ clientData' \in [Instances -> LocationCallbacks \cup {NoEntry}]
        /\ framework' \in BOOLEAN
    BY <1>7, <2>1 DEF destroy, Unregister, TypeOK
  <2>5. refCount' \in Nat
    <3>1. i \in Clients /\ IsFiniteSet(Clients)
      BY <1>7, FS_Subset DEF destroy, Clients
    <3>2. Cardinality(Clients) \in Nat /\ Cardinality(Clients) # 0
      BY <3>1, FS_CardinalityType, FS_EmptySet
    <3>3. refCount' = Cardinality(Clients) - 1
      BY <1>7 DEF destroy, Unregister, Counted
    <3>. QED BY <3>2, <3>3
  <2>. QED BY <1>7, <2>3, <2>4, <2>5 DEF destroy, Unregister, TypeOK, adapters
<1>8. CASE HandleMessage
  <2>1. inbox # << >> /\ inbox' = Tail(inbox)
    BY <1>8 DEF HandleMessage, AddClient, RemoveClient, RequestCapabilities, Handle
  <2>2. Head(inbox) \in Messages /\ inbox' \in Seq(Messages)
    BY <1>1, <2>1, HeadTailProperties
  <2>3. CASE AddClient
    <3>1. Head(inbox).op = "add"
      BY <2>3 DEF AddClient, Handle
    <3>2. PICK b \in Adapters, j \in Instances, k \in LocationCallbacks : Head(inbox) = AddMsg(b, j, k)
      BY <2>2, <3>1, Forms
    <3>. /\ Head(inbox).to = b /\ Head(inbox).client = j /\ Head(inbox).callbacks = k
      BY <3>2, Fields
    <3>3. mClientData' = [mClientData EXCEPT ![b][j] = k]
      BY <2>3 DEF AddClient
    <3>4. mClientData' \in [Adapters -> [Instances -> LocationCallbacks \cup {NoEntry}]]
      BY <3>3 DEF TypeOK
    <3>. QED BY <2>2, <2>3, <3>4 DEF AddClient, TypeOK, api
  <2>4. CASE RemoveClient
    <3>1. Head(inbox).op = "remove"
      BY <2>4 DEF RemoveClient, Handle
    <3>2. PICK b \in Adapters, j \in Instances : Head(inbox) = RemoveMsg(b, j)
      BY <2>2, <3>1, Forms
    <3>. /\ Head(inbox).to = b /\ Head(inbox).client = j
      BY <3>2, Fields
    <3>3. mClientData' = [mClientData EXCEPT ![b][j] = NoEntry] /\ onRemoveClientCompleteCb(j, b)
      BY <2>4 DEF RemoveClient
    <3>4. /\ mClientData' \in [Adapters -> [Instances -> LocationCallbacks \cup {NoEntry}]]
          /\ destroyData' \in [Instances -> SUBSET Adapters]
          /\ object' \in [Instances -> {"free", "alive"}]
      BY <3>3 DEF onRemoveClientCompleteCb, TypeOK
    <3>. QED BY <2>2, <2>4, <3>4 DEF RemoveClient, TypeOK
  <2>5. CASE RequestCapabilities
    <3>1. Head(inbox).op = "capabilities"
      BY <2>5 DEF RequestCapabilities, Handle
    <3>2. PICK b \in Adapters, j \in Instances : Head(inbox) = RequestMsg(b, j)
      BY <2>2, <3>1, Forms
    <3>3. \/ pending' = [pending EXCEPT ![b] = Append(@, j)] /\ UNCHANGED capabilities
          \/ (\E S : capabilities' = TellAll(S)) /\ UNCHANGED pending
      BY <2>5, <3>2, Fields DEF RequestCapabilities
    <3>4. Append(pending[b], j) \in Seq(Instances)
      BY <1>1
    <3>5. pending' \in [Adapters -> Seq(Instances)]
      BY <1>1, <3>3, <3>4
    <3>6. capabilities' \in [Instances -> {"unasked", "asked", "told"}]
      BY <3>3 DEF TypeOK, TellAll
    <3>. QED BY <2>2, <2>5, <3>5, <3>6 DEF RequestCapabilities, TypeOK, api
  <2>. QED BY <1>8, <2>3, <2>4, <2>5 DEF HandleMessage
<1>9. ASSUME NEW a \in Adapters, EngineUp(a)
      PROVE  TypeOK'
  <2>1. Resent(a) \in Seq(Messages)
    BY <1>1, ResentAreRequests DEF Requests
  <2>2. inbox' \in Seq(Messages)
    BY <1>4, <1>9, <2>1 DEF EngineUp
  <2>3. << >> \in Seq(Instances)
    BY EmptySeq
  <2>4. pending' \in [Adapters -> Seq(Instances)]
    BY <1>1, <1>9, <2>3 DEF EngineUp
  <2>5. /\ known' \in [Adapters -> BOOLEAN]
        /\ capabilities' \in [Instances -> {"unasked", "asked", "told"}]
    BY <1>9 DEF EngineUp, TypeOK, TellAll
  <2>. QED BY <1>9, <2>2, <2>4, <2>5 DEF EngineUp, TypeOK, api
<1>. QED BY <1>2, <1>5, <1>6, <1>7, <1>8, <1>9 DEF Next

-----------------------------------------------------------------------------
(* Steps that do not concern an instance and an adapter *)

\* The queue grows by s, or loses its head.
Grows(s) ==
    /\ Len(inbox) \in Nat /\ Len(inbox') \in Nat /\ Len(s) \in Nat
    /\ \A n \in 1 .. Len(inbox) : n \in 1 .. Len(inbox') /\ inbox'[n] = inbox[n]
    /\ \A n \in 1 .. Len(s) : /\ Len(inbox) + n \in 1 .. Len(inbox')
                              /\ Len(inbox) + n \notin 1 .. Len(inbox)
                              /\ inbox'[Len(inbox) + n] = s[n]
    /\ \A n \in 1 .. Len(inbox') : n \notin 1 .. Len(inbox) =>
           n > Len(inbox) /\ \E m \in 1 .. Len(s) : n = Len(inbox) + m
Shrinks ==
    /\ Len(inbox) \in Nat /\ Len(inbox') \in Nat
    /\ 1 \in 1 .. Len(inbox) /\ inbox[1] = Head(inbox)
    /\ \A n \in 1 .. Len(inbox') : n + 1 \in 1 .. Len(inbox) /\ inbox'[n] = inbox[n + 1]
    /\ \A n \in 1 .. Len(inbox) : n # 1 =>
           n - 1 \in 1 .. Len(inbox') /\ inbox'[n - 1] = inbox[n] /\ (n - 1) + 1 = n

LEMMA Growing ==
    ASSUME inbox \in Seq(Messages), NEW s \in Seq(Messages), inbox' = inbox \o s
    PROVE  Grows(s)
<1>1. /\ Len(inbox') = Len(inbox) + Len(s)
      /\ \A n \in 1 .. Len(inbox) + Len(s) :
            inbox'[n] = IF n <= Len(inbox) THEN inbox[n] ELSE s[n - Len(inbox)]
  BY ConcatProperties
<1>2. Len(inbox) \in Nat /\ Len(s) \in Nat
  BY LenProperties
<1>3. ASSUME NEW n \in 1 .. Len(inbox)
      PROVE  n \in 1 .. Len(inbox') /\ inbox'[n] = inbox[n]
  BY <1>1, <1>2
<1>4. ASSUME NEW n \in 1 .. Len(s)
      PROVE  /\ Len(inbox) + n \in 1 .. Len(inbox') /\ Len(inbox) + n \notin 1 .. Len(inbox)
             /\ inbox'[Len(inbox) + n] = s[n]
  <2>1. /\ Len(inbox) + n \in 1 .. Len(inbox) + Len(s) /\ ~(Len(inbox) + n <= Len(inbox))
        /\ (Len(inbox) + n) - Len(inbox) = n
    BY <1>2
  <2>. QED BY <1>1, <1>2, <2>1
<1>5. ASSUME NEW n \in 1 .. Len(inbox'), n \notin 1 .. Len(inbox)
      PROVE  n > Len(inbox) /\ \E m \in 1 .. Len(s) : n = Len(inbox) + m
  <2>1. n > Len(inbox) /\ n - Len(inbox) \in 1 .. Len(s) /\ n = Len(inbox) + (n - Len(inbox))
    BY <1>1, <1>2, <1>5
  <2>. QED BY <2>1
<1>6. Len(inbox') \in Nat
  BY <1>1, <1>2
<1>. QED BY <1>2, <1>3, <1>4, <1>5, <1>6 DEF Grows

LEMMA Shrinking ==
    ASSUME inbox \in Seq(Messages), inbox # << >>, inbox' = Tail(inbox)
    PROVE  Shrinks
<1>1. /\ Len(inbox') = Len(inbox) - 1
      /\ \A n \in 1 .. Len(inbox') : inbox'[n] = inbox[n + 1]
  BY HeadTailProperties
<1>2. Len(inbox) \in Nat
  BY LenProperties
<1>3. Len(inbox) # 0
  BY EmptySeq
<1>4. inbox[1] = Head(inbox)
  OBVIOUS
<1>5. ASSUME NEW n \in 1 .. Len(inbox), n # 1
      PROVE  n - 1 \in 1 .. Len(inbox') /\ inbox'[n - 1] = inbox[n] /\ (n - 1) + 1 = n
  <2>1. n - 1 \in 1 .. Len(inbox') /\ (n - 1) + 1 = n
    BY <1>1, <1>2, <1>5
  <2>. QED BY <1>1, <2>1
<1>. QED BY <1>1, <1>2, <1>3, <1>4, <1>5 DEF Shrinks

\* Message m does not concern instance i at adapter a.
Silent(m, i, a) == m # RemoveMsg(a, i) /\ \A k \in LocationCallbacks : m # AddMsg(a, i, k)

\* Nothing that InStep reads of i and a changes, but for the loading of a.
Same(i, a) ==
    /\ clientData'[i] = clientData[i]
    /\ a \in destroyData'[i] <=> a \in destroyData[i]
    /\ mClientData'[a][i] = mClientData[a][i]
    /\ loaded[a] # "no" => loaded'[a] = loaded[a]

LEMMA Kept ==
    ASSUME NEW i \in Instances, NEW a \in Adapters, NEW s, Grows(s), Same(i, a),
           \A n \in 1 .. Len(s) : Silent(s[n], i, a), InStep(i, a)
    PROVE  InStep(i, a)'
<1>1. ASSUME NEW n \in 1 .. Len(inbox)
      PROVE  /\ n \in 1 .. Len(inbox')
             /\ Removal(n, i, a)' <=> Removal(n, i, a)
             /\ Addition(n, i, a)' <=> Addition(n, i, a)
             /\ Agrees(n, i, a)' <=> Agrees(n, i, a)
  BY DEF Grows, Same, Removal, Addition, Agrees
<1>2. ASSUME NEW n \in 1 .. Len(inbox'), n \notin 1 .. Len(inbox)
      PROVE  ~Removal(n, i, a)' /\ ~Addition(n, i, a)' /\ Agrees(n, i, a)'
  <2>1. PICK m \in 1 .. Len(s) : n = Len(inbox) + m
    BY <1>2 DEF Grows
  <2>2. inbox'[n] = s[m] /\ Silent(s[m], i, a)
    BY <2>1 DEF Grows
  <2>. QED BY <2>2 DEF Silent, Removal, Addition, Agrees
<1>3. WaitedFor(i, a)' <=> WaitedFor(i, a)
  BY <1>1, <1>2 DEF WaitedFor
<1>4. RemovedLast(i, a)'
  BY <1>1, <1>2, <1>3 DEF RemovedLast, InStep, Same
<1>5. AddedIfLoaded(i, a)'
  BY <1>1, <1>2 DEF AddedIfLoaded, InStep, Same
<1>6. HeardLast(i, a) => HeardLast(i, a)'
  BY <1>1, <1>2 DEF HeardLast, Same
<1>7. Informed(i, a)'
  BY <1>6 DEF Informed, InStep, Same
<1>. QED BY <1>4, <1>5, <1>7 DEF InStep

LEMMA Shifted ==
    ASSUME NEW i \in Instances, NEW a \in Adapters, Shrinks, Same(i, a),
           Silent(Head(inbox), i, a), InStep(i, a)
    PROVE  InStep(i, a)'
<1>1. ASSUME NEW n \in 1 .. Len(inbox), n # 1
      PROVE  /\ n - 1 \in 1 .. Len(inbox')
             /\ Removal(n - 1, i, a)' <=> Removal(n, i, a)
             /\ Addition(n - 1, i, a)' <=> Addition(n, i, a)
             /\ Agrees(n - 1, i, a)' <=> Agrees(n, i, a)
  BY <1>1 DEF Shrinks, Same, Removal, Addition, Agrees
<1>2. ASSUME NEW n \in 1 .. Len(inbox')
      PROVE  /\ n + 1 \in 1 .. Len(inbox)
             /\ Removal(n, i, a)' <=> Removal(n + 1, i, a)
             /\ Addition(n, i, a)' <=> Addition(n + 1, i, a)
             /\ Agrees(n, i, a)' <=> Agrees(n + 1, i, a)
  BY DEF Shrinks, Same, Removal, Addition, Agrees
<1>3. ~Removal(1, i, a) /\ ~Addition(1, i, a)
  BY DEF Shrinks, Silent, Removal, Addition
<1>4. Len(inbox) \in Nat /\ Len(inbox') \in Nat /\ 1 \in 1 .. Len(inbox)
  BY DEF Shrinks
<1>5. WaitedFor(i, a)' <=> WaitedFor(i, a)
  BY <1>1, <1>2, <1>3 DEF WaitedFor
<1>6. RemovedLast(i, a)'
  <2>1. ASSUME NEW m \in 1 .. Len(inbox'), NEW n \in 1 .. Len(inbox'),
               Removal(m, i, a)', Removal(n, i, a)'
        PROVE  m = n
    <3>1. m + 1 = n + 1
      BY <1>2, <2>1 DEF InStep, RemovedLast
    <3>. QED BY <1>4, <3>1
  <2>2. ASSUME clientData'[i] = NoEntry, NEW n \in 1 .. Len(inbox'), Addition(n, i, a)'
        PROVE  \E m \in 1 .. Len(inbox') : m > n /\ Removal(m, i, a)'
    <3>1. PICK m \in 1 .. Len(inbox) : m > n + 1 /\ Removal(m, i, a)
      BY <1>2, <2>2 DEF InStep, RemovedLast, Same
    <3>2. m # 1 /\ m - 1 > n
      BY <1>4, <3>1
    <3>. QED BY <1>1, <3>1, <3>2
  <2>. QED BY <1>5, <2>1, <2>2 DEF RemovedLast, InStep, Same
<1>7. AddedIfLoaded(i, a)'
  BY <1>2 DEF AddedIfLoaded, InStep, Same
<1>8. ASSUME HeardLast(i, a)
      PROVE  HeardLast(i, a)'
  <2>1. CASE \E n \in 1 .. Len(inbox) :
               /\ Addition(n, i, a)
               /\ \A m \in 1 .. Len(inbox) : m >= n => Agrees(m, i, a)
    <3>1. PICK n \in 1 .. Len(inbox) :
                 /\ Addition(n, i, a)
                 /\ \A m \in 1 .. Len(inbox) : m >= n => Agrees(m, i, a)
      BY <2>1
    <3>2. n # 1
      BY <1>3, <3>1
    <3>3. ASSUME NEW m \in 1 .. Len(inbox'), m >= n - 1
          PROVE  Agrees(m, i, a)'
      <4>1. m + 1 \in 1 .. Len(inbox) /\ m + 1 >= n
        BY <1>2, <1>4, <3>3
      <4>. QED BY <1>2, <3>1, <4>1
    <3>4. n - 1 \in 1 .. Len(inbox') /\ Addition(n - 1, i, a)'
      BY <1>1, <3>1, <3>2
    <3>. QED BY <3>3, <3>4 DEF HeardLast
  <2>2. CASE /\ mClientData[a][i] = clientData[i]
             /\ \A m \in 1 .. Len(inbox) : Agrees(m, i, a)
    BY <1>2, <2>2 DEF HeardLast, Same
  <2>. QED BY <1>8, <2>1, <2>2 DEF HeardLast
<1>9. Informed(i, a)'
  BY <1>8 DEF Informed, InStep, Same
<1>. QED BY <1>6, <1>7, <1>9 DEF InStep

-----------------------------------------------------------------------------
(* Steps that do *)

LEMMA Loading ==
    ASSUME TypeOK, NEW k, NEW l \in Loads(k), NEW a \in Adapters
    PROVE  /\ loaded[a] # "no" => l[a] = loaded[a]
           /\ a \in k => l[a] # "no"
           /\ a \in Available(l) <=> l[a] = "yes"
BY DEF Loads, TypeOK, Available

\* What announces client i is silent about the others, and tells the adapters
\* of S its callbacks k.
LEMMA Announcing ==
    ASSUME NEW i \in Instances, NEW S \in SUBSET Adapters, NEW k \in LocationCallbacks, NEW s,
           Announce(s, S, i, k)
    PROVE  /\ \A j \in Instances, a \in Adapters : j # i => \A n \in 1 .. Len(s) : Silent(s[n], j, a)
           /\ \A n \in 1 .. Len(s), a \in Adapters : s[n] # RemoveMsg(a, i)
           /\ \A n \in 1 .. Len(s), a \in Adapters, c \in LocationCallbacks :
                 s[n] = AddMsg(a, i, c) => a \in S /\ c = k
BY Distinct DEF Announce, Silent

\* An adapter is told of client i with callbacks k, whose removal is not waited for.
LEMMA Told ==
    ASSUME TypeOK, NEW i \in Instances, NEW k \in LocationCallbacks, NEW l \in Loads(k),
           NEW S \in SUBSET Adapters, \A b \in Adapters : b \in S <=> b \in k /\ b \in Available(l),
           NEW s, Announce(s, S, i, k), Grows(s), loaded' = l,
           clientData' = [clientData EXCEPT ![i] = k],
           UNCHANGED <<destroyData, mClientData>>,
           NEW a \in Adapters, InStep(i, a), ~WaitedFor(i, a)
    PROVE  InStep(i, a)'
<1>1. clientData'[i] = k /\ k # NoEntry
  BY NoEntryIsNone DEF TypeOK
<1>2. a \in S <=> a \in k /\ a \in Available(l)
  OBVIOUS
<1>3. /\ \A n \in 1 .. Len(s) : s[n] # RemoveMsg(a, i)
      /\ \A n \in 1 .. Len(s), c \in LocationCallbacks : s[n] = AddMsg(a, i, c) => a \in S /\ c = k
  <2>1. /\ \A n \in 1 .. Len(s), b \in Adapters : s[n] # RemoveMsg(b, i)
        /\ \A n \in 1 .. Len(s), b \in Adapters, c \in LocationCallbacks :
              s[n] = AddMsg(b, i, c) => b \in S /\ c = k
    BY Announcing
  <2>. QED BY <2>1
<1>4. ASSUME NEW n \in 1 .. Len(inbox)
      PROVE  /\ n \in 1 .. Len(inbox')
             /\ Removal(n, i, a)' <=> Removal(n, i, a)
             /\ Addition(n, i, a)' <=> Addition(n, i, a)
  BY DEF Grows, Removal, Addition
<1>5. ASSUME NEW n \in 1 .. Len(inbox'), n \notin 1 .. Len(inbox)
      PROVE  ~Removal(n, i, a)' /\ (Addition(n, i, a)' => a \in S) /\ Agrees(n, i, a)'
  <2>1. PICK m \in 1 .. Len(s) : n = Len(inbox) + m
    BY <1>5 DEF Grows
  <2>2. inbox'[n] = s[m]
    BY <2>1 DEF Grows
  <2>. QED BY <1>1, <1>3, <2>2 DEF Removal, Addition, Agrees
<1>6. ~WaitedFor(i, a)'
  BY <1>4, <1>5 DEF WaitedFor
<1>7. RemovedLast(i, a)'
  BY <1>1, <1>6 DEF RemovedLast, InStep, WaitedFor
<1>8. /\ loaded[a] # "no" => loaded'[a] = loaded[a]
      /\ a \in k => loaded'[a] # "no"
      /\ a \in Available(l) <=> loaded'[a] = "yes"
  BY Loading
<1>9. AddedIfLoaded(i, a)'
  BY <1>4, <1>5, <1>8 DEF AddedIfLoaded, InStep
<1>10. ASSUME a \in k, loaded'[a] = "yes"
       PROVE  HeardLast(i, a)'
  <2>1. PICK m \in 1 .. Len(s) : s[m] = AddMsg(a, i, k)
    BY <1>2, <1>8, <1>10 DEF Announce
  <2>2. PICK p \in 1 .. Len(inbox') : p \notin 1 .. Len(inbox) /\ inbox'[p] = s[m]
    BY DEF Grows
  <2>3. Addition(p, i, a)'
    BY <2>1, <2>2 DEF Addition
  <2>4. ASSUME NEW n \in 1 .. Len(inbox'), n >= p
        PROVE  Agrees(n, i, a)'
    <3>1. n \notin 1 .. Len(inbox)
      BY <2>2, <2>4 DEF Grows
    <3>. QED BY <1>5, <3>1
  <2>. QED BY <2>3, <2>4 DEF HeardLast
<1>11. Informed(i, a)'
  BY <1>1, <1>8, <1>10 DEF Informed
<1>. QED BY <1>7, <1>9, <1>11 DEF InStep

LEMMA CreateInStep ==
    ASSUME TypeOK, IInv, NEW i \in Instances, NEW k \in LocationCallbacks, createInstance(i, k)
    PROVE  \A j \in Instances, a \in Adapters : InStep(j, a)'
<1>1. PICK l \in Loads(k) :
        loaded' = l /\ inbox' = inbox \o Additions(InOrder(k \cap Available(l)), i, k)
  BY DEF createInstance
<1>. DEFINE S == k \cap Available(l)
            s == Additions(InOrder(S), i, k)
<1>2. S \in SUBSET Adapters /\ \A b \in Adapters : b \in S <=> b \in k /\ b \in Available(l)
  BY DEF Available
<1>3. Announce(s, S, i, k)
  BY <1>2, CreateAnnounces
<1>4. Grows(s)
  BY <1>1, <1>3, Growing DEF TypeOK, Announce
<1>. HIDE DEF s, S
<1>5. /\ clientData' = [clientData EXCEPT ![i] = k]
      /\ UNCHANGED <<destroyData, mClientData>> /\ object[i] = "free"
  BY DEF createInstance, adapters
<1>6. ASSUME NEW a \in Adapters
      PROVE  InStep(i, a)'
  <2>1. ~WaitedFor(i, a) /\ InStep(i, a)
    BY <1>5 DEF IInv, InStep, RemovedLast, Exists
  <2>. QED BY <1>1, <1>2, <1>3, <1>4, <1>5, <2>1, Told
<1>7. ASSUME NEW j \in Instances, NEW a \in Adapters, j # i
      PROVE  InStep(j, a)'
  <2>1. \A n \in 1 .. Len(s) : Silent(s[n], j, a)
    BY <1>2, <1>3, <1>7, Announcing
  <2>2. Same(j, a)
    BY <1>1, <1>5, <1>7, Loading DEF Same, TypeOK
  <2>3. InStep(j, a)
    BY DEF IInv
  <2>. QED BY <1>4, <2>1, <2>2, <2>3, Kept
<1>. QED BY <1>6, <1>7

LEMMA UpdateInStep ==
    ASSUME TypeOK, IInv, NEW i \in Instances, NEW k \in LocationCallbacks, updateCallbacks(i, k)
    PROVE  \A j \in Instances, a \in Adapters : InStep(j, a)'
<1>1. PICK l \in Loads(k) :
        loaded' = l /\ inbox' = inbox \o AddTo(InOrder(k \cap Available(l)), i, k)
  BY DEF updateCallbacks
<1>. DEFINE S == k \cap Available(l)
            s == AddTo(InOrder(S), i, k)
<1>2. S \in SUBSET Adapters /\ \A b \in Adapters : b \in S <=> b \in k /\ b \in Available(l)
  BY DEF Available
<1>3. Announce(s, S, i, k)
  BY <1>2, UpdateAnnounces
<1>4. Grows(s)
  BY <1>1, <1>3, Growing DEF TypeOK, Announce
<1>. HIDE DEF s, S
<1>5. /\ clientData' = [clientData EXCEPT ![i] = k]
      /\ UNCHANGED <<destroyData, mClientData>> /\ clientData[i] # NoEntry
  BY DEF updateCallbacks, adapters, Clients
<1>6. ASSUME NEW a \in Adapters
      PROVE  InStep(i, a)'
  <2>1. ~WaitedFor(i, a) /\ InStep(i, a)
    BY <1>5 DEF IInv, InStep, RemovedLast
  <2>. QED BY <1>1, <1>2, <1>3, <1>4, <1>5, <2>1, Told
<1>7. ASSUME NEW j \in Instances, NEW a \in Adapters, j # i
      PROVE  InStep(j, a)'
  <2>1. \A n \in 1 .. Len(s) : Silent(s[n], j, a)
    BY <1>2, <1>3, <1>7, Announcing
  <2>2. Same(j, a)
    BY <1>1, <1>5, <1>7, Loading DEF Same, TypeOK
  <2>3. InStep(j, a)
    BY DEF IInv
  <2>. QED BY <1>4, <2>1, <2>2, <2>3, Kept
<1>. QED BY <1>6, <1>7

LEMMA DestroyInStep ==
    ASSUME TypeOK, IInv, NEW i \in Instances, destroy(i)
    PROVE  \A j \in Instances, a \in Adapters : InStep(j, a)'
<1>. DEFINE S == Available(loaded)
            s == RemoveFrom(InOrder(S), i)
<1>1. S \in SUBSET Adapters /\ \A a \in Adapters : a \in S <=> loaded[a] = "yes"
  BY DEF Available
<1>2. Withdraw(s, S, i)
  BY <1>1, DestroyWithdraws
<1>3. Grows(s)
  BY <1>2, Growing DEF TypeOK, Withdraw, destroy
<1>4. /\ clientData' = [clientData EXCEPT ![i] = NoEntry]
      /\ destroyData' = [destroyData EXCEPT ![i] = S]
      /\ UNCHANGED <<loaded, mClientData>> /\ clientData[i] # NoEntry
  BY DEF destroy, Unregister, adapters, Clients
<1>. HIDE DEF s, S
<1>5. ASSUME NEW a \in Adapters
      PROVE  InStep(i, a)'
  <2>1. ~WaitedFor(i, a) /\ InStep(i, a)
    BY <1>4 DEF IInv, InStep, RemovedLast
  <2>2. clientData'[i] = NoEntry /\ destroyData'[i] = S
    BY <1>4 DEF TypeOK
  <2>3. ASSUME NEW n \in 1 .. Len(inbox)
        PROVE  /\ n \in 1 .. Len(inbox')
               /\ ~Removal(n, i, a)'
               /\ Addition(n, i, a)' <=> Addition(n, i, a)
    BY <1>3, <2>1 DEF Grows, Removal, Addition, WaitedFor
  <2>4. ASSUME NEW n \in 1 .. Len(inbox'), n \notin 1 .. Len(inbox)
        PROVE  ~Addition(n, i, a)' /\ \E m \in 1 .. Len(s) : n = Len(inbox) + m /\ inbox'[n] = s[m]
    <3>1. PICK m \in 1 .. Len(s) : n = Len(inbox) + m
      BY <1>3, <2>4 DEF Grows
    <3>2. inbox'[n] = s[m]
      BY <1>3, <3>1 DEF Grows
    <3>. QED BY <1>2, <3>1, <3>2, Distinct DEF Addition, Withdraw
  <2>5. ASSUME a \in S
        PROVE  \E n \in 1 .. Len(inbox') : n \notin 1 .. Len(inbox) /\ Removal(n, i, a)'
    <3>1. PICK m \in 1 .. Len(s) : s[m] = RemoveMsg(a, i)
      BY <1>2, <2>5 DEF Withdraw
    <3>2. PICK p \in 1 .. Len(inbox') : p \notin 1 .. Len(inbox) /\ inbox'[p] = s[m]
      BY <1>3 DEF Grows
    <3>3. Removal(p, i, a)'
      BY <3>1, <3>2 DEF Removal
    <3>. QED BY <3>2, <3>3
  <2>6. ASSUME NEW n \in 1 .. Len(inbox'), Removal(n, i, a)'
        PROVE  a \in S
    <3>1. n \notin 1 .. Len(inbox)
      BY <2>3, <2>6
    <3>2. PICK m \in 1 .. Len(s) : inbox'[n] = s[m]
      BY <2>4, <3>1
    <3>3. PICK b \in S : s[m] = RemoveMsg(b, i)
      BY <1>2, <3>2 DEF Withdraw
    <3>4. RemoveMsg(a, i) = RemoveMsg(b, i)
      BY <2>6, <3>2, <3>3 DEF Removal
    <3>. QED BY <3>4, Distinct
  <2>7. ASSUME NEW m \in 1 .. Len(inbox'), NEW n \in 1 .. Len(inbox'),
               Removal(m, i, a)', Removal(n, i, a)'
        PROVE  m = n
    <3>1. m \notin 1 .. Len(inbox) /\ n \notin 1 .. Len(inbox)
      BY <2>3, <2>7
    <3>2. PICK p \in 1 .. Len(s) : m = Len(inbox) + p /\ inbox'[m] = s[p]
      BY <2>4, <3>1
    <3>3. PICK q \in 1 .. Len(s) : n = Len(inbox) + q /\ inbox'[n] = s[q]
      BY <2>4, <3>1
    <3>4. s[p] = s[q]
      BY <2>7, <3>2, <3>3 DEF Removal
    <3>. QED BY <1>2, <3>2, <3>3, <3>4 DEF Withdraw
  <2>8. ASSUME NEW n \in 1 .. Len(inbox'), Addition(n, i, a)'
        PROVE  a \in S /\ \E m \in 1 .. Len(inbox') : m > n /\ Removal(m, i, a)'
    <3>1. n \in 1 .. Len(inbox) /\ Addition(n, i, a)
      BY <2>3, <2>4, <2>8
    <3>2. a \in S
      BY <1>1, <2>1, <3>1 DEF InStep, AddedIfLoaded
    <3>3. PICK m \in 1 .. Len(inbox') : m \notin 1 .. Len(inbox) /\ Removal(m, i, a)'
      BY <2>5, <3>2
    <3>4. m > n
      BY <1>3, <3>1, <3>3 DEF Grows
    <3>. QED BY <3>2, <3>3, <3>4
  <2>9. WaitedFor(i, a)' <=> a \in S
    BY <2>5, <2>6 DEF WaitedFor
  <2>10. mClientData'[a][i] # NoEntry => a \in S
    BY <1>1, <1>4, <2>1 DEF InStep, AddedIfLoaded
  <2>11. RemovedLast(i, a)'
    BY <2>2, <2>7, <2>8, <2>9, <2>10 DEF RemovedLast
  <2>12. AddedIfLoaded(i, a)'
    BY <1>1, <1>4, <2>8, <2>10 DEF AddedIfLoaded
  <2>13. Informed(i, a)'
    BY <2>2 DEF Informed
  <2>. QED BY <2>11, <2>12, <2>13 DEF InStep
<1>6. ASSUME NEW j \in Instances, NEW a \in Adapters, j # i
      PROVE  InStep(j, a)'
  <2>1. \A n \in 1 .. Len(s) : Silent(s[n], j, a)
    BY <1>2, <1>6, Distinct DEF Withdraw, Silent
  <2>2. Same(j, a)
    BY <1>4, <1>6 DEF Same, TypeOK
  <2>3. InStep(j, a)
    BY DEF IInv
  <2>. QED BY <1>3, <2>1, <2>2, <2>3, Kept
<1>. QED BY <1>5, <1>6

LEMMA AddInStep ==
    ASSUME TypeOK, IInv, AddClient
    PROVE  \A j \in Instances, a \in Adapters : InStep(j, a)'
<1>1. Shrinks /\ Head(inbox) \in Messages /\ Head(inbox).op = "add"
  BY Shrinking, HeadTailProperties DEF TypeOK, AddClient, Handle
<1>2. PICK b \in Adapters, i \in Instances, k \in LocationCallbacks : Head(inbox) = AddMsg(b, i, k)
  BY <1>1, Forms
<1>3. Head(inbox).to = b /\ Head(inbox).client = i /\ Head(inbox).callbacks = k
  BY <1>2, Fields
<1>4. /\ mClientData' = [mClientData EXCEPT ![b][i] = k]
      /\ UNCHANGED <<clientData, destroyData, loaded>>
  BY <1>3 DEF AddClient, api
<1>5. k # NoEntry
  BY NoEntryIsNone
<1>6. Addition(1, i, b) /\ inbox[1] = AddMsg(b, i, k) /\ 1 \in 1 .. Len(inbox)
  BY <1>1, <1>2 DEF Shrinks, Addition
<1>7. InStep(i, b)'
  <2>1. mClientData'[b][i] = k
    BY <1>4 DEF TypeOK
  <2>2. InStep(i, b)
    BY DEF IInv
  <2>3. ~Removal(1, i, b)
    BY <1>6, Distinct DEF Removal
  <2>4. ASSUME NEW n \in 1 .. Len(inbox), n # 1
        PROVE  /\ n - 1 \in 1 .. Len(inbox')
               /\ Removal(n - 1, i, b)' <=> Removal(n, i, b)
               /\ Addition(n - 1, i, b)' <=> Addition(n, i, b)
               /\ Agrees(n - 1, i, b)' <=> Agrees(n, i, b)
    BY <1>1, <1>4, <2>4 DEF Shrinks, Removal, Addition, Agrees
  <2>5. ASSUME NEW n \in 1 .. Len(inbox')
        PROVE  /\ n + 1 \in 1 .. Len(inbox)
               /\ Removal(n, i, b)' <=> Removal(n + 1, i, b)
               /\ Addition(n, i, b)' <=> Addition(n + 1, i, b)
               /\ Agrees(n, i, b)' <=> Agrees(n + 1, i, b)
    BY <1>1, <1>4 DEF Shrinks, Removal, Addition, Agrees
  <2>6. Len(inbox) \in Nat /\ Len(inbox') \in Nat
    BY <1>1 DEF Shrinks
  <2>7. WaitedFor(i, b)' <=> WaitedFor(i, b)
    BY <2>3, <2>4, <2>5 DEF WaitedFor
  <2>8. loaded[b] = "yes"
    BY <1>6, <2>2 DEF InStep, AddedIfLoaded
  <2>9. clientData[i] = NoEntry => WaitedFor(i, b)
    BY <1>6, <2>2 DEF InStep, RemovedLast, WaitedFor
  <2>10. ASSUME NEW m \in 1 .. Len(inbox'), NEW n \in 1 .. Len(inbox'),
                Removal(m, i, b)', Removal(n, i, b)'
         PROVE  m = n
    <3>1. m + 1 = n + 1
      BY <2>2, <2>5, <2>10 DEF InStep, RemovedLast
    <3>. QED BY <2>6, <3>1
  <2>11. ASSUME clientData[i] = NoEntry, NEW n \in 1 .. Len(inbox'), Addition(n, i, b)'
         PROVE  \E m \in 1 .. Len(inbox') : m > n /\ Removal(m, i, b)'
    <3>1. PICK m \in 1 .. Len(inbox) : m > n + 1 /\ Removal(m, i, b)
      BY <2>2, <2>5, <2>11 DEF InStep, RemovedLast
    <3>2. m # 1 /\ m - 1 > n
      BY <2>6, <3>1
    <3>. QED BY <2>4, <3>1, <3>2
  <2>12. RemovedLast(i, b)'
    BY <1>4, <2>2, <2>7, <2>9, <2>10, <2>11 DEF RemovedLast, InStep
  <2>13. AddedIfLoaded(i, b)'
    BY <1>4, <2>8 DEF AddedIfLoaded
  <2>14. ASSUME HeardLast(i, b)
         PROVE  HeardLast(i, b)'
    <3>1. CASE \A m \in 1 .. Len(inbox) : Agrees(m, i, b)
      <4>1. Agrees(1, i, b)
        BY <1>6, <3>1
      <4>2. k = clientData[i]
        BY <1>6, <4>1 DEF Agrees
      <4>. QED BY <1>4, <2>1, <2>5, <3>1, <4>2 DEF HeardLast
    <3>2. CASE ~ \A m \in 1 .. Len(inbox) : Agrees(m, i, b)
      <4>1. PICK n \in 1 .. Len(inbox) :
                   /\ Addition(n, i, b)
                   /\ \A m \in 1 .. Len(inbox) : m >= n => Agrees(m, i, b)
        BY <2>14, <3>2 DEF HeardLast
      <4>2. n # 1
        BY <2>6, <3>2, <4>1
      <4>3. ASSUME NEW m \in 1 .. Len(inbox'), m >= n - 1
            PROVE  Agrees(m, i, b)'
        <5>1. m + 1 \in 1 .. Len(inbox) /\ m + 1 >= n
          BY <2>5, <2>6, <4>3
        <5>. QED BY <2>5, <4>1, <5>1
      <4>4. n - 1 \in 1 .. Len(inbox') /\ Addition(n - 1, i, b)'
        BY <2>4, <4>1, <4>2
      <4>. QED BY <4>3, <4>4 DEF HeardLast
    <3>. QED BY <3>1, <3>2
  <2>15. Informed(i, b)'
    BY <1>4, <2>2, <2>14 DEF Informed, InStep
  <2>. QED BY <2>12, <2>13, <2>15 DEF InStep
<1>8. ASSUME NEW j \in Instances, NEW a \in Adapters, ~(j = i /\ a = b)
      PROVE  InStep(j, a)'
  <2>1. Silent(Head(inbox), j, a)
    BY <1>2, <1>8, Distinct DEF Silent
  <2>2. Same(j, a)
    BY <1>4, <1>8 DEF Same, TypeOK
  <2>3. InStep(j, a)
    BY DEF IInv
  <2>. QED BY <1>1, <2>1, <2>2, <2>3, Shifted
<1>. QED BY <1>7, <1>8

LEMMA RemoveInStep ==
    ASSUME TypeOK, IInv, RemoveClient
    PROVE  \A j \in Instances : Exists(j)' /\ \A a \in Adapters : InStep(j, a)'
<1>1. Shrinks /\ Head(inbox) \in Messages /\ Head(inbox).op = "remove"
  BY Shrinking, HeadTailProperties DEF TypeOK, RemoveClient, Handle
<1>2. PICK b \in Adapters, i \in Instances : Head(inbox) = RemoveMsg(b, i)
  BY <1>1, Forms
<1>3. Head(inbox).to = b /\ Head(inbox).client = i
  BY <1>2, Fields
<1>4. /\ mClientData' = [mClientData EXCEPT ![b][i] = NoEntry]
      /\ destroyData' = [destroyData EXCEPT ![i] = @ \ {b}]
      /\ object' = [object EXCEPT ![i] = IF destroyData[i] \subseteq {b} /\ destroyData[i] # {}
                                         THEN "free" ELSE @]
      /\ UNCHANGED <<clientData, loaded>>
  BY <1>3 DEF RemoveClient, onRemoveClientCompleteCb
<1>5. Removal(1, i, b) /\ inbox[1] = RemoveMsg(b, i) /\ 1 \in 1 .. Len(inbox)
  BY <1>1, <1>2 DEF Shrinks, Removal
<1>6. InStep(i, b)
  BY DEF IInv
<1>7. b \in destroyData[i] /\ clientData[i] = NoEntry
  BY <1>5, <1>6 DEF InStep, RemovedLast, WaitedFor
<1>8. InStep(i, b)'
  <2>1. ASSUME NEW n \in 1 .. Len(inbox')
        PROVE  /\ n + 1 \in 1 .. Len(inbox) /\ n + 1 # 1
               /\ inbox'[n] = inbox[n + 1]
    BY <1>1 DEF Shrinks
  <2>2. \A n \in 1 .. Len(inbox) : Removal(n, i, b) => n = 1
    BY <1>5, <1>6 DEF InStep, RemovedLast
  <2>3. \A n \in 1 .. Len(inbox) : ~Addition(n, i, b)
    <3>1. SUFFICES ASSUME NEW n \in 1 .. Len(inbox), Addition(n, i, b)
                   PROVE  FALSE
      OBVIOUS
    <3>2. PICK m \in 1 .. Len(inbox) : m > n /\ Removal(m, i, b)
      BY <1>6, <1>7, <3>1 DEF InStep, RemovedLast
    <3>3. m = 1
      BY <2>2, <3>2
    <3>. QED BY <3>2, <3>3
  <2>4. \A n \in 1 .. Len(inbox') : ~Removal(n, i, b)' /\ ~Addition(n, i, b)'
    BY <2>1, <2>2, <2>3 DEF Removal, Addition
  <2>5. b \notin destroyData'[i] /\ mClientData'[b][i] = NoEntry /\ clientData'[i] = NoEntry
    BY <1>4, <1>7 DEF TypeOK
  <2>6. ~WaitedFor(i, b)'
    BY <2>4 DEF WaitedFor
  <2>7. RemovedLast(i, b)'
    BY <2>4, <2>5, <2>6 DEF RemovedLast
  <2>8. AddedIfLoaded(i, b)'
    BY <2>4, <2>5 DEF AddedIfLoaded
  <2>9. Informed(i, b)'
    BY <2>5 DEF Informed
  <2>. QED BY <2>7, <2>8, <2>9 DEF InStep
<1>9. ASSUME NEW j \in Instances, NEW a \in Adapters, ~(j = i /\ a = b)
      PROVE  InStep(j, a)'
  <2>1. Silent(Head(inbox), j, a)
    BY <1>2, <1>9, Distinct DEF Silent
  <2>2. Same(j, a)
    BY <1>4, <1>9 DEF Same, TypeOK
  <2>3. InStep(j, a)
    BY DEF IInv
  <2>. QED BY <1>1, <2>1, <2>2, <2>3, Shifted
<1>10. ASSUME NEW j \in Instances
       PROVE  Exists(j)'
  <2>1. Exists(j)
    BY DEF IInv
  <2>2. CASE j # i
    BY <1>4, <2>1, <2>2 DEF Exists, TypeOK
  <2>3. CASE j = i
    <3>1. object[i] = "alive"
      BY <1>7, <2>1, <2>3 DEF Exists
    <3>2. destroyData'[i] = destroyData[i] \ {b} /\ clientData'[i] = NoEntry
      BY <1>4, <1>7 DEF TypeOK
    <3>3. object'[i] = IF destroyData[i] \subseteq {b} THEN "free" ELSE "alive"
      BY <1>4, <1>7, <3>1 DEF TypeOK
    <3>4. destroyData'[i] = {} <=> destroyData[i] \subseteq {b}
      BY <3>2
    <3>. QED BY <2>3, <3>2, <3>3, <3>4 DEF Exists
  <2>. QED BY <2>2, <2>3
<1>. QED BY <1>8, <1>9, <1>10

LEMMA RequestInStep ==
    ASSUME TypeOK, IInv, RequestCapabilities
    PROVE  \A j \in Instances, a \in Adapters : InStep(j, a)'
<1>1. Shrinks /\ Head(inbox) \in Messages /\ Head(inbox).op = "capabilities"
  BY Shrinking, HeadTailProperties DEF TypeOK, RequestCapabilities, Handle
<1>2. PICK b \in Adapters, i \in Instances : Head(inbox) = RequestMsg(b, i)
  BY <1>1, Forms
<1>. SUFFICES ASSUME NEW j \in Instances, NEW a \in Adapters
              PROVE  InStep(j, a)'
  OBVIOUS
<1>3. Silent(Head(inbox), j, a)
  BY <1>2, Distinct DEF Silent
<1>4. Same(j, a)
  BY DEF Same, RequestCapabilities, api
<1>5. InStep(j, a)
  BY DEF IInv
<1>. QED BY <1>1, <1>3, <1>4, <1>5, Shifted

LEMMA EngineUpInStep ==
    ASSUME TypeOK, IInv, NEW b \in Adapters, EngineUp(b)
    PROVE  \A j \in Instances, a \in Adapters : InStep(j, a)'
<1>. DEFINE s == Resent(b)
<1>1. Requests(s, b)
  BY ResentAreRequests DEF TypeOK
<1>2. Grows(s)
  BY <1>1, Growing DEF EngineUp, Requests, TypeOK
<1>. HIDE DEF s
<1>. SUFFICES ASSUME NEW j \in Instances, NEW a \in Adapters
              PROVE  InStep(j, a)'
  OBVIOUS
<1>3. \A n \in 1 .. Len(s) : Silent(s[n], j, a)
  BY <1>1, Distinct DEF Requests, Silent
<1>4. Same(j, a)
  BY DEF Same, EngineUp, api
<1>5. InStep(j, a)
  BY DEF IInv
<1>. QED BY <1>2, <1>3, <1>4, <1>5, Kept

\* The OS framework is counted once for each client.
LEMMA CountStep ==
    ASSUME TypeOK, Counted, [Next]_vars, IInv
    PROVE  Counted'
<1>. USE LocationApiAssumption, NoEntryIsNone DEF LocationApiAssumption
<1>1. IsFiniteSet(Clients) /\ Cardinality(Clients) \in Nat
  BY FS_Subset, FS_CardinalityType DEF Clients
<1>2. Cardinality(Clients) = 0 <=> Clients = {}
  BY <1>1, FS_EmptySet
<1>3. ASSUME UNCHANGED <<clientData, refCount, framework>>
      PROVE  Counted'
  BY <1>3 DEF Counted, Clients
<1>4. ASSUME NEW i \in Instances, NEW k \in LocationCallbacks, createInstance(i, k)
      PROVE  Counted'
  <2>1. i \notin Clients
    BY <1>4 DEF createInstance, IInv, Exists, Clients
  <2>2. Clients' = Clients \cup {i}
    BY <1>4 DEF createInstance, Clients, TypeOK
  <2>3. Cardinality(Clients') = Cardinality(Clients) + 1
    BY <1>1, <2>1, <2>2, FS_AddElement
  <2>4. framework'
    BY <1>2, <1>4 DEF createInstance, Counted
  <2>. QED BY <1>4, <2>2, <2>3, <2>4 DEF createInstance, Counted
<1>5. ASSUME NEW i \in Instances, NEW k \in LocationCallbacks, updateCallbacks(i, k)
      PROVE  Counted'
  <2>1. Clients' = Clients
    BY <1>5 DEF updateCallbacks, Clients, TypeOK
  <2>. QED BY <1>5, <2>1 DEF updateCallbacks, Counted
<1>6. ASSUME NEW i \in Instances, destroy(i)
      PROVE  Counted'
  <2>1. i \in Clients /\ Clients' = Clients \ {i}
    BY <1>6 DEF destroy, Unregister, Clients, TypeOK
  <2>2. Cardinality(Clients') = Cardinality(Clients) - 1
    BY <1>1, <2>1, FS_RemoveElement
  <2>3. IsFiniteSet(Clients') /\ (Cardinality(Clients') = 0 <=> Clients' = {})
    BY <1>1, <2>1, FS_Subset, FS_EmptySet
  <2>4. refCount' = Cardinality(Clients')
    BY <1>6, <2>2 DEF destroy, Unregister, Counted
  <2>5. framework' <=> framework /\ refCount # 1
    BY <1>6 DEF destroy, Unregister
  <2>6. Clients' # {} <=> refCount # 1
    BY <1>1, <2>2, <2>3 DEF Counted
  <2>7. framework
    BY <2>1 DEF Counted
  <2>. QED BY <2>4, <2>5, <2>6, <2>7 DEF Counted
<1>7. CASE HandleMessage
  BY <1>3, <1>7 DEF HandleMessage, AddClient, RemoveClient, RequestCapabilities, api
<1>8. ASSUME NEW a \in Adapters, EngineUp(a)
      PROVE  Counted'
  BY <1>3, <1>8 DEF EngineUp, api
<1>9. CASE UNCHANGED vars
  BY <1>3, <1>9 DEF vars
<1>. QED BY <1>4, <1>5, <1>6, <1>7, <1>8, <1>9 DEF Next

-----------------------------------------------------------------------------
(* Theorems *)

LEMMA Start == Init => TypeOK /\ IInv
<1>. SUFFICES ASSUME Init
              PROVE  TypeOK /\ IInv
  OBVIOUS
<1>. USE LocationApiAssumption, NoEntryIsNone DEF LocationApiAssumption
<1>1. inbox = << >> /\ inbox \in Seq(Messages) /\ Len(inbox) = 0
  BY EmptySeq DEF Init
<1>2. pending \in [Adapters -> Seq(Instances)]
  BY EmptySeq DEF Init
<1>3. TypeOK
  BY <1>1, <1>2 DEF Init, TypeOK
<1>4. ASSUME NEW i \in Instances
      PROVE  Exists(i)
  BY DEF Init, Exists
<1>5. ASSUME NEW i \in Instances, NEW a \in Adapters
      PROVE  InStep(i, a)
  BY <1>1 DEF Init, InStep, RemovedLast, WaitedFor, AddedIfLoaded, Informed
<1>6. Counted
  BY FS_EmptySet DEF Init, Counted, Clients
<1>. QED BY <1>3, <1>4, <1>5, <1>6 DEF IInv

LEMMA InductiveStep == TypeOK /\ IInv /\ [Next]_vars => IInv'
<1>. SUFFICES ASSUME TypeOK, IInv, [Next]_vars
              PROVE  IInv'
  OBVIOUS
<1>1. Counted'
  BY CountStep DEF IInv
<1>2. ASSUME NEW i \in Instances, NEW k \in LocationCallbacks, createInstance(i, k)
      PROVE  \A j \in Instances : Exists(j)' /\ \A a \in Adapters : InStep(j, a)'
  <2>1. ASSUME NEW j \in Instances
        PROVE  Exists(j)'
    BY <1>2, NoEntryIsNone DEF createInstance, IInv, Exists, TypeOK
  <2>. QED BY <1>2, <2>1, CreateInStep
<1>3. ASSUME NEW i \in Instances, NEW k \in LocationCallbacks, updateCallbacks(i, k)
      PROVE  \A j \in Instances : Exists(j)' /\ \A a \in Adapters : InStep(j, a)'
  <2>1. ASSUME NEW j \in Instances
        PROVE  Exists(j)'
    BY <1>3, NoEntryIsNone DEF updateCallbacks, IInv, Exists, TypeOK, Clients
  <2>. QED BY <1>3, <2>1, UpdateInStep
<1>4. ASSUME NEW i \in Instances, destroy(i)
      PROVE  \A j \in Instances : Exists(j)' /\ \A a \in Adapters : InStep(j, a)'
  <2>1. ASSUME NEW j \in Instances
        PROVE  Exists(j)'
    <3>1. object[i] = "alive"
      BY <1>4 DEF destroy, IInv, Exists, Clients
    <3>. QED BY <1>4, <3>1 DEF destroy, Unregister, IInv, Exists, TypeOK
  <2>. QED BY <1>4, <2>1, DestroyInStep
<1>5. CASE AddClient
  <2>1. \A j \in Instances : Exists(j)'
    BY <1>5 DEF AddClient, api, IInv, Exists
  <2>2. \A j \in Instances, a \in Adapters : InStep(j, a)'
    BY <1>5, AddInStep
  <2>. QED BY <1>1, <2>1, <2>2 DEF IInv
<1>6. CASE RemoveClient
  <2>1. \A j \in Instances : Exists(j)' /\ \A a \in Adapters : InStep(j, a)'
    BY <1>6, RemoveInStep
  <2>. QED BY <1>1, <2>1 DEF IInv
<1>7. CASE RequestCapabilities
  <2>1. \A j \in Instances : Exists(j)'
    BY <1>7 DEF RequestCapabilities, api, IInv, Exists
  <2>2. \A j \in Instances, a \in Adapters : InStep(j, a)'
    BY <1>7, RequestInStep
  <2>. QED BY <1>1, <2>1, <2>2 DEF IInv
<1>8. ASSUME NEW b \in Adapters, EngineUp(b)
      PROVE  \A j \in Instances : Exists(j)' /\ \A a \in Adapters : InStep(j, a)'
  <2>1. \A j \in Instances : Exists(j)'
    BY <1>8 DEF EngineUp, api, IInv, Exists
  <2>2. \A j \in Instances, a \in Adapters : InStep(j, a)'
    BY <1>8, EngineUpInStep
  <2>. QED BY <2>1, <2>2
<1>9. CASE UNCHANGED vars
  <2>1. \A j \in Instances : Exists(j)'
    BY <1>9 DEF vars, IInv, Exists
  <2>2. \A j \in Instances, a \in Adapters : InStep(j, a)'
    BY <1>9 DEF vars, IInv, InStep, RemovedLast, WaitedFor, AddedIfLoaded, Informed,
         HeardLast, Agrees, Removal, Addition
  <2>. QED BY <1>1, <2>1, <2>2 DEF IInv
<1>10. CASE \E i \in Instances, k \in LocationCallbacks : createInstance(i, k) \/ updateCallbacks(i, k)
  BY <1>1, <1>2, <1>3, <1>10 DEF IInv
<1>11. CASE \E i \in Instances : destroy(i)
  BY <1>1, <1>4, <1>11 DEF IInv
<1>12. CASE \E b \in Adapters : EngineUp(b)
  BY <1>1, <1>8, <1>12 DEF IInv
<1>. QED BY <1>5, <1>6, <1>7, <1>9, <1>10, <1>11, <1>12 DEF Next, HandleMessage

\* The inductive invariant: queue, map of clients and clients of the adapters
\* are in step (the calls of LocationAPI.cpp and the messages of the adapters).
THEOREM Invariance == Spec => [](TypeOK /\ IInv)
<1>1. TypeOK /\ IInv /\ [Next]_vars => TypeOK' /\ IInv'
  BY TypeStep, InductiveStep DEF IInv
<1>. QED BY <1>1, Start, PTL DEF Spec

\* The state of clients, adapters and the queue has its type: the count of the
\* OS framework never goes below zero.
THEOREM TypeCorrect == Spec => []TypeOK
BY Invariance, PTL

\* An instance exists as long as anything names it, and is deleted by the last
\* of the adapters it was removed from, which has confirmed (destroy and
\* onRemoveClientCompleteCb of LocationAPI.cpp).
THEOREM InstancesExist == Spec => []InstancesOutliveUses
<1>1. TypeOK /\ IInv => InstancesOutliveUses
  <2>. SUFFICES ASSUME TypeOK, IInv
                PROVE  InstancesOutliveUses
    OBVIOUS
  <2>1. inbox \in Seq(Messages)
    BY DEF TypeOK
  <2>2. DOMAIN inbox = 1 .. Len(inbox) /\ \A n \in 1 .. Len(inbox) : inbox[n] \in Messages
    BY <2>1, LenProperties, ElementOfSeq
  <2>3. ASSUME NEW i \in Instances
        PROVE  destroyData[i] = Removals(i)
    <3>1. destroyData[i] \subseteq Adapters
      BY DEF TypeOK
    <3>2. ASSUME NEW a \in Adapters
          PROVE  a \in destroyData[i] <=> a \in Removals(i)
      <4>1. a \in Removals(i) <=> WaitedFor(i, a)
        BY <2>2 DEF Removals, WaitedFor, Removal, RemoveMsg
      <4>. QED BY <4>1 DEF IInv, InStep, RemovedLast
    <3>3. Removals(i) \subseteq Adapters
      BY DEF Removals
    <3>. QED BY <3>1, <3>2, <3>3
  <2>4. ASSUME NEW i \in Instances, object[i] = "free"
        PROVE  /\ i \notin Clients
               /\ \A a \in Adapters : i \notin Registered(a)
               /\ \A n \in 1 .. Len(inbox) : inbox[n].client = i => inbox[n].op = "capabilities"
    <3>1. clientData[i] = NoEntry /\ destroyData[i] = {}
      BY <2>4 DEF IInv, Exists
    <3>2. ASSUME NEW a \in Adapters
          PROVE  /\ ~WaitedFor(i, a) /\ mClientData[a][i] = NoEntry
                 /\ \A n \in 1 .. Len(inbox) : ~Addition(n, i, a)
      BY <3>1 DEF IInv, InStep, RemovedLast, WaitedFor
    <3>3. ASSUME NEW n \in 1 .. Len(inbox), inbox[n].client = i, inbox[n].op # "capabilities"
          PROVE  FALSE
      <4>1. inbox[n] \in Messages
        BY <2>2
      <4>2. CASE inbox[n].op = "add"
        <5>1. PICK a \in Adapters, j \in Instances, k \in LocationCallbacks : inbox[n] = AddMsg(a, j, k)
          BY <4>1, <4>2, Forms
        <5>2. j = i
          BY <3>3, <5>1, Fields
        <5>. QED BY <3>2, <5>1, <5>2 DEF Addition
      <4>3. CASE inbox[n].op = "remove"
        <5>1. PICK a \in Adapters, j \in Instances : inbox[n] = RemoveMsg(a, j)
          BY <4>1, <4>3, Forms
        <5>2. j = i
          BY <3>3, <5>1, Fields
        <5>. QED BY <3>2, <5>1, <5>2 DEF WaitedFor, Removal
      <4>. QED BY <3>3, <4>1, <4>2, <4>3, Forms
    <3>. QED BY <3>1, <3>2, <3>3 DEF Clients, Registered
  <2>5. WaitsForRemovals
    BY <2>3 DEF WaitsForRemovals
  <2>6. NoDeletedInstance
    BY <2>2, <2>4 DEF NoDeletedInstance
  <2>. QED BY <2>5, <2>6 DEF InstancesOutliveUses
<1>. QED BY <1>1, Invariance, PTL

\* With the queue drained, every loaded adapter has the clients there are, with
\* the callbacks they gave last, and the OS framework is there exactly as long as
\* there are clients (createInstance, updateCallbacks and destroy).
THEOREM AdaptersKnowClients == Spec => []ClientsAreKnown
<1>1. TypeOK /\ IInv => ClientsAreKnown
  <2>. SUFFICES ASSUME TypeOK, IInv
                PROVE  ClientsAreKnown
    OBVIOUS
  <2>1. ASSUME inbox = << >>, NEW a \in Adapters, NEW i \in Instances
        PROVE  /\ i \in Registered(a) => i \in Clients
               /\ loaded[a] = "yes" /\ i \in Clients /\ a \in clientData[i]
                    => mClientData[a][i] = clientData[i]
    <3>1. Len(inbox) = 0
      BY <2>1
    <3>2. InStep(i, a) /\ ~WaitedFor(i, a)
      BY <3>1 DEF IInv, WaitedFor
    <3>3. HeardLast(i, a) => mClientData[a][i] = clientData[i]
      BY <3>1 DEF HeardLast
    <3>. QED BY <3>2, <3>3 DEF InStep, RemovedLast, Informed, Registered, Clients
  <2>2. Counted
    BY DEF IInv
  <2>. QED BY <2>1, <2>2 DEF ClientsAreKnown, Counted, Clients, Registered
<1>. QED BY <1>1, Invariance, PTL

=============================================================================
