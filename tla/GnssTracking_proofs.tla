------------------------- MODULE GnssTracking_proofs -------------------------
(***************************************************************************)
(* Proofs about tracking sessions, for any clients, sessions, options and  *)
(* loads.  What the properties say once the queues are drained follows     *)
(* from what each request and message under way will do, so the inductive  *)
(* invariants speak of the queues:                                         *)
(*   TypeInv   what requests and messages carry                            *)
(*   Due, Balanced   the answers in flight for a session are those it is   *)
(*             owed                                                        *)
(*   TimeOnly  what there is where no session is distance based            *)
(*   Recovery  a modem that is down comes up, and failures precede that    *)
(*   OnlyNeeded, FixesFollow   what the fix session will do when the queue *)
(*             of the modem is served, against the sessions of the map     *)
(*   Placed    one change of a session at a time, and the maps it may be   *)
(*             in meanwhile                                                *)
(*   DistanceKept   a distance based session runs, or is being ended, or   *)
(*             started again when the engine comes up                      *)
(* For each of them: what every handler does to it, then what a step of    *)
(* the clients, the adapter and the modem does, then the theorem.          *)
(***************************************************************************)
EXTENDS GnssTracking, TLAPS, WellFoundedInduction, FiniteSetTheorems, SequenceTheorems, FunctionTheorems

\* Induction on the naturals, as the least counterexample.
LEMMA LeastExists ==
    ASSUME NEW S \in SUBSET Nat, S # {}
    PROVE  \E x \in S : \A y \in S : x <= y
<1> DEFINE R == OpToRel(<, Nat)
<1>1. IsWellFoundedOn(R, Nat)
    BY NatLessThanWellFounded
<1>3. \A x, y \in Nat : <<y, x>> \in R <=> y < x
    BY DEF OpToRel
<1> HIDE DEF R
<1>4. S \subseteq Nat
    OBVIOUS
<1>2. PICK x \in S : \A y \in S : ~(<<y, x>> \in R)
    BY <1>1, <1>4, WFMin, Zenon
<1>5. \A y \in S : ~(y < x)
    BY <1>2, <1>3, <1>4, Zenon
<1> QED BY <1>4, <1>5

\* The function that FlattenSeq defines by recursion is there.
LEMMA FlattenExists ==
    ASSUME NEW q, NEW n \in Nat
    PROVE  \E f : f = [i \in 1 .. n |-> IF i = 1 THEN q[i] ELSE f[i-1] \o q[i]]
<1> DEFINE P(m) == \E f : f = [i \in 1 .. m |-> IF i = 1 THEN q[i] ELSE f[i-1] \o q[i]]
           T == {i \in Nat : ~P(i)}
<1>1. SUFFICES ASSUME T # {} PROVE FALSE
    OBVIOUS
<1> HIDE DEF T, P
<1>2. PICK m \in T : \A i \in T : m <= i
    BY <1>1, LeastExists DEF T
<1>5. m \in Nat /\ ~P(m) /\ \A i \in Nat : i < m => P(i)
    BY <1>2 DEF T
<1>3. CASE m = 0
    <2> DEFINE g == [i \in 1 .. m |-> q[i]]
    <2>1. g = [i \in 1 .. m |-> IF i = 1 THEN q[i] ELSE g[i-1] \o q[i]]
        BY <1>3
    <2> HIDE DEF g
    <2> QED BY <1>5, <2>1 DEF P
<1>4. CASE m # 0
    <2>1. m - 1 \in Nat /\ m - 1 < m
        BY <1>5, <1>4
    <2>0. P(m - 1)
        BY <1>5, <2>1
    <2>2. PICK f : f = [i \in 1 .. m - 1 |-> IF i = 1 THEN q[i] ELSE f[i-1] \o q[i]]
        BY <2>0 DEF P
    <2> DEFINE g == [i \in 1 .. m |-> IF i = 1 THEN q[i] ELSE f[i-1] \o q[i]]
    <2>3. \A i \in 1 .. m - 1 : g[i] = f[i]
        <3> SUFFICES ASSUME NEW i \in 1 .. m - 1 PROVE g[i] = f[i]
            OBVIOUS
        <3>1. f[i] = IF i = 1 THEN q[i] ELSE f[i-1] \o q[i]
            BY <2>2
        <3>2. i \in 1 .. m
            BY <1>5
        <3> QED BY <3>1, <3>2
    <2>4. \A i \in 1 .. m : i # 1 => i - 1 \in 1 .. m - 1
        BY <1>5
    <2>5. \A i \in 1 .. m : g[i] = IF i = 1 THEN q[i] ELSE g[i-1] \o q[i]
        BY <2>3, <2>4
    <2>6. g = [i \in 1 .. m |-> IF i = 1 THEN q[i] ELSE g[i-1] \o q[i]]
        <3>1. DOMAIN g = 1 .. m /\ g = [i \in DOMAIN g |-> g[i]]
            OBVIOUS
        <3> HIDE DEF g
        <3> QED BY <2>5, <3>1
    <2> QED BY <1>5, <2>6 DEF P
<1> QED BY <1>3, <1>4

\* What FlattenSeq joins, one sequence after the other.
LEMMA Flattened ==
    ASSUME NEW q, NEW n \in Nat \ {0}, Len(q) = n
    PROVE  \E f : /\ f[1] = q[1]
                  /\ \A i \in 2 .. n : f[i] = f[i-1] \o q[i]
                  /\ FlattenSeq(q) = f[n]
<1> DEFINE flatten[i \in 1..Len(q)] ==
        IF i = 1 THEN q[i] ELSE flatten[i-1] \o q[i]
<1>1. flatten = [i \in 1..Len(q) |-> IF i = 1 THEN q[i] ELSE flatten[i-1] \o q[i]]
    BY FlattenExists
<1>2. FlattenSeq(q) = flatten[n]
    BY DEF FlattenSeq
<1> HIDE DEF flatten
<1>3. \A i \in 1 .. n : flatten[i] = IF i = 1 THEN q[i] ELSE flatten[i-1] \o q[i]
    BY <1>1
<1>4. flatten[1] = q[1] /\ \A i \in 2 .. n : flatten[i] = flatten[i-1] \o q[i]
  <2>1. 1 \in 1 .. n /\ \A i \in 2 .. n : i \in 1 .. n /\ i # 1
    OBVIOUS
  <2> QED BY <1>3, <2>1
<1> QED BY <1>2, <1>4

\* The session maps iterate over their keys in order, each once.
LEMMA MapOrderEnumerates ==
    ASSUME NEW K \in SUBSET Nat, IsFiniteSet(K)
    PROVE  /\ Cardinality(K) \in Nat
           /\ MapOrder(K) \in [1 .. Cardinality(K) -> K]
           /\ \A i, j \in 1 .. Cardinality(K) : i < j => MapOrder(K)[i] < MapOrder(K)[j]
           /\ \A s \in K : \E i \in 1 .. Cardinality(K) : MapOrder(K)[i] = s
<1> DEFINE n == Cardinality(K)
           below(s) == {t \in K : t <= s}
           rank == [s \in K |-> Cardinality(below(s))]
<1>1. n \in Nat /\ IsFiniteSet(1 .. n) /\ Cardinality(1 .. n) = n
    BY FS_CardinalityType, FS_Interval
<1>2. ASSUME NEW s \in K
      PROVE  IsFiniteSet(below(s)) /\ Cardinality(below(s)) \in 1 .. n
    <2>1. below(s) \in SUBSET K /\ s \in below(s)
        OBVIOUS
    <2> HIDE DEF below
    <2>2. IsFiniteSet(below(s)) /\ Cardinality(below(s)) <= n
        BY <2>1, FS_Subset
    <2>3. Cardinality(below(s)) \in Nat /\ Cardinality(below(s)) # 0
        BY <2>1, <2>2, FS_CardinalityType, FS_EmptySet
    <2> QED BY <1>1, <2>2, <2>3
<1>3. ASSUME NEW s \in K, NEW t \in K, s < t
      PROVE  Cardinality(below(s)) < Cardinality(below(t))
    <2>1. \A u \in K : u <= s => u <= t
        BY <1>3
    <2>3. t <= t /\ ~(t <= s)
        BY <1>3
    <2>4. below(s) \in SUBSET below(t) /\ t \in below(t) /\ t \notin below(s)
        BY <2>1, <2>3
    <2> HIDE DEF below
    <2>2. Cardinality(below(s)) <= Cardinality(below(t)) /\ Cardinality(below(s)) # Cardinality(below(t))
        BY <1>2, <2>4, FS_Subset
    <2> QED BY <1>2, <2>2
<1> HIDE DEF below
<1>4. rank \in [K -> 1 .. n]
    BY <1>2
<1>5. rank \in Injection(K, 1 .. n)
    <2>1. \A s, t \in K : rank[s] = rank[t] => s = t
        <3> SUFFICES ASSUME NEW s \in K, NEW t \in K, s # t PROVE rank[s] # rank[t]
            OBVIOUS
        <3>1. s < t \/ t < s
            OBVIOUS
        <3>2. Cardinality(below(s)) \in Nat /\ Cardinality(below(t)) \in Nat
            BY <1>2
        <3> QED BY <3>1, <3>2, <1>3
    <2> QED BY <1>4, <2>1 DEF Injection, IsInjective
<1> HIDE DEF rank
<1>6. rank \in Surjection(K, 1 .. n)
    BY <1>1, <1>5, FS_Injection
<1>7. \A i \in 1 .. n : \E s \in K : rank[s] = i
    BY <1>6 DEF Surjection
<1>8. \A i \in 1 .. n : MapOrder(K)[i] = CHOOSE s \in K : Cardinality(below(s)) = i
    BY DEF MapOrder, below
<1>9. \A i \in 1 .. n : MapOrder(K)[i] \in K /\ rank[MapOrder(K)[i]] = i
    <2>1. \A i \in 1 .. n : \E s \in K : Cardinality(below(s)) = i
        BY <1>7 DEF rank
    <2> QED BY <1>8, <2>1 DEF rank
<1>10. ASSUME NEW i \in 1 .. n, NEW j \in 1 .. n, i < j PROVE MapOrder(K)[i] < MapOrder(K)[j]
    <2> DEFINE s == MapOrder(K)[i]
           t == MapOrder(K)[j]
    <2>1. s \in K /\ t \in K /\ rank[s] = i /\ rank[t] = j
        BY <1>9
    <2> HIDE DEF s, t
    <2>2. ~(t < s)
        <3>1. t < s => Cardinality(below(t)) < Cardinality(below(s))
            BY <1>3, <2>1
        <3> QED BY <1>1, <1>10, <2>1, <3>1 DEF rank
    <2>3. s # t
        BY <1>1, <1>10, <2>1
    <2>4. s < t
        BY <2>1, <2>2, <2>3
    <2> QED BY <2>4 DEF s, t
<1>11. ASSUME NEW s \in K PROVE \E i \in 1 .. n : MapOrder(K)[i] = s
    <2>1. rank[s] \in 1 .. n
        BY <1>4
    <2>2. rank[MapOrder(K)[rank[s]]] = rank[s] /\ MapOrder(K)[rank[s]] \in K
        BY <1>9, <2>1
    <2>3. MapOrder(K)[rank[s]] = s
        BY <2>2, <1>5 DEF Injection, IsInjective
    <2> QED BY <2>1, <2>3
<1>12. MapOrder(K) \in [1 .. n -> K]
    BY <1>9 DEF MapOrder
<1> QED BY <1>1, <1>10, <1>11, <1>12

-----------------------------------------------------------------------------
(* Counting the messages of a queue *)

\* How many messages of q are in M, and where.
Places(q, M) == {i \in 1 .. Len(q) : q[i] \in M}
Count(q, M) == Cardinality(Places(q, M))

LEMMA CountIsNat ==
    ASSUME NEW S, NEW q \in Seq(S), NEW M
    PROVE  IsFiniteSet(Places(q, M)) /\ Count(q, M) \in Nat
<1>1. IsFiniteSet(1 .. Len(q)) /\ Places(q, M) \in SUBSET (1 .. Len(q))
    BY LenProperties, FS_Interval DEF Places
<1> QED BY <1>1, FS_Subset, FS_CardinalityType DEF Count

LEMMA CountNone ==
    ASSUME NEW S, NEW q \in Seq(S), NEW M
    PROVE  Count(q, M) = 0 <=> \A i \in 1 .. Len(q) : q[i] \notin M
<1>1. Count(q, M) = 0 <=> Places(q, M) = {}
    BY CountIsNat, FS_EmptySet DEF Count
<1> QED BY <1>1 DEF Places

LEMMA CountOne ==
    ASSUME NEW m, NEW M
    PROVE  Count(<<m>>, M) = IF m \in M THEN 1 ELSE 0
<1>1. Len(<<m>>) = 1 /\ <<m>>[1] = m
    OBVIOUS
<1>2. Places(<<m>>, M) = IF m \in M THEN {1} ELSE {}
    BY <1>1 DEF Places
<1> QED BY <1>2, FS_Singleton, FS_EmptySet DEF Count

LEMMA CountConcat ==
    ASSUME NEW S, NEW p \in Seq(S), NEW q \in Seq(S), NEW M
    PROVE  Count(p \o q, M) = Count(p, M) + Count(q, M)
<1> DEFINE P == Places(p, M)
           Q == Places(q, M)
           f == [i \in Q |-> Len(p) + i]
           R == {i \in Len(p) + 1 .. Len(p) + Len(q) : i - Len(p) \in Q}
<1>1. Len(p) \in Nat /\ Len(q) \in Nat /\ Len(p \o q) = Len(p) + Len(q)
    BY ConcatProperties, LenProperties
<1>2. \A i \in 1 .. Len(p) + Len(q) : (p \o q)[i] = IF i <= Len(p) THEN p[i] ELSE q[i - Len(p)]
    BY ConcatProperties
<1>3. Q \subseteq 1 .. Len(q) /\ P \subseteq 1 .. Len(p)
    BY DEF Places
<1>4. Places(p \o q, M) = P \cup R
    <2>1. ASSUME NEW i \in 1 .. Len(p) + Len(q)
          PROVE  (p \o q)[i] \in M <=> i \in P \cup R
        <3>1. CASE i <= Len(p)
            BY <1>1, <1>2, <3>1 DEF Places
        <3>2. CASE i > Len(p)
            <4>1. i - Len(p) \in 1 .. Len(q) /\ (p \o q)[i] = q[i - Len(p)]
                BY <1>1, <1>2, <3>2
            <4>2. i \in Len(p) + 1 .. Len(p) + Len(q) /\ i \notin 1 .. Len(p)
                BY <1>1, <3>2
            <4> QED BY <1>3, <4>1, <4>2 DEF Places
        <3> QED BY <1>1, <3>1, <3>2
    <2>2. P \cup R \subseteq 1 .. Len(p) + Len(q)
        BY <1>1, <1>3
    <2> HIDE DEF P, R
    <2> QED BY <1>1, <2>1, <2>2 DEF Places
<1>5. P \cap R = {}
    BY <1>1, <1>3
<1> HIDE DEF P, Q
<1>6. \A i \in Q : Len(p) + i \in R
    BY <1>1, <1>3
<1>7. \A j \in R : j - Len(p) \in Q /\ Len(p) + (j - Len(p)) = j
    BY <1>1
<1>8. f \in Bijection(Q, R)
    <2>1. f \in [Q -> R]
        BY <1>6
    <2>2. \A i, j \in Q : f[i] = f[j] => i = j
        BY <1>1, <1>3
    <2>3. \A j \in R : \E i \in Q : f[i] = j
        BY <1>7
    <2> QED BY <2>1, <2>2, <2>3, Fun_IsBij DEF Bijection, Injection, Surjection, IsInjective
<1>9. IsFiniteSet(P) /\ IsFiniteSet(Q) /\ Cardinality(P) \in Nat /\ Cardinality(Q) \in Nat
    BY CountIsNat DEF P, Q, Count
<1>10. IsFiniteSet(R) /\ Cardinality(R) = Cardinality(Q)
    BY <1>8, <1>9, FS_Bijection DEF ExistsBijection
<1> HIDE DEF R
<1>11. Cardinality(P \cup R) = Cardinality(P) + Cardinality(Q)
    <2>1. Cardinality(P \cup R) = Cardinality(P) + Cardinality(R) - Cardinality(P \cap R)
        BY <1>9, <1>10, FS_Union
    <2>2. Cardinality(P \cap R) = 0
        BY <1>5, FS_EmptySet
    <2> QED BY <1>9, <1>10, <2>1, <2>2
<1> QED BY <1>4, <1>11 DEF Count, P, Q

LEMMA CountAppend ==
    ASSUME NEW S, NEW q \in Seq(S), NEW m \in S, NEW M
    PROVE  Count(Append(q, m), M) = Count(q, M) + (IF m \in M THEN 1 ELSE 0)
<1>1. Append(q, m) = q \o <<m>> /\ <<m>> \in Seq(S)
    OBVIOUS
<1>2. Count(q \o <<m>>, M) = Count(q, M) + Count(<<m>>, M)
    BY <1>1, CountConcat
<1>3. Count(Append(q, m), M) = Count(q, M) + Count(<<m>>, M)
    BY <1>1, <1>2, Zenon
<1> QED BY <1>3, CountOne

LEMMA CountTail ==
    ASSUME NEW S, NEW q \in Seq(S), q # << >>, NEW M
    PROVE  Count(q, M) = (IF Head(q) \in M THEN 1 ELSE 0) + Count(Tail(q), M)
<1>1. q = <<Head(q)>> \o Tail(q) /\ <<Head(q)>> \in Seq(S) /\ Tail(q) \in Seq(S)
    <2>1. Head(q) \in S /\ Tail(q) \in Seq(S)
        BY HeadTailProperties
    <2> QED BY <2>1, HeadTailProperties, ConcatProperties
<1>2. Count(<<Head(q)>> \o Tail(q), M) = Count(<<Head(q)>>, M) + Count(Tail(q), M)
    BY <1>1, CountConcat
<1>3. Count(<<Head(q)>>, M) = IF Head(q) \in M THEN 1 ELSE 0
    BY CountOne
<1> QED BY <1>1, <1>2, <1>3

-----------------------------------------------------------------------------
(* Types *)

\* What a request or its answer carries for the lambda that the answer runs.
Carries(x) ==
    /\ x.then # "none" => x.s \in Sessions
    /\ x.then = "toTime" => x.opts \in Options /\ ~x.opts.distance
    /\ x.then \in {"dRestop", "dRestarted"} => x.opts \in Options /\ x.opts.distance
    /\ x.then = "updated" => x.old \in Options
SoundRequests ==
    {OpenRequest} \cup
    {r \in [op : {"start", "stop", "startD", "stopD"}, s : Sessions \cup {NoSession},
            opts : Options \cup {NoOptions}, then : Callbacks, old : Options \cup {NoOptions}] :
       /\ Carries(r)
       /\ r.op \in {"startD", "stopD"} => r.s \in Sessions
       /\ r.op \in {"start", "startD"} => r.opts \in Options
       /\ r.op = "stop" => r.opts = NoOptions
       /\ r.op = "stopD" => r.then \in {"dStopped", "dRemoved", "dRestop", "toTime"}
       /\ r.then = "dRestarted" => r.op = "startD"}
SoundMessages ==
    {EngineUp} \cup Held \cup
    {m \in [kind : {"answer"}, then : Callbacks \ {"none"}, s : Sessions,
            opts : Options \cup {NoOptions}, old : Options \cup {NoOptions}, ok : BOOLEAN] :
       Carries(m)}

TimeOK == time \in [Sessions -> Options \cup {NoOptions}]
DistOK == dist \in [Sessions -> Options \cup {NoOptions}]
\* TypeOK, with what each request and message carries for its lambda.
TypeInv ==
    /\ load \in Loads
    /\ reg \in [Clients -> {"new", "silent", "tracking", "gone"}]
    /\ phase \in [Sessions -> {"new", "open", "closed"}]
    /\ owed \in [Sessions -> Int]
    /\ TimeOK /\ DistOK
    /\ known \in BOOLEAN
    /\ pending \in Seq(Held)
    /\ inbox \in Seq(SoundMessages)
    /\ api \in Seq(SoundRequests)
    /\ up \in BOOLEAN
    /\ engine \in Options \cup {NoOptions}
    /\ engineDist \in [Sessions -> Options \cup {NoOptions}]
    /\ crashes \in Nat

\* A sequence over a set is one over any larger set.
LEMMA WiderSeq ==
    ASSUME NEW S, NEW T, S \subseteq T, NEW q \in Seq(S)
    PROVE  q \in Seq(T)
OBVIOUS

LEMMA TypeInvIsTypeOK == TypeInv => TypeOK
<1>1. SoundRequests \subseteq Requests
    BY DEF SoundRequests, Requests
<1>2. SoundMessages \subseteq Messages
    BY DEF SoundMessages, Messages
<1> HIDE DEF SoundRequests, SoundMessages, Requests, Messages
<1>3. TypeInv => api \in Seq(Requests) /\ inbox \in Seq(Messages)
    BY <1>1, <1>2, WiderSeq DEF TypeInv
<1> QED BY <1>3 DEF TypeInv, TypeOK, TimeOK, DistOK

\* Options and no options.
LEMMA OptionsFields ==
    /\ \A o \in Options : /\ o.interval \in Intervals /\ o.interval \in Nat \ {0}
                          /\ o.power \in PowerModes /\ o.power \in Nat
                          /\ o.distance \in BOOLEAN
    /\ NoOptions \notin Options
    /\ NoSession \notin Sessions /\ Sessions \in SUBSET Nat
<1>1. \A o \in Options : o.interval \in Intervals /\ o.power \in PowerModes /\ o.distance \in DistanceRequests
    BY DEF Options
<1>2. Intervals \subseteq Nat \ {0} /\ PowerModes \subseteq Nat /\ DistanceRequests \subseteq BOOLEAN
    BY OptionsAssumption DEF OptionsAssumption
<1>3. NoOptions.interval = 0
    BY DEF NoOptions
<1>4. NoSession \notin Sessions /\ Sessions \in SUBSET Nat
    BY SessionsAssumption DEF SessionsAssumption, NoSession
<1> QED BY <1>1, <1>2, <1>3, <1>4

LEMMA ChangedOptions ==
    ASSUME NEW o \in Options, NEW i \in Intervals, NEW p \in PowerModes
    PROVE  /\ [o EXCEPT !.interval = i, !.power = p] \in Options
           /\ [o EXCEPT !.power = p] \in Options
           /\ [o EXCEPT !.interval = i, !.power = p].interval = i
           /\ [o EXCEPT !.power = p].interval = o.interval
BY DEF Options

LEMMA MinIsLeast ==
    ASSUME NEW S \in SUBSET Nat, S # {}
    PROVE  Min(S) \in S /\ \A y \in S : Min(S) <= y
BY LeastExists DEF Min

\* A session with options, by the keys of the map.
LEMMA KeyOptions ==
    ASSUME TimeOK, NEW s \in TimeKeys
    PROVE  s \in Sessions /\ time[s] \in Options
BY DEF TimeOK, TimeKeys

\* The session whose interval the multiplexer takes is one of the keys.
LEMMA SmallestIsKey ==
    ASSUME TimeOK, NEW K \in SUBSET TimeKeys, K # {}
    PROVE  /\ SmallestInterval(K) \in K
           /\ \A t \in K : time[SmallestInterval(K)].interval <= time[t].interval
<1> DEFINE I == {time[s].interval : s \in K}
<1>1. I \in SUBSET Nat /\ I # {}
    BY KeyOptions, OptionsFields
<1>2. PICK i \in I : \A j \in I : i <= j
    BY <1>1, LeastExists
<1> DEFINE F == {s \in K : time[s].interval = i}
<1>3. F \in SUBSET Nat /\ F # {}
    BY <1>2, KeyOptions, OptionsFields
<1> HIDE DEF F
<1>4. PICK s \in F : \A t \in F : s <= t
    BY <1>3, LeastExists
<1>5. s \in K /\ time[s].interval = i /\ \A t \in K : time[t].interval = i => s <= t
    BY <1>4 DEF F
<1>6. \A t \in K : time[t].interval \in Nat
    BY KeyOptions, OptionsFields
<1>7. \A t \in K : i <= time[t].interval
    BY <1>2
<1>8. \A t \in K : time[s].interval < time[t].interval \/ (time[s].interval = time[t].interval /\ s <= t)
    BY <1>5, <1>6, <1>7
<1>9. /\ SmallestInterval(K) \in K
      /\ \A t \in K : \/ time[SmallestInterval(K)].interval < time[t].interval
                      \/ time[SmallestInterval(K)].interval = time[t].interval /\ SmallestInterval(K) <= t
    BY <1>5, <1>8 DEF SmallestInterval
<1> QED BY <1>6, <1>9

LEMMA PowersOfKeys ==
    ASSUME TimeOK, NEW K \in SUBSET TimeKeys, K # {}
    PROVE  LeastPower(K) \in PowerModes
<1>1. {time[s].power : s \in K} \subseteq PowerModes /\ {time[s].power : s \in K} # {}
    BY KeyOptions, OptionsFields
<1>2. PowerModes \subseteq Nat
    BY OptionsAssumption DEF OptionsAssumption
<1> QED BY <1>1, <1>2, MinIsLeast DEF LeastPower

LEMMA MultiplexedPowerIsMode ==
    ASSUME TimeOK, NEW K \in SUBSET TimeKeys, K # {}
    PROVE  MultiplexedPower(K) \in PowerModes
<1> DEFINE behind == {s \in K : \A t \in K : time[t].power = PowerInvalid => t < s}
<1>1. CASE behind # {}
    <2>1. LeastPower(behind) \in PowerModes
        BY <1>1, PowersOfKeys
    <2> QED BY <1>1, <2>1 DEF MultiplexedPower
<1>2. CASE behind = {}
    <2>1. \E t \in K : time[t].power = PowerInvalid
        BY <1>2
    <2>2. PowerInvalid \in PowerModes
        BY <2>1, KeyOptions, OptionsFields
    <2> QED BY <1>2, <2>2 DEF MultiplexedPower
<1> QED BY <1>1, <1>2

LEMMA RestartPowerIsMode ==
    ASSUME TimeOK, NEW K \in SUBSET TimeKeys, K # {}
    PROVE  RestartPower(K) \in PowerModes
<1>1. K \in SUBSET Nat
    BY KeyOptions, OptionsFields
<1>2. Min(K) \in K
    BY <1>1, MinIsLeast
<1>3. time[Min(K)].power \in PowerModes
    BY <1>2, KeyOptions, OptionsFields
<1> DEFINE V == {s \in K : time[s].power # PowerInvalid}
<1>4. CASE time[Min(K)].power # PowerInvalid
    <2>1. V \in SUBSET TimeKeys /\ V # {}
        BY <1>2, <1>4
    <2> HIDE DEF V
    <2>2. LeastPower(V) \in PowerModes
        BY <2>1, PowersOfKeys
    <2> QED BY <1>4, <2>2 DEF RestartPower, V
<1> QED BY <1>3, <1>4 DEF RestartPower

\* What the multiplexer makes of the sessions at hand is again a set of options,
\* with an interval short enough for both.
LEMMA ImprovedServes ==
    ASSUME TimeOK, NEW K \in SUBSET TimeKeys, K # {}, NEW o \in Options
    PROVE  /\ Improved(K, o) \in Options
           /\ Improved(K, o).interval <= o.interval
           /\ \A t \in K : Improved(K, o).interval <= time[t].interval
<1> DEFINE m == time[SmallestInterval(K)]
           i == IF o.interval < m.interval THEN o.interval ELSE m.interval
           p == IF o.power < MultiplexedPower(K) THEN o.power ELSE m.power
<1>1. m \in Options /\ \A t \in K : m.interval <= time[t].interval
    BY SmallestIsKey, KeyOptions
<1>2. i \in Intervals /\ p \in PowerModes
    BY <1>1, OptionsFields
<1>3. Improved(K, o) = [m EXCEPT !.interval = i, !.power = p]
    BY DEF Improved
<1>4. i \in Nat /\ i <= o.interval /\ i <= m.interval /\ m.interval \in Nat
    BY <1>1, OptionsFields
<1>5. \A t \in K : time[t].interval \in Nat
    BY KeyOptions, OptionsFields
<1> HIDE DEF m, i, p
<1>7. \A x \in Options : [x EXCEPT !.interval = i, !.power = p] \in Options
                        /\ [x EXCEPT !.interval = i, !.power = p].interval = i
    BY <1>2 DEF Options
<1>6. Improved(K, o) \in Options /\ Improved(K, o).interval = i
    BY <1>1, <1>3, <1>7, Zenon
<1> QED BY <1>1, <1>4, <1>5, <1>6

-----------------------------------------------------------------------------
(* What the multiplexer asks of the modem *)

\* The engine with options e has an interval that is short enough for the keys.
Serves(e, K) == \A t \in K : e # NoOptions /\ e.interval <= time[t].interval

\* Requests for the one fix session, of which a session awaits the answer.
Multiplexed(s) ==
    {r \in SoundRequests : r.op \in {"start", "stop"} /\ r.then \in {"started", "updated", "stopped"}
                           /\ r.s = s}

LEMMA MultiplexedRequests ==
    ASSUME NEW s \in Sessions
    PROVE  /\ \A o \in Options : Request("start", s, o, "started", NoOptions) \in Multiplexed(s)
           /\ \A o, p \in Options : Request("start", s, o, "updated", p) \in Multiplexed(s)
           /\ Request("stop", s, NoOptions, "stopped", NoOptions) \in Multiplexed(s)
BY DEF Multiplexed, SoundRequests, Request, Carries, Callbacks

\* Requests nobody waits for.
Unawaited == {r \in SoundRequests : r.op = "open" \/ r.then = "none"}
LEMMA UnawaitedRequests ==
    /\ OpenRequest \in Unawaited
    /\ \A o \in Options : Request("start", NoSession, o, "none", NoOptions) \in Unawaited
    /\ Request("stop", NoSession, NoOptions, "none", NoOptions) \in Unawaited
    /\ \A s \in Sessions, o \in Options : StartDistance(s, o, "none") \in Unawaited
BY DEF Unawaited, SoundRequests, Request, Carries, Callbacks, StartDistance, OpenRequest

\* Requests for the distance based session of a session.
LEMMA DistanceRequestsAreSound ==
    ASSUME NEW s \in Sessions, NEW o \in Options
    PROVE  /\ StartDistance(s, o, "dStarted") \in SoundRequests
           /\ o.distance => StartDistance(s, o, "dRestarted") \in SoundRequests
           /\ StopDistance(s, NoOptions, "dStopped") \in SoundRequests
           /\ StopDistance(s, NoOptions, "dRemoved") \in SoundRequests
           /\ ~o.distance => StopDistance(s, o, "toTime") \in SoundRequests
           /\ o.distance => StopDistance(s, o, "dRestop") \in SoundRequests
BY DEF SoundRequests, Request, Carries, Callbacks, StartDistance, StopDistance

\* The start of a time based session asks for nothing if one as frequent runs, and
\* otherwise for what serves all.
LEMMA StartMultiplexed ==
    ASSUME TimeOK, NEW s \in Sessions, NEW o \in Options
    PROVE  \/ /\ StartTimeBasedTrackingMultiplex(s, o) = << >>
              /\ \E t \in TimeKeys : time[t].interval <= o.interval
           \/ \E r \in Multiplexed(s) :
                /\ StartTimeBasedTrackingMultiplex(s, o) = <<r>> /\ r.then = "started"
                /\ r.opts \in Options /\ r.opts.interval <= o.interval /\ Serves(r.opts, TimeKeys)
<1> DEFINE R(x) == Request("start", s, x, "started", NoOptions)
<1>1. \A x \in Options : R(x) \in Multiplexed(s) /\ R(x).opts = x /\ R(x).then = "started"
    BY MultiplexedRequests DEF Request
<1>2. CASE TimeKeys = {}
    <2>1. StartTimeBasedTrackingMultiplex(s, o) = <<R(o)>>
        BY <1>2 DEF StartTimeBasedTrackingMultiplex, StartTimeBasedTracking
    <2>2. o.interval <= o.interval /\ Serves(o, TimeKeys)
        BY <1>2, OptionsFields DEF Serves
    <2> HIDE DEF R
    <2> QED BY <1>1, <2>1, <2>2
<1>3. CASE TimeKeys # {} /\ NeedsMore(TimeKeys, o)
    <2> DEFINE x == Improved(TimeKeys, o)
    <2>1. StartTimeBasedTrackingMultiplex(s, o) = <<R(x)>>
        BY <1>3 DEF StartTimeBasedTrackingMultiplex, StartTimeBasedTracking
    <2>2. x \in Options /\ x.interval <= o.interval /\ \A t \in TimeKeys : x.interval <= time[t].interval
        BY <1>3, ImprovedServes
    <2> HIDE DEF R, x
    <2>3. Serves(x, TimeKeys)
        BY <2>2, OptionsFields DEF Serves
    <2> QED BY <1>1, <2>1, <2>2, <2>3
<1>4. CASE TimeKeys # {} /\ ~NeedsMore(TimeKeys, o)
    <2>1. StartTimeBasedTrackingMultiplex(s, o) = << >>
        BY <1>4 DEF StartTimeBasedTrackingMultiplex
    <2>2. SmallestInterval(TimeKeys) \in TimeKeys
        BY <1>4, SmallestIsKey
    <2>3. time[SmallestInterval(TimeKeys)].interval <= o.interval
        BY <1>4, <2>2, KeyOptions, OptionsFields DEF NeedsMore
    <2> QED BY <2>1, <2>2, <2>3
<1> QED BY <1>2, <1>3, <1>4

\* So does an update, which remembers the old options for a failure.
LEMMA UpdateMultiplexed ==
    ASSUME TimeOK, NEW s \in TimeKeys, NEW o \in Options
    PROVE  \/ /\ UpdateTrackingMultiplex(s, o) = << >>
              /\ \E t \in TimeKeys : time[t].interval <= o.interval
           \/ \E r \in Multiplexed(s) :
                /\ UpdateTrackingMultiplex(s, o) = <<r>> /\ r.then = "updated" /\ r.old = time[s]
                /\ r.opts \in Options /\ r.opts.interval <= o.interval /\ Serves(r.opts, TimeKeys \ {s})
<1> DEFINE R(x) == Request("start", s, x, "updated", time[s])
           others == TimeKeys \ {s}
           changed == time[s].interval # o.interval \/ time[s].power # o.power
<1>0. s \in Sessions /\ time[s] \in Options
    BY KeyOptions
<1>1. \A x \in Options : /\ R(x) \in Multiplexed(s) /\ R(x).opts = x
                          /\ R(x).then = "updated" /\ R(x).old = time[s]
    BY <1>0, MultiplexedRequests DEF Request
<1>5. others \in SUBSET TimeKeys
    OBVIOUS
<1>6. UpdateTrackingMultiplex(s, o) =
        IF ~changed THEN << >> ELSE IF others = {} THEN <<R(o)>>
        ELSE IF NeedsMore(others, o) THEN <<R(Improved(others, o))>> ELSE << >>
    BY DEF UpdateTrackingMultiplex, UpdateTracking
<1>2. CASE changed /\ others = {}
    <2>1. UpdateTrackingMultiplex(s, o) = <<R(o)>>
        BY <1>2, <1>6
    <2>2. o.interval <= o.interval /\ Serves(o, others)
        BY <1>2, OptionsFields DEF Serves
    <2> HIDE DEF R
    <2> QED BY <1>1, <2>1, <2>2
<1>3. CASE changed /\ others # {} /\ NeedsMore(others, o)
    <2> DEFINE x == Improved(others, o)
    <2>1. UpdateTrackingMultiplex(s, o) = <<R(x)>>
        BY <1>3, <1>6
    <2>2. x \in Options /\ x.interval <= o.interval /\ \A t \in others : x.interval <= time[t].interval
        BY <1>3, <1>5, ImprovedServes
    <2> HIDE DEF R, x
    <2>3. Serves(x, others)
        BY <2>2, OptionsFields DEF Serves
    <2> QED BY <1>1, <2>1, <2>2, <2>3
<1>4. CASE changed /\ others # {} /\ ~NeedsMore(others, o)
    <2>1. UpdateTrackingMultiplex(s, o) = << >>
        BY <1>4, <1>6
    <2>2. SmallestInterval(others) \in others
        BY <1>4, <1>5, SmallestIsKey
    <2>3. time[SmallestInterval(others)].interval <= o.interval
        BY <1>4, <1>5, <2>2, KeyOptions, OptionsFields DEF NeedsMore
    <2> QED BY <2>1, <2>2, <2>3
<1>7. CASE ~changed
    <2>1. UpdateTrackingMultiplex(s, o) = << >>
        BY <1>6, <1>7
    <2>2. time[s].interval <= o.interval
        BY <1>7, OptionsFields
    <2> QED BY <2>1, <2>2
<1> QED BY <1>2, <1>3, <1>4, <1>7

\* A stop asks for nothing that leaves a session unserved, and stops the engine
\* after the last.
LEMMA StopMultiplexed ==
    ASSUME TimeOK, NEW K \in SUBSET TimeKeys, NEW s \in K
    PROVE  \/ StopTimeBasedTrackingMultiplex(K, s) = << >> /\ K \ {s} # {}
           \/ \E r \in Multiplexed(s) :
                /\ StopTimeBasedTrackingMultiplex(K, s) = <<r>> /\ r.then # "updated"
                /\ r.opts \in Options \cup {NoOptions} /\ Serves(r.opts, K \ {s})
                /\ K \ {s} = {} => r.opts = NoOptions
<1> DEFINE others == K \ {s}
           x == [time[SmallestInterval(others)] EXCEPT !.power = MultiplexedPower(others)]
<1>1. s \in Sessions
    BY KeyOptions
<1>2. CASE others = {}
    <2> DEFINE r == Request("stop", s, NoOptions, "stopped", NoOptions)
    <2>1. StopTimeBasedTrackingMultiplex(K, s) = <<r>>
        BY <1>2 DEF StopTimeBasedTrackingMultiplex, StopTracking
    <2>2. r \in Multiplexed(s) /\ r.opts = NoOptions /\ r.then # "updated"
        BY <1>1, MultiplexedRequests DEF Request
    <2> HIDE DEF r
    <2> QED BY <1>2, <2>1, <2>2 DEF Serves
<1>3. CASE others # {} /\ NeedsMore(others, time[s])
    <2> DEFINE r == Request("start", s, x, "started", NoOptions)
               m == time[SmallestInterval(others)]
    <2>1. StopTimeBasedTrackingMultiplex(K, s) = <<r>>
        BY <1>3 DEF StopTimeBasedTrackingMultiplex, StartTimeBasedTracking
    <2>2. /\ others \in SUBSET TimeKeys /\ MultiplexedPower(others) \in PowerModes
          /\ SmallestInterval(others) \in others /\ \A t \in others : m.interval <= time[t].interval
        BY <1>3, SmallestIsKey, MultiplexedPowerIsMode
    <2>3. m \in Options
        BY <2>2, KeyOptions
    <2>4. x \in Options /\ x.interval = m.interval
        BY <2>2, <2>3 DEF Options
    <2> HIDE DEF x, m
    <2>5. Serves(x, others)
        BY <2>2, <2>4, OptionsFields DEF Serves
    <2>6. r \in Multiplexed(s) /\ r.opts = x /\ r.then # "updated"
        BY <1>1, <2>4, MultiplexedRequests DEF Request
    <2> HIDE DEF r
    <2> QED BY <1>3, <2>1, <2>4, <2>5, <2>6
<1>4. CASE others # {} /\ ~NeedsMore(others, time[s])
    BY <1>4 DEF StopTimeBasedTrackingMultiplex
<1> QED BY <1>2, <1>3, <1>4

-----------------------------------------------------------------------------
(* What the modem runs when it has served its queue *)

\* What a request leaves running, and what is left when all of q is served that
\* is among A, where e0 runs before.
Result(r) == IF r.op \in {"start", "startD"} THEN r.opts ELSE NoOptions
Left(q, A, e0, e) ==
    \/ (\A i \in 1 .. Len(q) : q[i] \notin A) /\ e = e0
    \/ \E i \in 1 .. Len(q) :
         q[i] \in A /\ e = Result(q[i]) /\ \A j \in 1 .. Len(q) : j > i => q[j] \notin A

LEMMA LeftEmpty ==
    ASSUME NEW A, NEW e
    PROVE  Left(<< >>, A, e, e)
BY DEF Left

\* What is appended decides if it has a request of A.
LEMMA LeftConcat ==
    ASSUME NEW S, NEW p \in Seq(S), NEW q \in Seq(S), NEW A, NEW e0, NEW e, Left(p \o q, A, e0, e)
    PROVE  \/ (\A i \in 1 .. Len(q) : q[i] \notin A) /\ Left(p, A, e0, e)
           \/ (\E i \in 1 .. Len(q) : q[i] \in A) /\ Left(q, A, e0, e)
<1>1. Len(p) \in Nat /\ Len(q) \in Nat /\ Len(p \o q) = Len(p) + Len(q)
    BY ConcatProperties, LenProperties
<1>2. \A i \in 1 .. Len(p) : i \in 1 .. Len(p \o q) /\ (p \o q)[i] = p[i]
    BY <1>1, ConcatProperties
<1>3. \A i \in 1 .. Len(q) : Len(p) + i \in 1 .. Len(p \o q) /\ (p \o q)[Len(p) + i] = q[i]
    BY <1>1, ConcatProperties
<1>4. CASE \A i \in 1 .. Len(p \o q) : (p \o q)[i] \notin A
    BY <1>2, <1>3, <1>4 DEF Left
<1>5. CASE \E i \in 1 .. Len(p \o q) : (p \o q)[i] \in A
    <2>1. PICK i \in 1 .. Len(p \o q) :
             (p \o q)[i] \in A /\ e = Result((p \o q)[i])
               /\ \A j \in 1 .. Len(p \o q) : j > i => (p \o q)[j] \notin A
        BY <1>5 DEF Left
    <2>2. CASE i <= Len(p)
        <3>1. i \in 1 .. Len(p)
            BY <1>1, <2>2
        <3>2. \A j \in 1 .. Len(q) : q[j] \notin A
            <4> SUFFICES ASSUME NEW j \in 1 .. Len(q) PROVE q[j] \notin A
                OBVIOUS
            <4>1. Len(p) + j > i
                BY <1>1, <2>2
            <4> QED BY <1>3, <2>1, <4>1
        <3>3. \A j \in 1 .. Len(p) : j > i => p[j] \notin A
            BY <1>2, <2>1
        <3> QED BY <1>2, <2>1, <3>1, <3>2, <3>3 DEF Left
    <2>3. CASE i > Len(p)
        <3>1. PICK k \in 1 .. Len(q) : i = Len(p) + k
            <4>1. i - Len(p) \in 1 .. Len(q) /\ i = Len(p) + (i - Len(p))
                BY <1>1, <2>3
            <4> QED BY <4>1
        <3>2. \A j \in 1 .. Len(q) : j > k => q[j] \notin A
            <4> SUFFICES ASSUME NEW j \in 1 .. Len(q), j > k PROVE q[j] \notin A
                OBVIOUS
            <4>1. Len(p) + j > i
                BY <1>1, <3>1
            <4> QED BY <1>3, <2>1, <4>1
        <3>3. q[k] \in A /\ e = Result(q[k])
            BY <1>3, <2>1, <3>1
        <3> QED BY <3>1, <3>2, <3>3 DEF Left
    <2> QED BY <1>1, <2>2, <2>3
<1> QED BY <1>4, <1>5

LEMMA LeftOne ==
    ASSUME NEW S, NEW p \in Seq(S), NEW r \in S, NEW A, NEW e0, NEW e, Left(p \o <<r>>, A, e0, e)
    PROVE  IF r \in A THEN e = Result(r) ELSE Left(p, A, e0, e)
<1>1. <<r>> \in Seq(S) /\ Len(<<r>>) = 1 /\ <<r>>[1] = r
    OBVIOUS
<1>2. \/ (\A i \in 1 .. Len(<<r>>) : <<r>>[i] \notin A) /\ Left(p, A, e0, e)
      \/ (\E i \in 1 .. Len(<<r>>) : <<r>>[i] \in A) /\ Left(<<r>>, A, e0, e)
    BY <1>1, LeftConcat
<1>3. CASE r \in A
    <2>1. Left(<<r>>, A, e0, e)
        BY <1>1, <1>2, <1>3
    <2> QED BY <1>1, <1>3, <2>1 DEF Left
<1>4. CASE r \notin A
    BY <1>1, <1>2, <1>4
<1> QED BY <1>3, <1>4

\* Serving the head leaves the rest to be served.
LEMMA LeftTail ==
    ASSUME NEW S, NEW q \in Seq(S), q # << >>, NEW A, NEW e0, NEW e,
           Left(Tail(q), A, IF Head(q) \in A THEN Result(Head(q)) ELSE e0, e)
    PROVE  Left(q, A, e0, e)
<1>1. /\ Len(q) \in Nat \ {0} /\ Len(Tail(q)) = Len(q) - 1 /\ Head(q) = q[1]
      /\ \A i \in 1 .. Len(Tail(q)) : Tail(q)[i] = q[i + 1] /\ i + 1 \in 1 .. Len(q)
    BY EmptySeq, LenProperties, HeadTailProperties
<1>2. ASSUME NEW j \in 1 .. Len(q), j > 1
      PROVE  j - 1 \in 1 .. Len(Tail(q)) /\ Tail(q)[j - 1] = q[j]
    <2>1. j - 1 \in 1 .. Len(Tail(q)) /\ (j - 1) + 1 = j
        BY <1>1, <1>2
    <2> QED BY <1>1, <2>1
<1>3. CASE \A i \in 1 .. Len(Tail(q)) : Tail(q)[i] \notin A
    <2>1. e = IF Head(q) \in A THEN Result(Head(q)) ELSE e0
        BY <1>3 DEF Left
    <2>2. \A j \in 1 .. Len(q) : j > 1 => q[j] \notin A
        BY <1>2, <1>3
    <2>3. CASE q[1] \in A
        BY <1>1, <2>1, <2>2, <2>3 DEF Left
    <2>4. CASE q[1] \notin A
        <3>1. \A j \in 1 .. Len(q) : q[j] \notin A
            BY <1>1, <2>2, <2>4
        <3> QED BY <1>1, <2>1, <2>4, <3>1 DEF Left
    <2> QED BY <2>3, <2>4
<1>4. CASE ~ \A i \in 1 .. Len(Tail(q)) : Tail(q)[i] \notin A
    <2>1. PICK i \in 1 .. Len(Tail(q)) :
             Tail(q)[i] \in A /\ e = Result(Tail(q)[i])
               /\ \A j \in 1 .. Len(Tail(q)) : j > i => Tail(q)[j] \notin A
        BY <1>4 DEF Left
    <2>2. i + 1 \in 1 .. Len(q) /\ q[i + 1] \in A /\ e = Result(q[i + 1])
        BY <1>1, <2>1
    <2>3. \A j \in 1 .. Len(q) : j > i + 1 => q[j] \notin A
        <3> SUFFICES ASSUME NEW j \in 1 .. Len(q), j > i + 1 PROVE q[j] \notin A
            OBVIOUS
        <3>1. j > 1 /\ j - 1 > i
            BY <1>1
        <3> QED BY <1>2, <2>1, <3>1
    <2> QED BY <2>2, <2>3 DEF Left
<1> QED BY <1>3, <1>4

\* Requests for the fix session and for the distance based session of s.
FixRequests == {r \in SoundRequests : r.op \in {"start", "stop"}}
DistanceOf(s) == {r \in SoundRequests : r.op \in {"startD", "stopD"} /\ r.s = s}

\* After the queue q the keys K are served, and the engine runs for somebody.
Served(q, K) == \A e : Left(q, FixRequests, engine, e) => Serves(e, K)
Needed(q, K) == \A e : Left(q, FixRequests, engine, e) => (e # NoOptions => K # {})

LEMMA MultiplexedResult ==
    ASSUME NEW s \in Sessions, NEW r \in Multiplexed(s)
    PROVE  /\ r \in SoundRequests /\ r \in FixRequests
           /\ Result(r) = r.opts
BY DEF Multiplexed, FixRequests, Result, SoundRequests, OpenRequest

\* Requests for the fix session at the stop of a session.
Stopping(s) == {r \in Multiplexed(s) : r.then # "updated"}

LEMMA StopKeeps ==
    ASSUME TimeOK, NEW q \in Seq(SoundRequests), NEW K \in SUBSET TimeKeys, NEW s \in K
    PROVE  LET R == StopTimeBasedTrackingMultiplex(K, s)
           IN  /\ R \in Seq(Stopping(s)) /\ q \o R \in Seq(SoundRequests)
               /\ Served(q, K) => Served(q \o R, K \ {s})
               /\ Needed(q, K) => Needed(q \o R, K \ {s})
<1>1. s \in Sessions
    BY KeyOptions
<1>2. CASE StopTimeBasedTrackingMultiplex(K, s) = << >> /\ K \ {s} # {}
    <2>1. q \o << >> = q /\ << >> \in Seq(Stopping(s))
        OBVIOUS
    <2> QED BY <1>2, <2>1 DEF Served, Needed, Serves
<1>3. ASSUME NEW r \in Stopping(s),
             StopTimeBasedTrackingMultiplex(K, s) = <<r>>,
             Serves(r.opts, K \ {s}), K \ {s} = {} => r.opts = NoOptions
      PROVE  LET R == StopTimeBasedTrackingMultiplex(K, s)
             IN  /\ R \in Seq(Stopping(s)) /\ q \o R \in Seq(SoundRequests)
                 /\ Served(q \o R, K \ {s}) /\ Needed(q \o R, K \ {s})
    <2>1. r \in SoundRequests /\ r \in FixRequests /\ Result(r) = r.opts
        BY <1>1, MultiplexedResult DEF Stopping
    <2>2. <<r>> \in Seq(Stopping(s)) /\ <<r>> \in Seq(SoundRequests) /\ q \o <<r>> \in Seq(SoundRequests)
        BY <2>1
    <2>3. \A e : Left(q \o <<r>>, FixRequests, engine, e) => e = r.opts
        BY <2>1, LeftOne
    <2> QED BY <1>3, <2>2, <2>3 DEF Served, Needed
<1>4. ASSUME NEW r \in Multiplexed(s), r.then # "updated" PROVE r \in Stopping(s)
    BY <1>4 DEF Stopping
<1> QED BY <1>2, <1>3, <1>4, StopMultiplexed

-----------------------------------------------------------------------------
(* The sessions of a client that goes, one after the other *)

Removed(own) ==
    [i \in 1 .. Cardinality(own) |->
        LET s == MapOrder(own)[i]
        IN  StopTimeBasedTrackingMultiplex(TimeKeys \ {t \in own : t < s}, s)]
\* The requests for them.
StopRequests(own) == UNION {Stopping(s) : s \in own}

LEMMA StopRequestsAreSound ==
    ASSUME NEW own \in SUBSET Sessions
    PROVE  StopRequests(own) \subseteq SoundRequests
BY DEF StopRequests, Stopping, Multiplexed

\* What is sent for the sessions of a client that goes leaves the others served.
LEMMA RemovalKeeps ==
    ASSUME TimeOK, api \in Seq(SoundRequests), NEW own \in SUBSET TimeKeys
    PROVE  LET R == FlattenSeq(Removed(own))
           IN  /\ R \in Seq(StopRequests(own))
               /\ Served(api, TimeKeys) => Served(api \o R, TimeKeys \ own)
               /\ Needed(api, TimeKeys) => Needed(api \o R, TimeKeys \ own)
<1> DEFINE n == Cardinality(own)
           k == MapOrder(own)
           stops == Removed(own)
           first(i) == {t \in own : \E j \in 1 .. i : k[j] = t}
<1>1. own \in SUBSET Sessions /\ own \in SUBSET Nat /\ IsFiniteSet(own)
    BY FS_Subset, SessionsAssumption, OptionsFields DEF SessionsAssumption, TimeKeys
<1>2. /\ n \in Nat /\ k \in [1 .. n -> own]
      /\ \A i, j \in 1 .. n : i < j => k[i] < k[j]
      /\ \A s \in own : \E i \in 1 .. n : k[i] = s
    BY <1>1, MapOrderEnumerates
<1> HIDE DEF k
<1>3. stops = [i \in 1 .. n |-> StopTimeBasedTrackingMultiplex(TimeKeys \ {t \in own : t < k[i]}, k[i])]
    BY DEF Removed, k
<1> HIDE DEF stops, n
<1>4. Len(stops) = n
    BY <1>2, <1>3
<1>10. \A i, t : t \in first(i) <=> t \in own /\ \E j \in 1 .. i : k[j] = t
    OBVIOUS
<1> HIDE DEF first
<1>5. ASSUME NEW i \in 1 .. n
      PROVE  {t \in own : t < k[i]} = first(i - 1) /\ k[i] \in own /\ k[i] \notin first(i - 1)
             /\ first(i) = first(i - 1) \cup {k[i]}
    <2>1. \A j \in 1 .. n : k[j] \in Nat
        BY <1>1, <1>2
    <2>2. \A j \in 1 .. n : k[j] < k[i] <=> j < i
        <3> SUFFICES ASSUME NEW j \in 1 .. n PROVE k[j] < k[i] <=> j < i
            OBVIOUS
        <3>1. j < i => k[j] < k[i]
            BY <1>2
        <3>2. i < j => k[i] < k[j]
            BY <1>2
        <3> QED BY <1>2, <2>1, <3>1, <3>2
    <2>3. \A j \in 1 .. i - 1 : j \in 1 .. n /\ j < i
        BY <1>2
    <2>4. \A j \in 1 .. n : j < i => j \in 1 .. i - 1
        BY <1>2
    <2>5. {t \in own : t < k[i]} = first(i - 1)
        BY <1>2, <1>10, <2>2, <2>3, <2>4
    <2>6. \A j \in 1 .. i : j \in 1 .. i - 1 \/ j = i
        BY <1>2
    <2>7. (\A j \in 1 .. i - 1 : j \in 1 .. i) /\ i \in 1 .. i
        BY <1>2
    <2>9. \A t : (\E j \in 1 .. i : k[j] = t) <=> (\E j \in 1 .. i - 1 : k[j] = t) \/ t = k[i]
        BY <2>6, <2>7
    <2>8. first(i) = first(i - 1) \cup {k[i]}
        <3>1. \A t : t \in first(i) <=> t \in first(i - 1) \/ t = k[i]
            BY <1>2, <1>10, <2>9
        <3> QED BY <3>1
    <2> QED BY <1>2, <2>1, <2>5, <2>8
<1>6. first(0) = {}
    BY <1>10
<1>7. first(n) = own
    BY <1>2, <1>10
<1>8. CASE n = 0
    <2>1. own = {}
        BY <1>2, <1>8
    <2>2. stops = << >>
        BY <1>3, <1>8
    <2>3. FlattenSeq(stops) = << >>
        BY <1>4, <1>8, <2>2 DEF FlattenSeq
    <2>4. api \o << >> = api /\ << >> \in Seq(StopRequests(own))
        BY ConcatEmptySeq, EmptySeq
    <2>5. TimeKeys \ own = TimeKeys
        BY <2>1
    <2> QED BY <2>3, <2>4, <2>5 DEF stops
<1>9. CASE n # 0
    <2>0. n \in Nat \ {0}
        BY <1>2, <1>9
    <2>1. PICK f : /\ f[1] = stops[1]
                   /\ \A i \in 2 .. n : f[i] = f[i-1] \o stops[i]
                   /\ FlattenSeq(stops) = f[n]
        BY <1>4, <2>0, Flattened, Zenon
    <2> DEFINE Good(i) == /\ f[i] \in Seq(StopRequests(own))
                          /\ Served(api, TimeKeys) => Served(api \o f[i], TimeKeys \ first(i))
                          /\ Needed(api, TimeKeys) => Needed(api \o f[i], TimeKeys \ first(i))
               Bad == {i \in 1 .. n : ~Good(i)}
    <2>2. ASSUME NEW i \in 1 .. n, NEW q \in Seq(StopRequests(own)),
                 Served(api, TimeKeys) => Served(api \o q, TimeKeys \ first(i - 1)),
                 Needed(api, TimeKeys) => Needed(api \o q, TimeKeys \ first(i - 1))
          PROVE  /\ q \o stops[i] \in Seq(StopRequests(own))
                 /\ Served(api, TimeKeys) => Served(api \o (q \o stops[i]), TimeKeys \ first(i))
                 /\ Needed(api, TimeKeys) => Needed(api \o (q \o stops[i]), TimeKeys \ first(i))
        <3> DEFINE K == TimeKeys \ first(i - 1)
                   s == k[i]
        <3>1. s \in own /\ s \in K /\ K \in SUBSET TimeKeys /\ K \ {s} = TimeKeys \ first(i)
            BY <1>5
        <3>2. stops[i] = StopTimeBasedTrackingMultiplex(K, s)
            BY <1>3, <1>5
        <3> HIDE DEF K, s
        <3>3. q \in Seq(SoundRequests) /\ api \o q \in Seq(SoundRequests)
            BY <1>1, StopRequestsAreSound, WiderSeq
        <3>9. LET R == StopTimeBasedTrackingMultiplex(K, s)
              IN  /\ R \in Seq(Stopping(s)) /\ (api \o q) \o R \in Seq(SoundRequests)
                  /\ Served(api \o q, K) => Served((api \o q) \o R, K \ {s})
                  /\ Needed(api \o q, K) => Needed((api \o q) \o R, K \ {s})
            BY <3>1, <3>3, StopKeeps
        <3>4. /\ stops[i] \in Seq(Stopping(s))
              /\ Served(api \o q, K) => Served((api \o q) \o stops[i], K \ {s})
              /\ Needed(api \o q, K) => Needed((api \o q) \o stops[i], K \ {s})
            BY <3>2, <3>9
        <3>5. Stopping(s) \subseteq StopRequests(own)
            BY <3>1 DEF StopRequests
        <3>6. stops[i] \in Seq(StopRequests(own)) /\ stops[i] \in Seq(SoundRequests)
            BY <1>1, <3>4, <3>5, StopRequestsAreSound, WiderSeq
        <3>7. (api \o q) \o stops[i] = api \o (q \o stops[i])
            <4>1. \A x, y, z \in Seq(SoundRequests) : (x \o y) \o z = x \o (y \o z)
                BY ConcatAssociative
            <4> QED BY <3>3, <3>6, <4>1, Zenon
        <3>8. q \o stops[i] \in Seq(StopRequests(own))
            BY <3>6
        <3> QED BY <2>2, <3>1, <3>4, <3>7, <3>8 DEF K
    <2>3. Good(1)
        <3>1. << >> \in Seq(StopRequests(own)) /\ api \o << >> = api /\ TimeKeys \ first(0) = TimeKeys
            BY <1>6
        <3>2. 1 \in 1 .. n /\ 1 - 1 = 0
            BY <1>2, <1>9
        <3>3. /\ << >> \o stops[1] \in Seq(StopRequests(own))
              /\ Served(api, TimeKeys) => Served(api \o (<< >> \o stops[1]), TimeKeys \ first(1))
              /\ Needed(api, TimeKeys) => Needed(api \o (<< >> \o stops[1]), TimeKeys \ first(1))
            BY <2>2, <3>1, <3>2
        <3> DEFINE K == TimeKeys \ first(0)
                   s == k[1]
        <3>4. stops[1] = StopTimeBasedTrackingMultiplex(TimeKeys \ first(0), k[1])
            BY <1>3, <1>5, <3>2
        <3>5. k[1] \in own /\ k[1] \in TimeKeys \ first(0) /\ TimeKeys \ first(0) \in SUBSET TimeKeys
            BY <1>5, <3>2
        <3>6. stops[1] \in Seq(Stopping(k[1]))
            <4> HIDE DEF K, s
            <4>1. << >> \in Seq(SoundRequests) /\ s \in K /\ K \in SUBSET TimeKeys
                BY <3>5 DEF K, s
            <4>2. LET R == StopTimeBasedTrackingMultiplex(K, s)
                  IN  /\ R \in Seq(Stopping(s)) /\ << >> \o R \in Seq(SoundRequests)
                      /\ Served(<< >>, K) => Served(<< >> \o R, K \ {s})
                      /\ Needed(<< >>, K) => Needed(<< >> \o R, K \ {s})
                BY <4>1, StopKeeps
            <4> QED BY <3>4, <4>2 DEF K, s
        <3>7. << >> \o stops[1] = stops[1]
            BY <3>6, ConcatEmptySeq
        <3> QED BY <2>1, <3>3, <3>7
    <2>4. ASSUME NEW i \in 2 .. n, Good(i - 1) PROVE Good(i)
        <3>0. \A j \in 2 .. n : j \in 1 .. n
            BY <1>2
        <3>1. i \in 1 .. n /\ f[i] = f[i-1] \o stops[i]
            BY <2>1, <3>0
        <3> QED BY <2>2, <2>4, <3>1
    <2>5. Bad = {}
        <3> HIDE DEF Good
        <3>1. SUFFICES ASSUME Bad # {} PROVE FALSE
            OBVIOUS
        <3>2. Bad \in SUBSET Nat
            OBVIOUS
        <3> HIDE DEF Bad
        <3>3. PICK i \in Bad : \A j \in Bad : i <= j
            BY <3>1, <3>2, LeastExists
        <3>4. i \in 1 .. n /\ ~Good(i) /\ \A j \in 1 .. n : j < i => Good(j)
            BY <3>3 DEF Bad
        <3>5. i # 1
            BY <2>3, <3>4
        <3>6. i \in 2 .. n /\ i - 1 \in 1 .. n /\ i - 1 < i
            BY <1>2, <3>4, <3>5
        <3> QED BY <2>4, <3>4, <3>6
    <2>6. n \in 1 .. n
        BY <1>2, <1>9
    <2>7. Good(n)
        BY <2>5, <2>6
    <2> QED BY <1>7, <2>1, <2>7 DEF stops
<1> QED BY <1>8, <1>9

-----------------------------------------------------------------------------
(* What the handlers of commands do *)

\* checkAndRestartTimeBasedSession asks for what serves all time based sessions.
LEMMA RestartTimeBasedServes ==
    ASSUME TimeOK
    PROVE  \/ TimeKeys = {} /\ RestartTimeBased = << >>
           \/ \E r \in Unawaited : /\ RestartTimeBased = <<r>> /\ r \in FixRequests
                                   /\ r.opts \in Options /\ Result(r) = r.opts
                                   /\ TimeKeys # {} /\ Serves(r.opts, TimeKeys)
<1>1. CASE TimeKeys = {}
    BY <1>1 DEF RestartTimeBased
<1>2. CASE TimeKeys # {}
    <2> DEFINE m == time[SmallestInterval(TimeKeys)]
               x == [m EXCEPT !.power = RestartPower(TimeKeys)]
               r == Request("start", NoSession, x, "none", NoOptions)
    <2>1. /\ SmallestInterval(TimeKeys) \in TimeKeys
          /\ \A t \in TimeKeys : m.interval <= time[t].interval
          /\ RestartPower(TimeKeys) \in PowerModes
        BY <1>2, SmallestIsKey, RestartPowerIsMode
    <2>2. m \in Options
        BY <2>1, KeyOptions
    <2>3. RestartTimeBased = <<r>>
        BY <1>2 DEF RestartTimeBased
    <2> HIDE DEF m
    <2>4. x \in Options /\ x.interval = m.interval
        BY <2>1, <2>2 DEF Options
    <2> HIDE DEF x
    <2>5. Serves(x, TimeKeys)
        BY <2>1, <2>4, OptionsFields DEF Serves
    <2>6. r \in Unawaited /\ r.opts = x /\ r.op = "start"
        BY <2>4, UnawaitedRequests DEF Request
    <2> HIDE DEF r
    <2>7. r \in FixRequests /\ Result(r) = r.opts
        BY <2>6 DEF FixRequests, Unawaited, Result
    <2> QED BY <1>2, <2>3, <2>4, <2>5, <2>6, <2>7
<1> QED BY <1>1, <1>2

\* Every distance based session is started again.
LEMMA RestartDistanceBasedServes ==
    ASSUME DistOK
    PROVE  /\ RestartDistanceBased \in Seq(Unawaited)
           /\ \A i \in 1 .. Len(RestartDistanceBased) : RestartDistanceBased[i].op = "startD"
           /\ \A s \in DistKeys : \E i \in 1 .. Len(RestartDistanceBased) :
                RestartDistanceBased[i] \in DistanceOf(s)
<1> DEFINE n == Cardinality(DistKeys)
           k == MapOrder(DistKeys)
           R(s) == StartDistance(s, dist[s], "none")
           q == [i \in 1 .. n |-> R(k[i])]
<1>1. DistKeys \in SUBSET Sessions /\ DistKeys \in SUBSET Nat /\ IsFiniteSet(DistKeys)
    BY FS_Subset, SessionsAssumption, OptionsFields DEF SessionsAssumption, DistKeys
<1>2. n \in Nat /\ k \in [1 .. n -> DistKeys] /\ \A s \in DistKeys : \E i \in 1 .. n : k[i] = s
    BY <1>1, MapOrderEnumerates
<1>3. RestartDistanceBased = q
    BY <1>2 DEF RestartDistanceBased
<1>4. \A s \in DistKeys : s \in Sessions /\ dist[s] \in Options
    BY DEF DistKeys, DistOK
<1>5. \A s \in DistKeys : R(s) \in Unawaited /\ R(s).op = "startD" /\ R(s).s = s
    BY <1>4, UnawaitedRequests DEF StartDistance, Request
<1>6. \A s \in DistKeys : R(s) \in DistanceOf(s)
    BY <1>5 DEF DistanceOf, Unawaited
<1> HIDE DEF R, k
<1>7. \A i \in 1 .. n : k[i] \in DistKeys /\ q[i] = R(k[i])
    BY <1>2
<1>8. q \in Seq(Unawaited) /\ Len(q) = n
    BY <1>2, <1>5, <1>7
<1>9. \A s \in DistKeys : \E i \in 1 .. n : q[i] \in DistanceOf(s)
    BY <1>2, <1>6, <1>7
<1>10. \A i \in 1 .. n : q[i].op = "startD"
    BY <1>5, <1>7
<1> HIDE DEF q, n
<1> QED BY <1>3, <1>8, <1>9, <1>10

LEMMA RestartsAreUnawaited ==
    ASSUME TimeOK, DistOK
    PROVE  /\ RestartSessions \in Seq(Unawaited) /\ SuspendSessions \in Seq(Unawaited)
           /\ RestartTimeBased \in Seq(Unawaited)
<1>1. RestartTimeBased \in Seq(Unawaited)
    <2>1. << >> \in Seq(Unawaited) /\ \A r \in Unawaited : <<r>> \in Seq(Unawaited)
        BY EmptySeq
    <2> QED BY <2>1, RestartTimeBasedServes
<1>2. SuspendSessions \in Seq(Unawaited)
    BY UnawaitedRequests DEF SuspendSessions
<1>3. RestartDistanceBased \in Seq(Unawaited)
    BY RestartDistanceBasedServes
<1> QED BY <1>1, <1>2, <1>3 DEF RestartSessions

LEMMA UnawaitedAreSound == Unawaited \subseteq SoundRequests
BY DEF Unawaited

\* The callbacks that answer a client, and those of a session in T.
Answering == Callbacks \ {"none", "dRemoved"}
Awaited(s, T) == {r \in SoundRequests : r.op # "open" /\ r.s = s /\ r.then \in T}
HeldOf(s) == {m \in Held : m.s = s}

\* What a handler makes of a command of session s.
Handled(s, R, ow) ==
    /\ R \in Seq(SoundRequests) /\ api' = api \o R
    /\ \/ /\ R = << >> /\ owed' = ow
          /\ \E c \in HeldOf(s) : pending' = Append(pending, c)
       \/ /\ pending' = pending /\ owed' = ow
          /\ \E r \in Awaited(s, Answering) :
               R = <<r>> \/ \E u \in Unawaited : R = <<r, u>>
       \/ /\ pending' = pending /\ owed' = ReportResponse(ow, s)
          /\ R \in Seq(Unawaited)
       \/ /\ pending' = pending /\ owed' = ow /\ R = << >>
          /\ reg[Owner[s]] # "tracking"

LEMMA MultiplexedAreAwaited ==
    ASSUME NEW s \in Sessions
    PROVE  Multiplexed(s) \subseteq Awaited(s, Answering)
BY DEF Multiplexed, Awaited, Answering, Callbacks, SoundRequests, OpenRequest

LEMMA DistanceAreAwaited ==
    ASSUME NEW s \in Sessions, NEW o \in Options
    PROVE  /\ StartDistance(s, o, "dStarted") \in Awaited(s, Answering)
           /\ StopDistance(s, NoOptions, "dStopped") \in Awaited(s, Answering)
           /\ ~o.distance => StopDistance(s, o, "toTime") \in Awaited(s, Answering)
           /\ o.distance => StopDistance(s, o, "dRestop") \in Awaited(s, Answering)
BY DistanceRequestsAreSound DEF Awaited, Answering, Callbacks, StartDistance, StopDistance, Request

LEMMA AwaitedAreSound == \A s, T : Awaited(s, T) \subseteq SoundRequests
BY DEF Awaited

\* One request and no other, or none, when the client is answered at once.
LEMMA MultiplexerHandles ==
    ASSUME api \in Seq(SoundRequests), NEW s \in Sessions, NEW q, NEW ow, pending' = pending,
           q = << >> \/ \E r \in Multiplexed(s) : q = <<r>>,
           owed' = IF q = << >> THEN ReportResponse(ow, s) ELSE ow
    PROVE  /\ q \in Seq(SoundRequests)
           /\ api' = api \o q => Handled(s, q, ow)
           /\ \A u \in Unawaited : api' = api \o q \o <<u>> => Handled(s, q \o <<u>>, ow)
<1>1. CASE q = << >>
    <2>1. << >> \in Seq(SoundRequests) /\ << >> \in Seq(Unawaited) /\ api \o << >> = api
        BY EmptySeq, ConcatEmptySeq
    <2>2. \A u \in Unawaited : <<u>> \in Seq(SoundRequests) /\ <<u>> \in Seq(Unawaited)
                               /\ << >> \o <<u>> = <<u>>
        BY UnawaitedAreSound
    <2> QED BY <1>1, <2>1, <2>2 DEF Handled
<1>2. ASSUME NEW r \in Multiplexed(s), q = <<r>>
      PROVE  /\ q \in Seq(SoundRequests)
             /\ api' = api \o q => Handled(s, q, ow)
             /\ \A u \in Unawaited : api' = api \o q \o <<u>> => Handled(s, q \o <<u>>, ow)
    <2>1. r \in Awaited(s, Answering) /\ r \in SoundRequests
        BY MultiplexedAreAwaited, AwaitedAreSound
    <2>2. q # << >> /\ owed' = ow /\ q \in Seq(SoundRequests)
        BY <1>2, <2>1
    <2>3. ASSUME NEW u \in Unawaited
          PROVE  /\ q \o <<u>> = <<r, u>> /\ <<r, u>> \in Seq(SoundRequests)
                 /\ api \o q \o <<u>> = api \o (q \o <<u>>)
        <3>1. u \in SoundRequests
            BY UnawaitedAreSound
        <3>2. <<u>> \in Seq(SoundRequests) /\ <<r>> \o <<u>> = <<r, u>>
            <4>1. <<u>> \in Seq(SoundRequests) /\ <<r>> \in Seq(SoundRequests)
                  /\ <<r, u>> \in Seq(SoundRequests)
                BY <2>1, <3>1
            <4>2. Len(<<r>> \o <<u>>) = 2 /\ (<<r>> \o <<u>>)[1] = r /\ (<<r>> \o <<u>>)[2] = u
                  /\ <<r>> \o <<u>> \in Seq(SoundRequests)
                BY <4>1, ConcatProperties
            <4>3. \A i \in 1 .. 2 : (<<r>> \o <<u>>)[i] = <<r, u>>[i]
                BY <4>2
            <4> QED BY <4>1, <4>2, <4>3, SeqEqual
        <3>3. \A x, y, z \in Seq(SoundRequests) : (x \o y) \o z = x \o (y \o z)
            BY ConcatAssociative
        <3>4. api \o q \o <<u>> = api \o (q \o <<u>>)
            BY <2>2, <3>2, <3>3
        <3> QED BY <1>2, <2>1, <3>1, <3>2, <3>4
    <2> QED BY <1>2, <2>1, <2>2, <2>3 DEF Handled
<1> QED BY <1>1, <1>2

\* Saving and erasing a session leave maps of options.
LEMMA SavedTypes ==
    ASSUME TimeOK, DistOK, NEW s \in Sessions, NEW o \in Options \cup {NoOptions}
    PROVE  /\ SaveTrackingSession(s, o) => TimeOK' /\ DistOK'
           /\ EraseTrackingSession(s) => TimeOK' /\ DistOK'
           /\ time' = [time EXCEPT ![s] = o] => TimeOK'
           /\ dist' = [dist EXCEPT ![s] = o] => DistOK'
BY DEF SaveTrackingSession, EraseTrackingSession, TimeOK, DistOK

LEMMA CommandsAreHeld ==
    ASSUME NEW s \in Sessions, NEW o \in Options
    PROVE  Command("start", s, o) \in HeldOf(s) /\ Command("update", s, o) \in HeldOf(s)
BY DEF Command, Held, HeldOf

LEMMA HandledTypes ==
    ASSUME TypeInv, NEW s \in Sessions, NEW R, NEW ow \in [Sessions -> Int], Handled(s, R, ow)
    PROVE  api' \in Seq(SoundRequests) /\ owed' \in [Sessions -> Int] /\ pending' \in Seq(Held)
<1>1. api' \in Seq(SoundRequests)
    BY DEF Handled, TypeInv
<1>2. owed' \in [Sessions -> Int]
    BY DEF Handled, ReportResponse
<1>3. HeldOf(s) \subseteq Held
    BY DEF HeldOf
<1>4. pending' \in Seq(Held)
    <2>1. pending \in Seq(Held) /\ (pending' = pending \/ \E c \in Held : pending' = Append(pending, c))
        BY <1>3 DEF Handled, TypeInv
    <2> QED BY <2>1
<1> QED BY <1>1, <1>2, <1>4

LEMMA StartHandled ==
    ASSUME TypeInv, NEW s \in Sessions, NEW o \in Options, NEW ow, HandleStart(s, o, ow)
    PROVE  TimeOK' /\ DistOK' /\ \E R : Handled(s, R, ow)
<1>0. TimeOK /\ DistOK /\ api \in Seq(SoundRequests) /\ << >> \in Seq(SoundRequests) /\ api \o << >> = api
    BY EmptySeq, ConcatEmptySeq DEF TypeInv
<1>1. CASE Waits(o)
    <2>1. /\ pending' = Append(pending, Command("start", s, o)) /\ owed' = ow
          /\ UNCHANGED <<time, dist, api>>
        BY <1>1 DEF HandleStart
    <2>2. Handled(s, << >>, ow)
        BY <1>0, <2>1, CommandsAreHeld DEF Handled
    <2> QED BY <1>0, <2>1, <2>2 DEF TimeOK, DistOK
<1>2. CASE ~Waits(o) /\ reg[Owner[s]] # "tracking"
    <2>1. owed' = ow /\ UNCHANGED <<time, dist, api, pending>>
        BY <1>2 DEF HandleStart
    <2>2. Handled(s, << >>, ow)
        BY <1>0, <1>2, <2>1 DEF Handled
    <2> QED BY <1>0, <2>1, <2>2 DEF TimeOK, DistOK
<1>3. CASE ~Waits(o) /\ reg[Owner[s]] = "tracking" /\ IsDistanceSession(o)
    <2> DEFINE r == StartDistance(s, o, "dStarted")
    <2>1. SaveTrackingSession(s, o) /\ api' = Append(api, r) /\ owed' = ow /\ UNCHANGED pending
        BY <1>3 DEF HandleStart
    <2>2. r \in Awaited(s, Answering) /\ r \in SoundRequests
        BY DistanceAreAwaited, DistanceRequestsAreSound
    <2> HIDE DEF r
    <2>3. <<r>> \in Seq(SoundRequests) /\ api' = api \o <<r>>
        BY <1>0, <2>1, <2>2, AppendIsConcat
    <2>4. Handled(s, <<r>>, ow)
        BY <2>1, <2>2, <2>3 DEF Handled
    <2> QED BY <1>0, <2>1, <2>4, SavedTypes
<1>4. CASE ~Waits(o) /\ reg[Owner[s]] = "tracking" /\ ~IsDistanceSession(o)
    <2> DEFINE q == StartTimeBasedTrackingMultiplex(s, o)
    <2>1. /\ SaveTrackingSession(s, o) /\ api' = api \o q
          /\ owed' = (IF q = << >> THEN ReportResponse(ow, s) ELSE ow) /\ UNCHANGED pending
        BY <1>4 DEF HandleStart
    <2>2. q = << >> \/ \E r \in Multiplexed(s) : q = <<r>>
        BY <1>0, StartMultiplexed
    <2> HIDE DEF q
    <2>3. Handled(s, q, ow)
        BY <1>0, <2>1, <2>2, MultiplexerHandles
    <2> QED BY <1>0, <2>1, <2>3, SavedTypes
<1> QED BY <1>1, <1>2, <1>3, <1>4

LEMMA StopHandled ==
    ASSUME TypeInv, NEW s \in Sessions, NEW ow, HandleStop(s, ow), UNCHANGED pending
    PROVE  TimeOK' /\ DistOK' /\ \E R : Handled(s, R, ow)
<1>0. TimeOK /\ DistOK /\ api \in Seq(SoundRequests) /\ << >> \in Seq(SoundRequests) /\ api \o << >> = api
    BY EmptySeq, ConcatEmptySeq DEF TypeInv
<1>1. CASE s \in TimeKeys
    <2> DEFINE q == StopTimeBasedTrackingMultiplex(TimeKeys, s)
    <2>1. /\ EraseTrackingSession(s) /\ api' = api \o q
          /\ owed' = IF q = << >> THEN ReportResponse(ow, s) ELSE ow
        BY <1>1 DEF HandleStop
    <2>2. q = << >> \/ \E r \in Multiplexed(s) : q = <<r>>
        BY <1>0, <1>1, StopMultiplexed
    <2> HIDE DEF q
    <2>3. Handled(s, q, ow)
        BY <1>0, <2>1, <2>2, MultiplexerHandles
    <2> QED BY <1>0, <2>1, <2>3, SavedTypes
<1>2. CASE s \in DistKeys \ TimeKeys
    <2> DEFINE r == StopDistance(s, NoOptions, "dStopped")
    <2>1. api' = Append(api, r) /\ owed' = ow /\ UNCHANGED <<time, dist>>
        BY <1>2 DEF HandleStop
    <2>0. dist[s] \in Options
        BY <1>0, <1>2 DEF DistOK, DistKeys
    <2>2. r \in Awaited(s, Answering) /\ r \in SoundRequests
        BY <2>0, DistanceAreAwaited, DistanceRequestsAreSound
    <2> HIDE DEF r
    <2>3. <<r>> \in Seq(SoundRequests) /\ api' = api \o <<r>>
        BY <1>0, <2>1, <2>2, AppendIsConcat
    <2>4. Handled(s, <<r>>, ow)
        BY <2>1, <2>2, <2>3 DEF Handled
    <2> QED BY <1>0, <2>1, <2>4 DEF TimeOK, DistOK
<1>3. CASE s \notin TimeKeys \cup DistKeys
    <2>1. owed' = ReportResponse(ow, s) /\ UNCHANGED <<time, dist, api>>
        BY <1>3 DEF HandleStop
    <2>2. Handled(s, << >>, ow)
        BY <1>0, <2>1, EmptySeq DEF Handled
    <2> QED BY <1>0, <2>1, <2>2 DEF TimeOK, DistOK
<1> QED BY <1>1, <1>2, <1>3

LEMMA UpdateHandled ==
    ASSUME TypeInv, NEW s \in Sessions, NEW o \in Options, NEW ow, HandleUpdate(s, o, ow)
    PROVE  TimeOK' /\ DistOK' /\ \E R : Handled(s, R, ow)
<1>0. TimeOK /\ DistOK /\ api \in Seq(SoundRequests) /\ << >> \in Seq(SoundRequests) /\ api \o << >> = api
    BY EmptySeq, ConcatEmptySeq DEF TypeInv
<1>1. CASE /\ pending' = Append(pending, Command("update", s, o)) /\ owed' = ow
           /\ UNCHANGED <<time, dist, api>>
    <2>2. Handled(s, << >>, ow)
        BY <1>0, <1>1, CommandsAreHeld DEF Handled
    <2> QED BY <1>0, <1>1, <2>2 DEF TimeOK, DistOK
<1>2. CASE owed' = ReportResponse(ow, s) /\ UNCHANGED <<time, dist, api, pending>>
    <2>2. Handled(s, << >>, ow)
        BY <1>0, <1>2, EmptySeq DEF Handled
    <2> QED BY <1>0, <1>2, <2>2 DEF TimeOK, DistOK
<1>3. ASSUME NEW q, NEW u, s \in TimeKeys, q = StopTimeBasedTrackingMultiplex(TimeKeys, s),
             u = StartDistance(s, o, "none"), api' = api \o q \o <<u>>,
             owed' = IF q = << >> THEN ReportResponse(ow, s) ELSE ow,
             IF DistanceSupported
             THEN dist' = [dist EXCEPT ![s] = o] /\ time' = [time EXCEPT ![s] = NoOptions]
             ELSE time' = [time EXCEPT ![s] = o] /\ dist' = dist,
             UNCHANGED pending
      PROVE  TimeOK' /\ DistOK' /\ \E R : Handled(s, R, ow)
    <2>1. q = << >> \/ \E r \in Multiplexed(s) : q = <<r>>
        BY <1>0, <1>3, StopMultiplexed
    <2>2. u \in Unawaited
        BY <1>3, UnawaitedRequests
    <2>3. Handled(s, q \o <<u>>, ow)
        BY <1>0, <1>3, <2>1, <2>2, MultiplexerHandles
    <2>4. TimeOK' /\ DistOK'
        BY <1>0, <1>3 DEF TimeOK, DistOK
    <2> QED BY <2>3, <2>4
<1>4. ASSUME NEW r \in Awaited(s, Answering), api' = Append(api, r), owed' = ow, UNCHANGED pending
      PROVE  \E R : Handled(s, R, ow)
    <2>1. r \in SoundRequests
        BY AwaitedAreSound
    <2>2. <<r>> \in Seq(SoundRequests) /\ api' = api \o <<r>>
        BY <1>0, <1>4, <2>1, AppendIsConcat
    <2>3. Handled(s, <<r>>, ow)
        BY <1>4, <2>2 DEF Handled
    <2> QED BY <2>3
<1>5. CASE /\ ~o.distance /\ EraseTrackingSession(s) /\ owed' = ow /\ UNCHANGED pending
           /\ api' = Append(api, StopDistance(s, o, "toTime"))
    <2>1. \E R : Handled(s, R, ow)
        BY <1>4, <1>5, DistanceAreAwaited
    <2>2. TimeOK' /\ DistOK'
        BY <1>0, <1>5, SavedTypes
    <2> QED BY <2>1, <2>2
<1>6. ASSUME NEW q, s \in TimeKeys, q = UpdateTrackingMultiplex(s, o), api' = api \o q,
             owed' = IF q = << >> THEN ReportResponse(ow, s) ELSE ow,
             SaveTrackingSession(s, o), UNCHANGED pending
      PROVE  TimeOK' /\ DistOK' /\ \E R : Handled(s, R, ow)
    <2>1. q = << >> \/ \E r \in Multiplexed(s) : q = <<r>>
        BY <1>0, <1>6, UpdateMultiplexed
    <2>2. Handled(s, q, ow)
        BY <1>0, <1>6, <2>1, MultiplexerHandles
    <2>3. TimeOK' /\ DistOK'
        BY <1>0, <1>6, SavedTypes
    <2> QED BY <2>2, <2>3
<1>7. CASE /\ o.distance /\ api' = Append(api, StopDistance(s, o, "dRestop"))
           /\ owed' = ow /\ UNCHANGED <<time, dist, pending>>
    <2>1. \E R : Handled(s, R, ow)
        BY <1>4, <1>7, DistanceAreAwaited
    <2> QED BY <1>0, <1>7, <2>1 DEF TimeOK, DistOK
<1> QED BY <1>1, <1>2, <1>3, <1>5, <1>6, <1>7 DEF HandleUpdate

-----------------------------------------------------------------------------
(* Type correctness *)

LEMMA AnswerFields ==
    ASSUME NEW m \in SoundMessages, m.kind = "answer"
    PROVE  /\ m.s \in Sessions /\ m.then \in Callbacks \ {"none"}
           /\ m.opts \in Options \cup {NoOptions} /\ m.old \in Options \cup {NoOptions}
           /\ m.ok \in BOOLEAN
           /\ m.then = "toTime" => m.opts \in Options /\ ~m.opts.distance
           /\ m.then \in {"dRestop", "dRestarted"} => m.opts \in Options /\ m.opts.distance
           /\ m.then = "updated" => m.old \in Options
BY DEF SoundMessages, EngineUp, Held, Carries

LEMMA HeldFields ==
    ASSUME NEW m \in SoundMessages, m.kind \in {"start", "update"}
    PROVE  m \in Held /\ m.s \in Sessions /\ m.opts \in Options
BY DEF SoundMessages, EngineUp, Held

LEMMA RequestFields ==
    ASSUME NEW r \in SoundRequests, r.op # "open"
    PROVE  /\ r.op \in {"start", "stop", "startD", "stopD"} /\ r.s \in Sessions \cup {NoSession}
           /\ r.opts \in Options \cup {NoOptions} /\ r.then \in Callbacks
           /\ r.then # "none" => r.s \in Sessions
           /\ r.op \in {"startD", "stopD"} => r.s \in Sessions
           /\ r.op \in {"start", "startD"} => r.opts \in Options
           /\ r.op = "stop" => r.opts = NoOptions
BY DEF SoundRequests, OpenRequest, Carries

LEMMA AnswersAreSound ==
    ASSUME NEW r \in SoundRequests, r.op # "open", r.then # "none", NEW ok \in BOOLEAN
    PROVE  Answer(r, ok) \in SoundMessages
<1>1. /\ r.then \in Callbacks \ {"none"} /\ r.s \in Sessions /\ r.opts \in Options \cup {NoOptions}
      /\ r.old \in Options \cup {NoOptions} /\ Carries(r)
    BY DEF SoundRequests, OpenRequest, Carries
<1>2. Answer(r, ok) \in [kind : {"answer"}, then : Callbacks \ {"none"}, s : Sessions,
            opts : Options \cup {NoOptions}, old : Options \cup {NoOptions}, ok : BOOLEAN]
    BY <1>1 DEF Answer
<1>3. Carries(Answer(r, ok))
    BY <1>1 DEF Answer, Carries
<1> QED BY <1>2, <1>3 DEF SoundMessages

\* Requests to stop the distance based sessions of a client that goes.
RemovalRequests == {r \in SoundRequests : r.op = "stopD" /\ r.then = "dRemoved"}

LEMMA RemoveClientAsks ==
    ASSUME TypeInv, NEW c, RemoveClient(c)
    PROVE  LET own == {s \in TimeKeys : Owner[s] = c}
           IN  \E D \in Seq(RemovalRequests) :
                 /\ FlattenSeq(Removed(own)) \in Seq(StopRequests(own))
                 /\ api' = (api \o FlattenSeq(Removed(own))) \o D
<1> DEFINE own == {s \in TimeKeys : Owner[s] = c}
           ownD == {s \in DistKeys : Owner[s] = c}
           k == MapOrder(ownD)
           D == [i \in DOMAIN k |-> StopDistance(k[i], NoOptions, "dRemoved")]
<1>1. FlattenSeq(Removed(own)) \in Seq(StopRequests(own))
    BY RemovalKeeps DEF TypeInv
<1>2. api' = (api \o FlattenSeq(Removed(own))) \o D
    BY DEF RemoveClient, Removed
<1>3. ownD \in SUBSET Sessions /\ ownD \in SUBSET Nat /\ IsFiniteSet(ownD)
    BY FS_Subset, SessionsAssumption, OptionsFields DEF SessionsAssumption, DistKeys
<1>4. \A s \in ownD : StopDistance(s, NoOptions, "dRemoved") \in RemovalRequests
    <2>1. \A s \in ownD : s \in Sessions /\ dist[s] \in Options
        BY DEF TypeInv, DistOK, DistKeys
    <2>2. \A s \in ownD : StopDistance(s, NoOptions, "dRemoved") \in SoundRequests
        BY <2>1, DistanceRequestsAreSound
    <2> QED BY <2>2 DEF RemovalRequests, StopDistance, Request
<1> HIDE DEF ownD
<1>5. Cardinality(ownD) \in Nat /\ k \in [1 .. Cardinality(ownD) -> ownD]
    BY <1>3, MapOrderEnumerates
<1> HIDE DEF k
<1>6. DOMAIN k = 1 .. Cardinality(ownD) /\ \A i \in 1 .. Cardinality(ownD) : k[i] \in ownD
    BY <1>5
<1>7. D \in Seq(RemovalRequests)
    BY <1>4, <1>5, <1>6
<1> QED BY <1>1, <1>2, <1>7

LEMMA InitTypes == Init => TypeInv
<1> SUFFICES ASSUME Init PROVE TypeInv
    OBVIOUS
<1>1. <<OpenRequest>> \in Seq(SoundRequests)
    BY UnawaitedRequests, UnawaitedAreSound
<1>2. api = <<OpenRequest>> /\ pending = << >> /\ inbox = << >>
    BY DEF Init
<1>3. pending \in Seq(Held)
    BY <1>2, EmptySeq
<1>4. inbox \in Seq(SoundMessages)
    BY <1>2, EmptySeq
<1>5. api \in Seq(SoundRequests)
    BY <1>1, <1>2, Zenon
<1>6. /\ time = [s \in Sessions |-> NoOptions] /\ dist = [s \in Sessions |-> NoOptions]
      /\ engine = NoOptions /\ engineDist = [s \in Sessions |-> NoOptions]
    BY DEF Init
<1> DEFINE none == NoOptions
<1>7. none \in Options \cup {NoOptions}
    OBVIOUS
<1> HIDE DEF none
<1>8. [s \in Sessions |-> none] \in [Sessions -> Options \cup {NoOptions}]
    BY <1>7
<1>9. TimeOK /\ DistOK /\ engine \in Options \cup {NoOptions}
      /\ engineDist \in [Sessions -> Options \cup {NoOptions}]
    BY <1>6, <1>7, <1>8 DEF none, TimeOK, DistOK
<1>10. /\ load \in Loads /\ known \in BOOLEAN /\ up \in BOOLEAN /\ crashes \in Nat
       /\ reg \in [Clients -> {"new", "silent", "tracking", "gone"}]
       /\ phase \in [Sessions -> {"new", "open", "closed"}]
       /\ owed \in [Sessions -> Int]
    <2>1. /\ load \in Loads /\ crashes = 0
          /\ reg = [c \in Clients |-> "new"] /\ phase = [s \in Sessions |-> "new"]
          /\ owed = [s \in Sessions |-> 0]
        BY Zenon DEF Init
    <2>2. known \in BOOLEAN /\ up \in BOOLEAN
        BY Zenon DEF Init
    <2> QED BY <2>1, <2>2
<1> QED BY <1>3, <1>4, <1>5, <1>9, <1>10 DEF TypeInv

LEMMA LoadTypes == TypeInv => load.options \subseteq Options /\ load.owed \in Nat /\ load.crashes \in Nat
BY LoadsAssumption DEF TypeInv, LoadsAssumption

LEMMA ClientStepTypes == TypeInv /\ ClientStep => TypeInv'
<1> SUFFICES ASSUME TypeInv, ClientStep PROVE TypeInv'
    OBVIOUS
<1>0. UNCHANGED load
    BY DEF ClientStep
<1>1. ASSUME NEW c \in Clients, NEW kind \in CallbackKinds, AddClient(c, kind) PROVE TypeInv'
    BY <1>0, <1>1, ModeAssumption DEF AddClient, TypeInv, TimeOK, DistOK, modem, ModeAssumption
<1>2. ASSUME NEW s \in Sessions, TimeOK', DistOK', \E R : Handled(s, R, Owe(s)),
             phase' \in [Sessions -> {"new", "open", "closed"}],
             UNCHANGED <<reg, known, inbox, modem>>
      PROVE  TypeInv'
    <2>1. Owe(s) \in [Sessions -> Int]
        BY DEF Owe, TypeInv
    <2>2. api' \in Seq(SoundRequests) /\ owed' \in [Sessions -> Int] /\ pending' \in Seq(Held)
        BY <1>2, <2>1, HandledTypes
    <2> QED BY <1>0, <1>2, <2>2 DEF TypeInv, modem
<1>3. ASSUME NEW s \in Sessions, NEW o \in load.options, StartTracking(s, o) PROVE TypeInv'
    <2>1. o \in Options
        BY LoadTypes
    <2>2. phase' \in [Sessions -> {"new", "open", "closed"}]
        BY <1>3 DEF StartTracking, TypeInv
    <2> QED BY <1>2, <1>3, <2>1, <2>2, StartHandled DEF StartTracking
<1>4. ASSUME NEW s \in Sessions, NEW o \in load.options, UpdateTrackingOptions(s, o) PROVE TypeInv'
    <2>1. o \in Options
        BY LoadTypes
    <2>2. phase' \in [Sessions -> {"new", "open", "closed"}]
        BY <1>4 DEF UpdateTrackingOptions, TypeInv
    <2> QED BY <1>2, <1>4, <2>1, <2>2, UpdateHandled DEF UpdateTrackingOptions
<1>5. ASSUME NEW s \in Sessions, StopTrackingCommand(s) PROVE TypeInv'
    <2>2. phase' \in [Sessions -> {"new", "open", "closed"}]
        BY <1>5 DEF StopTrackingCommand, TypeInv
    <2> QED BY <1>2, <1>5, <2>2, StopHandled DEF StopTrackingCommand
<1>6. ASSUME NEW c \in Clients, RemoveClient(c) PROVE TypeInv'
    <2> DEFINE own == {s \in TimeKeys : Owner[s] = c}
               Q == FlattenSeq(Removed(own))
    <2>1. PICK D \in Seq(RemovalRequests) : Q \in Seq(StopRequests(own)) /\ api' = (api \o Q) \o D
        BY <1>6, RemoveClientAsks
    <2> HIDE DEF Q
    <2>2. own \in SUBSET Sessions
        BY DEF TimeKeys
    <2>3. StopRequests(own) \subseteq SoundRequests /\ RemovalRequests \subseteq SoundRequests
        BY <2>2, StopRequestsAreSound DEF RemovalRequests
    <2>4. D \in Seq(SoundRequests) /\ Q \in Seq(SoundRequests)
        BY <2>1, <2>3, WiderSeq
    <2>5. api' \in Seq(SoundRequests)
        BY <2>1, <2>4 DEF TypeInv
    <2>6. TimeOK' /\ reg' \in [Clients -> {"new", "silent", "tracking", "gone"}]
        BY <1>6 DEF RemoveClient, TypeInv, TimeOK
    <2> QED BY <1>0, <1>6, <2>5, <2>6 DEF RemoveClient, TypeInv, DistOK, modem
<1>7. CASE SuspendAndRestart
    <2>1. SuspendSessions \in Seq(SoundRequests) /\ RestartSessions \in Seq(SoundRequests)
        BY RestartsAreUnawaited, UnawaitedAreSound, WiderSeq DEF TypeInv
    <2>2. api' \in Seq(SoundRequests)
        BY <1>7, <2>1 DEF SuspendAndRestart, TypeInv
    <2> QED BY <1>0, <1>7, <2>2 DEF SuspendAndRestart, TypeInv, TimeOK, DistOK, modem
<1> QED BY <1>1, <1>3, <1>4, <1>5, <1>6, <1>7 DEF ClientStep

LEMMA HeadOfInbox ==
    ASSUME TypeInv, inbox # << >>
    PROVE  Head(inbox) \in SoundMessages /\ Tail(inbox) \in Seq(SoundMessages)
BY HeadTailProperties DEF TypeInv

LEMMA ReportedTypes ==
    ASSUME TypeInv, NEW s
    PROVE  ReportResponse(owed, s) \in [Sessions -> Int]
<1>1. owed \in [Sessions -> Int]
    BY DEF TypeInv
<1>2. [owed EXCEPT ![s] = @ - 1] \in [Sessions -> Int]
    <2>1. CASE s \in Sessions
        BY <1>1, <2>1
    <2>2. CASE s \notin Sessions
        BY <1>1, <2>2
    <2> QED BY <2>1, <2>2
<1>3. ReportResponse(owed, s) = owed \/ ReportResponse(owed, s) = [owed EXCEPT ![s] = @ - 1]
    BY DEF ReportResponse
<1> QED BY <1>1, <1>2, <1>3

LEMMA AdapterStepTypes == TypeInv /\ AdapterStep => TypeInv'
<1> SUFFICES ASSUME TypeInv, AdapterStep PROVE TypeInv'
    OBVIOUS
<1> DEFINE m == Head(inbox)
<1>0. /\ UNCHANGED load /\ inbox # << >> /\ m \in SoundMessages /\ Tail(inbox) \in Seq(SoundMessages)
      /\ TimeOK /\ DistOK /\ UNCHANGED <<reg, modem>>
    <2>1. inbox # << >> /\ UNCHANGED <<load, reg, modem>>
        BY DEF AdapterStep, HandleEngineUp, HandleHeldCommand, StartAnswered, UpdateAnswered, StopAnswered,
            DistanceStopAnswered, RemovedStopAnswered, ToTimeAnswered, RestopAnswered,
            DistanceRestartAnswered, Answered
    <2> QED BY <2>1, HeadOfInbox DEF TypeInv
<1>1. CASE HandleEngineUp
    <2>1. RestartSessions \in Seq(SoundRequests)
        BY <1>0, RestartsAreUnawaited, UnawaitedAreSound, WiderSeq
    <2>2. api' \in Seq(SoundRequests)
        BY <1>1, <2>1 DEF HandleEngineUp, TypeInv
    <2>3. Held \subseteq SoundMessages
        BY DEF SoundMessages
    <2>4. pending \in Seq(SoundMessages)
        BY <2>3, WiderSeq DEF TypeInv
    <2>5. inbox' \in Seq(SoundMessages) /\ pending' \in Seq(Held)
        BY <1>0, <1>1, <2>4, EmptySeq DEF HandleEngineUp
    <2> QED BY <1>0, <1>1, <2>2, <2>5 DEF HandleEngineUp, TypeInv, TimeOK, DistOK, modem
<1>2. CASE HandleHeldCommand
    <2>1. m.kind \in {"start", "update"}
        BY <1>2 DEF HandleHeldCommand
    <2>2. m.s \in Sessions /\ m.opts \in Options
        BY <1>0, <2>1, HeldFields
    <2>3. owed \in [Sessions -> Int]
        BY DEF TypeInv
    <2>4. TimeOK' /\ DistOK' /\ \E R : Handled(m.s, R, owed)
        BY <1>2, <2>2, StartHandled, UpdateHandled DEF HandleHeldCommand
    <2>5. api' \in Seq(SoundRequests) /\ owed' \in [Sessions -> Int] /\ pending' \in Seq(Held)
        BY <2>2, <2>3, <2>4, HandledTypes
    <2>6. inbox' \in Seq(SoundMessages) /\ UNCHANGED <<phase, known>>
        BY <1>0, <1>2 DEF HandleHeldCommand
    <2> QED BY <1>0, <2>4, <2>5, <2>6 DEF TypeInv, modem
<1>3. ASSUME inbox' = Tail(inbox), UNCHANGED <<known, pending>>, TimeOK', DistOK',
             api' \in Seq(SoundRequests), owed' \in [Sessions -> Int],
             phase' \in [Sessions -> {"new", "open", "closed"}]
      PROVE  TypeInv'
    BY <1>0, <1>3 DEF TypeInv, modem
<1>4. ASSUME NEW then, Answered(then)
      PROVE  /\ inbox' = Tail(inbox) /\ UNCHANGED <<known, pending>> /\ m.kind = "answer" /\ m.then = then
             /\ m.s \in Sessions
    BY <1>0, <1>4, AnswerFields DEF Answered
<1>5. UNCHANGED <<time, dist>> => TimeOK' /\ DistOK'
    BY <1>0 DEF TimeOK, DistOK
<1>6. /\ UNCHANGED api => api' \in Seq(SoundRequests)
      /\ UNCHANGED owed => owed' \in [Sessions -> Int]
      /\ UNCHANGED phase => phase' \in [Sessions -> {"new", "open", "closed"}]
    BY DEF TypeInv
<1>7. CASE StartAnswered
    <2>1. TimeOK' /\ DistOK'
        BY <1>0, <1>4, <1>5, <1>7, SavedTypes DEF StartAnswered
    <2>2. owed' \in [Sessions -> Int]
        BY <1>7, ReportedTypes DEF StartAnswered
    <2>3. inbox' = Tail(inbox) /\ UNCHANGED <<known, pending, phase, api>>
        BY <1>4, <1>7 DEF StartAnswered
    <2> QED BY <1>3, <1>6, <2>1, <2>2, <2>3
<1>8. CASE UpdateAnswered
    <2>1. m.old \in Options /\ m.s \in Sessions
        BY <1>0, <1>4, <1>8, AnswerFields DEF UpdateAnswered
    <2>2. TimeOK' /\ DistOK'
        BY <1>0, <1>5, <1>8, <2>1, SavedTypes DEF UpdateAnswered
    <2>3. owed' \in [Sessions -> Int]
        BY <1>8, ReportedTypes DEF UpdateAnswered
    <2>4. inbox' = Tail(inbox) /\ UNCHANGED <<known, pending, phase, api>>
        BY <1>4, <1>8 DEF UpdateAnswered
    <2> QED BY <1>3, <1>6, <2>2, <2>3, <2>4
<1>9. CASE StopAnswered
    <2>1. owed' \in [Sessions -> Int]
        BY <1>9, ReportedTypes DEF StopAnswered
    <2>2. inbox' = Tail(inbox) /\ UNCHANGED <<known, pending, phase, time, dist, api>>
        BY <1>4, <1>9 DEF StopAnswered
    <2> QED BY <1>3, <1>5, <1>6, <2>1, <2>2
<1>10. CASE DistanceStopAnswered
    <2>1. TimeOK' /\ DistOK'
        BY <1>0, <1>4, <1>5, <1>10, SavedTypes DEF DistanceStopAnswered
    <2>2. owed' \in [Sessions -> Int]
        BY <1>10, ReportedTypes DEF DistanceStopAnswered
    <2>3. phase' \in [Sessions -> {"new", "open", "closed"}]
        BY <1>10 DEF DistanceStopAnswered, TypeInv
    <2>4. inbox' = Tail(inbox) /\ UNCHANGED <<known, pending, api>>
        BY <1>4, <1>10 DEF DistanceStopAnswered
    <2> QED BY <1>3, <1>6, <2>1, <2>2, <2>3, <2>4
<1>11. CASE RemovedStopAnswered
    <2>1. TimeOK' /\ DistOK'
        BY <1>0, <1>4, <1>5, <1>11, SavedTypes DEF RemovedStopAnswered
    <2>2. inbox' = Tail(inbox) /\ UNCHANGED <<known, pending, phase, owed, api>>
        BY <1>4, <1>11 DEF RemovedStopAnswered
    <2> QED BY <1>3, <1>6, <2>1, <2>2
<1>12. CASE ToTimeAnswered
    <2> DEFINE q == StartTimeBasedTrackingMultiplex(m.s, m.opts)
    <2>1. m.opts \in Options /\ m.s \in Sessions
        BY <1>0, <1>4, <1>12, AnswerFields DEF ToTimeAnswered
    <2>2. q = << >> \/ \E r \in Multiplexed(m.s) : q = <<r>>
        BY <1>0, <2>1, StartMultiplexed
    <2>3. TimeOK' /\ DistOK'
        BY <1>0, <1>12, <2>1, SavedTypes DEF ToTimeAnswered
    <2>4. /\ api' = api \o q /\ owed' = (IF q = << >> THEN ReportResponse(owed, m.s) ELSE owed)
          /\ inbox' = Tail(inbox) /\ UNCHANGED <<known, pending, phase>>
        BY <1>4, <1>12 DEF ToTimeAnswered
    <2> HIDE DEF q
    <2>5. q \in Seq(SoundRequests)
        <3>1. CASE q = << >>
            BY <3>1, EmptySeq
        <3>2. ASSUME NEW r \in Multiplexed(m.s), q = <<r>> PROVE q \in Seq(SoundRequests)
            <4>1. r \in SoundRequests
                BY DEF Multiplexed
            <4> QED BY <3>2, <4>1
        <3> QED BY <2>2, <3>1, <3>2
    <2>6. api' \in Seq(SoundRequests) /\ owed' \in [Sessions -> Int]
        BY <2>4, <2>5, ReportedTypes DEF TypeInv
    <2> QED BY <1>3, <1>6, <2>3, <2>4, <2>6
<1>13. CASE RestopAnswered
    <2>1. m.opts \in Options /\ m.opts.distance /\ m.s \in Sessions
        BY <1>0, <1>4, <1>13, AnswerFields DEF RestopAnswered
    <2>2. StartDistance(m.s, m.opts, "dRestarted") \in SoundRequests
        BY <2>1, DistanceRequestsAreSound
    <2>3. api' = api \/ api' = Append(api, StartDistance(m.s, m.opts, "dRestarted"))
        BY <1>13 DEF RestopAnswered
    <2> DEFINE x == StartDistance(m.s, m.opts, "dRestarted")
    <2>a. x \in SoundRequests
        BY <2>2
    <2>b. api' = api \/ api' = Append(api, x)
        BY <2>3
    <2> HIDE DEF x
    <2>c. api \in Seq(SoundRequests)
        BY DEF TypeInv
    <2>d. Append(api, x) \in Seq(SoundRequests)
        BY <2>a, <2>c, AppendProperties
    <2>4. api' \in Seq(SoundRequests)
        BY <2>b, <2>c, <2>d
    <2>5. inbox' = Tail(inbox) /\ UNCHANGED <<known, pending, phase, owed, time, dist>>
        BY <1>4, <1>13 DEF RestopAnswered
    <2> QED BY <1>3, <1>5, <1>6, <2>4, <2>5
<1>14. CASE DistanceRestartAnswered
    <2>1. m.opts \in Options /\ m.s \in Sessions
        BY <1>0, <1>4, <1>14, AnswerFields DEF DistanceRestartAnswered
    <2>2. TimeOK' /\ DistOK'
        BY <1>0, <1>5, <1>14, <2>1, SavedTypes DEF DistanceRestartAnswered
    <2>3. owed' \in [Sessions -> Int]
        BY <1>14, ReportedTypes DEF DistanceRestartAnswered
    <2>4. inbox' = Tail(inbox) /\ UNCHANGED <<known, pending, phase, api>>
        BY <1>4, <1>14 DEF DistanceRestartAnswered
    <2> QED BY <1>3, <1>6, <2>2, <2>3, <2>4
<1> QED BY <1>1, <1>2, <1>7, <1>8, <1>9, <1>10, <1>11, <1>12, <1>13, <1>14 DEF AdapterStep

\* The modem opens, and the adapter will be told, or does not open.
LEMMA OpenIs ==
    ASSUME Open
    PROVE  /\ api # << >> /\ Head(api).op = "open" /\ api' = Tail(api)
           /\ up' \in BOOLEAN /\ (~up' => EngineFails)
           /\ inbox' = IF up' THEN Append(inbox, EngineUp) ELSE inbox
           /\ (inbox' = inbox \/ inbox' = Append(inbox, EngineUp))
<1>1. PICK ok \in BOOLEAN : /\ up' = ok /\ (~ok => EngineFails)
                           /\ inbox' = IF ok THEN Append(inbox, EngineUp) ELSE inbox
    BY DEF Open
<1> QED BY <1>1 DEF Open

LEMMA ModemStepTypes == TypeInv /\ (ModemStep \/ (Crash /\ UNCHANGED load)) => TypeInv'
<1> SUFFICES ASSUME TypeInv, ModemStep \/ (Crash /\ UNCHANGED load) PROVE TypeInv'
    OBVIOUS
<1>0. UNCHANGED load
    BY DEF ModemStep
<1>1. CASE ServeRequest
    <2> DEFINE r == Head(api)
    <2>1. r \in SoundRequests /\ Tail(api) \in Seq(SoundRequests) /\ r.op # "open"
        BY <1>1, HeadTailProperties DEF ServeRequest, TypeInv
    <2>2. PICK ok \in Outcomes(r) :
             /\ inbox' = IF r.then = "none" THEN inbox ELSE Append(inbox, Answer(r, ok))
             /\ engine' = IF ok /\ r.op = "start" THEN r.opts
                          ELSE IF ok /\ r.op = "stop" THEN NoOptions ELSE engine
             /\ engineDist' = IF ok /\ r.op = "startD" THEN [engineDist EXCEPT ![r.s] = r.opts]
                              ELSE IF ok /\ r.op = "stopD"
                              THEN [engineDist EXCEPT ![r.s] = NoOptions] ELSE engineDist
        BY <1>1 DEF ServeRequest
    <2>3. ok \in BOOLEAN
        BY DEF Outcomes
    <2>4. inbox' \in Seq(SoundMessages)
        BY <2>1, <2>2, <2>3, AnswersAreSound DEF TypeInv
    <2>5. engine' \in Options \cup {NoOptions}
        BY <2>1, <2>2, RequestFields DEF TypeInv
    <2>6. engineDist' \in [Sessions -> Options \cup {NoOptions}]
        BY <2>1, <2>2, RequestFields DEF TypeInv
    <2>7. api' \in Seq(SoundRequests) /\ UNCHANGED <<reg, phase, owed, time, dist, known, pending, up, crashes>>
        BY <1>1, <2>1 DEF ServeRequest
    <2> QED BY <1>0, <2>4, <2>5, <2>6, <2>7 DEF TypeInv, TimeOK, DistOK
<1>2. CASE Open
    <2>1. Tail(api) \in Seq(SoundRequests)
        BY <1>2, HeadTailProperties DEF Open, TypeInv
    <2>2. EngineUp \in SoundMessages
        BY DEF SoundMessages
    <2>3. up' \in BOOLEAN /\ (inbox' = inbox \/ inbox' = Append(inbox, EngineUp))
        BY <1>2, OpenIs
    <2>a. inbox \in Seq(SoundMessages) /\ Append(inbox, EngineUp) \in Seq(SoundMessages)
        BY <2>2, AppendProperties DEF TypeInv
    <2>4. inbox' \in Seq(SoundMessages)
        BY <2>3, <2>a
    <2>5. /\ api' = Tail(api)
          /\ UNCHANGED <<reg, phase, owed, time, dist, known, pending, engine, engineDist, crashes>>
        BY <1>2 DEF Open
    <2> QED BY <1>0, <2>1, <2>3, <2>4, <2>5 DEF TypeInv, TimeOK, DistOK
<1>3. CASE Crash
    <2>1. OpenRequest \in SoundRequests
        BY DEF SoundRequests
    <2> DEFINE x == OpenRequest
    <2>a. x \in SoundRequests
        BY <2>1
    <2>b. api' = Append(api, x)
        BY <1>3 DEF Crash
    <2> HIDE DEF x
    <2>c. api \in Seq(SoundRequests)
        BY DEF TypeInv
    <2>d. Append(api, x) \in Seq(SoundRequests)
        BY <2>a, <2>c, AppendProperties, Zenon
    <2>2. api' \in Seq(SoundRequests)
        BY <2>b, <2>d, Zenon
    <2>3. /\ engine' = NoOptions /\ engineDist' = [s \in Sessions |-> NoOptions]
          /\ crashes' = crashes + 1 /\ up' = FALSE
          /\ UNCHANGED <<reg, phase, owed, time, dist, known, pending, inbox>>
        BY <1>3 DEF Crash
    <2> DEFINE none == NoOptions
    <2>4. none \in Options \cup {NoOptions}
        OBVIOUS
    <2> HIDE DEF none
    <2>5. [s \in Sessions |-> none] \in [Sessions -> Options \cup {NoOptions}]
        BY <2>4
    <2>6. engine' \in Options \cup {NoOptions} /\ engineDist' \in [Sessions -> Options \cup {NoOptions}]
        BY <2>3, <2>4, <2>5 DEF none
    <2>7. TimeOK' /\ DistOK' /\ (pending \in Seq(Held))' /\ (inbox \in Seq(SoundMessages))'
        BY <2>3 DEF TypeInv, TimeOK, DistOK
    <2>8. (crashes \in Nat)' /\ (load \in Loads)'
        BY <1>0, <2>3 DEF TypeInv
    <2>10. (up \in BOOLEAN)' /\ (known \in BOOLEAN)'
        BY <2>3, Zenon DEF TypeInv
    <2>9. /\ (reg \in [Clients -> {"new", "silent", "tracking", "gone"}])'
          /\ (phase \in [Sessions -> {"new", "open", "closed"}])' /\ (owed \in [Sessions -> Int])'
        BY <2>3 DEF TypeInv
    <2> QED BY <2>2, <2>6, <2>7, <2>8, <2>9, <2>10 DEF TypeInv
<1> QED BY <1>1, <1>2, <1>3 DEF ModemStep

LEMMA StepTypes == TypeInv /\ [Next]_vars => TypeInv'
<1>1. TypeInv /\ UNCHANGED vars => TypeInv'
    BY DEF vars, TypeInv, TimeOK, DistOK
<1> QED BY <1>1, ClientStepTypes, AdapterStepTypes, ModemStepTypes DEF Next

\* Every value the adapter, the queues and the modem ever hold is one the code
\* can make: multiplexed options are again options.
THEOREM TypeCorrect == Spec => []TypeOK
<1>1. Spec => []TypeInv
    BY InitTypes, StepTypes, PTL DEF Spec
<1> QED BY <1>1, TypeInvIsTypeOK, PTL

-----------------------------------------------------------------------------
(* Counting the commands that are being answered *)

\* The answers that run a lambda of T for session s, and its held commands.
Answers(s, T) == {m \in SoundMessages : m.kind = "answer" /\ m.s = s /\ m.then \in T} \cup HeldOf(s)

\* Requests to come and held commands of s; with the answers, all in flight.
Asked(s, T) == Count(api, Awaited(s, T)) + Count(pending, HeldOf(s))
InFlight(s, T) == Asked(s, T) + Count(inbox, Answers(s, T))

LEMMA CountSeqNone ==
    ASSUME NEW S, NEW q \in Seq(S), NEW M, S \cap M = {}
    PROVE  Count(q, M) = 0
<1>1. \A i \in 1 .. Len(q) : q[i] \in S
    OBVIOUS
<1> QED BY <1>1, CountNone

LEMMA CountPair ==
    ASSUME NEW S, NEW r \in S, NEW u \in S, NEW M, u \notin M
    PROVE  Count(<<r, u>>, M) = Count(<<r>>, M)
<1>1. <<r>> \in Seq(S) /\ <<r, u>> \in Seq(S)
    OBVIOUS
<1>2. /\ Append(<<r>>, u) \in Seq(S) /\ Len(Append(<<r>>, u)) = 2
      /\ Append(<<r>>, u)[1] = r /\ Append(<<r>>, u)[2] = u
    BY <1>1, AppendProperties
<1>3. Len(<<r, u>>) = 2 /\ <<r, u>>[1] = r /\ <<r, u>>[2] = u
    OBVIOUS
<1>4. \A i \in 1 .. 2 : Append(<<r>>, u)[i] = <<r, u>>[i]
    BY <1>2, <1>3
<1>5. Append(<<r>>, u) = <<r, u>>
    BY <1>1, <1>2, <1>3, <1>4, SeqEqual
<1>6. Count(Append(<<r>>, u), M) = Count(<<r>>, M) + (IF u \in M THEN 1 ELSE 0)
    BY <1>1, CountAppend
<1>7. Count(<<r>>, M) \in Nat
    BY <1>1, CountIsNat
<1>8. Count(Append(<<r>>, u), M) = Count(<<r>>, M)
    BY <1>6, <1>7
<1> QED BY <1>5, <1>8, Zenon

LEMMA UnawaitedCount ==
    ASSUME NEW q \in Seq(Unawaited), NEW s \in Sessions, NEW T \in SUBSET Answering
    PROVE  Count(q, Awaited(s, T)) = 0
<1>1. Unawaited \cap Awaited(s, T) = {}
    BY DEF Unawaited, Awaited, Answering
<1> QED BY <1>1, CountSeqNone

LEMMA InFlightIsNat ==
    ASSUME TypeInv, NEW s \in Sessions, NEW T
    PROVE  /\ Count(api, Awaited(s, T)) \in Nat /\ Count(pending, HeldOf(s)) \in Nat
           /\ Count(inbox, Answers(s, T)) \in Nat /\ Asked(s, T) \in Nat /\ InFlight(s, T) \in Nat
BY CountIsNat DEF TypeInv, Asked, InFlight

\* A handler asks for one answer, gives it, or has nothing to say.
LEMMA HandledCounts ==
    ASSUME TypeInv, NEW s \in Sessions, NEW R, NEW ow, Handled(s, R, ow),
           NEW t \in Sessions, NEW T \in SUBSET Answering
    PROVE  /\ Asked(t, T)' = Asked(t, T) \/ Asked(t, T)' = Asked(t, T) + 1
           /\ t # s => Asked(t, T)' = Asked(t, T)
           /\ T = Answering /\ t = s =>
                \/ Asked(t, T)' = Asked(t, T) + 1 /\ owed' = ow
                \/ Asked(t, T)' = Asked(t, T) /\ owed' = ReportResponse(ow, s)
                \/ Asked(t, T)' = Asked(t, T) /\ owed' = ow /\ reg[Owner[s]] # "tracking"
<1> DEFINE A == Awaited(t, T)
           H == HeldOf(t)
<1>0. /\ api \in Seq(SoundRequests) /\ pending \in Seq(Held)
      /\ Count(api, A) \in Nat /\ Count(pending, H) \in Nat
    BY InFlightIsNat DEF TypeInv
<1>a. R \in Seq(SoundRequests) /\ api' = api \o R
    BY DEF Handled
<1>1. Count(api', A) = Count(api, A) + Count(R, A)
    BY <1>0, <1>a, CountConcat
<1>2. Asked(t, T) = Count(api, A) + Count(pending, H) /\ Asked(t, T)' = Count(api', A) + Count(pending', H)
    BY DEF Asked
<1>3. CASE /\ R = << >> /\ owed' = ow /\ \E c \in HeldOf(s) : pending' = Append(pending, c)
    <2>1. PICK c \in HeldOf(s) : pending' = Append(pending, c)
        BY <1>3
    <2>2. c \in Held /\ (c \in H <=> t = s)
        BY DEF HeldOf
    <2>3. Count(pending', H) = Count(pending, H) + (IF c \in H THEN 1 ELSE 0)
        BY <1>0, <2>1, <2>2, CountAppend
    <2>4. Count(R, A) = 0
        BY <1>3, EmptySeq, UnawaitedCount
    <2> QED BY <1>0, <1>1, <1>2, <1>3, <2>2, <2>3, <2>4
<1>4. ASSUME pending' = pending, owed' = ow, NEW r \in Awaited(s, Answering),
             R = <<r>> \/ \E u \in Unawaited : R = <<r, u>>
      PROVE  /\ Asked(t, T)' = Asked(t, T) + (IF r \in A THEN 1 ELSE 0)
             /\ r \in A => t = s /\ r.then \in T
             /\ T = Answering /\ t = s => r \in A
    <2>1. /\ r \in A => t = s /\ r.then \in T
          /\ T = Answering /\ t = s => r \in A
        BY DEF Awaited
    <2>2. r \in SoundRequests
        BY AwaitedAreSound
    <2>3. Count(<<r>>, A) = IF r \in A THEN 1 ELSE 0
        BY CountOne
    <2>4. ASSUME NEW u \in Unawaited PROVE Count(<<r, u>>, A) = IF r \in A THEN 1 ELSE 0
        <3>1. u \in SoundRequests /\ u \notin A
            BY DEF Unawaited, Awaited, Answering
        <3> HIDE DEF A
        <3> QED BY <2>2, <2>3, <3>1, CountPair
    <2>5. Count(R, A) = IF r \in A THEN 1 ELSE 0
        BY <1>4, <2>3, <2>4
    <2> QED BY <1>0, <1>1, <1>2, <1>4, <2>1, <2>5
<1>5. CASE pending' = pending /\ R \in Seq(Unawaited) /\ owed' = ReportResponse(ow, s)
    <2>1. Count(R, A) = 0
        BY <1>5, UnawaitedCount
    <2> QED BY <1>0, <1>1, <1>2, <1>5, <2>1
<1>6. CASE pending' = pending /\ owed' = ow /\ R = << >> /\ reg[Owner[s]] # "tracking"
    <2>1. Count(R, A) = 0
        BY <1>6, EmptySeq, UnawaitedCount
    <2> QED BY <1>0, <1>1, <1>2, <1>6, <2>1
<1>7. Asked(t, T) \in Nat
    BY <1>0, <1>2
<1>8. CASE pending' = pending /\ owed' = ow /\ \E r \in Awaited(s, Answering) :
                R = <<r>> \/ \E u \in Unawaited : R = <<r, u>>
    <2>1. PICK r \in Awaited(s, Answering) : R = <<r>> \/ \E u \in Unawaited : R = <<r, u>>
        BY <1>8
    <2>2. /\ Asked(t, T)' = Asked(t, T) + (IF r \in A THEN 1 ELSE 0)
          /\ r \in A => t = s /\ r.then \in T
          /\ T = Answering /\ t = s => r \in A
        BY <1>4, <1>8, <2>1
    <2> QED BY <1>7, <1>8, <2>2
<1> QED BY <1>3, <1>5, <1>6, <1>8 DEF Handled

\* A handler answers no one else, and an answer is one owed less, if any.
LEMMA HandledOwes ==
    ASSUME TypeInv, NEW s \in Sessions, NEW R, NEW ow \in [Sessions -> Int], Handled(s, R, ow),
           NEW t \in Sessions
    PROVE  t # s => owed'[t] = ow[t]
BY DEF Handled, ReportResponse

\* The responses a report leaves owed.
LEMMA Reported ==
    ASSUME TypeInv, NEW s \in Sessions, NEW ow \in [Sessions -> Int], NEW t \in Sessions
    PROVE  ReportResponse(ow, s)[t] =
             IF t = s /\ Registered(Owner[s]) THEN ow[t] - 1 ELSE ow[t]
BY DEF ReportResponse, Registered

-----------------------------------------------------------------------------
(* What a step does to the answers in flight for a session, and to its debt *)

Flying(s) == InFlight(s, Answering)
Kept(s) == Flying(s)' = Flying(s) /\ owed'[s] = owed[s]
Asks(s) == Flying(s)' = Flying(s) + 1 /\ owed'[s] = owed[s] + 1
Settles(s) == /\ Flying(s)' = Flying(s) - 1
              /\ owed'[s] = IF Registered(Owner[s]) THEN owed[s] - 1 ELSE owed[s]
\* the code forgets the response of a client without a tracking callback
Ignores(s) == Flying(s)' = Flying(s) /\ owed'[s] = owed[s] + 1 /\ reg[Owner[s]] # "tracking"
\* and that of a failure to stop the old distance based session of an update
Fails == inbox # << >> /\ Head(inbox).kind = "answer" /\ Head(inbox).then = "dRestop" /\ ~Head(inbox).ok
Drops(s) == /\ Flying(s)' = Flying(s) - 1 /\ owed'[s] = owed[s]
            /\ reg[Owner[s]] # "tracking" \/ Fails

LEMMA CommandLedger ==
    ASSUME TypeInv, NEW s \in Sessions, NEW R, Handled(s, R, Owe(s)), UNCHANGED inbox,
           Registered(Owner[s]), NEW t \in Sessions
    PROVE  Kept(t) \/ Asks(t) \/ Ignores(t)
<1>0. Owe(s) \in [Sessions -> Int] /\ Owe(s)[t] = IF t = s THEN owed[t] + 1 ELSE owed[t]
    BY DEF Owe, TypeInv
<1>1. Answering \in SUBSET Answering /\ owed[t] \in Int
    BY DEF TypeInv
<1>2. /\ Asked(t, Answering) \in Nat /\ Count(inbox, Answers(t, Answering)) \in Nat
      /\ Flying(t) = Asked(t, Answering) + Count(inbox, Answers(t, Answering))
      /\ Flying(t)' = Asked(t, Answering)' + Count(inbox, Answers(t, Answering))
    BY InFlightIsNat DEF Flying, InFlight
<1>3. CASE t # s
    <2>1. Asked(t, Answering)' = Asked(t, Answering)
        BY <1>1, <1>3, HandledCounts
    <2>2. owed'[t] = owed[t]
        BY <1>0, <1>3, HandledOwes
    <2> QED BY <1>2, <2>1, <2>2 DEF Kept
<1>4. CASE t = s
    <2>1. \/ Asked(t, Answering)' = Asked(t, Answering) + 1 /\ owed' = Owe(s)
          \/ Asked(t, Answering)' = Asked(t, Answering) /\ owed' = ReportResponse(Owe(s), s)
          \/ Asked(t, Answering)' = Asked(t, Answering) /\ owed' = Owe(s) /\ reg[Owner[s]] # "tracking"
        BY <1>1, <1>4, HandledCounts
    <2>2. ReportResponse(Owe(s), s)[t] = owed[t]
        BY <1>0, <1>1, <1>4, Reported
    <2> QED BY <1>0, <1>1, <1>2, <1>4, <2>1, <2>2 DEF Kept, Asks, Ignores
<1> QED BY <1>3, <1>4

\* The answer m for s leaves the queue, and may be followed by a request for s.
LEMMA HeadLedger ==
    ASSUME TypeInv, inbox # << >>, inbox' = Tail(inbox), NEW s \in Sessions,
           Head(inbox) \in Answers(s, Answering), NEW t \in Sessions
    PROVE  /\ Asked(t, Answering)' = Asked(t, Answering) =>
                Flying(t)' = IF t = s THEN Flying(t) - 1 ELSE Flying(t)
           /\ Asked(t, Answering)' = Asked(t, Answering) + 1 /\ t = s =>
                Flying(t)' = Flying(t)
<1>1. Head(inbox) \in Answers(t, Answering) <=> t = s
    <2>1. Head(inbox) \in SoundMessages
        BY HeadOfInbox
    <2> QED BY <2>1 DEF Answers, HeldOf, Held, EngineUp
<1>2. Count(inbox, Answers(t, Answering)) =
        (IF t = s THEN 1 ELSE 0) + Count(inbox', Answers(t, Answering))
    BY <1>1, CountTail DEF TypeInv
<1>3. Count(inbox', Answers(t, Answering)) \in Nat
    BY HeadOfInbox, CountIsNat
<1>4. /\ Asked(t, Answering) \in Nat
      /\ Flying(t) = Asked(t, Answering) + Count(inbox, Answers(t, Answering))
      /\ Flying(t)' = Asked(t, Answering)' + Count(inbox', Answers(t, Answering))
    BY InFlightIsNat DEF Flying, InFlight
<1> QED BY <1>2, <1>3, <1>4

\* Another message leaves the queue, and nobody is asked.
LEMMA OtherLedger ==
    ASSUME TypeInv, inbox # << >>, inbox' = Tail(inbox), NEW t \in Sessions,
           Head(inbox) \notin Answers(t, Answering), Asked(t, Answering)' = Asked(t, Answering)
    PROVE  Flying(t)' = Flying(t)
<1>2. Count(inbox, Answers(t, Answering)) = Count(inbox', Answers(t, Answering))
    <2>1. Count(inbox, Answers(t, Answering)) = 0 + Count(inbox', Answers(t, Answering))
        BY CountTail DEF TypeInv
    <2>2. Count(inbox', Answers(t, Answering)) \in Nat
        BY HeadOfInbox, CountIsNat
    <2> QED BY <2>1, <2>2
<1> QED BY <1>2 DEF Flying, InFlight

LEMMA AskedSame ==
    ASSUME UNCHANGED <<api, pending>>, NEW t, NEW T
    PROVE  Asked(t, T)' = Asked(t, T)
BY DEF Asked

\* What the modem serves is answered, so as many are in flight as before.
LEMMA ServedLedger ==
    ASSUME TypeInv, api # << >>, Head(api).op # "open", NEW ok \in BOOLEAN, api' = Tail(api),
           UNCHANGED pending, NEW t \in Sessions, NEW T \in SUBSET Answering,
           inbox' = IF Head(api).then = "none" THEN inbox ELSE Append(inbox, Answer(Head(api), ok))
    PROVE  InFlight(t, T)' = InFlight(t, T)
<1> DEFINE r == Head(api)
           a == Answer(r, ok)
<1>1. r \in SoundRequests /\ Tail(api) \in Seq(SoundRequests) /\ api \in Seq(SoundRequests)
      /\ inbox \in Seq(SoundMessages)
    BY HeadTailProperties DEF TypeInv
<1>2. Count(api, Awaited(t, T)) = (IF r \in Awaited(t, T) THEN 1 ELSE 0) + Count(api', Awaited(t, T))
    BY <1>1, CountTail
<1>3. /\ Count(api', Awaited(t, T)) \in Nat /\ Count(inbox, Answers(t, T)) \in Nat
      /\ Count(pending, HeldOf(t)) \in Nat
    BY <1>1, CountIsNat, InFlightIsNat
<1>4. Count(inbox', Answers(t, T)) = Count(inbox, Answers(t, T)) + (IF r \in Awaited(t, T) THEN 1 ELSE 0)
    <2>1. CASE r.then = "none"
        <3>1. r \notin Awaited(t, T)
            BY <2>1 DEF Awaited, Answering
        <3> QED BY <1>3, <2>1, <3>1
    <2>2. CASE r.then # "none"
        <3>1. a \in SoundMessages
            BY <1>1, <2>2, AnswersAreSound
        <3>2. a \in Answers(t, T) <=> r \in Awaited(t, T)
            <4>1. a.kind = "answer" /\ a.s = r.s /\ a.then = r.then
                BY DEF Answer
            <4>2. a \notin HeldOf(t)
                BY <4>1 DEF HeldOf, Held
            <4> HIDE DEF a
            <4> QED BY <1>1, <3>1, <4>1, <4>2 DEF Awaited, Answers
        <3>3. inbox' = Append(inbox, a)
            BY <2>2
        <3> HIDE DEF a, r
        <3>4. Count(inbox', Answers(t, T)) =
                Count(inbox, Answers(t, T)) + (IF a \in Answers(t, T) THEN 1 ELSE 0)
            BY <1>1, <3>1, <3>3, CountAppend
        <3> QED BY <3>2, <3>4
    <2> QED BY <2>1, <2>2
<1>5. Count(pending', HeldOf(t)) = Count(pending, HeldOf(t))
    OBVIOUS
<1>6. InFlight(t, T) = (Count(api, Awaited(t, T)) + Count(pending, HeldOf(t))) + Count(inbox, Answers(t, T))
    BY DEF InFlight, Asked
<1>7. InFlight(t, T)' = (Count(api', Awaited(t, T)) + Count(pending', HeldOf(t))) + Count(inbox', Answers(t, T))
    BY DEF InFlight, Asked
<1> HIDE DEF r, a
<1> QED BY <1>2, <1>3, <1>4, <1>5, <1>6, <1>7

\* What a step of a client does to the session t: it is asked for a response
\* more, unless it is another's; its client registers; or its client goes.
ClientEntry(t) ==
    \/ reg' = reg /\ (Kept(t) \/ (Registered(Owner[t]) /\ (Asks(t) \/ Ignores(t))))
    \/ Kept(t) /\ reg[Owner[t]] # "gone" /\ reg'[Owner[t]] \in CallbackKinds
    \/ Kept(t) /\ reg'[Owner[t]] = reg[Owner[t]]
    \/ reg'[Owner[t]] = "gone" /\ owed'[t] = owed[t]

LEMMA SameInFlight ==
    ASSUME UNCHANGED <<pending, inbox, owed>>, NEW t \in Sessions,
           Count(api', Awaited(t, Answering)) = Count(api, Awaited(t, Answering))
    PROVE  Kept(t)
BY DEF Kept, Flying, InFlight, Asked

LEMMA UnawaitedAdds ==
    ASSUME NEW p \in Seq(SoundRequests), NEW q \in Seq(Unawaited), NEW t \in Sessions
    PROVE  Count(p \o q, Awaited(t, Answering)) = Count(p, Awaited(t, Answering))
<1>1. q \in Seq(SoundRequests)
    BY UnawaitedAreSound, WiderSeq
<1>2. Count(q, Awaited(t, Answering)) = 0
    BY UnawaitedCount
<1>3. Count(p \o q, Awaited(t, Answering)) = Count(p, Awaited(t, Answering)) + Count(q, Awaited(t, Answering))
    BY <1>1, CountConcat
<1>4. Count(p, Awaited(t, Answering)) \in Nat
    BY CountIsNat
<1> QED BY <1>2, <1>3, <1>4

LEMMA OthersKept ==
    ASSUME TypeInv, NEW s \in Sessions, NEW R, Handled(s, R, Owe(s)), UNCHANGED inbox,
           NEW t \in Sessions, t # s
    PROVE  Kept(t)
<1>1. Owe(s) \in [Sessions -> Int] /\ Owe(s)[t] = owed[t]
    BY DEF Owe, TypeInv
<1>2. Answering \in SUBSET Answering
    OBVIOUS
<1>3. Asked(t, Answering)' = Asked(t, Answering)
    BY <1>2, HandledCounts
<1>4. owed'[t] = owed[t]
    BY <1>1, HandledOwes
<1> QED BY <1>3, <1>4 DEF Kept, Flying, InFlight

LEMMA ClientLedger ==
    ASSUME TypeInv, ClientStep, NEW t \in Sessions
    PROVE  ClientEntry(t)
<1>1. ASSUME NEW c \in Clients, NEW kind \in CallbackKinds, AddClient(c, kind) PROVE ClientEntry(t)
    <2>1. Kept(t)
        BY <1>1, SameInFlight DEF AddClient
    <2>2. reg[c] # "gone" /\ reg' = [reg EXCEPT ![c] = kind] /\ reg \in [Clients -> {"new", "silent", "tracking", "gone"}]
        BY <1>1 DEF AddClient, TypeInv
    <2>3. Owner[t] \in Clients
        BY SessionsAssumption DEF SessionsAssumption
    <2> QED BY <2>1, <2>2, <2>3 DEF ClientEntry
<1>2. ASSUME NEW s \in Sessions, Registered(Owner[s]), NEW R, Handled(s, R, Owe(s)), UNCHANGED <<inbox, reg>>
      PROVE  ClientEntry(t)
    <2>1. Kept(t) \/ Asks(t) \/ Ignores(t)
        BY <1>2, CommandLedger
    <2>2. t # s => Kept(t)
        BY <1>2, OthersKept
    <2> QED BY <1>2, <2>1, <2>2 DEF ClientEntry
<1>3. ASSUME NEW s \in Sessions, NEW o \in load.options, StartTracking(s, o) PROVE ClientEntry(t)
    <2>1. o \in Options
        BY LoadTypes
    <2>2. \E R : Handled(s, R, Owe(s))
        BY <1>3, <2>1, StartHandled DEF StartTracking
    <2>3. Registered(Owner[s]) /\ UNCHANGED <<inbox, reg>>
        BY <1>3 DEF StartTracking, MayCommand
    <2> QED BY <1>2, <2>2, <2>3
<1>4. ASSUME NEW s \in Sessions, NEW o \in load.options, UpdateTrackingOptions(s, o) PROVE ClientEntry(t)
    <2>1. o \in Options
        BY LoadTypes
    <2>2. \E R : Handled(s, R, Owe(s))
        BY <1>4, <2>1, UpdateHandled DEF UpdateTrackingOptions
    <2>3. Registered(Owner[s]) /\ UNCHANGED <<inbox, reg>>
        BY <1>4 DEF UpdateTrackingOptions, MayCommand
    <2> QED BY <1>2, <2>2, <2>3
<1>5. ASSUME NEW s \in Sessions, StopTrackingCommand(s) PROVE ClientEntry(t)
    <2>2. \E R : Handled(s, R, Owe(s))
        BY <1>5, StopHandled DEF StopTrackingCommand
    <2>3. Registered(Owner[s]) /\ UNCHANGED <<inbox, reg>>
        BY <1>5 DEF StopTrackingCommand, MayCommand
    <2> QED BY <1>2, <2>2, <2>3
<1>6. ASSUME NEW c \in Clients, RemoveClient(c) PROVE ClientEntry(t)
    <2> DEFINE own == {s \in TimeKeys : Owner[s] = c}
               Q == FlattenSeq(Removed(own))
    <2>1. PICK D \in Seq(RemovalRequests) : Q \in Seq(StopRequests(own)) /\ api' = (api \o Q) \o D
        BY <1>6, RemoveClientAsks
    <2> HIDE DEF Q
    <2>2. reg \in [Clients -> {"new", "silent", "tracking", "gone"}] /\ reg' = [reg EXCEPT ![c] = "gone"]
          /\ UNCHANGED <<owed, pending, inbox>> /\ api \in Seq(SoundRequests)
        BY <1>6 DEF RemoveClient, TypeInv
    <2>3. Owner[t] \in Clients
        BY SessionsAssumption DEF SessionsAssumption
    <2>4. CASE Owner[t] = c
        BY <2>2, <2>3, <2>4 DEF ClientEntry
    <2>5. CASE Owner[t] # c
        <3>1. StopRequests(own) \cap Awaited(t, Answering) = {}
            BY <2>5 DEF StopRequests, Stopping, Multiplexed, Awaited
        <3>2. RemovalRequests \cap Awaited(t, Answering) = {}
            BY DEF RemovalRequests, Awaited, Answering
        <3>3. Count(Q, Awaited(t, Answering)) = 0 /\ Count(D, Awaited(t, Answering)) = 0
            BY <2>1, <3>1, <3>2, CountSeqNone
        <3>4. own \in SUBSET Sessions
            BY DEF TimeKeys
        <3>5. Q \in Seq(SoundRequests) /\ D \in Seq(SoundRequests)
            <4>1. StopRequests(own) \subseteq SoundRequests /\ RemovalRequests \subseteq SoundRequests
                BY <3>4, StopRequestsAreSound DEF RemovalRequests
            <4> QED BY <2>1, <4>1, WiderSeq
        <3> HIDE DEF own
        <3>6. api \o Q \in Seq(SoundRequests)
            BY <2>2, <3>5
        <3>7. Count(api \o Q, Awaited(t, Answering)) = Count(api, Awaited(t, Answering)) + 0
            BY <2>2, <3>3, <3>5, CountConcat
        <3>8. Count(api', Awaited(t, Answering)) = Count(api \o Q, Awaited(t, Answering)) + 0
            <4>1. Count((api \o Q) \o D, Awaited(t, Answering)) =
                    Count(api \o Q, Awaited(t, Answering)) + Count(D, Awaited(t, Answering))
                BY <3>5, <3>6, CountConcat
            <4> QED BY <2>1, <3>3, <4>1, Zenon
        <3>9. Count(api, Awaited(t, Answering)) \in Nat
            BY InFlightIsNat
        <3>10. Kept(t)
            BY <2>2, <3>7, <3>8, <3>9, SameInFlight
        <3> QED BY <2>2, <2>3, <2>5, <3>10 DEF ClientEntry
    <2> QED BY <2>4, <2>5
<1>7. CASE SuspendAndRestart
    <2>1. /\ SuspendSessions \in Seq(Unawaited) /\ RestartSessions \in Seq(Unawaited)
          /\ api \in Seq(SoundRequests)
        BY RestartsAreUnawaited DEF TypeInv
    <2>2. api' = (api \o SuspendSessions) \o RestartSessions /\ UNCHANGED <<reg, owed, pending, inbox>>
        BY <1>7 DEF SuspendAndRestart
    <2>3. Count(api', Awaited(t, Answering)) = Count(api, Awaited(t, Answering))
        <3>1. Count(api \o SuspendSessions, Awaited(t, Answering)) = Count(api, Awaited(t, Answering))
            BY <2>1, UnawaitedAdds
        <3>2. api \o SuspendSessions \in Seq(SoundRequests)
            BY <2>1, UnawaitedAreSound, WiderSeq
        <3>3. Count((api \o SuspendSessions) \o RestartSessions, Awaited(t, Answering)) =
                Count(api \o SuspendSessions, Awaited(t, Answering))
            BY <2>1, <3>2, UnawaitedAdds
        <3> QED BY <2>2, <3>1, <3>3
    <2>4. Kept(t)
        BY <2>2, <2>3, SameInFlight
    <2> QED BY <2>2, <2>4 DEF ClientEntry
<1> QED BY <1>1, <1>3, <1>4, <1>5, <1>6, <1>7 DEF ClientStep

\* What a step of the adapter does to the session t.
AdapterEntry(t) == Kept(t) \/ Settles(t) \/ Drops(t)

\* A lambda that asks for one answer more, or none and then responds, or is
\* silent on a failure.
LEMMA LambdaLedger ==
    ASSUME TypeInv, inbox # << >>, inbox' = Tail(inbox), NEW s \in Sessions,
           Head(inbox) \in Answers(s, Answering), NEW t \in Sessions,
           t # s => Asked(t, Answering)' = Asked(t, Answering) /\ owed'[t] = owed[t],
           \/ Asked(s, Answering)' = Asked(s, Answering) + 1 /\ owed' = owed
           \/ Asked(s, Answering)' = Asked(s, Answering) /\ owed' = ReportResponse(owed, s)
           \/ Asked(s, Answering)' = Asked(s, Answering) /\ owed' = owed /\ (reg[Owner[s]] # "tracking" \/ Fails)
    PROVE  AdapterEntry(t)
<1>1. owed \in [Sessions -> Int]
    BY DEF TypeInv
<1>2. CASE t # s
    <2>1. Flying(t)' = Flying(t)
        BY <1>2, HeadLedger
    <2> QED BY <1>2, <2>1 DEF AdapterEntry, Kept
<1>3. CASE t = s
    <2>1. CASE Asked(s, Answering)' = Asked(s, Answering) + 1 /\ owed' = owed
        <3>1. Flying(t)' = Flying(t)
            BY <1>3, <2>1, HeadLedger
        <3> QED BY <2>1, <3>1 DEF AdapterEntry, Kept
    <2>2. CASE Asked(s, Answering)' = Asked(s, Answering) /\ owed' = ReportResponse(owed, s)
        <3>1. Flying(t)' = Flying(t) - 1
            BY <1>3, <2>2, HeadLedger
        <3>2. owed'[t] = IF Registered(Owner[t]) THEN owed[t] - 1 ELSE owed[t]
            BY <1>1, <1>3, <2>2, Reported
        <3> QED BY <3>1, <3>2 DEF AdapterEntry, Settles
    <2>3. CASE /\ Asked(s, Answering)' = Asked(s, Answering) /\ owed' = owed
               /\ reg[Owner[s]] # "tracking" \/ Fails
        <3>1. Flying(t)' = Flying(t) - 1
            BY <1>3, <2>3, HeadLedger
        <3> QED BY <1>3, <2>3, <3>1 DEF AdapterEntry, Drops
    <2> QED BY <2>1, <2>2, <2>3
<1> QED BY <1>2, <1>3

\* A lambda that only responds.
LEMMA ResponseLedger ==
    ASSUME TypeInv, inbox # << >>, inbox' = Tail(inbox), NEW t \in Sessions, UNCHANGED <<api, pending>>,
           Head(inbox).kind = "answer", Head(inbox).then \in Answering,
           owed' = ReportResponse(owed, Head(inbox).s)
    PROVE  AdapterEntry(t)
<1>0. Head(inbox).s \in Sessions /\ Head(inbox) \in Answers(Head(inbox).s, Answering)
    BY HeadOfInbox, AnswerFields DEF Answers
<1>a. PICK s \in Sessions : s = Head(inbox).s
    BY <1>0
<1>1. s \in Sessions /\ Head(inbox) \in Answers(s, Answering)
    BY <1>0, <1>a
<1>2. owed \in [Sessions -> Int]
    BY DEF TypeInv
<1>3. Asked(s, Answering)' = Asked(s, Answering) /\ Asked(t, Answering)' = Asked(t, Answering)
    BY AskedSame
<1>4. owed' = ReportResponse(owed, s)
    BY <1>a
<1>5. t # s => owed'[t] = owed[t]
    BY <1>1, <1>2, <1>4, Reported
<1> QED BY <1>1, <1>3, <1>4, <1>5, LambdaLedger

LEMMA AppendedAsks ==
    ASSUME TypeInv, NEW s \in Sessions, NEW r \in Awaited(s, Answering), api' = Append(api, r), UNCHANGED pending,
           NEW t \in Sessions
    PROVE  Asked(t, Answering)' = IF t = s THEN Asked(t, Answering) + 1 ELSE Asked(t, Answering)
<1>1. r \in SoundRequests /\ (r \in Awaited(t, Answering) <=> t = s) /\ api \in Seq(SoundRequests)
    BY DEF Awaited, TypeInv
<1>2. Count(api', Awaited(t, Answering)) =
        Count(api, Awaited(t, Answering)) + (IF r \in Awaited(t, Answering) THEN 1 ELSE 0)
    BY <1>1, CountAppend
<1>3. Count(api, Awaited(t, Answering)) \in Nat /\ Count(pending, HeldOf(t)) \in Nat
    BY InFlightIsNat
<1>4. /\ Asked(t, Answering) = Count(api, Awaited(t, Answering)) + Count(pending, HeldOf(t))
      /\ Asked(t, Answering)' = Count(api', Awaited(t, Answering)) + Count(pending, HeldOf(t))
    BY DEF Asked
<1> QED BY <1>1, <1>2, <1>3, <1>4

LEMMA CountEmpty == \A M : Count(<< >>, M) = 0
<1>1. << >> \in Seq({}) /\ Len(<< >>) = 0
    OBVIOUS
<1>2. \A M : \A i \in 1 .. Len(<< >>) : << >>[i] \notin M
    BY <1>1
<1> QED BY <1>1, <1>2, CountNone

LEMMA HeldCounts ==
    ASSUME NEW q \in Seq(Held), NEW s \in Sessions, NEW T
    PROVE  Count(q, Answers(s, T)) = Count(q, HeldOf(s))
<1>1. \A c \in Held : c \in Answers(s, T) <=> c \in HeldOf(s)
    BY DEF Answers, Held
<1>2. \A i \in 1 .. Len(q) : q[i] \in Held
    OBVIOUS
<1>3. Places(q, Answers(s, T)) = Places(q, HeldOf(s))
    BY <1>1, <1>2 DEF Places
<1> QED BY <1>3 DEF Count

LEMMA AdapterLedger ==
    ASSUME TypeInv, AdapterStep, NEW t \in Sessions
    PROVE  AdapterEntry(t) /\ reg' = reg
<1> DEFINE m == Head(inbox)
<1>0. inbox # << >> /\ reg' = reg /\ m \in SoundMessages
    <2>1. inbox # << >> /\ reg' = reg
        BY DEF AdapterStep, HandleEngineUp, HandleHeldCommand, StartAnswered, UpdateAnswered, StopAnswered,
            DistanceStopAnswered, RemovedStopAnswered, ToTimeAnswered, RestopAnswered,
            DistanceRestartAnswered, Answered
    <2> QED BY <2>1, HeadOfInbox
<1>1. CASE HandleEngineUp
    <2>1. /\ api' = api \o RestartSessions /\ inbox' = Tail(inbox) \o pending /\ pending' = << >>
          /\ owed' = owed /\ m.kind = "engineUp"
        BY <1>1 DEF HandleEngineUp
    <2>2. Count(api', Awaited(t, Answering)) = Count(api, Awaited(t, Answering))
        BY <2>1, UnawaitedAdds, RestartsAreUnawaited DEF TypeInv
    <2>3. Count(pending', HeldOf(t)) = 0
        BY <2>1, CountEmpty
    <2>4. Tail(inbox) \in Seq(SoundMessages) /\ pending \in Seq(SoundMessages) /\ pending \in Seq(Held)
        <3>1. Held \subseteq SoundMessages
            BY DEF SoundMessages
        <3> QED BY <1>0, <3>1, HeadOfInbox, WiderSeq DEF TypeInv
    <2>5. Count(inbox', Answers(t, Answering)) =
            Count(Tail(inbox), Answers(t, Answering)) + Count(pending, Answers(t, Answering))
        BY <2>1, <2>4, CountConcat
    <2>6. Count(pending, Answers(t, Answering)) = Count(pending, HeldOf(t))
        BY <2>4, HeldCounts
    <2>7. Count(inbox, Answers(t, Answering)) = 0 + Count(Tail(inbox), Answers(t, Answering))
        <3>1. m \notin Answers(t, Answering)
            BY <2>1 DEF Answers, HeldOf, Held
        <3> QED BY <1>0, <3>1, CountTail DEF TypeInv
    <2>8. /\ Count(api, Awaited(t, Answering)) \in Nat /\ Count(pending, HeldOf(t)) \in Nat
          /\ Count(Tail(inbox), Answers(t, Answering)) \in Nat
        BY <2>4, InFlightIsNat, CountIsNat
    <2>9. /\ Flying(t) = (Count(api, Awaited(t, Answering)) + Count(pending, HeldOf(t)))
                            + Count(inbox, Answers(t, Answering))
          /\ Flying(t)' = (Count(api', Awaited(t, Answering)) + Count(pending', HeldOf(t)))
                            + Count(inbox', Answers(t, Answering))
        BY DEF Flying, InFlight, Asked
    <2>10. Flying(t)' = Flying(t)
        BY <2>2, <2>3, <2>5, <2>6, <2>7, <2>8, <2>9
    <2> QED BY <1>0, <2>1, <2>10 DEF AdapterEntry, Kept
<1>2. CASE HandleHeldCommand
    <2>1. m.kind \in {"start", "update"} /\ inbox' = Tail(inbox)
        BY <1>2 DEF HandleHeldCommand
    <2>2. m.s \in Sessions /\ m.opts \in Options /\ m \in Held
        BY <1>0, <2>1, HeldFields
    <2>3. owed \in [Sessions -> Int] /\ Answering \in SUBSET Answering
        BY DEF TypeInv
    <2>4. PICK R : Handled(m.s, R, owed)
        BY <1>2, <2>2, StartHandled, UpdateHandled DEF HandleHeldCommand
    <2>5. m \in Answers(m.s, Answering)
        BY <2>2 DEF Answers, HeldOf
    <2>a. PICK s \in Sessions : s = m.s
        BY <2>2
    <2>6. s \in Sessions /\ Handled(s, R, owed) /\ Head(inbox) \in Answers(s, Answering)
        BY <2>2, <2>4, <2>5, <2>a
    <2> HIDE DEF m
    <2>7. t # s => Asked(t, Answering)' = Asked(t, Answering) /\ owed'[t] = owed[t]
        BY <2>3, <2>6, HandledCounts, HandledOwes
    <2>8. \/ Asked(s, Answering)' = Asked(s, Answering) + 1 /\ owed' = owed
          \/ Asked(s, Answering)' = Asked(s, Answering) /\ owed' = ReportResponse(owed, s)
          \/ Asked(s, Answering)' = Asked(s, Answering) /\ owed' = owed /\ reg[Owner[s]] # "tracking"
        BY <2>3, <2>6, HandledCounts
    <2> QED BY <1>0, <2>1, <2>6, <2>7, <2>8, LambdaLedger
<1>3. ASSUME NEW then \in Answering, Answered(then), UNCHANGED api, owed' = ReportResponse(owed, m.s)
      PROVE  AdapterEntry(t)
    BY <1>3, ResponseLedger DEF Answered
<1>4. CASE StartAnswered \/ UpdateAnswered \/ StopAnswered \/ DistanceStopAnswered \/ DistanceRestartAnswered
    <2>1. {"started", "dStarted", "updated", "stopped", "dStopped", "dRestarted"} \subseteq Answering
        BY DEF Answering, Callbacks
    <2>2. \E then \in Answering : Answered(then) /\ UNCHANGED api /\ owed' = ReportResponse(owed, m.s)
        BY <1>4, <2>1 DEF StartAnswered, UpdateAnswered, StopAnswered, DistanceStopAnswered,
            DistanceRestartAnswered
    <2> QED BY <1>0, <1>3, <2>2
<1>5. CASE RemovedStopAnswered
    <2>1. /\ inbox' = Tail(inbox) /\ UNCHANGED <<api, pending, owed>>
          /\ m.kind = "answer" /\ m.then = "dRemoved"
        BY <1>5 DEF RemovedStopAnswered, Answered
    <2>2. m \notin Answers(t, Answering)
        BY <2>1 DEF Answers, HeldOf, Held, Answering
    <2>3. Flying(t)' = Flying(t)
        BY <1>0, <2>1, <2>2, AskedSame, OtherLedger
    <2> QED BY <1>0, <2>1, <2>3 DEF AdapterEntry, Kept
<1>6. CASE ToTimeAnswered
    <2>0. m.kind = "answer" /\ m.then = "toTime"
        BY <1>6 DEF ToTimeAnswered, Answered
    <2>a. PICK s \in Sessions : s = m.s
        BY <1>0, <2>0, AnswerFields
    <2> DEFINE q == StartTimeBasedTrackingMultiplex(s, m.opts)
    <2>1. /\ api' = api \o q /\ owed' = IF q = << >> THEN ReportResponse(owed, s) ELSE owed
          /\ inbox' = Tail(inbox) /\ UNCHANGED pending /\ m.kind = "answer" /\ m.then = "toTime"
        BY <1>6, <2>a DEF ToTimeAnswered, Answered
    <2>2. s \in Sessions /\ m.opts \in Options
        BY <1>0, <2>1, AnswerFields
    <2>3. q = << >> \/ \E r \in Multiplexed(s) : q = <<r>>
        BY <2>2, StartMultiplexed DEF TypeInv
    <2>4. Head(inbox) \in Answers(s, Answering)
        BY <1>0, <2>1, <2>a DEF Answers, Answering, Callbacks
    <2>5. owed \in [Sessions -> Int] /\ Answering \in SUBSET Answering
        BY DEF TypeInv
    <2> HIDE DEF q
    <2>6. Handled(s, q, owed)
        BY <2>1, <2>2, <2>3, MultiplexerHandles DEF TypeInv
    <2>7. t # s => Asked(t, Answering)' = Asked(t, Answering) /\ owed'[t] = owed[t]
        BY <2>2, <2>5, <2>6, HandledCounts, HandledOwes
    <2>8. \/ Asked(s, Answering)' = Asked(s, Answering) + 1 /\ owed' = owed
          \/ Asked(s, Answering)' = Asked(s, Answering) /\ owed' = ReportResponse(owed, s)
          \/ Asked(s, Answering)' = Asked(s, Answering) /\ owed' = owed /\ reg[Owner[s]] # "tracking"
        BY <2>2, <2>5, <2>6, HandledCounts
    <2> QED BY <1>0, <2>1, <2>2, <2>4, <2>7, <2>8, LambdaLedger
<1>7. CASE RestopAnswered
    <2>0. m.kind = "answer" /\ m.then = "dRestop"
        BY <1>7 DEF RestopAnswered, Answered
    <2>a. PICK s \in Sessions : s = m.s
        BY <1>0, <2>0, AnswerFields
    <2> DEFINE r == StartDistance(s, m.opts, "dRestarted")
    <2>1. /\ api' = (IF m.ok THEN Append(api, r) ELSE api) /\ owed' = owed
          /\ inbox' = Tail(inbox) /\ UNCHANGED pending /\ m.kind = "answer" /\ m.then = "dRestop"
        BY <1>7, <2>a DEF RestopAnswered, Answered
    <2>2. s \in Sessions /\ m.opts \in Options /\ m.opts.distance
        BY <1>0, <2>1, AnswerFields
    <2>4. Head(inbox) \in Answers(s, Answering)
        BY <1>0, <2>1, <2>a DEF Answers, Answering, Callbacks
    <2>5. r \in Awaited(s, Answering)
        BY <2>2, DistanceRequestsAreSound DEF Awaited, Answering, Callbacks, StartDistance, Request
    <2>6. m.ok \/ Fails
        BY <1>0, <2>1 DEF Fails
    <2> HIDE DEF r
    <2>7. CASE m.ok
        <3>1. Asked(s, Answering)' = Asked(s, Answering) + 1 /\ (t # s => Asked(t, Answering)' = Asked(t, Answering))
            BY <2>1, <2>2, <2>5, <2>7, AppendedAsks
        <3> QED BY <1>0, <2>1, <2>2, <2>4, <3>1, LambdaLedger
    <2>8. CASE ~m.ok
        <3>1. Asked(s, Answering)' = Asked(s, Answering) /\ Asked(t, Answering)' = Asked(t, Answering)
            BY <2>1, <2>8, AskedSame
        <3> QED BY <1>0, <2>1, <2>2, <2>4, <2>6, <2>8, <3>1, LambdaLedger
    <2> QED BY <2>7, <2>8
<1> QED BY <1>0, <1>1, <1>2, <1>4, <1>5, <1>6, <1>7 DEF AdapterStep

LEMMA ModemLedger ==
    ASSUME TypeInv, ModemStep \/ (Crash /\ UNCHANGED load), NEW t \in Sessions
    PROVE  Kept(t) /\ reg' = reg
<1>1. CASE ServeRequest
    <2>1. PICK ok \in Outcomes(Head(api)) :
             inbox' = IF Head(api).then = "none" THEN inbox ELSE Append(inbox, Answer(Head(api), ok))
        BY <1>1 DEF ServeRequest
    <2>2. ok \in BOOLEAN
        BY DEF Outcomes
    <2>3. api # << >> /\ Head(api).op # "open" /\ api' = Tail(api) /\ UNCHANGED <<pending, owed, reg>>
        BY <1>1 DEF ServeRequest
    <2>4. Answering \in SUBSET Answering
        OBVIOUS
    <2>5. InFlight(t, Answering)' = InFlight(t, Answering)
        BY <2>1, <2>2, <2>3, <2>4, ServedLedger
    <2> QED BY <2>3, <2>5 DEF Kept, Flying
<1>2. CASE Open
    <2>1. /\ api # << >> /\ Head(api).op = "open" /\ api' = Tail(api)
          /\ (inbox' = inbox \/ inbox' = Append(inbox, EngineUp)) /\ UNCHANGED <<pending, owed, reg>>
        BY <1>2, OpenIs DEF Open
    <2>2. Head(api) \notin Awaited(t, Answering)
        BY <2>1 DEF Awaited
    <2>3. EngineUp \in SoundMessages /\ EngineUp \notin Answers(t, Answering)
        BY DEF SoundMessages, Answers, HeldOf, Held, EngineUp
    <2>4. Count(api, Awaited(t, Answering)) = 0 + Count(Tail(api), Awaited(t, Answering))
        BY <2>1, <2>2, CountTail DEF TypeInv
    <2>a. Count(Append(inbox, EngineUp), Answers(t, Answering)) = Count(inbox, Answers(t, Answering)) + 0
        BY <2>3, CountAppend DEF TypeInv
    <2>6. Count(Tail(api), Awaited(t, Answering)) \in Nat /\ Count(inbox, Answers(t, Answering)) \in Nat
        BY <2>1, CountIsNat, HeadTailProperties DEF TypeInv
    <2>5. Count(inbox', Answers(t, Answering)) = Count(inbox, Answers(t, Answering)) + 0
        <3> DEFINE A == Answers(t, Answering)
        <3>1. Count(inbox, A) = Count(inbox, A) + 0 /\ Count(Append(inbox, EngineUp), A) = Count(inbox, A) + 0
            BY <2>a, <2>6
        <3> HIDE DEF A
        <3>2. Count(inbox', A) = Count(inbox, A) + 0
            BY <2>1, <3>1
        <3> QED BY <3>2 DEF A
    <2> QED BY <2>1, <2>4, <2>5, <2>6 DEF Kept, Flying, InFlight, Asked
<1>3. CASE Crash
    <2>1. api' = Append(api, OpenRequest) /\ UNCHANGED <<pending, inbox, owed, reg>>
        BY <1>3 DEF Crash
    <2>2. OpenRequest \in SoundRequests /\ OpenRequest \notin Awaited(t, Answering)
        BY DEF SoundRequests, Awaited, OpenRequest
    <2>3. Count(api', Awaited(t, Answering)) = Count(api, Awaited(t, Answering)) + 0
        BY <2>1, <2>2, CountAppend DEF TypeInv
    <2>4. Count(api, Awaited(t, Answering)) \in Nat
        BY InFlightIsNat
    <2> QED BY <2>1, <2>3, <2>4, SameInFlight
<1> QED BY <1>1, <1>2, <1>3 DEF ModemStep

-----------------------------------------------------------------------------
(* No command is answered twice *)

\* What is in flight for a session is owed to it, as long as its client is there.
Due == \A s \in Sessions : owed[s] >= 0 /\ (reg[Owner[s]] # "gone" => Flying(s) <= owed[s])

LEMMA InitNoneInFlight == Init => \A s \in Sessions : Flying(s) = 0 /\ owed[s] = 0
<1> SUFFICES ASSUME Init, NEW s \in Sessions PROVE Flying(s) = 0 /\ owed[s] = 0
    OBVIOUS
<1>1. api = <<OpenRequest>> /\ pending = << >> /\ inbox = << >> /\ owed = [t \in Sessions |-> 0]
    BY Zenon DEF Init
<1>2. OpenRequest \notin Awaited(s, Answering)
    BY DEF Awaited, OpenRequest
<1>3. Count(<<OpenRequest>>, Awaited(s, Answering)) = 0
    BY <1>2, CountOne
<1>4. Count(pending, HeldOf(s)) = 0 /\ Count(inbox, Answers(s, Answering)) = 0
    BY <1>1, CountEmpty
<1> QED BY <1>1, <1>3, <1>4 DEF Flying, InFlight, Asked

LEMMA OwnersAreClients == \A s \in Sessions : Owner[s] \in Clients
BY SessionsAssumption DEF SessionsAssumption

LEMMA FlyingNat ==
    ASSUME TypeInv, TypeInv', NEW t \in Sessions
    PROVE  Flying(t) \in Nat /\ Flying(t)' \in Nat
<1>1. Flying(t) \in Nat
    BY InFlightIsNat DEF Flying
<1>2. api' \in Seq(SoundRequests) /\ pending' \in Seq(Held) /\ inbox' \in Seq(SoundMessages)
    BY DEF TypeInv
<1>3. /\ Count(api', Awaited(t, Answering)) \in Nat /\ Count(pending', HeldOf(t)) \in Nat
      /\ Count(inbox', Answers(t, Answering)) \in Nat
    BY <1>2, CountIsNat
<1> QED BY <1>1, <1>3 DEF Flying, InFlight, Asked

\* A step adds as many answers in flight as responses owed, or fewer.
LEMMA StepDue == TypeInv /\ TypeInv' /\ Due /\ [Next]_vars => Due'
<1> SUFFICES ASSUME TypeInv, TypeInv', Due, [Next]_vars, NEW t \in Sessions
             PROVE  owed'[t] >= 0 /\ (reg'[Owner[t]] # "gone" => Flying(t)' <= owed'[t])
    BY DEF Due
<1>1. /\ owed[t] \in Int /\ owed[t] >= 0 /\ (reg[Owner[t]] # "gone" => Flying(t) <= owed[t])
      /\ Flying(t) \in Nat /\ Flying(t)' \in Nat /\ Answering \in SUBSET Answering
      /\ reg[Owner[t]] \in {"new", "silent", "tracking", "gone"}
    <2>1. Owner[t] \in Clients
        BY OwnersAreClients
    <2>2. reg[Owner[t]] \in {"new", "silent", "tracking", "gone"}
        BY <2>1 DEF TypeInv
    <2>3. owed[t] \in Int
        BY DEF TypeInv
    <2> QED BY <2>2, <2>3, FlyingNat DEF Due
<1>2. CASE UNCHANGED vars
    BY <1>1, <1>2 DEF vars, Flying, InFlight, Asked
<1>3. CASE ClientStep
    <2>1. ClientEntry(t)
        BY <1>3, ClientLedger
    <2> QED BY <1>1, <2>1 DEF ClientEntry, Kept, Asks, Ignores
<1>4. CASE AdapterStep
    <2>1. (Kept(t) \/ Settles(t) \/ Drops(t)) /\ reg' = reg
        BY <1>4, AdapterLedger DEF AdapterEntry
    <2> QED BY <1>1, <2>1 DEF Kept, Settles, Drops, Registered
<1>5. CASE ModemStep \/ (Crash /\ UNCHANGED load)
    <2>1. Kept(t) /\ reg' = reg
        BY <1>5, ModemLedger
    <2> QED BY <1>1, <2>1 DEF Kept
<1> QED BY <1>2, <1>3, <1>4, <1>5 DEF Next

LEMMA StrongTypes == Spec => []TypeInv
BY InitTypes, StepTypes, PTL DEF Spec

\* Whatever the modem answers, whatever clients come and go: a command has no
\* second response.
THEOREM NeverAnsweredTwice == Spec => [](\A s \in Sessions : owed[s] >= 0)
<1>1. Init => Due
    BY InitNoneInFlight DEF Due
<1>2. TypeInv /\ TypeInv' /\ Due /\ [Next]_vars => Due'
    BY StepDue
<1>3. Due => \A s \in Sessions : owed[s] >= 0
    BY DEF Due
<1> QED BY <1>1, <1>2, <1>3, StrongTypes, PTL DEF Spec

-----------------------------------------------------------------------------
(* Every command is answered *)

\* What is in flight is what is owed, if no response is forgotten.
Balanced ==
    \A s \in Sessions : /\ reg[Owner[s]] # "gone" => Flying(s) = owed[s]
                        /\ reg[Owner[s]] = "new" => owed[s] = 0
\* Every client has a callback for its responses.
NoneSilent == reg \in [Clients -> {"new", "tracking", "gone"}]

LEMMA StepNoneSilent ==
    ASSUME CallbackKinds = {"tracking"}
    PROVE  NoneSilent /\ [Next]_vars => NoneSilent'
<1> SUFFICES ASSUME NoneSilent, [Next]_vars PROVE NoneSilent'
    OBVIOUS
<1>1. CASE UNCHANGED reg
    BY <1>1 DEF NoneSilent
<1>2. ASSUME NEW c \in Clients, NEW kind \in CallbackKinds, AddClient(c, kind) PROVE NoneSilent'
    BY <1>2 DEF AddClient, NoneSilent
<1>3. ASSUME NEW c \in Clients, RemoveClient(c) PROVE NoneSilent'
    BY <1>3 DEF RemoveClient, NoneSilent
<1> QED BY <1>1, <1>2, <1>3
    DEF Next, vars, ClientStep, AdapterStep, ModemStep, StartTracking, UpdateTrackingOptions, StopTrackingCommand,
        SuspendAndRestart, HandleEngineUp, HandleHeldCommand, StartAnswered, UpdateAnswered, StopAnswered,
        DistanceStopAnswered, RemovedStopAnswered, ToTimeAnswered, RestopAnswered,
        DistanceRestartAnswered, Answered, ServeRequest, Open, Crash

\* Where no response is forgotten, it adds exactly as many.
LEMMA StepBalanced ==
    ASSUME CallbackKinds = {"tracking"}
    PROVE  TypeInv /\ TypeInv' /\ NoneSilent /\ Balanced /\ ~Fails /\ [Next]_vars => Balanced'
<1> SUFFICES ASSUME TypeInv, TypeInv', NoneSilent, Balanced, ~Fails, [Next]_vars, NEW t \in Sessions
             PROVE  /\ reg'[Owner[t]] # "gone" => Flying(t)' = owed'[t]
                    /\ reg'[Owner[t]] = "new" => owed'[t] = 0
    BY DEF Balanced
<1>1. /\ owed[t] \in Int /\ (reg[Owner[t]] # "gone" => Flying(t) = owed[t])
      /\ (reg[Owner[t]] = "new" => owed[t] = 0)
      /\ Flying(t) \in Nat /\ Flying(t)' \in Nat
      /\ reg[Owner[t]] \in {"new", "tracking", "gone"}
    <2>1. Owner[t] \in Clients
        BY OwnersAreClients
    <2>2. reg[Owner[t]] \in {"new", "tracking", "gone"}
        BY <2>1 DEF NoneSilent
    <2>3. owed[t] \in Int
        BY DEF TypeInv
    <2> QED BY <2>2, <2>3, FlyingNat DEF Balanced
<1>2. CASE UNCHANGED vars
    BY <1>1, <1>2 DEF vars, Flying, InFlight, Asked
<1>3. CASE ClientStep
    <2>1. ClientEntry(t)
        BY <1>3, ClientLedger
    <2> QED BY <1>1, <2>1 DEF ClientEntry, Kept, Asks, Ignores, Registered
<1>4. CASE AdapterStep
    <2>1. (Kept(t) \/ Settles(t) \/ Drops(t)) /\ reg' = reg
        BY <1>4, AdapterLedger DEF AdapterEntry
    <2>2. Drops(t) => reg[Owner[t]] # "tracking"
        BY DEF Drops
    <2> QED BY <1>1, <2>1, <2>2 DEF Kept, Settles, Drops, Registered
<1>5. CASE ModemStep \/ (Crash /\ UNCHANGED load)
    <2>1. Kept(t) /\ reg' = reg
        BY <1>5, ModemLedger
    <2> QED BY <1>1, <2>1 DEF Kept
<1> QED BY <1>2, <1>3, <1>4, <1>5 DEF Next

-----------------------------------------------------------------------------
(* Behaviours of time based sessions only *)

\* The clients ask for no distance based session; then no request, message or
\* map is about one.
TimeOnlyLoad == \A o \in load.options : ~o.distance
TimeRequests ==
    {r \in SoundRequests : r.op = "open" \/ /\ r.op \in {"start", "stop"}
                                            /\ r.then \in {"none", "started", "updated", "stopped"}
                                            /\ r.then = "updated" => ~r.old.distance}
TimeMessages ==
    {m \in SoundMessages : m.kind = "engineUp" \/ /\ m.kind = "answer"
                                                  /\ m.then \in {"started", "updated", "stopped"}
                                                  /\ m.then = "updated" => ~m.old.distance}
TimeOnly ==
    TimeOnlyLoad => /\ api \in Seq(TimeRequests) /\ inbox \in Seq(TimeMessages) /\ pending = << >>
                    /\ DistKeys = {} /\ \A s \in TimeKeys : ~time[s].distance

LEMMA NoOptionsTimeBased == ~NoOptions.distance
BY DEF NoOptions

LEMMA TimeMultiplexed ==
    ASSUME NEW s \in Sessions, NEW r \in Multiplexed(s), r.then = "updated" => ~r.old.distance
    PROVE  r \in TimeRequests
BY DEF Multiplexed, TimeRequests

LEMMA OneOrNone ==
    ASSUME NEW S, NEW p \in Seq(S), NEW q, q = << >> \/ \E r \in S : q = <<r>>
    PROVE  p \o q \in Seq(S)
<1>1. CASE q = << >>
    BY <1>1, ConcatEmptySeq
<1>2. ASSUME NEW r \in S, q = <<r>> PROVE p \o q \in Seq(S)
    BY <1>2
<1> QED BY <1>1, <1>2

\* What the requests of a restart and of a client that goes are.
LEMMA TimeRestarts ==
    ASSUME TimeOK, DistOK, DistKeys = {}
    PROVE  RestartSessions \in Seq(TimeRequests) /\ SuspendSessions \in Seq(TimeRequests)
<1> DEFINE U == {r \in Unawaited : r.op = "open" \/ r.op \in {"start", "stop"}}
<1>1. U \subseteq TimeRequests
    BY DEF Unawaited, TimeRequests
<1>2. RestartDistanceBased = << >>
    <2>1. Cardinality(DistKeys) = 0
        BY FS_EmptySet
    <2>2. DOMAIN MapOrder(DistKeys) = {}
        BY <2>1 DEF MapOrder
    <2> QED BY <2>2 DEF RestartDistanceBased
<1>3. RestartTimeBased = << >> \/ \E r \in U : RestartTimeBased = <<r>>
    BY RestartTimeBasedServes DEF FixRequests
<1>4. << >> \in Seq(TimeRequests) /\ << >> \o RestartTimeBased \in Seq(TimeRequests)
    <2>1. << >> \in Seq(TimeRequests)
        BY EmptySeq
    <2> QED BY <1>1, <1>3, <2>1, OneOrNone
<1>5. RestartSessions \in Seq(TimeRequests)
    <2>1. RestartTimeBased \in Seq(TimeRequests)
        BY <1>1, <1>3, <1>4
    <2> QED BY <1>2, <2>1, ConcatEmptySeq DEF RestartSessions
<1>6. Request("stop", NoSession, NoOptions, "none", NoOptions) \in TimeRequests
    BY UnawaitedRequests DEF Unawaited, TimeRequests, Request
<1>7. SuspendSessions \in Seq(TimeRequests)
    <2>1. << >> \in Seq(TimeRequests) /\ \A r \in TimeRequests : <<r>> \in Seq(TimeRequests)
        BY EmptySeq
    <2> QED BY <1>6, <2>1 DEF SuspendSessions
<1> QED BY <1>5, <1>7

LEMMA TimeStopRequests ==
    ASSUME NEW own \in SUBSET Sessions
    PROVE  StopRequests(own) \subseteq TimeRequests
BY TimeMultiplexed DEF StopRequests, Stopping

LEMMA InitTimeOnly == Init => TimeOnly
<1> SUFFICES ASSUME Init PROVE TimeOnly
    OBVIOUS
<1>1. /\ api = <<OpenRequest>> /\ pending = << >> /\ inbox = << >>
      /\ time = [t \in Sessions |-> NoOptions] /\ dist = [t \in Sessions |-> NoOptions]
    BY Zenon DEF Init
<1>2. OpenRequest \in TimeRequests
    BY DEF TimeRequests, SoundRequests, OpenRequest
<1>3. TimeKeys = {} /\ DistKeys = {}
    BY <1>1 DEF TimeKeys, DistKeys
<1>4. \A r \in TimeRequests : <<r>> \in Seq(TimeRequests)
    OBVIOUS
<1>5. api \in Seq(TimeRequests) /\ inbox \in Seq(TimeMessages)
    BY <1>1, <1>2, <1>4, EmptySeq
<1> QED BY <1>1, <1>3, <1>5 DEF TimeOnly

\* The maps after a step.
MapsTimeBased == DistKeys = {} /\ \A s \in TimeKeys : ~time[s].distance

LEMMA MapsAfter ==
    ASSUME TimeOK, DistOK, MapsTimeBased, NEW s \in Sessions
    PROVE  /\ UNCHANGED <<time, dist>> => MapsTimeBased'
           /\ \A o \in Options : ~o.distance /\ SaveTrackingSession(s, o) => MapsTimeBased'
           /\ EraseTrackingSession(s) => MapsTimeBased'
<1>1. \A t \in Sessions : dist[t] = NoOptions
    BY DEF MapsTimeBased, DistKeys
<1>2. \A t \in Sessions : time[t] = NoOptions \/ ~time[t].distance
    BY DEF MapsTimeBased, TimeKeys
<1>3. UNCHANGED <<time, dist>> => MapsTimeBased'
    BY DEF MapsTimeBased, TimeKeys, DistKeys
<1>4. ASSUME NEW o \in Options, ~o.distance, SaveTrackingSession(s, o) PROVE MapsTimeBased'
    <2>1. time' = [time EXCEPT ![s] = o] /\ dist' = dist
        BY <1>4 DEF SaveTrackingSession, IsDistanceSession
    <2>2. \A t \in Sessions : time'[t] = NoOptions \/ ~time'[t].distance
        BY <1>2, <1>4, <2>1 DEF TimeOK
    <2> QED BY <1>1, <2>1, <2>2 DEF MapsTimeBased, TimeKeys, DistKeys
<1>5. ASSUME EraseTrackingSession(s) PROVE MapsTimeBased'
    <2> DEFINE none == NoOptions
    <2>1. \/ time' = [time EXCEPT ![s] = none] /\ dist' = dist
          \/ dist' = [dist EXCEPT ![s] = none] /\ time' = time
        BY <1>5 DEF EraseTrackingSession
    <2> HIDE DEF none
    <2>2. \A t \in Sessions : time'[t] = none \/ time'[t] = time[t]
        BY <2>1 DEF TimeOK
    <2>3. \A t \in Sessions : dist'[t] = none \/ dist'[t] = dist[t]
        BY <2>1 DEF DistOK
    <2>4. \A t \in Sessions : time'[t] = NoOptions \/ ~time'[t].distance
        BY <1>2, <2>2 DEF none
    <2>5. \A t \in Sessions : dist'[t] = NoOptions
        BY <1>1, <2>3 DEF none
    <2> QED BY <2>4, <2>5 DEF MapsTimeBased, TimeKeys, DistKeys
<1> QED BY <1>3, <1>4, <1>5

LEMMA StartTimeBased ==
    ASSUME TypeInv, MapsTimeBased, api \in Seq(TimeRequests), NEW s \in Sessions, NEW o \in Options,
           ~o.distance, NEW ow, HandleStart(s, o, ow)
    PROVE  MapsTimeBased' /\ api' \in Seq(TimeRequests) /\ pending' = pending
<1>0. TimeOK /\ DistOK /\ ~Waits(o) /\ ~IsDistanceSession(o)
    BY DEF TypeInv, Waits, IsDistanceSession
<1>1. CASE UNCHANGED <<time, dist, api, pending>>
    BY <1>0, <1>1, MapsAfter
<1>2. CASE /\ api' = api \o StartTimeBasedTrackingMultiplex(s, o)
           /\ SaveTrackingSession(s, o) /\ UNCHANGED pending
    <2> DEFINE q == StartTimeBasedTrackingMultiplex(s, o)
    <2>1. q = << >> \/ \E r \in Multiplexed(s) : q = <<r>> /\ r.then = "started"
        BY <1>0, StartMultiplexed
    <2>2. q = << >> \/ \E r \in TimeRequests : q = <<r>>
        BY <2>1, TimeMultiplexed
    <2> HIDE DEF q
    <2>3. api \o q \in Seq(TimeRequests)
        BY <2>2, OneOrNone
    <2> QED BY <1>0, <1>2, <2>3, MapsAfter DEF q
<1> QED BY <1>0, <1>1, <1>2 DEF HandleStart

LEMMA UpdateTimeBased ==
    ASSUME TypeInv, MapsTimeBased, api \in Seq(TimeRequests), NEW s \in Sessions, NEW o \in Options,
           ~o.distance, NEW ow, HandleUpdate(s, o, ow)
    PROVE  MapsTimeBased' /\ api' \in Seq(TimeRequests) /\ pending' = pending
<1>0. TimeOK /\ DistOK /\ ~Waits(o) /\ ~IsDistanceSession(o) /\ DistKeys = {}
    BY DEF TypeInv, Waits, IsDistanceSession, MapsTimeBased
<1>1. CASE UNCHANGED <<time, dist, api, pending>>
    BY <1>0, <1>1, MapsAfter
<1>2. CASE /\ s \in TimeKeys /\ api' = api \o UpdateTrackingMultiplex(s, o)
           /\ SaveTrackingSession(s, o) /\ UNCHANGED pending
    <2> DEFINE q == UpdateTrackingMultiplex(s, o)
    <2>1. q = << >> \/ \E r \in Multiplexed(s) : q = <<r>> /\ r.old = time[s]
        BY <1>0, <1>2, UpdateMultiplexed
    <2>2. ~time[s].distance
        BY <1>2 DEF MapsTimeBased
    <2>3. q = << >> \/ \E r \in TimeRequests : q = <<r>>
        BY <2>1, <2>2, TimeMultiplexed
    <2> HIDE DEF q
    <2>4. api \o q \in Seq(TimeRequests)
        BY <2>3, OneOrNone
    <2> QED BY <1>0, <1>2, <2>4, MapsAfter DEF q
<1> QED BY <1>0, <1>1, <1>2 DEF HandleUpdate

LEMMA StopTimeBased ==
    ASSUME TypeInv, MapsTimeBased, api \in Seq(TimeRequests), NEW s \in Sessions, NEW ow, HandleStop(s, ow)
    PROVE  MapsTimeBased' /\ api' \in Seq(TimeRequests)
<1>0. TimeOK /\ DistOK /\ DistKeys = {}
    BY DEF TypeInv, MapsTimeBased
<1>1. CASE UNCHANGED <<time, dist, api>>
    BY <1>0, <1>1, MapsAfter
<1>2. CASE /\ s \in TimeKeys /\ api' = api \o StopTimeBasedTrackingMultiplex(TimeKeys, s)
           /\ EraseTrackingSession(s)
    <2> DEFINE q == StopTimeBasedTrackingMultiplex(TimeKeys, s)
    <2>1. q = << >> \/ \E r \in Multiplexed(s) : q = <<r>> /\ r.then # "updated"
        BY <1>0, <1>2, StopMultiplexed
    <2>3. q = << >> \/ \E r \in TimeRequests : q = <<r>>
        BY <2>1, TimeMultiplexed
    <2> HIDE DEF q
    <2>4. api \o q \in Seq(TimeRequests)
        BY <2>3, OneOrNone
    <2> QED BY <1>0, <1>2, <2>4, MapsAfter DEF q
<1> QED BY <1>0, <1>1, <1>2 DEF HandleStop

LEMMA MapOrderEmpty == MapOrder({}) = << >>
<1>1. Cardinality({}) = 0
    BY FS_EmptySet
<1>2. DOMAIN MapOrder({}) = 1 .. 0
    BY <1>1 DEF MapOrder
<1>3. MapOrder({}) = [i \in 1 .. 0 |-> MapOrder({})[i]]
    BY <1>1 DEF MapOrder
<1> HIDE DEF MapOrder
<1> QED BY <1>3

LEMMA RemoveTimeBased ==
    ASSUME TypeInv, MapsTimeBased, api \in Seq(TimeRequests), NEW c, RemoveClient(c)
    PROVE  /\ MapsTimeBased' /\ api' \in Seq(TimeRequests)
           /\ api' = api \o FlattenSeq(Removed({s \in TimeKeys : Owner[s] = c}))
<1> DEFINE own == {s \in TimeKeys : Owner[s] = c}
           Q == FlattenSeq(Removed(own))
           k == MapOrder({s \in DistKeys : Owner[s] = c})
           D == [i \in DOMAIN k |-> StopDistance(k[i], NoOptions, "dRemoved")]
<1>1. Q \in Seq(StopRequests(own)) /\ own \in SUBSET Sessions
    BY RemovalKeeps DEF TypeInv, TimeKeys
<1>2. api' = (api \o Q) \o D
    BY DEF RemoveClient, Removed
<1>3. D = << >>
    <2>1. {s \in DistKeys : Owner[s] = c} = {}
        BY DEF MapsTimeBased
    <2>2. k = << >>
        BY <2>1, MapOrderEmpty
    <2> HIDE DEF k
    <2> QED BY <2>2
<1>4. StopRequests(own) \subseteq TimeRequests
    BY <1>1, TimeStopRequests
<1> HIDE DEF Q, D
<1>5. Q \in Seq(TimeRequests)
    BY <1>1, <1>4, WiderSeq
<1>6. api \o Q \in Seq(TimeRequests)
    BY <1>5
<1>7. api' = api \o Q /\ api' \in Seq(TimeRequests)
    BY <1>2, <1>3, <1>6, ConcatEmptySeq
<1>8. MapsTimeBased'
    <2> DEFINE none == NoOptions
    <2>1. time' = [s \in Sessions |-> IF s \in own THEN none ELSE time[s]] /\ dist' = dist
        BY DEF RemoveClient
    <2> HIDE DEF none, own
    <2>2. \A s \in Sessions : time'[s] = none \/ time'[s] = time[s]
        BY <2>1
    <2>3. \A s \in Sessions : time[s] = NoOptions \/ ~time[s].distance
        BY DEF MapsTimeBased, TimeKeys
    <2>4. \A s \in Sessions : time'[s] = NoOptions \/ ~time'[s].distance
        BY <2>2, <2>3 DEF none
    <2>5. DistKeys' = {}
        BY <2>1 DEF MapsTimeBased, DistKeys
    <2> QED BY <2>4, <2>5 DEF MapsTimeBased, TimeKeys
<1> QED BY <1>7, <1>8 DEF Q

LEMMA TimeOnlyHead ==
    ASSUME inbox \in Seq(TimeMessages), inbox # << >>
    PROVE  Head(inbox) \in TimeMessages /\ Tail(inbox) \in Seq(TimeMessages)
BY HeadTailProperties

LEMMA AdapterTimeOnly ==
    ASSUME TypeInv, TimeOnlyLoad, TimeOnly, AdapterStep
    PROVE  TimeOnly'
<1> DEFINE m == Head(inbox)
<1>0. /\ UNCHANGED load /\ inbox # << >> /\ TimeOK /\ DistOK /\ api \in Seq(TimeRequests)
      /\ inbox \in Seq(TimeMessages) /\ pending = << >> /\ MapsTimeBased
    <2>1. inbox # << >> /\ UNCHANGED load
        BY DEF AdapterStep, HandleEngineUp, HandleHeldCommand, StartAnswered, UpdateAnswered, StopAnswered,
            DistanceStopAnswered, RemovedStopAnswered, ToTimeAnswered, RestopAnswered,
            DistanceRestartAnswered, Answered
    <2> QED BY <2>1 DEF TypeInv, TimeOnly, MapsTimeBased
<1>1. m \in TimeMessages /\ Tail(inbox) \in Seq(TimeMessages)
    BY <1>0, TimeOnlyHead
<1>2. m.kind = "engineUp" \/ (m.kind = "answer" /\ m.then \in {"started", "updated", "stopped"})
    BY <1>1 DEF TimeMessages
<1>3. CASE HandleEngineUp
    <2>1. /\ api' = api \o RestartSessions /\ inbox' = Tail(inbox) \o pending /\ pending' = << >>
          /\ UNCHANGED <<time, dist>>
        BY <1>3 DEF HandleEngineUp
    <2>2. RestartSessions \in Seq(TimeRequests)
        BY <1>0, TimeRestarts DEF MapsTimeBased
    <2>3. api' \in Seq(TimeRequests)
        BY <1>0, <2>1, <2>2
    <2>4. inbox' \in Seq(TimeMessages)
        BY <1>0, <1>1, <2>1, ConcatEmptySeq
    <2>5. MapsTimeBased'
        BY <1>0, <2>1 DEF MapsTimeBased, TimeKeys, DistKeys
    <2> QED BY <2>1, <2>3, <2>4, <2>5 DEF TimeOnly, MapsTimeBased
<1>4. ASSUME inbox' = Tail(inbox), UNCHANGED <<pending, api>>, MapsTimeBased' PROVE TimeOnly'
    BY <1>0, <1>1, <1>4 DEF TimeOnly, MapsTimeBased
<1>5. CASE StartAnswered
    <2>1. m.kind = "answer" /\ inbox' = Tail(inbox) /\ UNCHANGED <<pending, api>>
          /\ (UNCHANGED <<time, dist>> \/ EraseTrackingSession(m.s))
        BY <1>5 DEF StartAnswered, Answered
    <2>2. m.s \in Sessions
        BY <1>1, <2>1, AnswerFields DEF TimeMessages
    <2>3. MapsTimeBased'
        BY <1>0, <2>1, <2>2, MapsAfter
    <2> QED BY <1>4, <2>1, <2>3
<1>6. CASE UpdateAnswered
    <2>1. m.kind = "answer" /\ m.then = "updated" /\ inbox' = Tail(inbox) /\ UNCHANGED <<pending, api>>
          /\ (UNCHANGED <<time, dist>> \/ SaveTrackingSession(m.s, m.old))
        BY <1>6 DEF UpdateAnswered, Answered
    <2>2. m.s \in Sessions /\ m.old \in Options /\ ~m.old.distance
        BY <1>1, <2>1, AnswerFields DEF TimeMessages
    <2>3. MapsTimeBased'
        BY <1>0, <2>1, <2>2, MapsAfter
    <2> QED BY <1>4, <2>1, <2>3
<1>7. CASE StopAnswered
    <2>1. m.kind = "answer" /\ inbox' = Tail(inbox) /\ UNCHANGED <<pending, api, time, dist>>
        BY <1>7 DEF StopAnswered, Answered
    <2>3. MapsTimeBased'
        BY <1>0, <2>1 DEF MapsTimeBased, TimeKeys, DistKeys
    <2> QED BY <1>4, <2>1, <2>3
<1>8. ~(HandleHeldCommand \/ DistanceStopAnswered \/ RemovedStopAnswered \/ ToTimeAnswered
          \/ RestopAnswered \/ DistanceRestartAnswered)
    <2>1. HandleHeldCommand => m.kind \in {"start", "update"}
        BY DEF HandleHeldCommand
    <2>2. DistanceStopAnswered \/ RemovedStopAnswered \/ ToTimeAnswered \/ RestopAnswered \/ DistanceRestartAnswered
            => m.kind = "answer" /\ m.then \in {"dStopped", "dRemoved", "toTime", "dRestop", "dRestarted"}
        BY DEF DistanceStopAnswered, RemovedStopAnswered, ToTimeAnswered, RestopAnswered,
               DistanceRestartAnswered, Answered
    <2> HIDE DEF m
    <2> QED BY <1>2, <2>1, <2>2
<1> QED BY <1>3, <1>5, <1>6, <1>7, <1>8 DEF AdapterStep

LEMMA LoadStays == [Next]_vars => UNCHANGED load
<1>1. UNCHANGED vars => UNCHANGED load
    BY DEF vars
<1>2. Next => UNCHANGED load
    BY Zenon DEF Next, ClientStep, AdapterStep, ModemStep
<1> QED BY <1>1, <1>2

LEMMA StepTimeOnly == TypeInv /\ TimeOnly /\ [Next]_vars => TimeOnly'
<1> SUFFICES ASSUME TypeInv, TimeOnly, [Next]_vars PROVE TimeOnly'
    OBVIOUS
<1>a. UNCHANGED load
    BY LoadStays
<1> SUFFICES ASSUME TimeOnlyLoad PROVE TimeOnly'
    BY <1>a DEF TimeOnly, TimeOnlyLoad
<1>0. /\ UNCHANGED load /\ TimeOK /\ DistOK /\ api \in Seq(TimeRequests)
      /\ inbox \in Seq(TimeMessages) /\ pending = << >> /\ MapsTimeBased
    BY LoadStays DEF TypeInv, TimeOnly, MapsTimeBased
<1>1. ASSUME MapsTimeBased', api' \in Seq(TimeRequests), inbox' \in Seq(TimeMessages), pending' = pending
      PROVE  TimeOnly'
    BY <1>0, <1>1 DEF TimeOnly, MapsTimeBased
<1>2. UNCHANGED <<time, dist>> => MapsTimeBased'
    BY <1>0 DEF MapsTimeBased, TimeKeys, DistKeys
<1>3. CASE UNCHANGED vars
    BY <1>0, <1>1, <1>2, <1>3 DEF vars
<1>4. CASE AdapterStep
    BY <1>4, AdapterTimeOnly
<1>5. CASE ClientStep
    <2>1. UNCHANGED inbox
        BY <1>5 DEF ClientStep, AddClient, StartTracking, UpdateTrackingOptions, StopTrackingCommand,
            RemoveClient, SuspendAndRestart
    <2>0. \A o \in load.options : o \in Options /\ ~o.distance
        BY LoadTypes DEF TimeOnlyLoad
    <2>2. ASSUME NEW s \in Sessions, NEW o \in load.options, StartTracking(s, o) PROVE TimeOnly'
        <3>1. MapsTimeBased' /\ api' \in Seq(TimeRequests) /\ pending' = pending
            BY <1>0, <2>0, <2>2, StartTimeBased DEF StartTracking
        <3> QED BY <1>0, <1>1, <2>1, <3>1
    <2>3. ASSUME NEW s \in Sessions, NEW o \in load.options, UpdateTrackingOptions(s, o) PROVE TimeOnly'
        <3>1. MapsTimeBased' /\ api' \in Seq(TimeRequests) /\ pending' = pending
            BY <1>0, <2>0, <2>3, UpdateTimeBased DEF UpdateTrackingOptions
        <3> QED BY <1>0, <1>1, <2>1, <3>1
    <2>4. ASSUME NEW s \in Sessions, StopTrackingCommand(s) PROVE TimeOnly'
        <3>1. MapsTimeBased' /\ api' \in Seq(TimeRequests) /\ pending' = pending
            BY <1>0, <2>4, StopTimeBased DEF StopTrackingCommand
        <3> QED BY <1>0, <1>1, <2>1, <3>1
    <2>5. ASSUME NEW c \in Clients, RemoveClient(c) PROVE TimeOnly'
        <3>1. MapsTimeBased' /\ api' \in Seq(TimeRequests)
            BY <1>0, <2>5, RemoveTimeBased
        <3>2. pending' = pending
            BY <2>5 DEF RemoveClient
        <3> QED BY <1>0, <1>1, <2>1, <3>1, <3>2
    <2>6. CASE SuspendAndRestart
        <3>1. api' = (api \o SuspendSessions) \o RestartSessions /\ UNCHANGED <<pending, time, dist>>
            BY <2>6 DEF SuspendAndRestart
        <3>2. RestartSessions \in Seq(TimeRequests) /\ SuspendSessions \in Seq(TimeRequests)
            BY <1>0, TimeRestarts DEF MapsTimeBased
        <3>3. api' \in Seq(TimeRequests)
            BY <1>0, <3>1, <3>2
        <3> QED BY <1>0, <1>1, <1>2, <2>1, <3>1, <3>3
    <2>7. CASE \E c \in Clients, kind \in CallbackKinds : AddClient(c, kind)
        BY <1>0, <1>1, <1>2, <2>1, <2>7 DEF AddClient
    <2> QED BY <1>5, <2>2, <2>3, <2>4, <2>5, <2>6, <2>7 DEF ClientStep
<1>6. CASE ServeRequest
    <2> DEFINE r == Head(api)
    <2>1. r \in TimeRequests /\ Tail(api) \in Seq(TimeRequests) /\ r.op # "open"
        BY <1>0, <1>6, HeadTailProperties DEF ServeRequest
    <2>2. PICK ok \in BOOLEAN :
             inbox' = IF r.then = "none" THEN inbox ELSE Append(inbox, Answer(r, ok))
        BY <1>6 DEF ServeRequest, Outcomes
    <2>3. r.then # "none" => Answer(r, ok) \in TimeMessages
        <3>1. r \in SoundRequests
            BY <2>1 DEF TimeRequests
        <3>2. r.then # "none" => Answer(r, ok) \in SoundMessages
            BY <2>1, <3>1, AnswersAreSound
        <3>3. /\ Answer(r, ok).kind = "answer" /\ Answer(r, ok).then = r.then
              /\ Answer(r, ok).old = r.old
            BY DEF Answer
        <3> HIDE DEF r
        <3> QED BY <2>1, <3>2, <3>3 DEF TimeRequests, TimeMessages
    <2>4. inbox' \in Seq(TimeMessages)
        BY <1>0, <2>2, <2>3
    <2>5. api' = Tail(api) /\ UNCHANGED <<pending, time, dist>>
        BY <1>6 DEF ServeRequest
    <2> QED BY <1>1, <1>2, <2>1, <2>4, <2>5
<1>7. CASE Open
    <2>1. /\ api' = Tail(api) /\ (inbox' = inbox \/ inbox' = Append(inbox, EngineUp))
          /\ UNCHANGED <<pending, time, dist>> /\ api # << >>
        BY <1>7, OpenIs DEF Open
    <2>2. EngineUp \in TimeMessages /\ Tail(api) \in Seq(TimeRequests)
        BY <1>0, <2>1, HeadTailProperties DEF TimeMessages, SoundMessages, EngineUp
    <2>3. inbox' \in Seq(TimeMessages)
        <3>1. Append(inbox, EngineUp) \in Seq(TimeMessages)
            BY <1>0, <2>2, AppendProperties, Zenon
        <3> QED BY <1>0, <2>1, <3>1
    <2> QED BY <1>1, <1>2, <2>1, <2>2, <2>3
<1>8. CASE Crash
    <2>1. api' = Append(api, OpenRequest) /\ UNCHANGED <<inbox, pending, time, dist>>
        BY <1>8 DEF Crash
    <2>2. OpenRequest \in TimeRequests
        BY DEF TimeRequests, SoundRequests, OpenRequest
    <2>3. api' \in Seq(TimeRequests)
        <3>1. Append(api, OpenRequest) \in Seq(TimeRequests)
            BY <1>0, <2>2, AppendProperties, Zenon
        <3> QED BY <2>1, <3>1, Zenon
    <2> QED BY <1>0, <1>1, <1>2, <2>1, <2>3
<1> QED BY <1>3, <1>4, <1>5, <1>6, <1>7, <1>8 DEF Next, ModemStep

-----------------------------------------------------------------------------
(* The queues from one step to the next *)

\* Clients and the adapter only append requests.
Grows == \E R \in Seq(SoundRequests) : api' = api \o R

LEMMA ClientGrows ==
    ASSUME TypeInv, ClientStep
    PROVE  Grows /\ UNCHANGED <<inbox, modem, known>>
<1>0. /\ api \in Seq(SoundRequests) /\ << >> \in Seq(SoundRequests) /\ api = api \o << >>
      /\ \A o \in load.options : o \in Options
    BY EmptySeq, ConcatEmptySeq, LoadTypes DEF TypeInv
<1>1. UNCHANGED <<inbox, modem, known>>
    BY DEF ClientStep, AddClient, StartTracking, UpdateTrackingOptions, StopTrackingCommand,
        RemoveClient, SuspendAndRestart
<1>2. ASSUME NEW s \in Sessions, NEW ow, \E R : Handled(s, R, ow) PROVE Grows
    BY <1>2 DEF Handled, Grows
<1>3. ASSUME NEW s \in Sessions, NEW o \in load.options, StartTracking(s, o) PROVE Grows
    <2>1. \E R : Handled(s, R, Owe(s))
        BY <1>0, <1>3, StartHandled DEF StartTracking
    <2> QED BY <1>2, <2>1
<1>4. ASSUME NEW s \in Sessions, NEW o \in load.options, UpdateTrackingOptions(s, o) PROVE Grows
    <2>1. \E R : Handled(s, R, Owe(s))
        BY <1>0, <1>4, UpdateHandled DEF UpdateTrackingOptions
    <2> QED BY <1>2, <2>1
<1>5. ASSUME NEW s \in Sessions, StopTrackingCommand(s) PROVE Grows
    <2>1. \E R : Handled(s, R, Owe(s))
        BY <1>5, StopHandled DEF StopTrackingCommand
    <2> QED BY <1>2, <2>1
<1>6. ASSUME NEW Q \in Seq(SoundRequests), NEW D \in Seq(SoundRequests), api' = (api \o Q) \o D PROVE Grows
    <2>1. \A x, y, z \in Seq(SoundRequests) : (x \o y) \o z = x \o (y \o z)
        BY ConcatAssociative
    <2>2. Q \o D \in Seq(SoundRequests) /\ api' = api \o (Q \o D)
        BY <1>0, <1>6, <2>1
    <2> QED BY <2>2 DEF Grows
<1>7. ASSUME NEW c \in Clients, RemoveClient(c) PROVE Grows
    <2> DEFINE own == {s \in TimeKeys : Owner[s] = c}
               Q == FlattenSeq(Removed(own))
    <2>1. PICK D \in Seq(RemovalRequests) : Q \in Seq(StopRequests(own)) /\ api' = (api \o Q) \o D
        BY <1>7, RemoveClientAsks
    <2>2. own \in SUBSET Sessions
        BY DEF TimeKeys
    <2> HIDE DEF Q
    <2>3. StopRequests(own) \subseteq SoundRequests /\ RemovalRequests \subseteq SoundRequests
        BY <2>2, StopRequestsAreSound DEF RemovalRequests
    <2>4. D \in Seq(SoundRequests) /\ Q \in Seq(SoundRequests)
        BY <2>1, <2>3, WiderSeq
    <2> QED BY <1>6, <2>1, <2>4
<1>8. CASE SuspendAndRestart
    <2>1. SuspendSessions \in Seq(SoundRequests) /\ RestartSessions \in Seq(SoundRequests)
        BY RestartsAreUnawaited, UnawaitedAreSound, WiderSeq DEF TypeInv
    <2>2. api' = (api \o SuspendSessions) \o RestartSessions
        BY <1>8 DEF SuspendAndRestart
    <2> QED BY <1>1, <1>6, <2>1, <2>2
<1>9. CASE \E c \in Clients, kind \in CallbackKinds : AddClient(c, kind)
    <2>1. api' = api
        BY <1>9 DEF AddClient
    <2>2. api' = api \o << >>
        BY <1>0, <2>1
    <2> QED BY <1>0, <1>1, <2>2 DEF Grows
<1> QED BY <1>1, <1>3, <1>4, <1>5, <1>7, <1>8, <1>9 DEF ClientStep

LEMMA AdapterGrows ==
    ASSUME TypeInv, AdapterStep
    PROVE  /\ Grows /\ inbox # << >> /\ UNCHANGED modem
           /\ \/ Head(inbox).kind # "engineUp" /\ inbox' = Tail(inbox) /\ UNCHANGED known
              \/ Head(inbox).kind = "engineUp" /\ inbox' = Tail(inbox) \o pending /\ known'
<1> DEFINE m == Head(inbox)
<1>0. /\ api \in Seq(SoundRequests) /\ << >> \in Seq(SoundRequests) /\ api = api \o << >>
      /\ (UNCHANGED api => Grows)
    <2>1. api \in Seq(SoundRequests) /\ << >> \in Seq(SoundRequests) /\ api = api \o << >>
        BY EmptySeq, ConcatEmptySeq DEF TypeInv
    <2>2. UNCHANGED api => api' = api \o << >>
        BY <2>1
    <2> QED BY <2>1, <2>2 DEF Grows
<1>1. inbox # << >> /\ UNCHANGED modem
    BY DEF AdapterStep, HandleEngineUp, HandleHeldCommand, StartAnswered, UpdateAnswered, StopAnswered,
        DistanceStopAnswered, RemovedStopAnswered, ToTimeAnswered, RestopAnswered,
        DistanceRestartAnswered, Answered
<1>a. m \in SoundMessages
    BY <1>1, HeadOfInbox
<1>2. CASE HandleEngineUp
    <2>1. /\ api' = api \o RestartSessions /\ m.kind = "engineUp"
          /\ inbox' = Tail(inbox) \o pending /\ known'
        BY <1>2 DEF HandleEngineUp
    <2>2. RestartSessions \in Seq(SoundRequests)
        BY RestartsAreUnawaited, UnawaitedAreSound, WiderSeq DEF TypeInv
    <2> QED BY <1>1, <2>1, <2>2 DEF Grows
<1>3. CASE HandleHeldCommand
    <2>1. m.kind \in {"start", "update"} /\ inbox' = Tail(inbox) /\ UNCHANGED known
        BY <1>3 DEF HandleHeldCommand
    <2>2. m.s \in Sessions /\ m.opts \in Options
        BY <1>a, <2>1, HeldFields
    <2>3. \E R : Handled(m.s, R, owed)
        BY <1>3, <2>2, StartHandled, UpdateHandled DEF HandleHeldCommand
    <2>4. Grows
        BY <2>3 DEF Handled, Grows
    <2> QED BY <1>1, <2>1, <2>4
<1>4. CASE StartAnswered \/ UpdateAnswered \/ StopAnswered \/ DistanceStopAnswered \/ DistanceRestartAnswered
           \/ RemovedStopAnswered \/ ToTimeAnswered \/ RestopAnswered
    <2>1. m.kind = "answer" /\ inbox' = Tail(inbox) /\ UNCHANGED known
        BY <1>4 DEF StartAnswered, UpdateAnswered, StopAnswered,
            DistanceStopAnswered, RemovedStopAnswered, ToTimeAnswered, RestopAnswered,
            DistanceRestartAnswered, Answered
    <2>2. CASE UNCHANGED api
        BY <1>0, <1>1, <2>1, <2>2
    <2>3. CASE ToTimeAnswered
        <3> DEFINE q == StartTimeBasedTrackingMultiplex(m.s, m.opts)
        <3>1. m.then = "toTime" /\ api' = api \o q
            BY <2>3 DEF ToTimeAnswered, Answered
        <3>2. m.s \in Sessions /\ m.opts \in Options
            BY <1>a, <2>1, <3>1, AnswerFields
        <3>3. q = << >> \/ \E r \in Multiplexed(m.s) : q = <<r>>
            BY <3>2, StartMultiplexed DEF TypeInv
        <3> HIDE DEF q
        <3>4. q \in Seq(SoundRequests)
            <4>1. \A r \in Multiplexed(m.s) : r \in SoundRequests /\ <<r>> \in Seq(SoundRequests)
                BY DEF Multiplexed
            <4> QED BY <1>0, <3>3, <4>1
        <3>5. Grows
            BY <3>1, <3>4 DEF Grows
        <3> QED BY <1>1, <2>1, <3>5
    <2>4. CASE RestopAnswered
        <3> DEFINE r == StartDistance(m.s, m.opts, "dRestarted")
        <3>1. m.then = "dRestop" /\ (UNCHANGED api \/ api' = Append(api, r))
            BY <2>4 DEF RestopAnswered, Answered
        <3>2. m.s \in Sessions /\ m.opts \in Options /\ m.opts.distance
            BY <1>a, <2>1, <3>1, AnswerFields
        <3>3. r \in SoundRequests
            BY <3>2, DistanceRequestsAreSound
        <3> HIDE DEF r
        <3>4. <<r>> \in Seq(SoundRequests) /\ Append(api, r) = api \o <<r>>
            BY <1>0, <3>3, AppendIsConcat
        <3>5. Grows
            BY <1>0, <3>1, <3>4 DEF Grows
        <3> QED BY <1>1, <2>1, <3>5
    <2>5. StartAnswered \/ UpdateAnswered \/ StopAnswered \/ DistanceStopAnswered \/ DistanceRestartAnswered
           \/ RemovedStopAnswered => UNCHANGED api
        BY DEF StartAnswered, UpdateAnswered, StopAnswered,
            DistanceStopAnswered, RemovedStopAnswered, DistanceRestartAnswered
    <2> QED BY <1>4, <2>2, <2>3, <2>4, <2>5
<1> QED BY <1>2, <1>3, <1>4 DEF AdapterStep

-----------------------------------------------------------------------------
(* The modem goes and comes back *)

\* A request to open the modem, an engine-up behind place i, a refused request;
\* and a modem that refuses none while it is up.
Opens(q) == \E i \in 1 .. Len(q) : q[i].op = "open"
ComesUp(q, i) == \E j \in 1 .. Len(q) : j > i /\ q[j].kind = "engineUp"
Failed(m) == m.kind = "answer" /\ ~m.ok
Reliable == ~EngineFails /\ (DistanceSupported \/ TimeOnlyLoad)

\* A modem that is down has a request to open it, which may fail; the adapter is
\* told afterwards.
OpensAgain == ~up => EngineFails \/ Opens(api)
\* The adapter knows of a modem that is up, or will.
LearnsOfEngine == up => known \/ ComesUp(inbox, 0)
\* A failure comes before the next engine-up.
FailuresRecover ==
    Reliable => \A i \in 1 .. Len(inbox) : Failed(inbox[i]) => Opens(api) \/ ComesUp(inbox, i)
\* Where the modem does not restart, nothing fails.
NothingFails ==
    Reliable /\ crashes = 0 => /\ up \/ (api # << >> /\ Head(api).op = "open")
                               /\ \A i \in 1 .. Len(inbox) : ~Failed(inbox[i])
Recovery == OpensAgain /\ LearnsOfEngine /\ FailuresRecover /\ NothingFails

LEMMA OpensConcat ==
    ASSUME NEW S, NEW p \in Seq(S), NEW q \in Seq(S)
    PROVE  /\ Opens(p) => Opens(p \o q)
           /\ p # << >> => p \o q # << >> /\ Head(p \o q) = Head(p)
<1>1. Len(p) \in Nat /\ Len(q) \in Nat /\ Len(p \o q) = Len(p) + Len(q)
    BY ConcatProperties, LenProperties
<1>2. \A i \in 1 .. Len(p) : i \in 1 .. Len(p \o q) /\ (p \o q)[i] = p[i]
    BY <1>1, ConcatProperties
<1>3. ASSUME p # << >> PROVE p \o q # << >> /\ Head(p \o q) = Head(p)
    <2>1. Len(p) > 0 /\ p \o q \in Seq(S)
        BY <1>1, <1>3, EmptySeq, ConcatProperties
    <2>2. 1 \in 1 .. Len(p) /\ Len(p \o q) > 0
        BY <1>1, <2>1
    <2>3. p \o q # << >>
        BY <2>1, <2>2, EmptySeq
    <2> QED BY <1>2, <1>3, <2>1, <2>2, <2>3, HeadTailProperties
<1> QED BY <1>2, <1>3 DEF Opens

LEMMA TailIndex ==
    ASSUME NEW S, NEW q \in Seq(S), q # << >>
    PROVE  /\ Tail(q) \in Seq(S) /\ Len(q) \in Nat /\ Len(Tail(q)) = Len(q) - 1 /\ Head(q) = q[1]
           /\ \A i \in 1 .. Len(Tail(q)) : Tail(q)[i] = q[i + 1] /\ i + 1 \in 1 .. Len(q)
           /\ \A i \in 1 .. Len(q) : i # 1 => i - 1 \in 1 .. Len(Tail(q)) /\ Tail(q)[i - 1] = q[i]
<1>1. /\ Tail(q) \in Seq(S) /\ Len(q) \in Nat \ {0} /\ Len(Tail(q)) = Len(q) - 1 /\ Head(q) = q[1]
      /\ \A i \in 1 .. Len(Tail(q)) : Tail(q)[i] = q[i + 1] /\ i + 1 \in 1 .. Len(q)
    BY EmptySeq, LenProperties, HeadTailProperties
<1>2. ASSUME NEW j \in 1 .. Len(q), j # 1
      PROVE  j - 1 \in 1 .. Len(Tail(q)) /\ Tail(q)[j - 1] = q[j]
    <2>1. j - 1 \in 1 .. Len(Tail(q)) /\ (j - 1) + 1 = j
        BY <1>1, <1>2
    <2> QED BY <1>1, <2>1
<1> QED BY <1>1, <1>2

LEMMA OpensTail ==
    ASSUME NEW S, NEW q \in Seq(S), q # << >>, Head(q).op # "open", Opens(q)
    PROVE  Opens(Tail(q))
<1>1. PICK i \in 1 .. Len(q) : q[i].op = "open"
    BY DEF Opens
<1>2. i # 1
    BY <1>1, TailIndex
<1>3. i - 1 \in 1 .. Len(Tail(q)) /\ Tail(q)[i - 1] = q[i]
    BY <1>2, TailIndex
<1> DEFINE k == i - 1
<1>4. k \in 1 .. Len(Tail(q)) /\ Tail(q)[k].op = "open"
    BY <1>1, <1>3
<1> HIDE DEF k
<1> QED BY <1>4 DEF Opens

LEMMA ComesUpTail ==
    ASSUME NEW S, NEW q \in Seq(S), q # << >>, NEW i \in Nat, i # 0, ComesUp(q, i)
    PROVE  ComesUp(Tail(q), i - 1)
<1>1. PICK j \in 1 .. Len(q) : j > i /\ q[j].kind = "engineUp"
    BY DEF ComesUp
<1>2. j # 1
    BY <1>1
<1>3. j - 1 \in 1 .. Len(Tail(q)) /\ Tail(q)[j - 1].kind = "engineUp" /\ j - 1 > i - 1
    BY <1>1, <1>2, TailIndex
<1> QED BY <1>3 DEF ComesUp

LEMMA AppendIndex ==
    ASSUME NEW S, NEW q \in Seq(S), NEW x \in S
    PROVE  /\ Append(q, x) \in Seq(S) /\ Len(q) \in Nat /\ Len(Append(q, x)) = Len(q) + 1
           /\ Append(q, x)[Len(q) + 1] = x
           /\ \A i \in 1 .. Len(q) : Append(q, x)[i] = q[i] /\ i \in 1 .. Len(Append(q, x))
           /\ \A i \in 1 .. Len(Append(q, x)) : i # Len(q) + 1 => i \in 1 .. Len(q)
BY AppendProperties, LenProperties

LEMMA ConcatIndex ==
    ASSUME NEW S, NEW p \in Seq(S), NEW q \in Seq(S)
    PROVE  /\ p \o q \in Seq(S) /\ Len(p) \in Nat /\ Len(q) \in Nat
           /\ \A i \in 1 .. Len(p) : (p \o q)[i] = p[i] /\ i \in 1 .. Len(p \o q)
           /\ \A i \in 1 .. Len(p \o q) : i \notin 1 .. Len(p) =>
                i - Len(p) \in 1 .. Len(q) /\ (p \o q)[i] = q[i - Len(p)]
<1>1. Len(p) \in Nat /\ Len(q) \in Nat /\ Len(p \o q) = Len(p) + Len(q) /\ p \o q \in Seq(S)
    BY ConcatProperties, LenProperties
<1> QED BY <1>1, ConcatProperties

LEMMA InitRecovery == Init => Recovery
<1> SUFFICES ASSUME Init PROVE Recovery
    OBVIOUS
<1>1. api = <<OpenRequest>> /\ inbox = << >> /\ ~up
    BY Zenon DEF Init
<1>2. Len(api) = 1 /\ api[1] = OpenRequest /\ Head(api) = OpenRequest /\ api # << >>
    BY <1>1
<1>3. OpenRequest.op = "open" /\ 1 \in 1 .. Len(api)
    BY <1>2 DEF OpenRequest
<1>4. Len(inbox) = 0
    BY <1>1
<1> QED BY <1>1, <1>2, <1>3, <1>4
    DEF Recovery, OpensAgain, LearnsOfEngine, FailuresRecover, NothingFails, Opens

LEMMA AdapterRecovery == TypeInv /\ Recovery /\ AdapterStep => Recovery'
<1> SUFFICES ASSUME TypeInv, Recovery, AdapterStep PROVE Recovery'
    OBVIOUS
<1>0. /\ Grows /\ inbox # << >> /\ UNCHANGED modem
      /\ \/ Head(inbox).kind # "engineUp" /\ inbox' = Tail(inbox) /\ UNCHANGED known
         \/ Head(inbox).kind = "engineUp" /\ inbox' = Tail(inbox) \o pending /\ known'
    BY AdapterGrows
<1>a. (TimeOnlyLoad' <=> TimeOnlyLoad) /\ UNCHANGED <<up, crashes>>
    <2>1. UNCHANGED load
        BY LoadStays DEF Next
    <2> QED BY <1>0, <2>1 DEF TimeOnlyLoad, modem
<1>1. PICK R \in Seq(SoundRequests) : api' = api \o R
    BY <1>0 DEF Grows
<1>2. /\ Opens(api) => Opens(api')
      /\ api # << >> => api' # << >> /\ Head(api') = Head(api)
    BY <1>1, OpensConcat DEF TypeInv
<1>3. /\ Tail(inbox) \in Seq(SoundMessages) /\ inbox \in Seq(SoundMessages)
      /\ pending \in Seq(SoundMessages) /\ \A i \in 1 .. Len(pending) : ~Failed(pending[i])
    <2>1. Held \subseteq SoundMessages /\ \A c \in Held : ~Failed(c)
        BY DEF SoundMessages, Held, Failed
    <2>2. \A i \in 1 .. Len(pending) : pending[i] \in Held
        BY DEF TypeInv
    <2> QED BY <1>0, <2>1, <2>2, HeadOfInbox, WiderSeq DEF TypeInv
<1>4. \E P \in Seq(SoundMessages) : inbox' = Tail(inbox) \o P /\ \A i \in 1 .. Len(P) : ~Failed(P[i])
    <2>1. << >> \in Seq(SoundMessages) /\ Tail(inbox) = Tail(inbox) \o << >> /\ Len(<< >>) = 0
        BY <1>3, EmptySeq, ConcatEmptySeq
    <2>2. ASSUME NEW P \in Seq(SoundMessages), inbox' = Tail(inbox) \o P, \A i \in 1 .. Len(P) : ~Failed(P[i])
          PROVE  \E Q \in Seq(SoundMessages) : inbox' = Tail(inbox) \o Q /\ \A i \in 1 .. Len(Q) : ~Failed(Q[i])
        BY <2>2
    <2>3. CASE inbox' = Tail(inbox)
        <3>1. inbox' = Tail(inbox) \o << >> /\ \A i \in 1 .. Len(<< >>) : ~Failed(<< >>[i])
            BY <2>1, <2>3
        <3> QED BY <2>1, <2>2, <3>1, Zenon
    <2>4. CASE inbox' = Tail(inbox) \o pending
        BY <1>3, <2>2, <2>4
    <2> QED BY <1>0, <2>3, <2>4
<1>5. PICK P \in Seq(SoundMessages) : inbox' = Tail(inbox) \o P /\ \A i \in 1 .. Len(P) : ~Failed(P[i])
    BY <1>4
<1>6. ASSUME NEW i \in 1 .. Len(inbox'), Failed(inbox'[i])
      PROVE  /\ i + 1 \in 1 .. Len(inbox) /\ Failed(inbox[i + 1])
    <2>1. i \in 1 .. Len(Tail(inbox)) /\ inbox'[i] = Tail(inbox)[i]
        BY <1>3, <1>5, <1>6, ConcatIndex
    <2> QED BY <1>0, <1>3, <1>6, <2>1, TailIndex
<1>7. ASSUME NEW i \in Nat, ComesUp(inbox, i + 1) PROVE ComesUp(inbox', i)
    <2>1. ComesUp(Tail(inbox), (i + 1) - 1)
        BY <1>0, <1>3, <1>7, ComesUpTail
    <2>2. PICK j \in 1 .. Len(Tail(inbox)) : j > i /\ Tail(inbox)[j].kind = "engineUp"
        BY <2>1 DEF ComesUp
    <2>3. j \in 1 .. Len(inbox') /\ inbox'[j] = Tail(inbox)[j]
        BY <1>3, <1>5, ConcatIndex
    <2> QED BY <2>2, <2>3 DEF ComesUp
<1>8. OpensAgain'
    BY <1>a, <1>2 DEF Recovery, OpensAgain
<1>9. LearnsOfEngine'
    <2>1. CASE Head(inbox).kind # "engineUp" /\ inbox' = Tail(inbox) /\ UNCHANGED known
        <3>1. ComesUp(inbox, 0) => ComesUp(inbox, 1)
            <4>1. ASSUME ComesUp(inbox, 0) PROVE ComesUp(inbox, 1)
                <5>1. PICK j \in 1 .. Len(inbox) : inbox[j].kind = "engineUp"
                    BY <4>1 DEF ComesUp
                <5>2. j # 1
                    BY <1>0, <1>3, <2>1, <5>1, TailIndex
                <5>3. j > 1
                    BY <5>2
                <5> QED BY <5>1, <5>3 DEF ComesUp
            <4> QED BY <4>1
        <3>2. ComesUp(inbox, 0) => ComesUp(inbox', 0)
            BY <1>7, <3>1
        <3> QED BY <1>a, <2>1, <3>2 DEF Recovery, LearnsOfEngine
    <2>2. CASE known'
        BY <2>2 DEF LearnsOfEngine
    <2> QED BY <1>0, <2>1, <2>2
<1>10. FailuresRecover'
    <2> SUFFICES ASSUME Reliable', NEW i \in 1 .. Len(inbox'), Failed(inbox'[i])
                 PROVE  Opens(api') \/ ComesUp(inbox', i)
        BY DEF FailuresRecover
    <2>1. Reliable
        BY <1>a DEF Reliable
    <2>2. Opens(api) \/ ComesUp(inbox, i + 1)
        BY <1>6, <2>1 DEF Recovery, FailuresRecover
    <2> QED BY <1>2, <1>7, <2>2
<1>11. NothingFails'
    <2> SUFFICES ASSUME Reliable', crashes' = 0
                 PROVE  /\ up' \/ (api' # << >> /\ Head(api').op = "open")
                        /\ \A i \in 1 .. Len(inbox') : ~Failed(inbox'[i])
        BY DEF NothingFails, Failed
    <2>1. Reliable /\ crashes = 0
        BY <1>a DEF Reliable
    <2>2. /\ up \/ (api # << >> /\ Head(api).op = "open")
          /\ \A i \in 1 .. Len(inbox) : ~Failed(inbox[i])
        BY <2>1 DEF Recovery, NothingFails
    <2> QED BY <1>a, <1>2, <1>6, <2>2
<1> QED BY <1>8, <1>9, <1>10, <1>11 DEF Recovery

LEMMA ModemRecovery == TypeInv /\ TimeOnly /\ Recovery /\ ModemStep => Recovery'
<1> SUFFICES ASSUME TypeInv, TimeOnly, Recovery, ModemStep PROVE Recovery'
    OBVIOUS
<1>0. (TimeOnlyLoad' <=> TimeOnlyLoad) /\ api \in Seq(SoundRequests) /\ inbox \in Seq(SoundMessages)
    <2>1. UNCHANGED load
        BY LoadStays DEF Next
    <2> QED BY <2>1 DEF TimeOnlyLoad, TypeInv
<1>1. CASE ServeRequest
    <2> DEFINE r == Head(api)
    <2>1. PICK ok \in Outcomes(r) :
             inbox' = IF r.then = "none" THEN inbox ELSE Append(inbox, Answer(r, ok))
        BY <1>1 DEF ServeRequest
    <2>2. api # << >> /\ r.op # "open" /\ api' = Tail(api) /\ UNCHANGED <<up, crashes, known>> /\ ok \in BOOLEAN
        BY <1>1 DEF ServeRequest, Outcomes
    <2>3. r \in SoundRequests
        BY <1>0, <2>2, HeadTailProperties
    <2>4. Opens(api) => Opens(api')
        BY <1>0, <2>2, OpensTail
    <2>5. Reliable /\ ~ok => ~up
        <3>1. Reliable => DistanceSupported \/ r.op \notin {"startD", "stopD"}
            <4>1. TimeOnlyLoad => r \in TimeRequests
                BY <2>2, HeadTailProperties DEF TimeOnly
            <4> QED BY <2>2, <4>1 DEF Reliable, TimeRequests
        <3> QED BY <3>1 DEF Reliable, Outcomes
    <2> DEFINE a == Answer(r, ok)
    <2>6. a.kind = "answer" /\ a.ok = ok
        BY DEF Answer
    <2>7. r.then # "none" => a \in SoundMessages
        BY <2>2, <2>3, AnswersAreSound
    <2>8. inbox' = inbox \/ (inbox' = Append(inbox, a) /\ a \in SoundMessages)
        BY <2>1, <2>7
    <2> HIDE DEF a, r
    <2>9. ASSUME NEW i \in 1 .. Len(inbox')
          PROVE  (i \in 1 .. Len(inbox) /\ inbox'[i] = inbox[i]) \/ inbox'[i] = a
        BY <1>0, <2>8, AppendIndex
    <2>10. ASSUME NEW i \in Nat, ComesUp(inbox, i) PROVE ComesUp(inbox', i)
        <3>1. PICK j \in 1 .. Len(inbox) : j > i /\ inbox[j].kind = "engineUp"
            BY <2>10 DEF ComesUp
        <3>2. j \in 1 .. Len(inbox') /\ inbox'[j] = inbox[j]
            BY <1>0, <2>8, AppendIndex
        <3> QED BY <3>1, <3>2 DEF ComesUp
    <2>11. OpensAgain'
        BY <2>2, <2>4 DEF Recovery, OpensAgain
    <2>12. LearnsOfEngine'
        BY <2>2, <2>10 DEF Recovery, LearnsOfEngine
    <2>13. FailuresRecover'
        <3> SUFFICES ASSUME Reliable', NEW i \in 1 .. Len(inbox'), Failed(inbox'[i])
                     PROVE  Opens(api') \/ ComesUp(inbox', i)
            BY DEF FailuresRecover
        <3>1. Reliable
            BY <1>0 DEF Reliable
        <3>2. CASE i \in 1 .. Len(inbox) /\ inbox'[i] = inbox[i]
            <4>1. Opens(api) \/ ComesUp(inbox, i)
                BY <3>1, <3>2 DEF Recovery, FailuresRecover
            <4> QED BY <2>4, <2>10, <3>2, <4>1
        <3>3. CASE inbox'[i] = a
            <4>1. ~ok
                BY <2>6, <3>3 DEF Failed
            <4> QED BY <2>4, <2>5, <3>1, <4>1 DEF Recovery, OpensAgain, Reliable
        <3> QED BY <2>9, <3>2, <3>3
    <2>14. NothingFails'
        <3> SUFFICES ASSUME Reliable', crashes' = 0
                     PROVE  /\ up' \/ (api' # << >> /\ Head(api').op = "open")
                            /\ \A i \in 1 .. Len(inbox') : ~Failed(inbox'[i])
            BY DEF NothingFails, Failed
        <3>1. Reliable /\ crashes = 0
            BY <1>0, <2>2 DEF Reliable
        <3>2. up /\ \A i \in 1 .. Len(inbox) : ~Failed(inbox[i])
            BY <2>2, <3>1 DEF Recovery, NothingFails, r
        <3>3. ~Failed(a)
            BY <2>2, <2>5, <2>6, <3>1, <3>2 DEF Failed
        <3> QED BY <2>2, <2>9, <3>2, <3>3
    <2> QED BY <2>11, <2>12, <2>13, <2>14 DEF Recovery
<1>2. CASE Open /\ up'
    <2>1. api # << >> /\ api' = Tail(api) /\ inbox' = Append(inbox, EngineUp) /\ UNCHANGED <<crashes, known>> /\ up'
        BY <1>2, OpenIs DEF Open
    <2>2. EngineUp \in SoundMessages /\ EngineUp.kind = "engineUp" /\ ~Failed(EngineUp)
        BY DEF SoundMessages, EngineUp, Failed
    <2> DEFINE a == EngineUp
    <2>3. a \in SoundMessages /\ a.kind = "engineUp" /\ ~Failed(a) /\ inbox' = Append(inbox, a)
        BY <2>1, <2>2
    <2> HIDE DEF a
    <2>4. /\ Len(inbox) \in Nat /\ Len(inbox') = Len(inbox) + 1 /\ inbox'[Len(inbox) + 1] = a
          /\ \A i \in 1 .. Len(inbox') : i # Len(inbox) + 1 => i \in 1 .. Len(inbox) /\ inbox'[i] = inbox[i]
        BY <1>0, <2>3, AppendIndex
    <2>5. \A i \in 0 .. Len(inbox) : ComesUp(inbox', i)
        <3> SUFFICES ASSUME NEW i \in 0 .. Len(inbox) PROVE ComesUp(inbox', i)
            OBVIOUS
        <3>1. Len(inbox) + 1 \in 1 .. Len(inbox') /\ Len(inbox) + 1 > i
            BY <2>4
        <3> QED BY <2>3, <2>4, <3>1 DEF ComesUp
    <2>6. ASSUME NEW i \in 1 .. Len(inbox'), Failed(inbox'[i])
          PROVE  i \in 1 .. Len(inbox) /\ Failed(inbox[i])
        BY <2>3, <2>4, <2>6
    <2>7. OpensAgain' /\ LearnsOfEngine'
        BY <2>1, <2>4, <2>5 DEF OpensAgain, LearnsOfEngine
    <2>8. FailuresRecover'
        BY <2>4, <2>5, <2>6 DEF FailuresRecover
    <2>9. NothingFails'
        <3> SUFFICES ASSUME Reliable', crashes' = 0
                     PROVE  /\ up' \/ (api' # << >> /\ Head(api').op = "open")
                            /\ \A i \in 1 .. Len(inbox') : ~Failed(inbox'[i])
            BY DEF NothingFails, Failed
        <3>1. Reliable /\ crashes = 0
            BY <1>0, <2>1 DEF Reliable
        <3>2. \A i \in 1 .. Len(inbox) : ~Failed(inbox[i])
            BY <3>1 DEF Recovery, NothingFails
        <3> QED BY <2>1, <2>6, <3>2
    <2> QED BY <2>7, <2>8, <2>9 DEF Recovery
<1>3. CASE Open /\ ~up'
    <2>1. EngineFails
        BY <1>3, OpenIs
    <2> QED BY <1>3, <2>1 DEF Recovery, OpensAgain, LearnsOfEngine, FailuresRecover, NothingFails, Reliable
<1> QED BY <1>1, <1>2, <1>3 DEF ModemStep

\* Whatever restarts, the modem is opened again and the adapter hears of it.
LEMMA StepRecovery == TypeInv /\ TimeOnly /\ Recovery /\ [Next]_vars => Recovery'
<1> SUFFICES ASSUME TypeInv, TimeOnly, Recovery, [Next]_vars PROVE Recovery'
    OBVIOUS
<1>0. (TimeOnlyLoad' <=> TimeOnlyLoad) /\ api \in Seq(SoundRequests)
    BY LoadStays DEF TimeOnlyLoad, TypeInv
<1>1. CASE UNCHANGED vars
    BY <1>0, <1>1 DEF vars, Recovery, OpensAgain, LearnsOfEngine, FailuresRecover, NothingFails, Reliable,
        Opens, ComesUp, Failed
<1>2. CASE ClientStep
    <2>1. Grows /\ UNCHANGED <<inbox, up, crashes, known>>
        BY <1>2, ClientGrows DEF modem
    <2>2. PICK R \in Seq(SoundRequests) : api' = api \o R
        BY <2>1 DEF Grows
    <2>3. /\ Opens(api) => Opens(api')
          /\ api # << >> => api' # << >> /\ Head(api') = Head(api)
        BY <1>0, <2>2, OpensConcat
    <2>4. OpensAgain' /\ LearnsOfEngine' /\ FailuresRecover'
        BY <1>0, <2>1, <2>3 DEF Recovery, OpensAgain, LearnsOfEngine, FailuresRecover, Reliable, ComesUp, Failed
    <2>5. NothingFails'
        BY <1>0, <2>1, <2>3 DEF Recovery, NothingFails, Reliable, Failed
    <2> QED BY <2>4, <2>5 DEF Recovery
<1>3. CASE Crash
    <2> DEFINE a == OpenRequest
    <2>1. /\ api' = Append(api, a) /\ crashes' = crashes + 1 /\ up' = FALSE
          /\ UNCHANGED <<inbox, known>> /\ a \in SoundRequests /\ a.op = "open"
        BY <1>3 DEF Crash, SoundRequests, OpenRequest
    <2> HIDE DEF a
    <2>2. Len(api) + 1 \in 1 .. Len(api') /\ api'[Len(api) + 1] = a
        BY <1>0, <2>1, AppendIndex
    <2>3. Opens(api')
        BY <2>1, <2>2 DEF Opens
    <2>4. crashes' # 0
        BY <2>1 DEF TypeInv
    <2> QED BY <2>1, <2>3, <2>4 DEF Recovery, OpensAgain, LearnsOfEngine, FailuresRecover, NothingFails
<1> QED BY <1>1, <1>2, <1>3, AdapterRecovery, ModemRecovery DEF Next

\* A handler of a start or an update holds a command only while the engine's
\* capabilities are unknown.
LEMMA HandlersHoldBeforeEngineUp ==
    ASSUME known, pending = << >>, NEW s, NEW o, NEW ow,
           HandleStart(s, o, ow) \/ HandleUpdate(s, o, ow)
    PROVE  pending' = << >>
BY DEF HandleStart, HandleUpdate, Waits

\* Once the engine is up no command is held any more: the ones held before were
\* sent again, and later ones never wait.
THEOREM NoneHeldAfterEngineUp == Spec => []HeldOnlyBeforeEngineUp
<1>1. Init => HeldOnlyBeforeEngineUp
  BY DEF Init, HeldOnlyBeforeEngineUp
<1>2. ASSUME HeldOnlyBeforeEngineUp, [Next]_vars
      PROVE  HeldOnlyBeforeEngineUp'
  <2>. SUFFICES ASSUME known' PROVE pending' = << >>
    BY DEF HeldOnlyBeforeEngineUp
  <2>1. CASE HandleEngineUp
    BY <2>1 DEF HandleEngineUp
  <2>2. CASE known' = known
    <3>. known /\ pending = << >>
      BY <1>2, <2>2 DEF HeldOnlyBeforeEngineUp
    <3>1. CASE HandleHeldCommand
      BY <3>1, HandlersHoldBeforeEngineUp DEF HandleHeldCommand
    <3>2. CASE \E s \in Sessions, o \in load.options :
                  StartTracking(s, o) \/ UpdateTrackingOptions(s, o)
      BY <3>2, HandlersHoldBeforeEngineUp DEF StartTracking, UpdateTrackingOptions
    <3>3. CASE pending' = pending
      BY <3>3
    <3>. QED
      BY <1>2, <2>2, <3>1, <3>2, <3>3
      DEF Next, ClientStep, AdapterStep, ModemStep, vars, modem, AddClient, StopTrackingCommand,
          RemoveClient, SuspendAndRestart, HandleEngineUp, StartAnswered, UpdateAnswered,
          StopAnswered, DistanceStopAnswered, RemovedStopAnswered, ToTimeAnswered,
          RestopAnswered, DistanceRestartAnswered, Answered, ServeRequest, Open, Crash
  <2>. QED
    BY <1>2, <2>1, <2>2
    DEF Next, ClientStep, AdapterStep, ModemStep, vars, AddClient, StartTracking,
        UpdateTrackingOptions, StopTrackingCommand, RemoveClient, SuspendAndRestart,
        HandleHeldCommand, StartAnswered, UpdateAnswered, StopAnswered,
        DistanceStopAnswered, RemovedStopAnswered, ToTimeAnswered, RestopAnswered,
        DistanceRestartAnswered, Answered, ServeRequest, Open, Crash
<1>. QED BY <1>1, <1>2, PTL DEF Spec

-----------------------------------------------------------------------------

\* The modem restarts as often as the load says.
CrashesBounded == crashes \in Nat /\ crashes <= load.crashes

LEMMA StepCrashes == TypeInv /\ CrashesBounded /\ [Next]_vars => CrashesBounded'
<1> SUFFICES ASSUME TypeInv, CrashesBounded, [Next]_vars PROVE CrashesBounded'
    OBVIOUS
<1>0. UNCHANGED load /\ load.crashes \in Nat
    BY LoadStays, LoadTypes
<1>1. UNCHANGED crashes \/ (crashes < load.crashes /\ crashes' = crashes + 1)
    <2>1. CASE UNCHANGED vars
        BY <2>1 DEF vars
    <2>2. CASE ClientStep
        BY <2>2, ClientGrows DEF modem
    <2>3. CASE AdapterStep
        BY <2>3, AdapterGrows DEF modem
    <2>4. CASE ModemStep \/ Crash
        BY <2>4 DEF ModemStep, ServeRequest, Open, Crash
    <2> QED BY <2>1, <2>2, <2>3, <2>4 DEF Next
<1> QED BY <1>0, <1>1 DEF CrashesBounded

LEMMA StrongInvariant == Spec => [](TypeInv /\ TimeOnly /\ Recovery /\ CrashesBounded)
<1>1. Init => CrashesBounded
    <2>1. Init => crashes = 0 /\ load \in Loads
        BY Zenon DEF Init
    <2>2. \A l \in Loads : l.crashes \in Nat
        BY LoadsAssumption DEF LoadsAssumption
    <2> QED BY <2>1, <2>2 DEF CrashesBounded
<1> QED BY <1>1, InitTypes, InitTimeOnly, InitRecovery, StepTypes, StepTimeOnly, StepRecovery, StepCrashes,
           PTL DEF Spec

\* Where nobody forgets a response: the modem never refuses one to an update of a
\* distance based session.
NeverRefused ==
    \A l \in Loads : \/ \A o \in l.options : ~o.distance
                     \/ l.crashes = 0 /\ ~EngineFails /\ DistanceSupported

\* There, no lambda meets the failure after which it is silent.
LEMMA NoFailures == NeverRefused /\ TypeInv /\ TimeOnly /\ Recovery /\ CrashesBounded => ~Fails
<1> SUFFICES ASSUME NeverRefused, TypeInv, TimeOnly, Recovery, CrashesBounded, Fails PROVE FALSE
    OBVIOUS
<1>1. /\ inbox # << >> /\ Head(inbox).kind = "answer" /\ Head(inbox).then = "dRestop" /\ ~Head(inbox).ok
    BY DEF Fails
<1>2. CASE TimeOnlyLoad
    <2>1. Head(inbox) \in TimeMessages
        BY <1>1, <1>2, TimeOnlyHead DEF TimeOnly
    <2> QED BY <1>1, <2>1 DEF TimeMessages
<1>3. CASE ~TimeOnlyLoad
    <2>1. load \in Loads
        BY DEF TypeInv
    <2>2. load.crashes = 0 /\ ~EngineFails /\ DistanceSupported
        BY <1>3, <2>1 DEF NeverRefused, TimeOnlyLoad
    <2>3. crashes = 0 /\ Reliable
        BY <2>2 DEF CrashesBounded, Reliable
    <2>4. \A i \in 1 .. Len(inbox) : ~Failed(inbox[i])
        BY <2>3 DEF Recovery, NothingFails
    <2>5. 1 \in 1 .. Len(inbox) /\ Head(inbox) = inbox[1]
        BY <1>1, EmptySeq, LenProperties, HeadTailProperties DEF TypeInv
    <2>6. Failed(inbox[1])
        BY <1>1, <2>5 DEF Failed
    <2> QED BY <2>4, <2>5, <2>6
<1> QED BY <1>2, <1>3

LEMMA DrainedIsAnswered ==
    TypeInv /\ Recovery /\ HeldOnlyBeforeEngineUp /\ Due /\ Balanced => AnsweredOnce
<1> SUFFICES ASSUME TypeInv, Recovery, HeldOnlyBeforeEngineUp, Balanced, Due,
                    Idle, NEW s \in Sessions, Registered(Owner[s])
             PROVE  owed[s] = 0
    BY DEF AnsweredOnce, Due
<1>1. up /\ api = << >> /\ inbox = << >>
    BY DEF Idle
<1>2. ~ComesUp(inbox, 0)
    BY <1>1, EmptySeq DEF ComesUp
<1>3. pending = << >>
    BY <1>1, <1>2 DEF Recovery, LearnsOfEngine, HeldOnlyBeforeEngineUp
<1>4. Flying(s) = 0
    BY <1>1, <1>3, CountEmpty DEF Flying, InFlight, Asked
<1>5. reg[Owner[s]] # "gone"
    BY DEF Registered
<1> QED BY <1>4, <1>5 DEF Balanced

\* Every command gets its one response, however clients come and go: if all of
\* them register a tracking callback and the modem never refuses to stop a
\* distance based session.
THEOREM CommandsAnsweredOnce ==
    ASSUME CallbackKinds = {"tracking"}, NeverRefused
    PROVE  Spec => []AnsweredOnce
<1>1. Init => Due /\ Balanced /\ NoneSilent
    <2>1. Init => reg = [c \in Clients |-> "new"]
        BY Zenon DEF Init
    <2>2. Init => NoneSilent
        BY <2>1 DEF NoneSilent
    <2> QED BY <2>2, InitNoneInFlight DEF Due, Balanced
<1>2. TypeInv /\ TypeInv' /\ Due /\ [Next]_vars => Due'
    BY StepDue
<1>3. NoneSilent /\ [Next]_vars => NoneSilent'
    BY StepNoneSilent
<1>4. TypeInv /\ TypeInv' /\ NoneSilent /\ Balanced /\ ~Fails /\ [Next]_vars => Balanced'
    BY StepBalanced
<1>5. TypeInv /\ TimeOnly /\ Recovery /\ CrashesBounded => ~Fails
    BY NoFailures
<1> QED BY <1>1, <1>2, <1>3, <1>4, <1>5, StrongInvariant, NoneHeldAfterEngineUp, DrainedIsAnswered,
           PTL DEF Spec

-----------------------------------------------------------------------------
(* What each handler does to the fix session *)

LEMMA KeysAfter ==
    ASSUME TimeOK, NEW s \in Sessions
    PROVE  /\ \A o \in Options : time' = [time EXCEPT ![s] = o] =>
                /\ TimeKeys' = TimeKeys \cup {s} /\ time'[s] = o
                /\ \A t \in TimeKeys : t # s => time'[t] = time[t]
           /\ time' = [time EXCEPT ![s] = NoOptions] =>
                TimeKeys' = TimeKeys \ {s} /\ \A t \in TimeKeys' : time'[t] = time[t]
           /\ time' = time => TimeKeys' = TimeKeys
<1> DEFINE none == NoOptions
<1>1. none \notin Options
    BY OptionsFields
<1>2. TimeKeys = {t \in Sessions : time[t] # none} /\ TimeKeys' = {t \in Sessions : time'[t] # none}
    BY DEF TimeKeys
<1>a. time \in [Sessions -> Options \cup {none}]
    BY DEF TimeOK
<1> HIDE DEF none
<1>3. ASSUME NEW o \in Options, time' = [time EXCEPT ![s] = o]
      PROVE  TimeKeys' = TimeKeys \cup {s} /\ time'[s] = o /\ \A t \in TimeKeys : t # s => time'[t] = time[t]
    BY <1>1, <1>2, <1>a, <1>3
<1>4. ASSUME time' = [time EXCEPT ![s] = none]
      PROVE  TimeKeys' = TimeKeys \ {s} /\ \A t \in TimeKeys' : time'[t] = time[t]
    BY <1>2, <1>a, <1>4
<1>5. time' = time => TimeKeys' = TimeKeys
    BY <1>2
<1> QED BY <1>3, <1>4, <1>5 DEF none

\* A request that is not for the fix session changes nothing, one that is decides.
LEMMA AppendDecides ==
    ASSUME NEW q \in Seq(SoundRequests), NEW r \in SoundRequests, NEW K
    PROVE  /\ q \o <<r>> \in Seq(SoundRequests) /\ Append(q, r) = q \o <<r>>
           /\ r \notin FixRequests => /\ Served(q, K) => Served(q \o <<r>>, K)
                                      /\ Needed(q, K) => Needed(q \o <<r>>, K)
           /\ r \in FixRequests => /\ Serves(Result(r), K) => Served(q \o <<r>>, K)
                                   /\ K # {} => Needed(q \o <<r>>, K)
                                   /\ Result(r) = NoOptions => Needed(q \o <<r>>, K)
<1>1. q \o <<r>> \in Seq(SoundRequests) /\ Append(q, r) = q \o <<r>>
    OBVIOUS
<1>2. \A e : Left(q \o <<r>>, FixRequests, engine, e) =>
               IF r \in FixRequests THEN e = Result(r) ELSE Left(q, FixRequests, engine, e)
    BY LeftOne
<1> QED BY <1>1, <1>2 DEF Served, Needed

LEMMA ConcatDecides ==
    ASSUME NEW p \in Seq(SoundRequests), NEW q \in Seq(SoundRequests), NEW K,
           \A i \in 1 .. Len(q) : q[i] \notin FixRequests
    PROVE  /\ Served(p, K) => Served(p \o q, K)
           /\ Needed(p, K) => Needed(p \o q, K)
<1>1. \A e : Left(p \o q, FixRequests, engine, e) => Left(p, FixRequests, engine, e)
    BY LeftConcat
<1> QED BY <1>1 DEF Served, Needed

\* When the time based sessions change, those served stay so that keep their interval.
LEMMA ServedLater ==
    ASSUME NEW q, NEW K, Served(q, K), UNCHANGED engine, api' = q,
           TimeKeys' \subseteq K, \A t \in TimeKeys' : time'[t] = time[t]
    PROVE  Served(api, TimeKeys)'
<1>1. \A e : Left(api, FixRequests, engine, e)' => Left(q, FixRequests, engine, e)
    OBVIOUS
<1> QED BY <1>1 DEF Served, Serves

LEMMA NeededLater ==
    ASSUME NEW q, NEW K, Needed(q, K), UNCHANGED engine, api' = q, K # {} => TimeKeys' # {}
    PROVE  Needed(api, TimeKeys)'
BY DEF Needed

LEMMA NotForFixes ==
    ASSUME NEW s, NEW o, NEW then
    PROVE  StartDistance(s, o, then) \notin FixRequests /\ StopDistance(s, o, then) \notin FixRequests
<1>1. StartDistance(s, o, then).op = "startD" /\ StopDistance(s, o, then).op = "stopD"
    BY DEF StartDistance, StopDistance, Request
<1> QED BY <1>1 DEF FixRequests

\* A handler leaves the time based sessions served, and the engine needed, at the
\* end of the queue.
KeepsServed == Served(api, TimeKeys) => Served(api, TimeKeys)'
KeepsNeeded == Needed(api, TimeKeys) => Needed(api, TimeKeys)'

\* A step that touches neither queue nor map changes nothing of this.
LEMMA NothingServed ==
    ASSUME UNCHANGED <<api, time, engine>>
    PROVE  KeepsServed /\ KeepsNeeded
<1>1. TimeKeys' = TimeKeys
    BY DEF TimeKeys
<1> QED BY <1>1 DEF KeepsServed, KeepsNeeded, Served, Needed, Serves

LEMMA DistanceServed ==
    ASSUME TypeInv, UNCHANGED engine, TimeKeys' \subseteq TimeKeys, \A t \in TimeKeys' : time'[t] = time[t],
           NEW r \in SoundRequests, r \notin FixRequests, api' = Append(api, r)
    PROVE  KeepsServed /\ (TimeKeys' = TimeKeys => KeepsNeeded)
<1>1. /\ api' = api \o <<r>>
      /\ Served(api, TimeKeys) => Served(api \o <<r>>, TimeKeys)
      /\ Needed(api, TimeKeys) => Needed(api \o <<r>>, TimeKeys)
    BY AppendDecides DEF TypeInv
<1> DEFINE q == api \o <<r>>
<1> HIDE DEF q
<1>2. KeepsServed
    BY <1>1, ServedLater DEF q, KeepsServed
<1>3. TimeKeys' = TimeKeys => KeepsNeeded
    BY <1>1, NeededLater DEF q, KeepsNeeded
<1> QED BY <1>2, <1>3

\* A new or changed session of interval o.interval is served as well.
LEMMA AddedServed ==
    ASSUME TypeInv, UNCHANGED engine, NEW s \in Sessions, NEW o \in Options, time' = [time EXCEPT ![s] = o],
           NEW q, api' = api \o q,
           \/ q = << >> /\ \E t \in TimeKeys : time[t].interval <= o.interval
           \/ \E r \in Multiplexed(s) : /\ q = <<r>> /\ r.opts \in Options /\ r.opts.interval <= o.interval
                                        /\ Serves(r.opts, TimeKeys \ {s})
    PROVE  KeepsServed /\ KeepsNeeded
<1> DEFINE x == o.interval
<1>1. /\ TimeKeys' = TimeKeys \cup {s} /\ time'[s].interval = x
      /\ \A t \in TimeKeys : t # s => time'[t] = time[t]
    BY KeysAfter DEF TypeInv
<1>x. x \in Nat
    BY OptionsFields
<1>2. KeepsNeeded
    <2>1. TimeKeys' # {}
        BY <1>1
    <2> QED BY <2>1 DEF KeepsNeeded, Needed
<1>3. \A t \in TimeKeys : time[t].interval \in Nat /\ t \in Sessions
    BY KeyOptions, OptionsFields DEF TypeInv
<1>4. CASE q = << >> /\ \E t \in TimeKeys : time[t].interval <= x
    <2>1. api' = api
        BY <1>4, ConcatEmptySeq DEF TypeInv
    <2>2. PICK t \in TimeKeys : time[t].interval <= x
        BY <1>4
    <2> SUFFICES ASSUME Served(api, TimeKeys), NEW e, Left(api, FixRequests, engine, e)
                 PROVE  \A u \in TimeKeys' : e # NoOptions /\ e.interval <= time'[u].interval
        BY <1>2, <2>1 DEF KeepsServed, Served, Serves
    <2>3. e # NoOptions /\ \A u \in TimeKeys : e.interval <= time[u].interval
        BY <2>2 DEF Served, Serves
    <2>4. e \in Options \cup {NoOptions}
        <3>1. \A r \in FixRequests : Result(r) \in Options \cup {NoOptions}
            BY RequestFields DEF FixRequests, Result
        <3>2. engine \in Options \cup {NoOptions}
            BY DEF TypeInv
        <3> QED BY <3>1, <3>2 DEF Left
    <2>5. e.interval \in Nat
        BY <2>3, <2>4, OptionsFields
    <2>6. e.interval <= x
        BY <1>3, <1>x, <2>2, <2>3, <2>5
    <2> QED BY <1>1, <2>3, <2>6
<1>5. ASSUME NEW r \in Multiplexed(s), q = <<r>>, r.opts \in Options, r.opts.interval <= x,
             Serves(r.opts, TimeKeys \ {s})
      PROVE  KeepsServed
    <2>1. r \in SoundRequests /\ r \in FixRequests /\ Result(r) = r.opts
        BY <1>5, MultiplexedResult
    <2>2. \A e : Left(api \o <<r>>, FixRequests, engine, e) => e = r.opts
        BY <2>1, LeftOne DEF TypeInv
    <2>3. r.opts # NoOptions
        BY <1>5, OptionsFields
    <2>4. \A u \in TimeKeys' : r.opts.interval <= time'[u].interval
        BY <1>1, <1>5 DEF Serves
    <2> DEFINE p == r.opts
    <2>5. api' = api \o <<r>>
        BY <1>5
    <2> HIDE DEF p
    <2>6. \A e : Left(api', FixRequests, engine', e) => e = p
        BY <2>2, <2>5 DEF p
    <2>7. Serves(p, TimeKeys)'
        BY <2>3, <2>4 DEF p, Serves
    <2> QED BY <2>6, <2>7 DEF KeepsServed, Served, Serves
<1> HIDE DEF x
<1> QED BY <1>2, <1>4, <1>5 DEF x

\* A session that is stopped is served no longer.
LEMMA StoppedServed ==
    ASSUME TypeInv, UNCHANGED engine, NEW s \in TimeKeys, time' = [time EXCEPT ![s] = NoOptions],
           NEW D \in Seq(SoundRequests), \A i \in 1 .. Len(D) : D[i] \notin FixRequests,
           api' = (api \o StopTimeBasedTrackingMultiplex(TimeKeys, s)) \o D
    PROVE  KeepsServed /\ KeepsNeeded
<1> DEFINE R == StopTimeBasedTrackingMultiplex(TimeKeys, s)
           q == (api \o R) \o D
<1>0. TimeOK /\ api \in Seq(SoundRequests) /\ s \in Sessions
    BY DEF TypeInv, TimeKeys
<1>1. /\ api \o R \in Seq(SoundRequests)
      /\ Served(api, TimeKeys) => Served(api \o R, TimeKeys \ {s})
      /\ Needed(api, TimeKeys) => Needed(api \o R, TimeKeys \ {s})
    BY <1>0, StopKeeps
<1> HIDE DEF R
<1>2. /\ Served(api, TimeKeys) => Served(q, TimeKeys \ {s})
      /\ Needed(api, TimeKeys) => Needed(q, TimeKeys \ {s})
    BY <1>1, ConcatDecides
<1>3. TimeKeys' = TimeKeys \ {s} /\ \A t \in TimeKeys' : time'[t] = time[t]
    BY <1>0, KeysAfter
<1>4. api' = q
    BY DEF R
<1> HIDE DEF q
<1>5. KeepsServed
    BY <1>2, <1>3, <1>4, ServedLater DEF KeepsServed
<1>6. KeepsNeeded
    BY <1>2, <1>3, <1>4, NeededLater DEF KeepsNeeded
<1> QED BY <1>5, <1>6

LEMMA SaveErase ==
    ASSUME NEW s, NEW o
    PROVE  /\ SaveTrackingSession(s, o) /\ ~IsDistanceSession(o) => time' = [time EXCEPT ![s] = o]
           /\ SaveTrackingSession(s, o) /\ IsDistanceSession(o) => time' = time
           /\ EraseTrackingSession(s) /\ s \in TimeKeys => time' = [time EXCEPT ![s] = NoOptions]
           /\ EraseTrackingSession(s) /\ s \notin TimeKeys => time' = time
BY DEF SaveTrackingSession, EraseTrackingSession

LEMMA StartServes ==
    ASSUME TypeInv, UNCHANGED engine, NEW s \in Sessions, NEW o \in Options, NEW ow, HandleStart(s, o, ow)
    PROVE  KeepsServed /\ KeepsNeeded
<1>1. CASE UNCHANGED <<api, time>>
    BY <1>1, NothingServed
<1>2. CASE SaveTrackingSession(s, o) /\ IsDistanceSession(o) /\ api' = Append(api, StartDistance(s, o, "dStarted"))
    <2>1. time' = time
        BY <1>2, SaveErase
    <2>2. TimeKeys' = TimeKeys
        BY <2>1 DEF TimeKeys
    <2>3. StartDistance(s, o, "dStarted") \in SoundRequests /\ StartDistance(s, o, "dStarted") \notin FixRequests
        BY DistanceRequestsAreSound, NotForFixes
    <2> QED BY <1>2, <2>1, <2>2, <2>3, DistanceServed
<1>3. CASE /\ SaveTrackingSession(s, o) /\ ~IsDistanceSession(o)
           /\ api' = api \o StartTimeBasedTrackingMultiplex(s, o)
    <2>1. time' = [time EXCEPT ![s] = o]
        BY <1>3, SaveErase
    <2> DEFINE q == StartTimeBasedTrackingMultiplex(s, o)
    <2>2. \/ q = << >> /\ \E t \in TimeKeys : time[t].interval <= o.interval
          \/ \E r \in Multiplexed(s) : /\ q = <<r>> /\ r.opts \in Options /\ r.opts.interval <= o.interval
                                       /\ Serves(r.opts, TimeKeys \ {s})
        BY StartMultiplexed DEF TypeInv, Serves
    <2>3. api' = api \o q
        BY <1>3
    <2> HIDE DEF q
    <2> QED BY <2>1, <2>2, <2>3, AddedServed
<1> QED BY <1>1, <1>2, <1>3 DEF HandleStart

LEMMA UpdateServes ==
    ASSUME TypeInv, UNCHANGED engine, NEW s \in Sessions, NEW o \in Options, NEW ow, HandleUpdate(s, o, ow),
           o.distance => DistanceSupported
    PROVE  KeepsServed /\ (DistKeys = {} => KeepsNeeded)
<1>0. api \in Seq(SoundRequests)
    BY DEF TypeInv
<1>1. CASE UNCHANGED <<api, time>>
    BY <1>1, NothingServed
<1>2. CASE /\ s \in TimeKeys /\ o.distance /\ time' = [time EXCEPT ![s] = NoOptions]
           /\ api' = (api \o StopTimeBasedTrackingMultiplex(TimeKeys, s)) \o <<StartDistance(s, o, "none")>>
    <2> DEFINE r == StartDistance(s, o, "none")
    <2>1. r \in SoundRequests /\ r \notin FixRequests
        BY UnawaitedRequests, UnawaitedAreSound, NotForFixes
    <2> HIDE DEF r
    <2>2. <<r>> \in Seq(SoundRequests) /\ \A i \in 1 .. Len(<<r>>) : <<r>>[i] \notin FixRequests
        BY <2>1
    <2> QED BY <1>2, <2>2, StoppedServed DEF r
<1>3. CASE s \in DistKeys /\ ~o.distance /\ EraseTrackingSession(s) /\ api' = Append(api, StopDistance(s, o, "toTime"))
    <2>1. TimeKeys' \subseteq TimeKeys /\ \A t \in TimeKeys' : time'[t] = time[t]
        <3>1. CASE s \in TimeKeys
            <4>1. time' = [time EXCEPT ![s] = NoOptions]
                BY <1>3, <3>1, SaveErase
            <4> QED BY <4>1, KeysAfter DEF TypeInv
        <3>2. CASE s \notin TimeKeys
            <4>1. time' = time
                BY <1>3, <3>2, SaveErase
            <4>2. TimeKeys' = TimeKeys
                BY <4>1 DEF TimeKeys
            <4> QED BY <4>1, <4>2
        <3> QED BY <3>1, <3>2
    <2>2. StopDistance(s, o, "toTime") \in SoundRequests /\ StopDistance(s, o, "toTime") \notin FixRequests
        BY <1>3, DistanceRequestsAreSound, NotForFixes
    <2>3. KeepsServed
        BY <1>3, <2>1, <2>2, DistanceServed
    <2> QED BY <1>3, <2>3
<1>4. CASE /\ s \in TimeKeys \ DistKeys /\ ~o.distance /\ SaveTrackingSession(s, o)
           /\ api' = api \o UpdateTrackingMultiplex(s, o)
    <2>1. time' = [time EXCEPT ![s] = o]
        BY <1>4, SaveErase DEF IsDistanceSession
    <2> DEFINE q == UpdateTrackingMultiplex(s, o)
    <2>2. \/ q = << >> /\ \E t \in TimeKeys : time[t].interval <= o.interval
          \/ \E r \in Multiplexed(s) : /\ q = <<r>> /\ r.opts \in Options /\ r.opts.interval <= o.interval
                                       /\ Serves(r.opts, TimeKeys \ {s})
        BY <1>4, UpdateMultiplexed DEF TypeInv
    <2>3. api' = api \o q
        BY <1>4
    <2> HIDE DEF q
    <2> QED BY <2>1, <2>2, <2>3, AddedServed
<1>5. CASE /\ o.distance /\ api' = Append(api, StopDistance(s, o, "dRestop")) /\ UNCHANGED time
    <2>1. TimeKeys' = TimeKeys
        BY <1>5 DEF TimeKeys
    <2>2. StopDistance(s, o, "dRestop") \in SoundRequests /\ StopDistance(s, o, "dRestop") \notin FixRequests
        BY <1>5, DistanceRequestsAreSound, NotForFixes
    <2> QED BY <1>5, <2>1, <2>2, DistanceServed
<1> QED BY <1>1, <1>2, <1>3, <1>4, <1>5 DEF HandleUpdate

LEMMA StopServes ==
    ASSUME TypeInv, UNCHANGED engine, NEW s \in Sessions, NEW ow, HandleStop(s, ow)
    PROVE  KeepsServed /\ KeepsNeeded
<1>0. api \in Seq(SoundRequests) /\ TimeOK
    BY DEF TypeInv
<1>1. CASE UNCHANGED <<api, time>>
    BY <1>1, NothingServed
<1>2. CASE s \in TimeKeys /\ EraseTrackingSession(s) /\ api' = api \o StopTimeBasedTrackingMultiplex(TimeKeys, s)
    <2> DEFINE R == StopTimeBasedTrackingMultiplex(TimeKeys, s)
    <2>1. api \o R \in Seq(SoundRequests)
        BY <1>0, <1>2, StopKeeps
    <2> HIDE DEF R
    <2>2. api \o R = (api \o R) \o << >> /\ << >> \in Seq(SoundRequests) /\ Len(<< >>) = 0
        BY <2>1, ConcatEmptySeq
    <2>3. api' = (api \o R) \o << >> /\ \A i \in 1 .. Len(<< >>) : << >>[i] \notin FixRequests
        BY <1>2, <2>2 DEF R
    <2>4. time' = [time EXCEPT ![s] = NoOptions]
        BY <1>2, SaveErase
    <2> QED BY <1>2, <2>2, <2>3, <2>4, StoppedServed DEF R
<1>3. CASE api' = Append(api, StopDistance(s, NoOptions, "dStopped")) /\ UNCHANGED time
    <2>1. TimeKeys' = TimeKeys
        BY <1>3 DEF TimeKeys
    <2>2. StopDistance(s, NoOptions, "dStopped") \in SoundRequests /\ StopDistance(s, NoOptions, "dStopped") \notin FixRequests
        <3>1. NoOptions \in Options \cup {NoOptions}
            OBVIOUS
        <3>2. StopDistance(s, NoOptions, "dStopped") \in SoundRequests
            BY DEF StopDistance, Request, SoundRequests, Carries, Callbacks
        <3> QED BY <3>2, NotForFixes
    <2> QED BY <1>3, <2>1, <2>2, DistanceServed
<1> QED BY <1>1, <1>2, <1>3 DEF HandleStop

\* stopClientSessions, for all sessions of a client.
LEMMA RemoveServes ==
    ASSUME TypeInv, NEW c, RemoveClient(c)
    PROVE  /\ KeepsServed /\ KeepsNeeded
           /\ TimeKeys' = {s \in TimeKeys : Owner[s] # c}
<1> DEFINE own == {s \in TimeKeys : Owner[s] = c}
           R == FlattenSeq(Removed(own))
<1>0. TimeOK /\ api \in Seq(SoundRequests) /\ own \in SUBSET TimeKeys /\ UNCHANGED engine /\ own \in SUBSET Sessions
    BY DEF TypeInv, RemoveClient, modem, TimeKeys
<1>1. PICK D \in Seq(RemovalRequests) : R \in Seq(StopRequests(own)) /\ api' = (api \o R) \o D
    BY RemoveClientAsks
<1>2. /\ Served(api, TimeKeys) => Served(api \o R, TimeKeys \ own)
      /\ Needed(api, TimeKeys) => Needed(api \o R, TimeKeys \ own)
    BY <1>0, RemovalKeeps
<1>3. api \o R \in Seq(SoundRequests)
    <2>1. StopRequests(own) \subseteq SoundRequests
        BY <1>0, StopRequestsAreSound
    <2> HIDE DEF R
    <2>2. R \in Seq(SoundRequests)
        BY <1>1, <2>1, WiderSeq
    <2> QED BY <1>0, <2>2
<1> DEFINE none == NoOptions
<1>4. time' = [s \in Sessions |-> IF s \in own THEN none ELSE time[s]]
    BY DEF RemoveClient
<1>5. TimeKeys = {s \in Sessions : time[s] # none} /\ TimeKeys' = {s \in Sessions : time'[s] # none}
    BY DEF TimeKeys
<1> HIDE DEF none, R
<1>6. TimeKeys' = TimeKeys \ own /\ \A t \in TimeKeys' : time'[t] = time[t]
    BY <1>4, <1>5
<1>7. D \in Seq(SoundRequests) /\ \A i \in 1 .. Len(D) : D[i] \notin FixRequests
    <2>1. RemovalRequests \subseteq SoundRequests /\ \A r \in RemovalRequests : r \notin FixRequests
        BY DEF RemovalRequests, FixRequests
    <2> QED BY <2>1, WiderSeq
<1> DEFINE q == (api \o R) \o D
<1>8. /\ Served(api, TimeKeys) => Served(q, TimeKeys \ own)
      /\ Needed(api, TimeKeys) => Needed(q, TimeKeys \ own)
    BY <1>2, <1>3, <1>7, ConcatDecides
<1>9. api' = q
    BY <1>1
<1> HIDE DEF q, own
<1>10. KeepsServed
    BY <1>0, <1>6, <1>8, <1>9, ServedLater DEF KeepsServed
<1>11. KeepsNeeded
    BY <1>0, <1>6, <1>8, <1>9, NeededLater DEF KeepsNeeded
<1> QED BY <1>6, <1>10, <1>11 DEF own

\* restartSessions after an engine-up.
LEMMA RestartServes ==
    ASSUME TypeInv, UNCHANGED <<time, engine>>, NEW q \in Seq(SoundRequests), api' = q \o RestartSessions
    PROVE  Served(api, TimeKeys)' /\ (Needed(q, TimeKeys) => Needed(api, TimeKeys)')
<1> DEFINE D == RestartDistanceBased
           R == RestartTimeBased
<1>0. TimeOK /\ DistOK /\ TimeKeys' = TimeKeys
    BY DEF TypeInv, TimeKeys
<1>1. D \in Seq(SoundRequests) /\ \A i \in 1 .. Len(D) : D[i] \notin FixRequests
    BY <1>0, RestartDistanceBasedServes, UnawaitedAreSound, WiderSeq DEF FixRequests
<1>2. (R = << >> /\ TimeKeys = {}) \/ \E r \in FixRequests : R = <<r>> /\ Serves(Result(r), TimeKeys) /\ TimeKeys # {}
    BY <1>0, RestartTimeBasedServes
<1>3. api' = q \o (R \o D)
    BY DEF RestartSessions
<1> HIDE DEF R, D
<1>4. R \in Seq(SoundRequests)
    <2>1. \A r \in FixRequests : r \in SoundRequests
        BY DEF FixRequests
    <2>2. \A r \in SoundRequests : <<r>> \in Seq(SoundRequests)
        OBVIOUS
    <2>3. << >> \in Seq(SoundRequests)
        OBVIOUS
    <2> QED BY <1>2, <2>1, <2>2, <2>3, Zenon
<1>5. /\ q \o R \in Seq(SoundRequests) /\ Served(q \o R, TimeKeys)
      /\ Needed(q, TimeKeys) => Needed(q \o R, TimeKeys)
    <2>1. CASE R = << >> /\ TimeKeys = {}
        <3>1. q \o R = q
            BY <2>1, ConcatEmptySeq
        <3> QED BY <2>1, <3>1 DEF Served, Serves
    <2>2. ASSUME NEW r \in FixRequests, R = <<r>>, Serves(Result(r), TimeKeys), TimeKeys # {}
          PROVE  q \o R \in Seq(SoundRequests) /\ Served(q \o R, TimeKeys) /\ Needed(q \o R, TimeKeys)
        <3>1. r \in SoundRequests
            BY DEF FixRequests
        <3> QED BY <2>2, <3>1, AppendDecides
    <2> QED BY <1>2, <2>1, <2>2
<1> DEFINE p == (q \o R) \o D
<1>6. Served(p, TimeKeys) /\ (Needed(q, TimeKeys) => Needed(p, TimeKeys))
    BY <1>1, <1>5, ConcatDecides
<1>7. api' = p
    BY <1>1, <1>3, <1>4, ConcatAssociative
<1> HIDE DEF p
<1> QED BY <1>0, <1>6, <1>7, ServedLater, NeededLater

-----------------------------------------------------------------------------
(* Nothing runs for nobody *)

\* The map has only sessions that are open, of clients that are there.
OnlyLive == \A s \in TimeKeys : phase[s] = "open" /\ reg[Owner[s]] # "gone"
\* With all that is queued served, the fix session runs only for live sessions.
OnlyNeeded == TimeOnlyLoad /\ crashes = 0 => Needed(api, TimeKeys) /\ OnlyLive

LEMMA KeysOfHandlers ==
    ASSUME TypeInv, NEW s \in Sessions, NEW o \in Options, NEW ow
    PROVE  /\ HandleStart(s, o, ow) => TimeKeys' \subseteq TimeKeys \cup {s}
           /\ HandleUpdate(s, o, ow) => TimeKeys' \subseteq TimeKeys \cup {s}
           /\ HandleStop(s, ow) /\ DistKeys = {} => TimeKeys' = TimeKeys \ {s}
<1> DEFINE none == NoOptions
           saved == time' = [time EXCEPT ![s] = o]
           erased == time' = [time EXCEPT ![s] = none]
<1>1. saved \/ erased \/ time' = time => TimeKeys' \subseteq TimeKeys \cup {s}
    <2>1. saved => TimeKeys' = TimeKeys \cup {s}
        BY KeysAfter DEF TypeInv
    <2>2. erased => TimeKeys' = TimeKeys \ {s}
        BY KeysAfter DEF TypeInv
    <2>3. time' = time => TimeKeys' = TimeKeys
        BY DEF TimeKeys
    <2> HIDE DEF saved, erased
    <2> QED BY <2>1, <2>2, <2>3
<1>2. HandleStart(s, o, ow) => saved \/ time' = time
    BY DEF HandleStart, SaveTrackingSession
<1>3. HandleUpdate(s, o, ow) => saved \/ erased \/ time' = time
    BY DEF HandleUpdate, SaveTrackingSession, EraseTrackingSession
<1>4. ASSUME HandleStop(s, ow), DistKeys = {} PROVE TimeKeys' = TimeKeys \ {s}
    <2>1. (s \in TimeKeys /\ erased) \/ (s \notin TimeKeys /\ time' = time)
        BY <1>4 DEF HandleStop, EraseTrackingSession
    <2>2. CASE s \in TimeKeys /\ erased
        BY <2>2, KeysAfter DEF TypeInv
    <2>3. CASE s \notin TimeKeys /\ time' = time
        BY <2>3 DEF TimeKeys
    <2> QED BY <2>1, <2>2, <2>3
<1> QED BY <1>1, <1>2, <1>3, <1>4

LEMMA InitOnlyNeeded == Init => OnlyNeeded
<1> SUFFICES ASSUME Init PROVE Needed(api, TimeKeys) /\ OnlyLive
    BY DEF OnlyNeeded
<1>1. api = <<OpenRequest>> /\ engine = NoOptions /\ time = [s \in Sessions |-> NoOptions]
    BY Zenon DEF Init
<1>2. OpenRequest \notin FixRequests
    BY DEF FixRequests, OpenRequest
<1> DEFINE r == OpenRequest
<1>3. Len(<<r>>) = 1 /\ <<r>>[1] = r
    OBVIOUS
<1> HIDE DEF r
<1>4. api = <<r>> /\ r \notin FixRequests
    BY <1>1, <1>2 DEF r
<1>5. Needed(api, TimeKeys)
    BY <1>1, <1>3, <1>4 DEF Needed, Left
<1>6. TimeKeys = {}
    BY <1>1 DEF TimeKeys
<1> QED BY <1>5, <1>6 DEF OnlyLive

LEMMA NoFailedHead ==
    ASSUME TypeInv, Recovery, Reliable, crashes = 0, inbox # << >>, Head(inbox).kind = "answer"
    PROVE  Head(inbox).ok
<1>1. 1 \in 1 .. Len(inbox) /\ Head(inbox) = inbox[1]
    BY EmptySeq, LenProperties, HeadTailProperties DEF TypeInv
<1> QED BY <1>1 DEF Recovery, NothingFails, Failed

LEMMA ClientOnlyNeeded ==
    ASSUME TypeInv, TimeOnly, TimeOnlyLoad, Needed(api, TimeKeys), OnlyLive, ClientStep
    PROVE  Needed(api, TimeKeys)' /\ OnlyLive'
<1>0. UNCHANGED engine /\ api \in Seq(SoundRequests) /\ DistKeys = {} /\ TimeOK
    BY ClientGrows DEF modem, TypeInv, TimeOnly
<1>a. KeepsNeeded => Needed(api, TimeKeys)'
    BY DEF KeepsNeeded
<1>b. \A o \in load.options : o \in Options /\ ~o.distance
    BY LoadTypes DEF TimeOnlyLoad
<1>c. phase \in [Sessions -> {"new", "open", "closed"}] /\ reg \in [Clients -> {"new", "silent", "tracking", "gone"}]
    BY DEF TypeInv
<1>1. ASSUME NEW c \in Clients, NEW kind \in CallbackKinds, AddClient(c, kind)
      PROVE  Needed(api, TimeKeys)' /\ OnlyLive'
    <2>1. UNCHANGED <<phase, time, api>> /\ reg' = [reg EXCEPT ![c] = kind] /\ kind # "gone"
        BY <1>1, ModeAssumption DEF AddClient, ModeAssumption
    <2>2. TimeKeys' = TimeKeys
        BY <2>1 DEF TimeKeys
    <2>3. \A d \in Clients : reg[d] # "gone" => reg'[d] # "gone"
        BY <1>c, <2>1
    <2>4. \A s \in TimeKeys : Owner[s] \in Clients
        BY OwnersAreClients DEF TimeKeys
    <2>5. OnlyLive'
        BY <2>1, <2>2, <2>3, <2>4 DEF OnlyLive
    <2> QED BY <1>0, <1>a, <2>1, <2>5, NothingServed
<1>2. ASSUME NEW s \in Sessions, NEW o \in load.options, StartTracking(s, o)
      PROVE  Needed(api, TimeKeys)' /\ OnlyLive'
    <2>1. /\ phase' = [phase EXCEPT ![s] = "open"] /\ HandleStart(s, o, Owe(s)) /\ UNCHANGED reg
          /\ Registered(Owner[s])
        BY <1>2 DEF StartTracking, MayCommand
    <2>2. KeepsNeeded /\ TimeKeys' \subseteq TimeKeys \cup {s}
        BY <1>0, <1>b, <2>1, StartServes, KeysOfHandlers
    <2>3. \A t \in TimeKeys \cup {s} : phase'[t] = "open" /\ reg'[Owner[t]] # "gone"
        BY <1>c, <2>1 DEF OnlyLive, TimeKeys, Registered
    <2> QED BY <1>a, <2>2, <2>3 DEF OnlyLive
<1>3. ASSUME NEW s \in Sessions, NEW o \in load.options, UpdateTrackingOptions(s, o)
      PROVE  Needed(api, TimeKeys)' /\ OnlyLive'
    <2>1. /\ phase[s] = "open" /\ HandleUpdate(s, o, Owe(s)) /\ UNCHANGED <<phase, reg>> /\ Registered(Owner[s])
        BY <1>3 DEF UpdateTrackingOptions, MayCommand
    <2>2. KeepsNeeded /\ TimeKeys' \subseteq TimeKeys \cup {s}
        BY <1>0, <1>b, <2>1, UpdateServes, KeysOfHandlers
    <2>3. \A t \in TimeKeys \cup {s} : phase'[t] = "open" /\ reg'[Owner[t]] # "gone"
        BY <2>1 DEF OnlyLive, Registered
    <2> QED BY <1>a, <2>2, <2>3 DEF OnlyLive
<1>4. ASSUME NEW s \in Sessions, StopTrackingCommand(s)
      PROVE  Needed(api, TimeKeys)' /\ OnlyLive'
    <2>1. /\ phase' = [phase EXCEPT ![s] = "closed"] /\ HandleStop(s, Owe(s)) /\ UNCHANGED reg
        BY <1>4 DEF StopTrackingCommand
    <2>2. KeepsNeeded
        BY <1>0, <2>1, StopServes
    <2>3. TimeKeys' = TimeKeys \ {s}
        <3>1. CASE TimeKeys = {}
            <4>1. (s \in TimeKeys /\ EraseTrackingSession(s)) \/ time' = time
                BY <2>1 DEF HandleStop
            <4>2. time' = time
                BY <3>1, <4>1
            <4> QED BY <3>1, <4>2 DEF TimeKeys
        <3>2. CASE TimeKeys # {}
            <4>1. PICK o : o \in Options
                BY <1>0, <3>2, KeyOptions
            <4> QED BY <1>0, <2>1, <4>1, KeysOfHandlers
        <3> QED BY <3>1, <3>2
    <2>4. \A t \in TimeKeys \ {s} : phase'[t] = "open" /\ reg'[Owner[t]] # "gone"
        BY <1>c, <2>1 DEF OnlyLive, TimeKeys
    <2> QED BY <1>a, <2>2, <2>3, <2>4 DEF OnlyLive
<1>5. ASSUME NEW c \in Clients, RemoveClient(c)
      PROVE  Needed(api, TimeKeys)' /\ OnlyLive'
    <2>1. KeepsNeeded /\ TimeKeys' = {s \in TimeKeys : Owner[s] # c}
        BY <1>5, RemoveServes
    <2>2. UNCHANGED phase /\ reg' = [reg EXCEPT ![c] = "gone"]
        BY <1>5 DEF RemoveClient
    <2>3. \A t \in TimeKeys : Owner[t] # c => phase'[t] = "open" /\ reg'[Owner[t]] # "gone"
        BY <1>c, <2>2 DEF OnlyLive
    <2> QED BY <1>a, <2>1, <2>3 DEF OnlyLive
<1>6. CASE SuspendAndRestart
    <2>1. api' = (api \o SuspendSessions) \o RestartSessions /\ UNCHANGED <<time, phase, reg>>
        BY <1>6 DEF SuspendAndRestart
    <2>2. api \o SuspendSessions \in Seq(SoundRequests) /\ Needed(api \o SuspendSessions, TimeKeys)
        <3>1. CASE TimeKeys = {}
            <4>1. SuspendSessions = << >>
                BY <3>1 DEF SuspendSessions
            <4> QED BY <1>0, <4>1, ConcatEmptySeq
        <3>2. CASE TimeKeys # {}
            <4> DEFINE r == Request("stop", NoSession, NoOptions, "none", NoOptions)
            <4>1. r \in SoundRequests /\ SuspendSessions = <<r>>
                BY <3>2, UnawaitedRequests, UnawaitedAreSound DEF SuspendSessions
            <4> HIDE DEF r
            <4>2. api \o <<r>> \in Seq(SoundRequests)
                BY <1>0, <4>1
            <4> QED BY <3>2, <4>1, <4>2 DEF Needed
        <3> QED BY <3>1, <3>2
    <2> DEFINE q == api \o SuspendSessions
    <2> HIDE DEF q
    <2>3. q \in Seq(SoundRequests) /\ Needed(q, TimeKeys) /\ api' = q \o RestartSessions
        BY <2>1, <2>2 DEF q
    <2>4. Needed(api, TimeKeys)'
        BY <1>0, <2>1, <2>3, RestartServes
    <2>5. OnlyLive'
        BY <2>1 DEF OnlyLive, TimeKeys
    <2> QED BY <2>4, <2>5
<1> QED BY <1>1, <1>2, <1>3, <1>4, <1>5, <1>6 DEF ClientStep

LEMMA AdapterOnlyNeeded ==
    ASSUME TypeInv, TimeOnly, Recovery, Reliable, TimeOnlyLoad, crashes = 0,
           Needed(api, TimeKeys), OnlyLive, AdapterStep
    PROVE  Needed(api, TimeKeys)' /\ OnlyLive'
<1> DEFINE m == Head(inbox)
<1>0. api \in Seq(SoundRequests) /\ inbox # << >> /\ UNCHANGED <<engine, reg>> /\ inbox \in Seq(TimeMessages)
    <2>1. UNCHANGED reg
        BY Zenon DEF AdapterStep, HandleEngineUp, HandleHeldCommand, StartAnswered, UpdateAnswered, StopAnswered,
            DistanceStopAnswered, RemovedStopAnswered, ToTimeAnswered, RestopAnswered,
            DistanceRestartAnswered, Answered
    <2> QED BY <2>1, AdapterGrows DEF modem, TypeInv, TimeOnly
<1>1. m \in TimeMessages
    BY <1>0, TimeOnlyHead
<1>2. m.kind = "engineUp" \/ (m.kind = "answer" /\ m.then \in {"started", "updated", "stopped"})
    BY <1>1 DEF TimeMessages
<1>3. CASE HandleEngineUp
    <2>1. api' = api \o RestartSessions /\ UNCHANGED <<time, phase>>
        BY <1>3 DEF HandleEngineUp
    <2>2. Needed(api, TimeKeys)'
        BY <1>0, <2>1, RestartServes
    <2> QED BY <1>0, <2>1, <2>2 DEF OnlyLive, TimeKeys
<1>4. CASE StartAnswered \/ UpdateAnswered \/ StopAnswered
    <2>1. m.kind = "answer"
        BY <1>4 DEF StartAnswered, UpdateAnswered, StopAnswered, Answered
    <2>2. m.ok
        BY <1>0, <2>1, NoFailedHead
    <2>3. UNCHANGED <<api, time, phase>>
        BY <1>4, <2>2 DEF StartAnswered, UpdateAnswered, StopAnswered
    <2>4. Needed(api, TimeKeys)'
        BY <1>0, <2>3, NothingServed DEF KeepsNeeded
    <2> QED BY <1>0, <2>3, <2>4 DEF OnlyLive, TimeKeys
<1>5. ~(HandleHeldCommand \/ DistanceStopAnswered \/ RemovedStopAnswered \/ ToTimeAnswered
          \/ RestopAnswered \/ DistanceRestartAnswered)
    <2>1. HandleHeldCommand => m.kind \in {"start", "update"}
        BY DEF HandleHeldCommand
    <2>2. DistanceStopAnswered \/ RemovedStopAnswered \/ ToTimeAnswered \/ RestopAnswered \/ DistanceRestartAnswered
            => m.kind = "answer" /\ m.then \in {"dStopped", "dRemoved", "toTime", "dRestop", "dRestarted"}
        BY DEF DistanceStopAnswered, RemovedStopAnswered, ToTimeAnswered, RestopAnswered,
               DistanceRestartAnswered, Answered
    <2> HIDE DEF m
    <2> QED BY <1>2, <2>1, <2>2
<1> QED BY <1>3, <1>4, <1>5 DEF AdapterStep

\* What the modem leaves of its queue when it has taken the first request.
LEMMA ServedHead ==
    ASSUME TypeInv, api # << >>, api' = Tail(api),
           engine' = IF Head(api) \in FixRequests THEN Result(Head(api)) ELSE engine
    PROVE  \A e : Left(api, FixRequests, engine, e)' => Left(api, FixRequests, engine, e)
<1> SUFFICES ASSUME NEW e, Left(api', FixRequests, engine', e) PROVE Left(api, FixRequests, engine, e)
    OBVIOUS
<1> QED BY LeftTail DEF TypeInv

LEMMA ServeDecides ==
    ASSUME TypeInv, ServeRequest, ~EngineFails, up
    PROVE  /\ api # << >> /\ api' = Tail(api)
           /\ engine' = IF Head(api) \in FixRequests THEN Result(Head(api)) ELSE engine
<1> DEFINE r == Head(api)
<1>1. /\ api # << >> /\ api' = Tail(api) /\ r.op # "open"
      /\ \E ok \in Outcomes(r) :
            engine' = IF ok /\ r.op = "start" THEN r.opts
                      ELSE IF ok /\ r.op = "stop" THEN NoOptions ELSE engine
    BY DEF ServeRequest
<1>2. r \in SoundRequests
    BY <1>1, HeadTailProperties DEF TypeInv
<1>3. r.op \in {"start", "stop"} => Outcomes(r) = {TRUE}
    BY DEF Outcomes
<1> DEFINE none == NoOptions
<1>4. r \in FixRequests <=> r.op \in {"start", "stop"}
    BY <1>2 DEF FixRequests
<1>5. Result(r) = IF r.op \in {"start", "startD"} THEN r.opts ELSE none
    BY DEF Result
<1>6. \E ok \in Outcomes(r) : engine' = IF ok /\ r.op = "start" THEN r.opts
                                         ELSE IF ok /\ r.op = "stop" THEN none ELSE engine
    BY <1>1
<1>7. api # << >> /\ api' = Tail(api)
    BY <1>1
<1> HIDE DEF r, none
<1>9. r.op \in {"open", "start", "stop", "startD", "stopD"}
    BY <1>2, RequestFields
<1>8. engine' = IF r \in FixRequests THEN Result(r) ELSE engine
    <2>1. CASE r.op \in {"start", "stop"}
        <3>1. engine' = IF r.op = "start" THEN r.opts ELSE none
            <4>1. Outcomes(r) = {TRUE}
                BY <1>3, <2>1
            <4>2. engine' = IF TRUE /\ r.op = "start" THEN r.opts
                            ELSE IF TRUE /\ r.op = "stop" THEN none ELSE engine
                BY <1>6, <4>1
            <4> QED BY <2>1, <4>2
        <3> QED BY <1>4, <1>5, <2>1, <3>1
    <2>2. CASE r.op \notin {"start", "stop"}
        <3>1. engine' = engine
            BY <1>6, <2>2
        <3> QED BY <1>4, <2>2, <3>1
    <2> QED BY <2>1, <2>2
<1> QED BY <1>7, <1>8 DEF r

LEMMA OpenDecides ==
    ASSUME TypeInv, Open
    PROVE  /\ api # << >> /\ api' = Tail(api) /\ UNCHANGED engine /\ Head(api) \notin FixRequests
BY DEF Open, FixRequests

LEMMA StepOnlyNeeded ==
    ASSUME ~EngineFails
    PROVE  TypeInv /\ TimeOnly /\ Recovery /\ OnlyNeeded /\ [Next]_vars => OnlyNeeded'
<1> SUFFICES ASSUME TypeInv, TimeOnly, Recovery, OnlyNeeded, [Next]_vars PROVE OnlyNeeded'
    OBVIOUS
<1>0. UNCHANGED load
    BY LoadStays
<1> SUFFICES ASSUME TimeOnlyLoad, crashes' = 0 PROVE Needed(api, TimeKeys)' /\ OnlyLive'
    BY <1>0 DEF OnlyNeeded, TimeOnlyLoad
<1>1. Reliable
    BY DEF Reliable
<1>2. CASE UNCHANGED vars
    <2>1. UNCHANGED <<api, time, engine, reg, phase, crashes>>
        BY <1>2 DEF vars
    <2>2. Needed(api, TimeKeys)'
        BY <2>1, NothingServed DEF KeepsNeeded, OnlyNeeded
    <2> QED BY <2>1, <2>2 DEF OnlyNeeded, OnlyLive, TimeKeys
<1>3. CASE ClientStep
    <2>1. crashes = 0
        BY <1>3, ClientGrows DEF modem
    <2> QED BY <1>3, <2>1, ClientOnlyNeeded DEF OnlyNeeded
<1>4. CASE AdapterStep
    <2>1. crashes = 0
        BY <1>4, AdapterGrows DEF modem
    <2> QED BY <1>1, <1>4, <2>1, AdapterOnlyNeeded DEF OnlyNeeded
<1>5. CASE ModemStep
    <2>1. crashes = 0 /\ UNCHANGED <<reg, phase, time>>
        BY <1>5 DEF ModemStep, ServeRequest, Open
    <2>2. Needed(api, TimeKeys) /\ OnlyLive
        BY <2>1 DEF OnlyNeeded
    <2>3. \A e : Left(api, FixRequests, engine, e)' => Left(api, FixRequests, engine, e)
        <3>1. CASE ServeRequest
            <4>1. up
                BY <1>1, <2>1, <3>1 DEF Recovery, NothingFails, ServeRequest
            <4> QED BY <3>1, <4>1, ServeDecides, ServedHead
        <3>2. CASE Open
            BY <3>2, OpenDecides, ServedHead
        <3> QED BY <1>5, <3>1, <3>2 DEF ModemStep
    <2>4. TimeKeys' = TimeKeys
        BY <2>1 DEF TimeKeys
    <2> QED BY <2>1, <2>2, <2>3, <2>4 DEF Needed, OnlyLive
<1>6. CASE Crash
    <2>1. crashes' = crashes + 1 /\ crashes \in Nat
        BY <1>6 DEF Crash, TypeInv
    <2> QED BY <2>1
<1> QED BY <1>2, <1>3, <1>4, <1>5, <1>6 DEF Next

\* Once the queues are drained nothing is left for nobody: of a modem that refuses
\* no request, whatever the clients do and however many commands they have open.
THEOREM NothingLeftForNobody ==
    ASSUME ~EngineFails
    PROVE  Spec => []NothingForNobody
<1>1. TypeInv /\ OnlyNeeded => NothingForNobody
    <2> SUFFICES ASSUME TypeInv, OnlyNeeded, Idle, crashes = 0, TimeOnlyLoad
                 PROVE  (engine # NoOptions => TimeKeys # {}) /\ OnlyLive
        BY DEF NothingForNobody, TimeOnlyLoad, OnlyLive
    <2>1. api = << >>
        BY DEF Idle
    <2>2. Left(api, FixRequests, engine, engine)
        BY <2>1, LeftEmpty
    <2> QED BY <2>2 DEF OnlyNeeded, Needed
<1>2. TypeInv /\ TimeOnly /\ Recovery /\ OnlyNeeded /\ [Next]_vars => OnlyNeeded'
    BY StepOnlyNeeded
<1> QED BY <1>1, <1>2, InitOnlyNeeded, StrongInvariant, PTL DEF Spec

-----------------------------------------------------------------------------
(* The fix session serves the time based sessions *)

\* A modem that restarts is opened again, and then all sessions are restarted.
FixesFollow == Reliable => Opens(api) \/ ComesUp(inbox, 0) \/ Served(api, TimeKeys)

LEMMA InitFixesFollow == Init => FixesFollow
<1> SUFFICES ASSUME Init PROVE Opens(api)
    BY DEF FixesFollow
<1> DEFINE r == OpenRequest
<1>1. api = <<r>> /\ r.op = "open"
    BY Zenon DEF Init, OpenRequest
<1> HIDE DEF r
<1>2. 1 \in 1 .. Len(api) /\ api[1].op = "open"
    BY <1>1
<1> QED BY <1>2 DEF Opens

LEMMA OpensGrows ==
    ASSUME TypeInv, Grows, Opens(api)
    PROVE  Opens(api')
<1>1. PICK R \in Seq(SoundRequests) : api' = api \o R
    BY DEF Grows
<1> QED BY <1>1, OpensConcat DEF TypeInv

\* An engine-up behind the head stays in the queue.
LEMMA ComesUpStays ==
    ASSUME NEW q \in Seq(SoundMessages), NEW P \in Seq(SoundMessages), q # << >>,
           NEW i \in Nat, ComesUp(q, i + 1)
    PROVE  ComesUp(Tail(q) \o P, i)
<1>1. PICK j \in 1 .. Len(q) : j > i + 1 /\ q[j].kind = "engineUp"
    BY DEF ComesUp
<1>2. j # 1
    BY <1>1
<1>3. /\ Tail(q) \in Seq(SoundMessages)
      /\ j - 1 \in 1 .. Len(Tail(q)) /\ Tail(q)[j - 1].kind = "engineUp" /\ j - 1 > i
    BY <1>1, <1>2, TailIndex
<1>4. j - 1 \in 1 .. Len(Tail(q) \o P) /\ (Tail(q) \o P)[j - 1] = Tail(q)[j - 1]
    BY <1>3, ConcatIndex
<1> QED BY <1>3, <1>4 DEF ComesUp

LEMMA ComesUpNext ==
    ASSUME TypeInv, AdapterStep, NEW i \in Nat
    PROVE  /\ inbox # << >>
           /\ ComesUp(inbox, i + 1) => ComesUp(inbox', i)
           /\ Head(inbox).kind # "engineUp" /\ ComesUp(inbox, 0) => ComesUp(inbox', 0)
<1>1. /\ inbox # << >> /\ inbox \in Seq(SoundMessages)
      /\ inbox' = Tail(inbox) \/ inbox' = Tail(inbox) \o pending
    BY AdapterGrows DEF TypeInv
<1>2. pending \in Seq(SoundMessages) /\ << >> \in Seq(SoundMessages) /\ Tail(inbox) \o << >> = Tail(inbox)
    <2>1. Held \subseteq SoundMessages
        BY DEF SoundMessages
    <2> QED BY <1>1, <2>1, WiderSeq, HeadOfInbox, ConcatEmptySeq DEF TypeInv
<1>3. \A k \in Nat : ComesUp(inbox, k + 1) => ComesUp(inbox', k)
    BY <1>1, <1>2, ComesUpStays
<1>4. ASSUME Head(inbox).kind # "engineUp", ComesUp(inbox, 0) PROVE ComesUp(inbox, 1)
    <2>1. PICK j \in 1 .. Len(inbox) : inbox[j].kind = "engineUp"
        BY <1>4 DEF ComesUp
    <2>2. j # 1
        BY <1>1, <1>4, <2>1, TailIndex
    <2>3. j > 1
        BY <2>2
    <2> QED BY <2>1, <2>3 DEF ComesUp
<1>5. ComesUp(inbox, 0 + 1) => ComesUp(inbox', 0)
    BY <1>3
<1>6. ComesUp(inbox, 1) => ComesUp(inbox', 0)
    BY <1>5
<1> QED BY <1>1, <1>3, <1>4, <1>6

\* Where nothing has yet to come up the answer at hand is no failure.
LEMMA HeadSucceeded ==
    ASSUME TypeInv, Recovery, Reliable, inbox # << >>, Head(inbox).kind = "answer"
    PROVE  Head(inbox).ok \/ Opens(api) \/ ComesUp(inbox, 1)
<1>1. 1 \in 1 .. Len(inbox) /\ Head(inbox) = inbox[1]
    BY EmptySeq, LenProperties, HeadTailProperties DEF TypeInv
<1> QED BY <1>1 DEF Recovery, FailuresRecover, Failed

LEMMA ClientFixesFollow ==
    ASSUME TypeInv, Reliable, ClientStep
    PROVE  KeepsServed
<1>0. UNCHANGED engine /\ api \in Seq(SoundRequests) /\ DistOK /\ TimeOK
    BY ClientGrows DEF modem, TypeInv
<1>a. \A o \in load.options : o \in Options /\ (o.distance => DistanceSupported)
    BY LoadTypes DEF Reliable, TimeOnlyLoad
<1>1. CASE SuspendAndRestart
    <2>1. api' = (api \o SuspendSessions) \o RestartSessions /\ UNCHANGED time
        BY <1>1 DEF SuspendAndRestart
    <2> DEFINE q == api \o SuspendSessions
    <2>2. q \in Seq(SoundRequests)
        <3>1. SuspendSessions \in Seq(SoundRequests)
            BY <1>0, RestartsAreUnawaited, UnawaitedAreSound, WiderSeq
        <3> QED BY <1>0, <3>1
    <2> HIDE DEF q
    <2>3. api' = q \o RestartSessions
        BY <2>1 DEF q
    <2> QED BY <1>0, <2>1, <2>2, <2>3, RestartServes DEF KeepsServed
<1>2. ASSUME NEW s \in Sessions, NEW o \in load.options, StartTracking(s, o) PROVE KeepsServed
    BY <1>0, <1>a, <1>2, StartServes DEF StartTracking
<1>3. ASSUME NEW s \in Sessions, NEW o \in load.options, UpdateTrackingOptions(s, o) PROVE KeepsServed
    BY <1>0, <1>a, <1>3, UpdateServes DEF UpdateTrackingOptions
<1>4. ASSUME NEW s \in Sessions, StopTrackingCommand(s) PROVE KeepsServed
    BY <1>0, <1>4, StopServes DEF StopTrackingCommand
<1>5. ASSUME NEW c \in Clients, RemoveClient(c) PROVE KeepsServed
    BY <1>5, RemoveServes
<1>6. ASSUME NEW c \in Clients, NEW kind \in CallbackKinds, AddClient(c, kind) PROVE KeepsServed
    BY <1>0, <1>6, NothingServed DEF AddClient
<1> QED BY <1>1, <1>2, <1>3, <1>4, <1>5, <1>6 DEF ClientStep

\* Erasing or finding nothing to do serves all that are left.
LEMMA ErasedServed ==
    ASSUME TypeInv, UNCHANGED <<api, engine>>, NEW s \in Sessions, EraseTrackingSession(s) \/ UNCHANGED time
    PROVE  KeepsServed
<1>1. TimeKeys' \subseteq TimeKeys /\ \A t \in TimeKeys' : time'[t] = time[t]
    <2>1. CASE s \in TimeKeys /\ EraseTrackingSession(s)
        <3>1. time' = [time EXCEPT ![s] = NoOptions]
            BY <2>1, SaveErase
        <3> QED BY <3>1, KeysAfter DEF TypeInv
    <2>2. CASE time' = time
        <3>1. TimeKeys' = TimeKeys
            BY <2>2 DEF TimeKeys
        <3> QED BY <2>2, <3>1
    <2>3. s \notin TimeKeys /\ EraseTrackingSession(s) => time' = time
        BY SaveErase
    <2> QED BY <2>1, <2>2, <2>3
<1> QED BY <1>1, ServedLater DEF KeepsServed

LEMMA AdapterFixesFollow ==
    ASSUME TypeInv, TimeOnly, Reliable, AdapterStep, Head(inbox).kind = "answer" => Head(inbox).ok
    PROVE  KeepsServed
<1> DEFINE m == Head(inbox)
<1>0. api \in Seq(SoundRequests) /\ inbox # << >> /\ UNCHANGED engine /\ m \in SoundMessages
    BY AdapterGrows, HeadOfInbox DEF modem, TypeInv
<1>1. CASE HandleEngineUp
    <2>1. api' = api \o RestartSessions /\ UNCHANGED time
        BY <1>1 DEF HandleEngineUp
    <2> QED BY <1>0, <2>1, RestartServes DEF KeepsServed
<1>a. TimeOnlyLoad => m.kind = "engineUp" \/ (m.kind = "answer" /\ m.then \in {"started", "updated", "stopped"})
    <2>1. TimeOnlyLoad => m \in TimeMessages
        BY <1>0, TimeOnlyHead DEF TimeOnly
    <2> QED BY <2>1 DEF TimeMessages
<1>2. CASE HandleHeldCommand
    <2>1. m.kind \in {"start", "update"} /\ (HandleStart(m.s, m.opts, owed) \/ HandleUpdate(m.s, m.opts, owed))
        BY <1>2 DEF HandleHeldCommand
    <2>2. m.s \in Sessions /\ m.opts \in Options
        BY <1>0, <2>1, HeldFields
    <2>3. DistanceSupported
        BY <1>a, <2>1 DEF Reliable
    <2> HIDE DEF m
    <2> QED BY <1>0, <2>1, <2>2, <2>3, StartServes, UpdateServes
<1>3. CASE StartAnswered \/ UpdateAnswered \/ StopAnswered
    <2>1. m.ok
        BY <1>3 DEF StartAnswered, UpdateAnswered, StopAnswered, Answered
    <2>2. UNCHANGED <<api, time>>
        BY <1>3, <2>1 DEF StartAnswered, UpdateAnswered, StopAnswered
    <2> QED BY <1>0, <2>2, NothingServed
<1>4. CASE DistanceStopAnswered \/ RemovedStopAnswered
    <2>1. /\ m.kind = "answer" /\ UNCHANGED api
          /\ EraseTrackingSession(m.s) \/ UNCHANGED time
        BY <1>4 DEF DistanceStopAnswered, RemovedStopAnswered, Answered
    <2>2. m.s \in Sessions
        BY <1>0, <2>1, AnswerFields
    <2> HIDE DEF m
    <2> QED BY <1>0, <2>1, <2>2, ErasedServed
<1>5. CASE ToTimeAnswered
    <2>0. m.kind = "answer" /\ m.then = "toTime"
        BY <1>5 DEF ToTimeAnswered, Answered
    <2>1. m.s \in Sessions /\ m.opts \in Options /\ ~m.opts.distance
        BY <1>0, <2>0, AnswerFields
    <2>2. /\ SaveTrackingSession(m.s, m.opts) /\ api' = api \o StartTimeBasedTrackingMultiplex(m.s, m.opts)
        BY <1>5 DEF ToTimeAnswered
    <2> HIDE DEF m
    <2>3. time' = [time EXCEPT ![m.s] = m.opts]
        BY <2>1, <2>2, SaveErase DEF IsDistanceSession
    <2> DEFINE s == m.s
               o == m.opts
               q == StartTimeBasedTrackingMultiplex(s, o)
    <2>4. \/ q = << >> /\ \E t \in TimeKeys : time[t].interval <= o.interval
          \/ \E r \in Multiplexed(s) : /\ q = <<r>> /\ r.opts \in Options /\ r.opts.interval <= o.interval
                                       /\ Serves(r.opts, TimeKeys \ {s})
        BY <2>1, StartMultiplexed DEF TypeInv, Serves
    <2>5. api' = api \o q /\ time' = [time EXCEPT ![s] = o] /\ s \in Sessions /\ o \in Options
        BY <2>1, <2>2, <2>3
    <2> HIDE DEF q, s, o
    <2> QED BY <1>0, <2>4, <2>5, AddedServed
<1>6. CASE RestopAnswered
    <2>0. m.kind = "answer" /\ m.then = "dRestop" /\ UNCHANGED time
        BY <1>6 DEF RestopAnswered, Answered
    <2>1. m.s \in Sessions /\ m.opts \in Options /\ m.opts.distance /\ m.ok
        BY <1>0, <2>0, AnswerFields
    <2> DEFINE r == StartDistance(m.s, m.opts, "dRestarted")
    <2>2. api' = Append(api, r)
        BY <1>6, <2>1 DEF RestopAnswered
    <2>3. r \in SoundRequests /\ r \notin FixRequests
        BY <2>1, DistanceRequestsAreSound, NotForFixes
    <2>4. TimeKeys' = TimeKeys
        BY <2>0 DEF TimeKeys
    <2> HIDE DEF r
    <2> QED BY <1>0, <2>0, <2>2, <2>3, <2>4, DistanceServed
<1>7. CASE DistanceRestartAnswered
    <2>0. m.kind = "answer" /\ m.then = "dRestarted" /\ UNCHANGED api
        BY <1>7 DEF DistanceRestartAnswered, Answered
    <2>1. m.s \in Sessions /\ m.opts \in Options /\ m.opts.distance /\ m.ok
        BY <1>0, <2>0, AnswerFields
    <2>2. DistanceSupported
        BY <1>a, <2>0 DEF Reliable
    <2>3. time' = time
        BY <1>7, <2>1, <2>2 DEF DistanceRestartAnswered, SaveTrackingSession, IsDistanceSession
    <2> QED BY <1>0, <2>0, <2>3, NothingServed
<1> QED BY <1>1, <1>2, <1>3, <1>4, <1>5, <1>6, <1>7 DEF AdapterStep

LEMMA StepFixesFollow == TypeInv /\ TimeOnly /\ Recovery /\ FixesFollow /\ [Next]_vars => FixesFollow'
<1> SUFFICES ASSUME TypeInv, TimeOnly, Recovery, FixesFollow, [Next]_vars PROVE FixesFollow'
    OBVIOUS
<1>0. UNCHANGED load /\ api \in Seq(SoundRequests) /\ inbox \in Seq(SoundMessages)
    BY LoadStays DEF TypeInv
<1> SUFFICES ASSUME Reliable PROVE Opens(api') \/ ComesUp(inbox', 0) \/ Served(api, TimeKeys)'
    BY <1>0 DEF FixesFollow, Reliable, TimeOnlyLoad
<1>a. Opens(api) \/ ComesUp(inbox, 0) \/ Served(api, TimeKeys)
    BY DEF FixesFollow
<1>1. CASE UNCHANGED vars
    <2>1. UNCHANGED <<api, time, engine, inbox>>
        BY <1>1 DEF vars
    <2> QED BY <1>a, <2>1, NothingServed DEF KeepsServed
<1>2. CASE ClientStep
    <2>1. Grows /\ UNCHANGED inbox
        BY <1>2, ClientGrows
    <2> QED BY <1>a, <1>2, <2>1, OpensGrows, ClientFixesFollow DEF KeepsServed
<1>3. CASE AdapterStep
    <2>1. Grows /\ inbox # << >>
        BY <1>3, AdapterGrows
    <2>2. ComesUp(inbox, 0 + 1) => ComesUp(inbox', 0)
        BY <1>3, ComesUpNext
    <2>3. Head(inbox).kind # "engineUp" /\ ComesUp(inbox, 0) => ComesUp(inbox', 0)
        BY <1>3, ComesUpNext
    <2>4. CASE Opens(api) \/ ComesUp(inbox, 1)
        BY <2>1, <2>2, <2>4, OpensGrows
    <2>5. CASE Head(inbox).kind = "engineUp"
        <3>1. HandleEngineUp
            BY <1>3, <2>5 DEF AdapterStep, HandleHeldCommand, StartAnswered, UpdateAnswered, StopAnswered,
                DistanceStopAnswered, RemovedStopAnswered, ToTimeAnswered, RestopAnswered,
                DistanceRestartAnswered, Answered
        <3>2. api' = api \o RestartSessions /\ UNCHANGED <<time, engine>>
            BY <3>1 DEF HandleEngineUp, modem
        <3> QED BY <1>0, <3>2, RestartServes
    <2>6. CASE ~Opens(api) /\ ~ComesUp(inbox, 1) /\ Head(inbox).kind # "engineUp"
        <3>1. Head(inbox).kind = "answer" => Head(inbox).ok
            BY <2>1, <2>6, HeadSucceeded
        <3> QED BY <1>a, <1>3, <2>3, <2>6, <3>1, AdapterFixesFollow DEF KeepsServed
    <2> QED BY <2>4, <2>5, <2>6
<1>4. CASE ServeRequest
    <2>1. api # << >> /\ Head(api).op # "open" /\ UNCHANGED time /\ api' = Tail(api)
        BY <1>4 DEF ServeRequest
    <2>2. Opens(api) => Opens(api')
        BY <1>0, <2>1, OpensTail
    <2>3. ComesUp(inbox, 0) => ComesUp(inbox', 0)
        <3>1. PICK ok \in Outcomes(Head(api)) :
                 inbox' = IF Head(api).then = "none" THEN inbox ELSE Append(inbox, Answer(Head(api), ok))
            BY <1>4 DEF ServeRequest
        <3> DEFINE a == Answer(Head(api), ok)
        <3>2. inbox' = inbox \/ (inbox' = Append(inbox, a) /\ a \in SoundMessages)
            <4>1. Head(api) \in SoundRequests /\ ok \in BOOLEAN
                BY <1>0, <2>1, HeadTailProperties DEF Outcomes
            <4> QED BY <2>1, <3>1, <4>1, AnswersAreSound
        <3> HIDE DEF a
        <3> SUFFICES ASSUME NEW j \in 1 .. Len(inbox), j > 0, inbox[j].kind = "engineUp" PROVE ComesUp(inbox', 0)
            BY DEF ComesUp
        <3>3. j \in 1 .. Len(inbox') /\ inbox'[j] = inbox[j]
            BY <1>0, <3>2, AppendIndex
        <3> QED BY <3>3 DEF ComesUp
    <2>4. CASE ~up
        BY <2>2, <2>4 DEF Recovery, OpensAgain, Reliable
    <2>5. CASE up
        <3>1. \A e : Left(api, FixRequests, engine, e)' => Left(api, FixRequests, engine, e)
            BY <1>4, <2>5, ServeDecides, ServedHead DEF Reliable
        <3>2. TimeKeys' = TimeKeys
            BY <2>1 DEF TimeKeys
        <3>3. Served(api, TimeKeys) => Served(api, TimeKeys)'
            BY <2>1, <3>1, <3>2 DEF Served, Serves
        <3> QED BY <1>a, <2>2, <2>3, <3>3
    <2> QED BY <2>4, <2>5
<1>5. CASE Open
    <2> DEFINE a == EngineUp
    <2>1. inbox' = Append(inbox, a) /\ a.kind = "engineUp" /\ a \in SoundMessages
        BY <1>5, OpenIs DEF Reliable, EngineUp, SoundMessages
    <2> HIDE DEF a
    <2>2. Len(inbox) + 1 \in 1 .. Len(inbox') /\ inbox'[Len(inbox) + 1].kind = "engineUp" /\ Len(inbox) + 1 > 0
        BY <1>0, <2>1, AppendIndex
    <2> QED BY <2>2 DEF ComesUp
<1>6. CASE Crash
    <2>1. up' = FALSE
        BY <1>6 DEF Crash
    <2>2. Recovery'
        BY StepRecovery
    <2> QED BY <2>1, <2>2 DEF Recovery, OpensAgain, Reliable
<1> QED BY <1>1, <1>2, <1>3, <1>4, <1>5, <1>6 DEF Next, ModemStep

-----------------------------------------------------------------------------
(* What is under way for a session and may bring it into a map *)

\* A change of its options, to a time based session or of one; the renewal of a
\* distance based one; its stop; and the commands that are held.
Kinds == {"switch", "renew", "stop", "start", "update"}
Thens(k) == IF k = "switch" THEN {"toTime", "updated"}
            ELSE IF k = "renew" THEN {"dRestop", "dRestarted"}
            ELSE IF k = "stop" THEN {"dStopped"} ELSE {}
Returns(s, T) == {m \in SoundMessages : m.kind = "answer" /\ m.s = s /\ m.then \in T}
HeldCommands(s, k) == {m \in Held : m.s = s /\ m.kind = k}
Arriving(s, k) == Returns(s, Thens(k)) \cup HeldCommands(s, k)

\* What is under way in the queues of the modem and of held commands, in all
\* queues, and of all kinds.
Queued(s, k) == Count(api, Awaited(s, Thens(k))) + Count(pending, HeldCommands(s, k))
Underway(s, k) == Queued(s, k) + Count(inbox, Arriving(s, k))
Changes(s) == Underway(s, "switch") + Underway(s, "renew") + Underway(s, "stop")
                + Underway(s, "start") + Underway(s, "update")

\* A step adds one item of kind k for s, or none ("none" is no kind).
Gains(s, k) ==
    \A t \in Sessions, j \in Kinds :
        Queued(t, j)' = Queued(t, j) + (IF t = s /\ j = k THEN 1 ELSE 0)
\* Requests whose answers change no map.
Quiet == {r \in SoundRequests : r.op = "open" \/ \A k \in Kinds : r.then \notin Thens(k)}

LEMMA UnderwayIsNat ==
    ASSUME TypeInv, NEW s, NEW k
    PROVE  /\ Queued(s, k) \in Nat /\ Count(inbox, Arriving(s, k)) \in Nat /\ Underway(s, k) \in Nat
           /\ Count(api, Awaited(s, Thens(k))) \in Nat /\ Count(pending, HeldCommands(s, k)) \in Nat
<1>1. /\ Count(api, Awaited(s, Thens(k))) \in Nat /\ Count(pending, HeldCommands(s, k)) \in Nat
      /\ Count(inbox, Arriving(s, k)) \in Nat
    BY CountIsNat DEF TypeInv
<1> QED BY <1>1 DEF Queued, Underway

LEMMA QueuedLater ==
    ASSUME TypeInv, NEW s, NEW k
    PROVE  /\ UNCHANGED <<api, pending>> => Queued(s, k)' = Queued(s, k)
           /\ UNCHANGED inbox => Underway(s, k)' = Queued(s, k)' + Count(inbox, Arriving(s, k))
           /\ Underway(s, k)' = Queued(s, k)' + Count(inbox', Arriving(s, k))
BY DEF Queued, Underway

LEMMA GainsNone ==
    ASSUME TypeInv, NEW s, NEW R \in Seq(Quiet), api' = api \o R, UNCHANGED pending
    PROVE  Gains(s, "none")
<1>0. \A t \in Sessions, j \in Kinds : Queued(t, j) \in Nat /\ j # "none"
    BY UnderwayIsNat DEF Kinds
<1> SUFFICES ASSUME NEW t \in Sessions, NEW j \in Kinds
             PROVE  Queued(t, j)' = Queued(t, j)
    BY <1>0 DEF Gains
<1> DEFINE A == Awaited(t, Thens(j))
<1>1. Quiet \cap A = {} /\ Quiet \subseteq SoundRequests
    BY DEF Quiet, Awaited
<1> HIDE DEF A
<1>2. Count(R, A) = 0
    BY <1>1, CountSeqNone
<1>3. R \in Seq(SoundRequests) /\ api \in Seq(SoundRequests)
    BY <1>1, WiderSeq DEF TypeInv
<1>4. Count(api', A) = Count(api, A) + 0 /\ Count(api, A) \in Nat
    BY <1>2, <1>3, CountConcat, CountIsNat
<1> QED BY <1>4 DEF Queued, A

LEMMA ThensApart ==
    \A j, k \in Kinds : \A x : x \in Thens(j) /\ x \in Thens(k) => j = k
BY DEF Kinds, Thens

LEMMA GainsRequest ==
    ASSUME TypeInv, NEW s, NEW k \in Kinds, NEW r \in Awaited(s, Thens(k)),
           api' = Append(api, r), UNCHANGED pending
    PROVE  Gains(s, k)
<1> SUFFICES ASSUME NEW t \in Sessions, NEW j \in Kinds
             PROVE  Queued(t, j)' = Queued(t, j) + (IF t = s /\ j = k THEN 1 ELSE 0)
    BY DEF Gains
<1> DEFINE A == Awaited(t, Thens(j))
<1>1. r \in SoundRequests /\ (r \in A <=> t = s /\ j = k)
    BY ThensApart DEF Awaited
<1>a. api \in Seq(SoundRequests) /\ Count(api, A) \in Nat /\ Count(pending, HeldCommands(t, j)) \in Nat
    BY UnderwayIsNat DEF TypeInv
<1> HIDE DEF A
<1>2. Count(api', A) = Count(api, A) + (IF r \in A THEN 1 ELSE 0)
    BY <1>1, <1>a, CountAppend
<1>3. /\ Queued(t, j)' = Count(api', A) + Count(pending, HeldCommands(t, j))
      /\ Queued(t, j) = Count(api, A) + Count(pending, HeldCommands(t, j))
    BY DEF Queued, A
<1> QED BY <1>1, <1>2, <1>3, <1>a

LEMMA GainsCommand ==
    ASSUME TypeInv, NEW s, NEW k \in Kinds, NEW c \in HeldCommands(s, k),
           pending' = Append(pending, c), UNCHANGED api
    PROVE  Gains(s, k)
<1> SUFFICES ASSUME NEW t \in Sessions, NEW j \in Kinds
             PROVE  Queued(t, j)' = Queued(t, j) + (IF t = s /\ j = k THEN 1 ELSE 0)
    BY DEF Gains
<1> DEFINE A == HeldCommands(t, j)
<1>1. c \in Held /\ (c \in A <=> t = s /\ j = k)
    BY DEF HeldCommands
<1>a. pending \in Seq(Held) /\ Count(pending, A) \in Nat /\ Count(api, Awaited(t, Thens(j))) \in Nat
    BY UnderwayIsNat DEF TypeInv
<1> HIDE DEF A
<1>2. Count(pending', A) = Count(pending, A) + (IF c \in A THEN 1 ELSE 0)
    BY <1>1, <1>a, CountAppend
<1>3. /\ Queued(t, j)' = Count(api, Awaited(t, Thens(j))) + Count(pending', A)
      /\ Queued(t, j) = Count(api, Awaited(t, Thens(j))) + Count(pending, A)
    BY DEF Queued, A
<1> QED BY <1>1, <1>2, <1>3, <1>a

\* The head of the adapter's queue is one item less.
LEMMA HeadArrives ==
    ASSUME TypeInv, inbox # << >>, inbox' = Tail(inbox), NEW s, NEW k \in Kinds, Head(inbox) \in Arriving(s, k)
    PROVE  \A t \in Sessions, j \in Kinds :
             Count(inbox, Arriving(t, j)) = Count(inbox', Arriving(t, j)) + (IF t = s /\ j = k THEN 1 ELSE 0)
<1> SUFFICES ASSUME NEW t \in Sessions, NEW j \in Kinds
             PROVE  Count(inbox, Arriving(t, j)) = Count(inbox', Arriving(t, j)) + (IF t = s /\ j = k THEN 1 ELSE 0)
    OBVIOUS
<1> DEFINE m == Head(inbox)
           A == Arriving(t, j)
<1>1. m \in A <=> t = s /\ j = k
    <2>1. \A x \in Held : x.kind \in {"start", "update"}
        BY DEF Held
    <2>2. m.s = s /\ ((m.kind = "answer" /\ m.then \in Thens(k)) \/ (m \in Held /\ m.kind = k))
        BY DEF Arriving, Returns, HeldCommands
    <2>3. m \in A <=> m.s = t /\ ((m.kind = "answer" /\ m.then \in Thens(j) /\ m \in SoundMessages) \/ (m \in Held /\ m.kind = j))
        BY DEF Arriving, Returns, HeldCommands
    <2>4. m \in SoundMessages
        BY HeadOfInbox
    <2> HIDE DEF m, A
    <2>5. CASE m.kind = "answer"
        BY <2>1, <2>2, <2>3, <2>4, <2>5, ThensApart
    <2>6. CASE m.kind # "answer"
        BY <2>1, <2>2, <2>3, <2>6
    <2> QED BY <2>5, <2>6
<1>2. inbox \in Seq(SoundMessages) /\ Tail(inbox) \in Seq(SoundMessages)
    BY HeadOfInbox DEF TypeInv
<1> HIDE DEF A
<1>3. Count(inbox, A) = (IF m \in A THEN 1 ELSE 0) + Count(inbox', A) /\ Count(inbox', A) \in Nat
    BY <1>2, CountTail, CountIsNat
<1> QED BY <1>1, <1>3 DEF A

LEMMA OtherArrives ==
    ASSUME TypeInv, inbox # << >>, inbox' = Tail(inbox), \A t \in Sessions, j \in Kinds : Head(inbox) \notin Arriving(t, j)
    PROVE  \A t \in Sessions, j \in Kinds : Count(inbox, Arriving(t, j)) = Count(inbox', Arriving(t, j))
<1> SUFFICES ASSUME NEW t \in Sessions, NEW j \in Kinds
             PROVE  Count(inbox, Arriving(t, j)) = Count(inbox', Arriving(t, j))
    OBVIOUS
<1> DEFINE A == Arriving(t, j)
<1>1. Head(inbox) \notin A
    OBVIOUS
<1>2. inbox \in Seq(SoundMessages) /\ Tail(inbox) \in Seq(SoundMessages)
    BY HeadOfInbox DEF TypeInv
<1> HIDE DEF A
<1>3. Count(inbox, A) = (IF Head(inbox) \in A THEN 1 ELSE 0) + Count(inbox', A) /\ Count(inbox', A) \in Nat
    BY <1>2, CountTail, CountIsNat
<1> QED BY <1>1, <1>3 DEF A

-----------------------------------------------------------------------------
(* One map for each session *)

\* At most one change of s is under way, s is in one map at most, and the answer
\* that is to put it into one map does not find it in the other.
Sorted(s) ==
    /\ Changes(s) <= 1
    /\ s \notin TimeKeys \/ s \notin DistKeys
    /\ Underway(s, "switch") > 0 => s \notin DistKeys
    /\ Underway(s, "renew") > 0 => s \notin TimeKeys
    /\ Underway(s, "start") > 0 => s \notin TimeKeys /\ s \notin DistKeys
    /\ phase[s] = "new" => Changes(s) = 0 /\ s \notin TimeKeys /\ s \notin DistKeys

\* A handler for s that sends an item of kind k changes the maps for s only, as
\* that kind allows.
KeysStep(s, k) ==
    /\ \A t \in Sessions : t # s => (t \in TimeKeys' => t \in TimeKeys) /\ (t \in DistKeys' => t \in DistKeys)
    /\ s \notin TimeKeys' \/ s \notin DistKeys'
    /\ k = "switch" => s \notin DistKeys'
    /\ k = "renew" => s \notin TimeKeys'
    /\ k = "start" => s \notin TimeKeys' /\ s \notin DistKeys'

LEMMA ChangesParts ==
    ASSUME TypeInv, NEW s
    PROVE  /\ Changes(s) \in Nat /\ \A k \in Kinds : Underway(s, k) \in Nat /\ Underway(s, k) <= Changes(s)
           /\ (\A k \in Kinds : Underway(s, k) = 0) <=> Changes(s) = 0
           /\ \A k \in Kinds : Underway(s, k) > 0 /\ Changes(s) <= 1 =>
                Underway(s, k) = 1 /\ \A j \in Kinds : j # k => Underway(s, j) = 0
<1> DEFINE a == Underway(s, "switch")
           b == Underway(s, "renew")
           c == Underway(s, "stop")
           d == Underway(s, "start")
           e == Underway(s, "update")
<1>1. a \in Nat /\ b \in Nat /\ c \in Nat /\ d \in Nat /\ e \in Nat
    BY UnderwayIsNat
<1>2. Changes(s) = a + b + c + d + e
    BY DEF Changes
<1>3. \A k \in Kinds : \/ k = "switch" /\ Underway(s, k) = a
                       \/ k = "renew" /\ Underway(s, k) = b
                       \/ k = "stop" /\ Underway(s, k) = c
                       \/ k = "start" /\ Underway(s, k) = d
                       \/ k = "update" /\ Underway(s, k) = e
    BY DEF Kinds
<1>4. "switch" \in Kinds /\ "renew" \in Kinds /\ "stop" \in Kinds /\ "start" \in Kinds /\ "update" \in Kinds
    BY DEF Kinds
<1>5. (\A k \in Kinds : Underway(s, k) = 0) => a = 0 /\ b = 0 /\ c = 0 /\ d = 0 /\ e = 0
    BY <1>4
<1> HIDE DEF a, b, c, d, e
<1>6. Changes(s) \in Nat /\ \A k \in Kinds : Underway(s, k) \in Nat /\ Underway(s, k) <= Changes(s)
    BY <1>1, <1>2, <1>3
<1>7. (\A k \in Kinds : Underway(s, k) = 0) <=> Changes(s) = 0
    BY <1>1, <1>2, <1>3, <1>5
<1>8. ASSUME NEW k \in Kinds, Underway(s, k) > 0, Changes(s) <= 1
      PROVE  Underway(s, k) = 1 /\ \A j \in Kinds : j # k => Underway(s, j) = 0
    <2>1. a + b + c + d + e <= 1
        BY <1>2, <1>8
    <2>2. CASE k = "switch"
        <3>1. a = 1 /\ b = 0 /\ c = 0 /\ d = 0 /\ e = 0
            BY <1>1, <1>3, <1>8, <2>1, <2>2
        <3> QED BY <1>3, <2>2, <3>1
    <2>3. CASE k = "renew"
        <3>1. a = 0 /\ b = 1 /\ c = 0 /\ d = 0 /\ e = 0
            BY <1>1, <1>3, <1>8, <2>1, <2>3
        <3> QED BY <1>3, <2>3, <3>1
    <2>4. CASE k = "stop"
        <3>1. a = 0 /\ b = 0 /\ c = 1 /\ d = 0 /\ e = 0
            BY <1>1, <1>3, <1>8, <2>1, <2>4
        <3> QED BY <1>3, <2>4, <3>1
    <2>5. CASE k = "start"
        <3>1. a = 0 /\ b = 0 /\ c = 0 /\ d = 1 /\ e = 0
            BY <1>1, <1>3, <1>8, <2>1, <2>5
        <3> QED BY <1>3, <2>5, <3>1
    <2>6. CASE k = "update"
        <3>1. a = 0 /\ b = 0 /\ c = 0 /\ d = 0 /\ e = 1
            BY <1>1, <1>3, <1>8, <2>1, <2>6
        <3> QED BY <1>3, <2>6, <3>1
    <2> QED BY <2>2, <2>3, <2>4, <2>5, <2>6 DEF Kinds
<1> QED BY <1>6, <1>7, <1>8

LEMMA ChangesPartsLater ==
    ASSUME TypeInv', NEW s
    PROVE  /\ Changes(s)' \in Nat /\ \A k \in Kinds : Underway(s, k)' \in Nat /\ Underway(s, k)' <= Changes(s)'
           /\ (\A k \in Kinds : Underway(s, k)' = 0) <=> Changes(s)' = 0
<1> DEFINE a == Underway(s, "switch")'
           b == Underway(s, "renew")'
           c == Underway(s, "stop")'
           d == Underway(s, "start")'
           e == Underway(s, "update")'
<1>a. \A k : /\ Count(api', Awaited(s, Thens(k))) \in Nat /\ Count(pending', HeldCommands(s, k)) \in Nat
             /\ Count(inbox', Arriving(s, k)) \in Nat
    BY CountIsNat DEF TypeInv
<1>b. \A k : Underway(s, k)' = (Count(api', Awaited(s, Thens(k))) + Count(pending', HeldCommands(s, k)))
                                   + Count(inbox', Arriving(s, k))
    BY DEF Underway, Queued
<1>1. a \in Nat /\ b \in Nat /\ c \in Nat /\ d \in Nat /\ e \in Nat
    BY <1>a, <1>b
<1>2. Changes(s)' = a + b + c + d + e
    BY DEF Changes
<1>3. \A k \in Kinds : \/ k = "switch" /\ Underway(s, k)' = a
                       \/ k = "renew" /\ Underway(s, k)' = b
                       \/ k = "stop" /\ Underway(s, k)' = c
                       \/ k = "start" /\ Underway(s, k)' = d
                       \/ k = "update" /\ Underway(s, k)' = e
    BY DEF Kinds
<1>4. "switch" \in Kinds /\ "renew" \in Kinds /\ "stop" \in Kinds /\ "start" \in Kinds /\ "update" \in Kinds
    BY DEF Kinds
<1>5. (\A k \in Kinds : Underway(s, k)' = 0) => a = 0 /\ b = 0 /\ c = 0 /\ d = 0 /\ e = 0
    BY <1>4
<1> HIDE DEF a, b, c, d, e
<1>6. Changes(s)' \in Nat /\ \A k \in Kinds : Underway(s, k)' \in Nat /\ Underway(s, k)' <= Changes(s)'
    BY <1>1, <1>2, <1>3
<1>7. (\A k \in Kinds : Underway(s, k)' = 0) <=> Changes(s)' = 0
    BY <1>1, <1>2, <1>3, <1>5
<1> QED BY <1>6, <1>7

\* Nothing new for t.
LEMMA SortedSame ==
    ASSUME TypeInv, TypeInv', NEW t \in Sessions, Sorted(t),
           \A j \in Kinds : Underway(t, j)' <= Underway(t, j),
           t \in TimeKeys' => t \in TimeKeys, t \in DistKeys' => t \in DistKeys,
           phase'[t] = "new" => phase[t] = "new"
    PROVE  Sorted(t)'
<1>1. \A j \in Kinds : Underway(t, j) \in Nat /\ Underway(t, j)' \in Nat
    BY ChangesParts, ChangesPartsLater
<1>2. "switch" \in Kinds /\ "renew" \in Kinds /\ "stop" \in Kinds /\ "start" \in Kinds /\ "update" \in Kinds
    BY DEF Kinds
<1>3. Changes(t)' <= Changes(t) /\ Changes(t) \in Nat /\ Changes(t)' \in Nat
    <2>1. Changes(t)' = Underway(t, "switch")' + Underway(t, "renew")' + Underway(t, "stop")'
                          + Underway(t, "start")' + Underway(t, "update")'
        BY DEF Changes
    <2> QED BY <1>1, <1>2, <2>1 DEF Changes
<1>4. \A j \in Kinds : Underway(t, j)' > 0 => Underway(t, j) > 0
    BY <1>1
<1> QED BY <1>2, <1>3, <1>4 DEF Sorted

\* Only the item of kind k is under way for s, if any.
LEMMA SortedFresh ==
    ASSUME TypeInv', NEW s \in Sessions, NEW k, KeysStep(s, k),
           \A j \in Kinds : Underway(s, j)' = IF j = k THEN 1 ELSE 0, phase'[s] # "new"
    PROVE  Sorted(s)'
<1>1. "switch" \in Kinds /\ "renew" \in Kinds /\ "stop" \in Kinds /\ "start" \in Kinds /\ "update" \in Kinds
    BY DEF Kinds
<1>2. \A j \in Kinds : Underway(s, j)' > 0 => j = k
    OBVIOUS
<1>3. Changes(s)' <= 1
    <2>1. Changes(s)' = Underway(s, "switch")' + Underway(s, "renew")' + Underway(s, "stop")'
                          + Underway(s, "start")' + Underway(s, "update")'
        BY DEF Changes
    <2> QED BY <1>1, <2>1
<1> QED BY <1>1, <1>2, <1>3 DEF Sorted, KeysStep

LEMMA SortedMoves ==
    ASSUME TypeInv, TypeInv', \A t \in Sessions : Sorted(t), NEW s \in Sessions, NEW k \in Kinds \cup {"none"},
           KeysStep(s, k), Gains(s, k),
           \A j \in Kinds : Queued(s, j) + Count(inbox', Arriving(s, j)) = 0,
           \A t \in Sessions, j \in Kinds : Count(inbox', Arriving(t, j)) <= Count(inbox, Arriving(t, j)),
           phase'[s] # "new", \A t \in Sessions : phase'[t] = "new" => phase[t] = "new"
    PROVE  \A t \in Sessions : Sorted(t)'
<1>0. inbox' \in Seq(SoundMessages)
    BY DEF TypeInv
<1>1. \A t \in Sessions, j \in Kinds :
         /\ Queued(t, j) \in Nat /\ Count(inbox', Arriving(t, j)) \in Nat /\ Count(inbox, Arriving(t, j)) \in Nat
         /\ Underway(t, j) = Queued(t, j) + Count(inbox, Arriving(t, j))
         /\ Underway(t, j)' = (Queued(t, j) + (IF t = s /\ j = k THEN 1 ELSE 0)) + Count(inbox', Arriving(t, j))
    <2>1. \A t \in Sessions, j \in Kinds : Count(inbox', Arriving(t, j)) \in Nat
        BY <1>0, CountIsNat
    <2>2. \A t \in Sessions, j \in Kinds : Queued(t, j) \in Nat /\ Count(inbox, Arriving(t, j)) \in Nat
        BY UnderwayIsNat
    <2>3. \A t \in Sessions, j \in Kinds :
             /\ Underway(t, j) = Queued(t, j) + Count(inbox, Arriving(t, j))
             /\ Underway(t, j)' = Queued(t, j)' + Count(inbox', Arriving(t, j))
        BY DEF Underway
    <2> QED BY <2>1, <2>2, <2>3 DEF Gains
<1>2. \A j \in Kinds : Underway(s, j)' = IF j = k THEN 1 ELSE 0
    BY <1>1
<1>3. Sorted(s)'
    BY <1>2, SortedFresh
<1>4. ASSUME NEW t \in Sessions, t # s PROVE Sorted(t)'
    <2>1. \A j \in Kinds : Underway(t, j)' <= Underway(t, j)
        BY <1>1, <1>4
    <2> QED BY <1>4, <2>1, SortedSame DEF KeysStep
<1> QED BY <1>3, <1>4

-----------------------------------------------------------------------------
(* Which map a session goes to, with a modem that supports distance based ones *)

PlainTimes == \A s \in TimeKeys : ~time[s].distance
PlainRequests ==
    {r \in SoundRequests : r.op = "open" \/ (r.then = "updated" => ~r.old.distance)}
PlainMessages ==
    {m \in SoundMessages : m.kind = "answer" /\ m.then = "updated" => ~m.old.distance}

\* The options an update restores are those of a time based session; without the
\* modem's support there are no others.
Plain ==
    /\ DistanceSupported => PlainTimes /\ api \in Seq(PlainRequests) /\ inbox \in Seq(PlainMessages)
    /\ ~DistanceSupported => DistKeys = {}

LEMMA DistKeysAfter ==
    ASSUME DistOK, NEW s \in Sessions
    PROVE  /\ \A o \in Options : dist' = [dist EXCEPT ![s] = o] => DistKeys' = DistKeys \cup {s}
           /\ dist' = [dist EXCEPT ![s] = NoOptions] => DistKeys' = DistKeys \ {s}
           /\ dist' = dist => DistKeys' = DistKeys
<1>1. dist \in [Sessions -> Options \cup {NoOptions}] /\ NoOptions \notin Options
    BY OptionsFields DEF DistOK
<1> QED BY <1>1 DEF DistKeys

LEMMA SavedKeys ==
    ASSUME TimeOK, DistOK, NEW s \in Sessions, NEW o \in Options, SaveTrackingSession(s, o)
    PROVE  /\ IsDistanceSession(o) => time' = time /\ TimeKeys' = TimeKeys /\ DistKeys' = DistKeys \cup {s}
           /\ ~IsDistanceSession(o) => /\ DistKeys' = DistKeys /\ TimeKeys' = TimeKeys \cup {s}
                                       /\ ~o.distance /\ PlainTimes => PlainTimes'
<1>1. CASE IsDistanceSession(o)
    <2>1. time' = time /\ dist' = [dist EXCEPT ![s] = o]
        BY <1>1 DEF SaveTrackingSession
    <2> QED BY <1>1, <2>1, DistKeysAfter, KeysAfter
<1>2. CASE ~IsDistanceSession(o)
    <2>1. dist' = dist /\ time' = [time EXCEPT ![s] = o]
        BY <1>2 DEF SaveTrackingSession
    <2>2. DistKeys' = DistKeys /\ TimeKeys' = TimeKeys \cup {s} /\ time'[s] = o
        BY <2>1, DistKeysAfter, KeysAfter
    <2>3. \A t \in TimeKeys : t # s => time'[t] = time[t]
        BY <2>1, KeysAfter
    <2>4. ~o.distance /\ PlainTimes => PlainTimes'
        BY <2>2, <2>3 DEF PlainTimes
    <2> QED BY <1>2, <2>2, <2>4
<1> QED BY <1>1, <1>2

LEMMA ErasedKeys ==
    ASSUME TimeOK, DistOK, NEW s \in Sessions, EraseTrackingSession(s)
    PROVE  /\ IF s \in TimeKeys THEN TimeKeys' = TimeKeys \ {s} /\ DistKeys' = DistKeys
              ELSE TimeKeys' = TimeKeys /\ DistKeys' = DistKeys \ {s}
           /\ PlainTimes => PlainTimes'
<1>1. CASE s \in TimeKeys
    <2>1. dist' = dist /\ time' = [time EXCEPT ![s] = NoOptions]
        BY <1>1 DEF EraseTrackingSession
    <2>2. DistKeys' = DistKeys /\ TimeKeys' = TimeKeys \ {s} /\ \A t \in TimeKeys' : time'[t] = time[t]
        BY <2>1, DistKeysAfter, KeysAfter
    <2>4. PlainTimes => PlainTimes'
        BY <2>2 DEF PlainTimes
    <2> QED BY <1>1, <2>2, <2>4
<1>2. CASE s \notin TimeKeys
    <2>1. time' = time /\ dist' = [dist EXCEPT ![s] = NoOptions]
        BY <1>2 DEF EraseTrackingSession
    <2>2. DistKeys' = DistKeys \ {s} /\ TimeKeys' = TimeKeys
        BY <2>1, DistKeysAfter, KeysAfter
    <2>4. PlainTimes => PlainTimes'
        BY <2>1, <2>2 DEF PlainTimes
    <2> QED BY <1>2, <2>2, <2>4
<1> QED BY <1>1, <1>2

LEMMA SameKeys ==
    ASSUME TimeOK, DistOK, UNCHANGED <<time, dist>>
    PROVE  TimeKeys' = TimeKeys /\ DistKeys' = DistKeys /\ (PlainTimes => PlainTimes')
BY DEF TimeKeys, DistKeys, PlainTimes

\* What a handler does for s, as far as the maps are concerned.
Moves(s) ==
    /\ PlainTimes' /\ \E R \in Seq(PlainRequests) : api' = api \o R
    /\ \E k \in Kinds \cup {"none"} : Gains(s, k) /\ KeysStep(s, k)

LEMMA QuietIsPlain == Quiet \subseteq PlainRequests
BY DEF Quiet, PlainRequests, Kinds, Thens

LEMMA QuietRequests ==
    /\ Unawaited \subseteq Quiet
    /\ \A s \in Sessions : Stopping(s) \subseteq Quiet
    /\ RemovalRequests \subseteq Quiet
    /\ \A s \in Sessions, o \in Options :
         StartDistance(s, o, "dStarted") \in Quiet /\ StartDistance(s, o, "none") \in Quiet
<1>1. \A x \in {"none", "started", "stopped", "dRemoved", "dStarted"} : \A k \in Kinds : x \notin Thens(k)
    BY DEF Kinds, Thens
<1>2. \A r \in SoundRequests : r.op = "open" \/ r.then \in {"none", "started", "stopped", "dRemoved", "dStarted"} => r \in Quiet
    BY <1>1 DEF Quiet
<1>3. Unawaited \subseteq Quiet
    BY <1>2 DEF Unawaited
<1>4. \A s \in Sessions : Stopping(s) \subseteq Quiet
    BY <1>2 DEF Stopping, Multiplexed
<1>5. RemovalRequests \subseteq Quiet
    BY <1>2 DEF RemovalRequests
<1>6. \A s \in Sessions, o \in Options : StartDistance(s, o, "dStarted") \in Quiet
    <2> TAKE s \in Sessions, o \in Options
    <2>1. StartDistance(s, o, "dStarted") \in SoundRequests
        BY DistanceRequestsAreSound
    <2>2. StartDistance(s, o, "dStarted").then = "dStarted"
        BY DEF StartDistance, Request
    <2> QED BY <1>2, <2>1, <2>2
<1>7. \A s \in Sessions, o \in Options : StartDistance(s, o, "none") \in Quiet
    BY <1>3, UnawaitedRequests
<1> QED BY <1>3, <1>4, <1>5, <1>6, <1>7

\* A handler that sends only requests whose answers change no map.
LEMMA QuietMoves ==
    ASSUME TypeInv, NEW s \in Sessions, PlainTimes', KeysStep(s, "none"),
           NEW R \in Seq(Quiet), api' = api \o R, UNCHANGED pending
    PROVE  Moves(s)
<1>1. Gains(s, "none")
    BY GainsNone
<1>2. R \in Seq(PlainRequests)
    BY QuietIsPlain, WiderSeq
<1> QED BY <1>1, <1>2 DEF Moves

LEMMA RequestMoves ==
    ASSUME TypeInv, NEW s \in Sessions, PlainTimes', NEW k \in Kinds, KeysStep(s, k),
           NEW r \in Awaited(s, Thens(k)), r \in PlainRequests, api' = Append(api, r), UNCHANGED pending
    PROVE  Moves(s)
<1>1. Gains(s, k)
    BY GainsRequest
<1>2. <<r>> \in Seq(PlainRequests) /\ api' = api \o <<r>>
    BY AppendDecides DEF TypeInv, PlainRequests
<1> QED BY <1>1, <1>2 DEF Moves

LEMMA CommandMoves ==
    ASSUME TypeInv, NEW s \in Sessions, PlainTimes', NEW k \in Kinds, KeysStep(s, k),
           NEW c \in HeldCommands(s, k), pending' = Append(pending, c), UNCHANGED api
    PROVE  Moves(s)
<1>1. Gains(s, k)
    BY GainsCommand
<1>2. << >> \in Seq(PlainRequests) /\ api' = api \o << >>
    BY ConcatEmptySeq, EmptySeq DEF TypeInv
<1> QED BY <1>1, <1>2 DEF Moves

\* What the multiplexers send for a start or a stop changes no map later.
LEMMA MultiplexersAreQuiet ==
    ASSUME TimeOK, NEW s \in Sessions
    PROVE  /\ \A o \in Options : StartTimeBasedTrackingMultiplex(s, o) \in Seq(Quiet)
           /\ s \in TimeKeys => StopTimeBasedTrackingMultiplex(TimeKeys, s) \in Seq(Quiet)
<1>1. << >> \in Seq(Quiet) /\ \A r \in Quiet : <<r>> \in Seq(Quiet)
    BY EmptySeq
<1>2. Stopping(s) \subseteq Quiet
    BY QuietRequests
<1>3. ASSUME NEW o \in Options PROVE StartTimeBasedTrackingMultiplex(s, o) \in Seq(Quiet)
    <2>1. \A r \in Multiplexed(s) : r.then = "started" => r \in Stopping(s)
        BY DEF Stopping
    <2> QED BY <1>1, <1>2, <2>1, StartMultiplexed
<1>4. ASSUME s \in TimeKeys PROVE StopTimeBasedTrackingMultiplex(TimeKeys, s) \in Seq(Quiet)
    <2>1. \A r \in Multiplexed(s) : r.then # "updated" => r \in Stopping(s)
        BY DEF Stopping
    <2>2. \/ StopTimeBasedTrackingMultiplex(TimeKeys, s) = << >>
          \/ \E r \in Multiplexed(s) : StopTimeBasedTrackingMultiplex(TimeKeys, s) = <<r>> /\ r.then # "updated"
        BY <1>4, StopMultiplexed
    <2> QED BY <1>1, <1>2, <2>1, <2>2
<1> QED BY <1>3, <1>4

LEMMA RequestsOfDistance ==
    ASSUME NEW s \in Sessions, NEW o, NEW then
    PROVE  /\ StopDistance(s, o, then).s = s /\ StopDistance(s, o, then).then = then
           /\ StopDistance(s, o, then).op = "stopD"
           /\ StartDistance(s, o, then).s = s /\ StartDistance(s, o, then).then = then
           /\ StartDistance(s, o, then).op = "startD"
BY DEF StopDistance, StartDistance, Request

\* HandleStart keeps what is said of s; so do the other two handlers below.
LEMMA StartMoves ==
    ASSUME TypeInv, DistanceSupported, PlainTimes, NEW s \in Sessions, NEW o \in Options, NEW ow,
           HandleStart(s, o, ow), s \notin TimeKeys, s \notin DistKeys
    PROVE  Moves(s)
<1>0. TimeOK /\ DistOK /\ "start" \in Kinds /\ api \in Seq(SoundRequests)
    BY DEF TypeInv, Kinds
<1>a. << >> \in Seq(Quiet) /\ api \o << >> = api /\ \A r \in Quiet : <<r>> \in Seq(Quiet) /\ Append(api, r) = api \o <<r>>
    BY <1>0, EmptySeq, ConcatEmptySeq, AppendDecides DEF Quiet
<1>1. CASE Waits(o) /\ pending' = Append(pending, Command("start", s, o)) /\ UNCHANGED <<time, dist, api>>
    <2>1. TimeKeys' = TimeKeys /\ DistKeys' = DistKeys /\ PlainTimes'
        BY <1>0, <1>1, SameKeys
    <2>2. Command("start", s, o) \in HeldCommands(s, "start")
        BY CommandsAreHeld DEF HeldCommands, Command, HeldOf
    <2>3. KeysStep(s, "start")
        BY <2>1 DEF KeysStep
    <2> QED BY <1>0, <1>1, <2>1, <2>2, <2>3, CommandMoves
<1>2. CASE UNCHANGED <<time, dist, api, pending>>
    <2>1. TimeKeys' = TimeKeys /\ DistKeys' = DistKeys /\ PlainTimes'
        BY <1>0, <1>2, SameKeys
    <2>3. KeysStep(s, "none")
        BY <2>1 DEF KeysStep
    <2>4. api' = api \o << >>
        BY <1>2, <1>a
    <2> QED BY <1>2, <1>a, <2>1, <2>3, <2>4, QuietMoves
<1>3. CASE IsDistanceSession(o) /\ SaveTrackingSession(s, o) /\ UNCHANGED pending
             /\ api' = Append(api, StartDistance(s, o, "dStarted"))
    <2>1. time' = time /\ TimeKeys' = TimeKeys /\ DistKeys' = DistKeys \cup {s}
        BY <1>0, <1>3, SavedKeys
    <2>2. PlainTimes'
        BY <2>1 DEF PlainTimes
    <2>3. KeysStep(s, "none")
        BY <2>1 DEF KeysStep
    <2>4. StartDistance(s, o, "dStarted") \in Quiet
        BY QuietRequests
    <2>5. api' = api \o <<StartDistance(s, o, "dStarted")>> /\ <<StartDistance(s, o, "dStarted")>> \in Seq(Quiet)
        BY <1>3, <1>a, <2>4
    <2> QED BY <1>3, <2>2, <2>3, <2>5, QuietMoves
<1>4. CASE ~IsDistanceSession(o) /\ SaveTrackingSession(s, o) /\ UNCHANGED pending
             /\ api' = api \o StartTimeBasedTrackingMultiplex(s, o)
    <2>0. ~o.distance
        BY <1>4 DEF IsDistanceSession
    <2>1. DistKeys' = DistKeys /\ TimeKeys' = TimeKeys \cup {s} /\ PlainTimes'
        BY <1>0, <1>4, <2>0, SavedKeys
    <2>3. KeysStep(s, "none")
        BY <2>1 DEF KeysStep
    <2>4. StartTimeBasedTrackingMultiplex(s, o) \in Seq(Quiet)
        BY <1>0, MultiplexersAreQuiet
    <2> QED BY <1>4, <2>1, <2>3, <2>4, QuietMoves
<1> QED BY <1>1, <1>2, <1>3, <1>4 DEF HandleStart

LEMMA NoneIsSound ==
    ASSUME NEW s \in Sessions
    PROVE  StopDistance(s, NoOptions, "dStopped") \in SoundRequests
BY DEF StopDistance, SoundRequests, Request, Carries, Callbacks

LEMMA StopMoves ==
    ASSUME TypeInv, DistanceSupported, PlainTimes, NEW s \in Sessions, NEW ow,
           HandleStop(s, ow), UNCHANGED pending, s \notin TimeKeys \/ s \notin DistKeys
    PROVE  Moves(s)
<1>0. TimeOK /\ DistOK /\ "stop" \in Kinds /\ api \in Seq(SoundRequests)
    BY DEF TypeInv, Kinds
<1>1. CASE s \in TimeKeys /\ api' = api \o StopTimeBasedTrackingMultiplex(TimeKeys, s) /\ EraseTrackingSession(s)
    <2>1. TimeKeys' = TimeKeys \ {s} /\ DistKeys' = DistKeys /\ PlainTimes'
        BY <1>0, <1>1, ErasedKeys
    <2>3. KeysStep(s, "none")
        BY <1>1, <2>1 DEF KeysStep
    <2>4. StopTimeBasedTrackingMultiplex(TimeKeys, s) \in Seq(Quiet)
        BY <1>0, <1>1, MultiplexersAreQuiet
    <2> QED BY <1>1, <2>1, <2>3, <2>4, QuietMoves
<1>2. CASE s \in DistKeys \ TimeKeys /\ api' = Append(api, StopDistance(s, NoOptions, "dStopped")) /\ UNCHANGED <<time, dist>>
    <2> DEFINE r == StopDistance(s, NoOptions, "dStopped")
    <2>1. TimeKeys' = TimeKeys /\ DistKeys' = DistKeys /\ PlainTimes'
        BY <1>0, <1>2, SameKeys
    <2>3. KeysStep(s, "stop")
        BY <1>2, <2>1 DEF KeysStep
    <2>4. r \in SoundRequests /\ r.s = s /\ r.then = "dStopped" /\ r.op # "open"
        BY RequestsOfDistance, NoneIsSound
    <2>5. r \in Awaited(s, Thens("stop")) /\ r \in PlainRequests
        BY <2>4 DEF Awaited, Thens, PlainRequests
    <2> QED BY <1>0, <1>2, <2>1, <2>3, <2>5, RequestMoves
<1>3. CASE UNCHANGED <<time, dist, api>>
    <2>1. TimeKeys' = TimeKeys /\ DistKeys' = DistKeys /\ PlainTimes'
        BY <1>0, <1>3, SameKeys
    <2>3. KeysStep(s, "none")
        BY <2>1 DEF KeysStep
    <2>4. api' = api \o << >> /\ << >> \in Seq(Quiet)
        BY <1>0, <1>3, EmptySeq, ConcatEmptySeq
    <2> QED BY <2>1, <2>3, <2>4, QuietMoves
<1> QED BY <1>1, <1>2, <1>3 DEF HandleStop

LEMMA UpdateMoves ==
    ASSUME TypeInv, DistanceSupported, PlainTimes, NEW s \in Sessions, NEW o \in Options, NEW ow,
           HandleUpdate(s, o, ow), s \notin TimeKeys \/ s \notin DistKeys
    PROVE  Moves(s)
<1>0. /\ TimeOK /\ DistOK /\ api \in Seq(SoundRequests)
      /\ "update" \in Kinds /\ "switch" \in Kinds /\ "renew" \in Kinds
    BY DEF TypeInv, Kinds
<1>1. CASE Waits(o) /\ pending' = Append(pending, Command("update", s, o)) /\ UNCHANGED <<time, dist, api>>
    <2>1. TimeKeys' = TimeKeys /\ DistKeys' = DistKeys /\ PlainTimes'
        BY <1>0, <1>1, SameKeys
    <2>2. Command("update", s, o) \in HeldCommands(s, "update")
        BY CommandsAreHeld DEF HeldCommands, Command, HeldOf
    <2>3. KeysStep(s, "update")
        BY <2>1 DEF KeysStep
    <2> QED BY <1>0, <1>1, <2>1, <2>2, <2>3, CommandMoves
<1>2. CASE UNCHANGED <<time, dist, api, pending>>
    <2>1. TimeKeys' = TimeKeys /\ DistKeys' = DistKeys /\ PlainTimes'
        BY <1>0, <1>2, SameKeys
    <2>3. KeysStep(s, "none")
        BY <2>1 DEF KeysStep
    <2>4. api' = api \o << >> /\ << >> \in Seq(Quiet)
        BY <1>0, <1>2, EmptySeq, ConcatEmptySeq
    <2> QED BY <1>2, <2>1, <2>3, <2>4, QuietMoves
<1>3. CASE /\ s \in TimeKeys /\ o.distance /\ UNCHANGED pending
           /\ api' = api \o StopTimeBasedTrackingMultiplex(TimeKeys, s) \o <<StartDistance(s, o, "none")>>
           /\ dist' = [dist EXCEPT ![s] = o] /\ time' = [time EXCEPT ![s] = NoOptions]
    <2> DEFINE q == StopTimeBasedTrackingMultiplex(TimeKeys, s)
               u == <<StartDistance(s, o, "none")>>
    <2>1. TimeKeys' = TimeKeys \ {s} /\ DistKeys' = DistKeys \cup {s} /\ \A t \in TimeKeys' : time'[t] = time[t]
        BY <1>0, <1>3, KeysAfter, DistKeysAfter
    <2>2. PlainTimes'
        BY <2>1 DEF PlainTimes
    <2>3. KeysStep(s, "none")
        BY <1>3, <2>1 DEF KeysStep
    <2>4. q \in Seq(Quiet) /\ u \in Seq(Quiet)
        BY <1>0, <1>3, MultiplexersAreQuiet, QuietRequests
    <2>5. q \o u \in Seq(Quiet)
        BY <2>4, ConcatProperties
    <2>6. q \in Seq(SoundRequests) /\ u \in Seq(SoundRequests)
        BY <2>4, WiderSeq DEF Quiet
    <2>7. api' = api \o (q \o u)
        BY <1>0, <1>3, <2>6, ConcatAssociative
    <2> HIDE DEF q, u
    <2> QED BY <1>3, <2>2, <2>3, <2>5, <2>7, QuietMoves
<1>4. CASE /\ s \in DistKeys /\ ~o.distance /\ EraseTrackingSession(s) /\ UNCHANGED pending
           /\ api' = Append(api, StopDistance(s, o, "toTime"))
    <2> DEFINE r == StopDistance(s, o, "toTime")
    <2>1. TimeKeys' = TimeKeys /\ DistKeys' = DistKeys \ {s} /\ PlainTimes'
        BY <1>0, <1>4, ErasedKeys
    <2>3. KeysStep(s, "switch")
        BY <1>4, <2>1 DEF KeysStep
    <2>4. r \in SoundRequests /\ r.s = s /\ r.then = "toTime" /\ r.op # "open"
        BY <1>4, RequestsOfDistance, DistanceRequestsAreSound
    <2>5. r \in Awaited(s, Thens("switch")) /\ r \in PlainRequests
        BY <2>4 DEF Awaited, Thens, PlainRequests
    <2> QED BY <1>0, <1>4, <2>1, <2>3, <2>5, RequestMoves
<1>5. CASE /\ s \in TimeKeys \ DistKeys /\ ~o.distance /\ SaveTrackingSession(s, o) /\ UNCHANGED pending
           /\ api' = api \o UpdateTrackingMultiplex(s, o)
    <2>0. ~IsDistanceSession(o)
        BY <1>5 DEF IsDistanceSession
    <2>1. DistKeys' = DistKeys /\ TimeKeys' = TimeKeys \cup {s} /\ PlainTimes'
        BY <1>0, <1>5, <2>0, SavedKeys
    <2>2. CASE UpdateTrackingMultiplex(s, o) = << >>
        <3>1. KeysStep(s, "none")
            BY <1>5, <2>1 DEF KeysStep
        <3>2. << >> \in Seq(Quiet)
            BY EmptySeq
        <3> QED BY <1>5, <2>1, <2>2, <3>1, <3>2, QuietMoves
    <2>3. CASE \E r \in Multiplexed(s) : UpdateTrackingMultiplex(s, o) = <<r>> /\ r.then = "updated" /\ r.old = time[s]
        <3>1. PICK r \in Multiplexed(s) : UpdateTrackingMultiplex(s, o) = <<r>> /\ r.then = "updated" /\ r.old = time[s]
            BY <2>3
        <3>2. KeysStep(s, "switch")
            BY <1>5, <2>1 DEF KeysStep
        <3>3. r \in Awaited(s, Thens("switch"))
            BY <3>1 DEF Multiplexed, Awaited, Thens
        <3>4. r \in PlainRequests
            BY <1>5, <3>1 DEF PlainRequests, PlainTimes, Multiplexed
        <3>5. api' = Append(api, r)
            BY <1>0, <1>5, <3>1, AppendDecides DEF Multiplexed
        <3> QED BY <1>0, <1>5, <2>1, <3>2, <3>3, <3>4, <3>5, RequestMoves
    <2> QED BY <1>0, <1>5, <2>2, <2>3, UpdateMultiplexed
<1>6. CASE /\ s \in DistKeys \ TimeKeys /\ o.distance /\ UNCHANGED <<time, dist, pending>>
           /\ api' = Append(api, StopDistance(s, o, "dRestop"))
    <2> DEFINE r == StopDistance(s, o, "dRestop")
    <2>1. TimeKeys' = TimeKeys /\ DistKeys' = DistKeys /\ PlainTimes'
        BY <1>0, <1>6, SameKeys
    <2>3. KeysStep(s, "renew")
        BY <1>6, <2>1 DEF KeysStep
    <2>4. r \in SoundRequests /\ r.s = s /\ r.then = "dRestop" /\ r.op # "open"
        BY <1>6, RequestsOfDistance, DistanceRequestsAreSound
    <2>5. r \in Awaited(s, Thens("renew")) /\ r \in PlainRequests
        BY <2>4 DEF Awaited, Thens, PlainRequests
    <2> QED BY <1>0, <1>6, <2>1, <2>3, <2>5, RequestMoves
<1> QED BY <1>1, <1>2, <1>3, <1>4, <1>5, <1>6 DEF HandleUpdate

-----------------------------------------------------------------------------
(* One session at a time *)

\* A client with one command open at a time has nothing under way for the session
\* of its next command.
LEMMA CommandAlone ==
    ASSUME TypeInv, Due, load.owed <= 1, NEW s \in Sessions, MayCommand(s)
    PROVE  \A j \in Kinds : Underway(s, j) = 0
<1>1. load.owed \in Nat /\ owed[s] \in Int
    BY LoadTypes DEF TypeInv
<1>2. Flying(s) <= 0 /\ Flying(s) \in Nat
    BY <1>1, InFlightIsNat DEF MayCommand, Registered, Due, Flying
<1>3. /\ Count(api, Awaited(s, Answering)) = 0 /\ Count(pending, HeldOf(s)) = 0
      /\ Count(inbox, Answers(s, Answering)) = 0
    <2>1. /\ Count(api, Awaited(s, Answering)) \in Nat /\ Count(pending, HeldOf(s)) \in Nat
          /\ Count(inbox, Answers(s, Answering)) \in Nat
        BY InFlightIsNat
    <2>2. Flying(s) = (Count(api, Awaited(s, Answering)) + Count(pending, HeldOf(s)))
                        + Count(inbox, Answers(s, Answering))
        BY DEF Flying, InFlight, Asked
    <2> QED BY <1>2, <2>1, <2>2
<1>4. ASSUME NEW j \in Kinds PROVE Underway(s, j) = 0
    <2>0. Thens(j) \subseteq Answering
        BY DEF Kinds, Thens, Answering, Callbacks
    <2>1. /\ Awaited(s, Thens(j)) \subseteq Awaited(s, Answering) /\ HeldCommands(s, j) \subseteq HeldOf(s)
          /\ Arriving(s, j) \subseteq Answers(s, Answering)
        BY <2>0 DEF Awaited, HeldCommands, HeldOf, Arriving, Returns, Answers
    <2>2. api \in Seq(SoundRequests) /\ pending \in Seq(Held) /\ inbox \in Seq(SoundMessages)
        BY DEF TypeInv
    <2>3. Count(api, Awaited(s, Thens(j))) = 0
        BY <1>3, <2>1, <2>2, CountNone
    <2>4. Count(pending, HeldCommands(s, j)) = 0
        BY <1>3, <2>1, <2>2, CountNone
    <2>5. Count(inbox, Arriving(s, j)) = 0
        BY <1>3, <2>1, <2>2, CountNone
    <2> QED BY <2>3, <2>4, <2>5 DEF Underway, Queued
<1> QED BY <1>4

\* What the adapter is handed is the only thing under way for its session.
LEMMA HeadAlone ==
    ASSUME TypeInv, \A t \in Sessions : Sorted(t), inbox # << >>, inbox' = Tail(inbox),
           NEW s \in Sessions, NEW k \in Kinds, Head(inbox) \in Arriving(s, k)
    PROVE  /\ \A j \in Kinds : Queued(s, j) + Count(inbox', Arriving(s, j)) = 0
           /\ \A t \in Sessions, j \in Kinds : Count(inbox', Arriving(t, j)) <= Count(inbox, Arriving(t, j))
           /\ phase[s] # "new" /\ (s \notin TimeKeys \/ s \notin DistKeys)
           /\ k = "switch" => s \notin DistKeys
           /\ k = "renew" => s \notin TimeKeys
           /\ k = "start" => s \notin TimeKeys /\ s \notin DistKeys
<1>1. \A t \in Sessions, j \in Kinds :
         Count(inbox, Arriving(t, j)) = Count(inbox', Arriving(t, j)) + (IF t = s /\ j = k THEN 1 ELSE 0)
    BY HeadArrives
<1>2. \A t \in Sessions, j \in Kinds : Count(inbox', Arriving(t, j)) \in Nat
    <2>1. inbox' \in Seq(SoundMessages)
        BY HeadOfInbox
    <2> QED BY <2>1, CountIsNat
<1>3. \A j \in Kinds : Queued(s, j) \in Nat /\ Underway(s, j) = Queued(s, j) + Count(inbox, Arriving(s, j))
    BY UnderwayIsNat DEF Underway
<1>4. Underway(s, k) > 0
    BY <1>1, <1>2, <1>3
<1>5. Sorted(s) /\ Changes(s) <= 1
    BY DEF Sorted
<1>6. Underway(s, k) = 1 /\ \A j \in Kinds : j # k => Underway(s, j) = 0
    BY <1>4, <1>5, ChangesParts
<1>7. \A j \in Kinds : Queued(s, j) + Count(inbox', Arriving(s, j)) = 0
    BY <1>1, <1>2, <1>3, <1>6
<1>8. Changes(s) # 0
    BY <1>4, ChangesParts
<1>9. \A t \in Sessions, j \in Kinds : Count(inbox', Arriving(t, j)) <= Count(inbox, Arriving(t, j))
    BY <1>1, <1>2
<1>10. k = "switch" => Underway(s, "switch") > 0
    BY <1>4
<1>11. k = "renew" => Underway(s, "renew") > 0
    BY <1>4
<1>12. k = "start" => Underway(s, "start") > 0
    BY <1>4
<1> QED BY <1>5, <1>7, <1>8, <1>9, <1>10, <1>11, <1>12 DEF Sorted

\* A step that only takes sessions out of the maps.
LEMMA SortedShrinks ==
    ASSUME TypeInv, TypeInv', \A t \in Sessions : Sorted(t),
           \A t \in Sessions, j \in Kinds : Underway(t, j)' <= Underway(t, j),
           TimeKeys' \subseteq TimeKeys, DistKeys' \subseteq DistKeys,
           \A t \in Sessions : phase'[t] = "new" => phase[t] = "new"
    PROVE  \A t \in Sessions : Sorted(t)'
BY SortedSame

LEMMA UnderwayQuiet ==
    ASSUME TypeInv, NEW R \in Seq(Quiet), api' = api \o R, UNCHANGED pending,
           \/ inbox' = inbox
           \/ inbox # << >> /\ inbox' = Tail(inbox) /\ \A t \in Sessions, j \in Kinds : Head(inbox) \notin Arriving(t, j)
    PROVE  \A t \in Sessions, j \in Kinds : Underway(t, j)' <= Underway(t, j)
<1>1. Gains(NoSession, "none")
    BY GainsNone
<1>2. \A t \in Sessions, j \in Kinds : Queued(t, j) \in Nat /\ Queued(t, j)' = Queued(t, j)
    <2> TAKE t \in Sessions, j \in Kinds
    <2>1. Queued(t, j) \in Nat
        BY UnderwayIsNat
    <2>2. Queued(t, j)' = Queued(t, j) + (IF t = NoSession /\ j = "none" THEN 1 ELSE 0)
        BY <1>1 DEF Gains
    <2>3. j # "none"
        BY DEF Kinds
    <2> QED BY <2>1, <2>2, <2>3
<1>3. \A t \in Sessions, j \in Kinds :
         /\ Count(inbox, Arriving(t, j)) = Count(inbox', Arriving(t, j)) /\ Count(inbox, Arriving(t, j)) \in Nat
         /\ Underway(t, j) = Queued(t, j) + Count(inbox, Arriving(t, j))
         /\ Underway(t, j)' = Queued(t, j)' + Count(inbox', Arriving(t, j))
    BY OtherArrives, UnderwayIsNat DEF Underway
<1> QED BY <1>2, <1>3

\* The handler of the only thing under way for s.
LEMMA MovesSorted ==
    ASSUME TypeInv, TypeInv', \A t \in Sessions : Sorted(t), NEW s \in Sessions, Moves(s),
           \A j \in Kinds : Queued(s, j) + Count(inbox', Arriving(s, j)) = 0,
           \A t \in Sessions, j \in Kinds : Count(inbox', Arriving(t, j)) <= Count(inbox, Arriving(t, j)),
           phase'[s] # "new", \A t \in Sessions : phase'[t] = "new" => phase[t] = "new"
    PROVE  \A t \in Sessions : Sorted(t)'
<1>1. PICK k \in Kinds \cup {"none"} : Gains(s, k) /\ KeysStep(s, k)
    BY DEF Moves
<1> QED BY <1>1, SortedMoves

LEMMA MovesPlain ==
    ASSUME DistanceSupported, Plain, NEW s, Moves(s),
           \/ inbox' = inbox
           \/ inbox # << >> /\ inbox' = Tail(inbox)
    PROVE  Plain'
<1>1. api \in Seq(PlainRequests) /\ inbox \in Seq(PlainMessages)
    BY DEF Plain
<1>2. PICK R \in Seq(PlainRequests) : api' = api \o R
    BY DEF Moves
<1>3. api' \in Seq(PlainRequests)
    BY <1>1, <1>2, ConcatProperties
<1>4. inbox' \in Seq(PlainMessages)
    BY <1>1, HeadTailProperties
<1> QED BY <1>3, <1>4 DEF Plain, Moves

\* Steps that send requests of no consequence for the maps.
LEMMA QuietPlain ==
    ASSUME DistanceSupported, Plain, PlainTimes', NEW R \in Seq(Quiet), api' = api \o R,
           \/ inbox' = inbox
           \/ inbox # << >> /\ inbox' = Tail(inbox)
    PROVE  Plain'
<1>1. api \in Seq(PlainRequests) /\ inbox \in Seq(PlainMessages)
    BY DEF Plain
<1>2. R \in Seq(PlainRequests)
    BY QuietIsPlain, WiderSeq
<1>3. api' \in Seq(PlainRequests)
    BY <1>1, <1>2, ConcatProperties
<1>4. inbox' \in Seq(PlainMessages)
    BY <1>1, HeadTailProperties
<1> QED BY <1>3, <1>4 DEF Plain

\* Every session has its place.
Separate == Plain /\ \A t \in Sessions : Sorted(t)

LEMMA ClientSeparate ==
    ASSUME TypeInv, TypeInv', Due, Separate, DistanceSupported, load.owed <= 1, ClientStep
    PROVE  Separate'
<1>0. /\ TimeOK /\ DistOK /\ Plain /\ PlainTimes /\ \A t \in Sessions : Sorted(t)
      /\ api \in Seq(SoundRequests) /\ UNCHANGED inbox
      /\ phase \in [Sessions -> {"new", "open", "closed"}]
    BY ClientGrows DEF TypeInv, Separate, Plain
<1>a. \A o \in load.options : o \in Options
    BY LoadTypes
<1>b. ASSUME NEW R \in Seq(Quiet), api' = api \o R, UNCHANGED <<pending, phase>>, PlainTimes',
             TimeKeys' \subseteq TimeKeys, DistKeys' \subseteq DistKeys
      PROVE  Separate'
    <2>1. \A t \in Sessions, j \in Kinds : Underway(t, j)' <= Underway(t, j)
        BY <1>0, <1>b, UnderwayQuiet
    <2>2. \A t \in Sessions : Sorted(t)'
        BY <1>0, <1>b, <2>1, SortedShrinks
    <2>3. Plain'
        BY <1>0, <1>b, QuietPlain
    <2> QED BY <2>2, <2>3 DEF Separate
<1>c. ASSUME NEW s \in Sessions, MayCommand(s), Moves(s), phase'[s] # "new",
             \A t \in Sessions : phase'[t] = "new" => phase[t] = "new"
      PROVE  Separate'
    <2>1. \A j \in Kinds : Underway(s, j) = 0
        BY <1>c, CommandAlone
    <2>2. \A j \in Kinds : Queued(s, j) + Count(inbox', Arriving(s, j)) = 0
        BY <1>0, <2>1 DEF Underway
    <2>3. \A t \in Sessions, j \in Kinds : Count(inbox', Arriving(t, j)) <= Count(inbox, Arriving(t, j))
        BY <1>0, UnderwayIsNat
    <2>4. \A t \in Sessions : Sorted(t)'
        BY <1>0, <1>c, <2>2, <2>3, MovesSorted
    <2>5. Plain'
        BY <1>0, <1>c, MovesPlain
    <2> QED BY <2>4, <2>5 DEF Separate
<1>1. ASSUME NEW c \in Clients, NEW kind \in CallbackKinds, AddClient(c, kind)
      PROVE  Separate'
    <2>1. UNCHANGED <<phase, time, dist, api, pending>>
        BY <1>1 DEF AddClient
    <2>2. TimeKeys' = TimeKeys /\ DistKeys' = DistKeys /\ PlainTimes'
        BY <1>0, <2>1, SameKeys
    <2>3. api' = api \o << >> /\ << >> \in Seq(Quiet)
        BY <1>0, <2>1, EmptySeq, ConcatEmptySeq
    <2> QED BY <1>b, <2>1, <2>2, <2>3
<1>2. ASSUME NEW s \in Sessions, NEW o \in load.options, StartTracking(s, o)
      PROVE  Separate'
    <2>1. MayCommand(s) /\ phase[s] = "new" /\ phase' = [phase EXCEPT ![s] = "open"] /\ HandleStart(s, o, Owe(s))
        BY <1>2 DEF StartTracking
    <2>2. s \notin TimeKeys /\ s \notin DistKeys
        BY <1>0, <2>1 DEF Sorted
    <2>3. Moves(s)
        BY <1>0, <1>a, <2>1, <2>2, StartMoves
    <2>4. phase'[s] # "new" /\ \A t \in Sessions : phase'[t] = "new" => phase[t] = "new"
        BY <1>0, <2>1
    <2> QED BY <1>c, <2>1, <2>3, <2>4
<1>3. ASSUME NEW s \in Sessions, NEW o \in load.options, UpdateTrackingOptions(s, o)
      PROVE  Separate'
    <2>1. MayCommand(s) /\ phase[s] = "open" /\ UNCHANGED phase /\ HandleUpdate(s, o, Owe(s))
        BY <1>3 DEF UpdateTrackingOptions
    <2>2. s \notin TimeKeys \/ s \notin DistKeys
        BY <1>0 DEF Sorted
    <2>3. Moves(s)
        BY <1>0, <1>a, <2>1, <2>2, UpdateMoves
    <2> QED BY <1>c, <2>1, <2>3
<1>4. ASSUME NEW s \in Sessions, StopTrackingCommand(s)
      PROVE  Separate'
    <2>1. /\ MayCommand(s) /\ phase[s] = "open" /\ phase' = [phase EXCEPT ![s] = "closed"]
          /\ HandleStop(s, Owe(s)) /\ UNCHANGED pending
        BY <1>4 DEF StopTrackingCommand
    <2>2. s \notin TimeKeys \/ s \notin DistKeys
        BY <1>0 DEF Sorted
    <2>3. Moves(s)
        BY <1>0, <2>1, <2>2, StopMoves
    <2>4. phase'[s] # "new" /\ \A t \in Sessions : phase'[t] = "new" => phase[t] = "new"
        BY <1>0, <2>1
    <2> QED BY <1>c, <2>1, <2>3, <2>4
<1>5. ASSUME NEW c \in Clients, RemoveClient(c)
      PROVE  Separate'
    <2> DEFINE own == {s \in TimeKeys : Owner[s] = c}
               F == FlattenSeq(Removed(own))
    <2>1. PICK D \in Seq(RemovalRequests) : F \in Seq(StopRequests(own)) /\ api' = (api \o F) \o D
        BY <1>5, RemoveClientAsks
    <2>2. StopRequests(own) \subseteq Quiet /\ RemovalRequests \subseteq Quiet /\ Quiet \subseteq SoundRequests
        BY QuietRequests DEF StopRequests, TimeKeys, Quiet
    <2>3. F \in Seq(Quiet) /\ D \in Seq(Quiet)
        BY <2>1, <2>2, WiderSeq
    <2>4. F \in Seq(SoundRequests) /\ D \in Seq(SoundRequests)
        BY <2>2, <2>3, WiderSeq
    <2>5. UNCHANGED <<pending, phase, dist>> /\ time' = [s \in Sessions |-> IF s \in own THEN NoOptions ELSE time[s]]
        BY <1>5 DEF RemoveClient
    <2>6. TimeKeys' \subseteq TimeKeys /\ DistKeys' \subseteq DistKeys /\ \A t \in TimeKeys' : time'[t] = time[t]
        BY <2>5 DEF TimeKeys, DistKeys
    <2>7. PlainTimes'
        BY <1>0, <2>6 DEF PlainTimes
    <2> HIDE DEF F
    <2>8. F \o D \in Seq(Quiet) /\ api' = api \o (F \o D)
        BY <1>0, <2>1, <2>3, <2>4, ConcatProperties, ConcatAssociative
    <2> QED BY <1>b, <2>5, <2>6, <2>7, <2>8
<1>6. CASE SuspendAndRestart
    <2>1. api' = (api \o SuspendSessions) \o RestartSessions /\ UNCHANGED <<pending, phase, time, dist>>
        BY <1>6 DEF SuspendAndRestart
    <2>2. SuspendSessions \in Seq(Unawaited) /\ RestartSessions \in Seq(Unawaited)
        BY <1>0, RestartsAreUnawaited
    <2>3. SuspendSessions \in Seq(Quiet) /\ RestartSessions \in Seq(Quiet)
        BY <2>2, QuietRequests, WiderSeq
    <2>4. SuspendSessions \in Seq(SoundRequests) /\ RestartSessions \in Seq(SoundRequests)
        BY <2>3, WiderSeq DEF Quiet
    <2>5. TimeKeys' = TimeKeys /\ DistKeys' = DistKeys /\ PlainTimes'
        BY <1>0, <2>1, SameKeys
    <2>6. SuspendSessions \o RestartSessions \in Seq(Quiet)
        BY <2>3, ConcatProperties
    <2>7. api' = api \o (SuspendSessions \o RestartSessions)
        BY <1>0, <2>1, <2>4, ConcatAssociative
    <2> QED BY <1>b, <2>1, <2>5, <2>6, <2>7
<1> QED BY <1>1, <1>2, <1>3, <1>4, <1>5, <1>6 DEF ClientStep

\* The commands held until the engine is up.
LEMMA EngineUpSeparate ==
    ASSUME TypeInv, TypeInv', Separate, DistanceSupported, HandleEngineUp
    PROVE  Separate'
<1>0. /\ TimeOK /\ DistOK /\ Plain /\ PlainTimes /\ \A t \in Sessions : Sorted(t)
      /\ api \in Seq(SoundRequests) /\ api \in Seq(PlainRequests) /\ inbox \in Seq(PlainMessages)
      /\ inbox \in Seq(SoundMessages) /\ pending \in Seq(Held)
    BY DEF TypeInv, Separate, Plain
<1>1. /\ inbox # << >> /\ Head(inbox).kind = "engineUp" /\ api' = api \o RestartSessions
      /\ inbox' = Tail(inbox) \o pending /\ pending' = << >> /\ UNCHANGED <<phase, time, dist>>
    BY DEF HandleEngineUp
<1>2. TimeKeys' = TimeKeys /\ DistKeys' = DistKeys /\ PlainTimes'
    BY <1>0, <1>1, SameKeys
<1>3. RestartSessions \in Seq(Quiet)
    <2>1. RestartSessions \in Seq(Unawaited)
        BY <1>0, RestartsAreUnawaited
    <2> QED BY <2>1, QuietRequests, WiderSeq
<1>4. Plain'
    <2>1. RestartSessions \in Seq(PlainRequests)
        BY <1>3, QuietIsPlain, WiderSeq
    <2>2. api' \in Seq(PlainRequests)
        BY <1>0, <1>1, <2>1, ConcatProperties
    <2>3. Held \subseteq PlainMessages
        BY DEF PlainMessages, SoundMessages, Held
    <2>4. pending \in Seq(PlainMessages)
        BY <1>0, <2>3, WiderSeq
    <2>5. Tail(inbox) \in Seq(PlainMessages)
        BY <1>0, <1>1, HeadTailProperties
    <2>6. inbox' \in Seq(PlainMessages)
        BY <1>1, <2>4, <2>5, ConcatProperties
    <2> QED BY <1>2, <2>2, <2>6 DEF Plain
<1>5. ASSUME NEW t \in Sessions, NEW j \in Kinds PROVE Underway(t, j)' <= Underway(t, j)
    <2> DEFINE A == Awaited(t, Thens(j))
               H == HeldCommands(t, j)
               I == Arriving(t, j)
    <2>1. Count(api', A) = Count(api, A) + Count(RestartSessions, A)
        <3>1. RestartSessions \in Seq(SoundRequests)
            BY <1>3, WiderSeq DEF Quiet
        <3> QED BY <1>0, <1>1, <3>1, CountConcat
    <2>2. Count(RestartSessions, A) = 0
        <3>1. Quiet \cap A = {}
            BY DEF Quiet, Awaited
        <3> QED BY <1>3, <3>1, CountSeqNone
    <2>3. Count(pending', H) = 0
        BY <1>1, CountEmpty
    <2>4. Head(inbox) \notin I
        BY <1>1 DEF Arriving, Returns, HeldCommands, Held
    <2>5. Count(inbox, I) = (IF Head(inbox) \in I THEN 1 ELSE 0) + Count(Tail(inbox), I)
        BY <1>0, <1>1, CountTail
    <2>6. Count(inbox', I) = Count(Tail(inbox), I) + Count(pending, I)
        <3>1. pending \in Seq(SoundMessages)
            BY <1>0, WiderSeq DEF SoundMessages
        <3>2. Tail(inbox) \in Seq(SoundMessages)
            BY <1>1, HeadOfInbox
        <3> QED BY <1>1, <3>1, <3>2, CountConcat
    <2>7. Count(pending, I) = Count(pending, H)
        <3>1. \A c \in Held : c \in I <=> c \in H
            BY DEF Arriving, Returns, HeldCommands, Held
        <3>2. \A i \in 1 .. Len(pending) : pending[i] \in Held
            BY <1>0
        <3> HIDE DEF I, H
        <3>3. Places(pending, I) = Places(pending, H)
            BY <3>1, <3>2 DEF Places
        <3> QED BY <3>3 DEF Count
    <2>8. Count(api, A) \in Nat /\ Count(pending, H) \in Nat /\ Count(Tail(inbox), I) \in Nat
        <3>1. Tail(inbox) \in Seq(SoundMessages)
            BY <1>1, HeadOfInbox
        <3> QED BY <1>0, <3>1, CountIsNat
    <2>9. /\ Underway(t, j) = (Count(api, A) + Count(pending, H)) + Count(inbox, I)
          /\ Underway(t, j)' = (Count(api', A) + Count(pending', H)) + Count(inbox', I)
        BY DEF Underway, Queued
    <2> HIDE DEF A, H, I
    <2> QED BY <2>1, <2>2, <2>3, <2>4, <2>5, <2>6, <2>7, <2>8, <2>9
<1>6. \A t \in Sessions : Sorted(t)'
    BY <1>0, <1>1, <1>2, <1>5, SortedShrinks
<1> QED BY <1>4, <1>6 DEF Separate

LEMMA AdapterSeparate ==
    ASSUME TypeInv, TypeInv', Separate, DistanceSupported, AdapterStep
    PROVE  Separate'
<1>0. /\ TimeOK /\ DistOK /\ Plain /\ PlainTimes /\ \A t \in Sessions : Sorted(t)
      /\ api \in Seq(SoundRequests) /\ inbox \in Seq(PlainMessages)
      /\ phase \in [Sessions -> {"new", "open", "closed"}]
      /\ "switch" \in Kinds /\ "renew" \in Kinds /\ "stop" \in Kinds /\ "start" \in Kinds /\ "update" \in Kinds
    BY DEF TypeInv, Separate, Plain, Kinds
<1>a. << >> \in Seq(Quiet) /\ api \o << >> = api
    BY <1>0, EmptySeq, ConcatEmptySeq
<1>b. ASSUME NEW s \in Sessions, NEW k \in Kinds, inbox # << >>, inbox' = Tail(inbox), Head(inbox) \in Arriving(s, k),
             Moves(s), \A t \in Sessions : phase'[t] = "new" => phase[t] = "new"
      PROVE  Separate'
    <2>1. /\ \A j \in Kinds : Queued(s, j) + Count(inbox', Arriving(s, j)) = 0
          /\ \A t \in Sessions, j \in Kinds : Count(inbox', Arriving(t, j)) <= Count(inbox, Arriving(t, j))
          /\ phase[s] # "new"
        BY <1>0, <1>b, HeadAlone
    <2>2. \A t \in Sessions : Sorted(t)'
        BY <1>0, <1>b, <2>1, MovesSorted
    <2>3. Plain'
        BY <1>0, <1>b, MovesPlain
    <2> QED BY <2>2, <2>3 DEF Separate
<1>c. ASSUME inbox # << >>, inbox' = Tail(inbox), Head(inbox).kind = "answer",
             Head(inbox).then \in {"started", "dStarted", "stopped", "dRemoved"},
             UNCHANGED <<api, pending, phase>>, PlainTimes', TimeKeys' \subseteq TimeKeys, DistKeys' \subseteq DistKeys
      PROVE  Separate'
    <2>0. \A t \in Sessions, j \in Kinds : Head(inbox) \notin Arriving(t, j)
        BY <1>c DEF Arriving, Returns, HeldCommands, Held, Kinds, Thens
    <2>1. \A t \in Sessions, j \in Kinds : Underway(t, j)' <= Underway(t, j)
        BY <1>a, <1>c, <2>0, UnderwayQuiet
    <2>2. \A t \in Sessions : Sorted(t)'
        BY <1>0, <1>c, <2>1, SortedShrinks
    <2>3. Plain'
        BY <1>0, <1>a, <1>c, QuietPlain
    <2> QED BY <2>2, <2>3 DEF Separate
\* s is the session of an answer that the maps depend on
<1>d. ASSUME NEW k \in Kinds, Head(inbox).kind = "answer", Head(inbox).then \in Thens(k), inbox # << >>,
             inbox' = Tail(inbox)
      PROVE  \E s \in Sessions : /\ s = Head(inbox).s /\ Head(inbox) \in Arriving(s, k)
                                 /\ s \notin TimeKeys \/ s \notin DistKeys
                                 /\ k = "switch" => s \notin DistKeys
                                 /\ k = "renew" => s \notin TimeKeys
    <2>1. Head(inbox) \in SoundMessages /\ Head(inbox).s \in Sessions
        BY <1>d, HeadOfInbox, AnswerFields
    <2>2. Head(inbox) \in Arriving(Head(inbox).s, k)
        BY <1>d, <2>1 DEF Arriving, Returns
    <2> QED BY <1>0, <1>d, <2>1, <2>2, HeadAlone
<1>e. ASSUME NEW s \in Sessions, EraseTrackingSession(s) \/ UNCHANGED <<time, dist>>
      PROVE  TimeKeys' \subseteq TimeKeys /\ DistKeys' \subseteq DistKeys /\ PlainTimes'
    BY <1>0, <1>e, ErasedKeys, SameKeys
<1>1. CASE HandleEngineUp
    BY <1>1, EngineUpSeparate DEF Separate
<1>2. CASE HandleHeldCommand
    <2> DEFINE m == Head(inbox)
    <2>1. inbox # << >> /\ inbox' = Tail(inbox) /\ UNCHANGED phase /\ m \in SoundMessages
        BY <1>2, HeadOfInbox DEF HandleHeldCommand
    <2>2. CASE m.kind = "start" /\ HandleStart(m.s, m.opts, owed)
        <3>1. PICK s \in Sessions : s = m.s
            BY <2>1, <2>2, HeldFields
        <3>2. m.opts \in Options /\ m \in Arriving(s, "start")
            BY <2>1, <2>2, <3>1, HeldFields DEF Arriving, HeldCommands
        <3>3. s \notin TimeKeys /\ s \notin DistKeys
            BY <1>0, <2>1, <3>2, HeadAlone
        <3>4. Moves(s)
            BY <1>0, <2>2, <3>1, <3>2, <3>3, StartMoves
        <3> QED BY <1>0, <1>b, <2>1, <3>2, <3>4
    <2>3. CASE m.kind = "update" /\ HandleUpdate(m.s, m.opts, owed)
        <3>1. PICK s \in Sessions : s = m.s
            BY <2>1, <2>3, HeldFields
        <3>2. m.opts \in Options /\ m \in Arriving(s, "update")
            BY <2>1, <2>3, <3>1, HeldFields DEF Arriving, HeldCommands
        <3>3. s \notin TimeKeys \/ s \notin DistKeys
            BY <1>0 DEF Sorted
        <3>4. Moves(s)
            BY <1>0, <2>3, <3>1, <3>2, <3>3, UpdateMoves
        <3> QED BY <1>0, <1>b, <2>1, <3>2, <3>4
    <2> QED BY <1>2, <2>2, <2>3 DEF HandleHeldCommand
<1>3. CASE StartAnswered
    <2>1. /\ inbox # << >> /\ inbox' = Tail(inbox) /\ Head(inbox).kind = "answer"
          /\ Head(inbox).then \in {"started", "dStarted"} /\ UNCHANGED <<api, pending, phase>>
          /\ EraseTrackingSession(Head(inbox).s) \/ UNCHANGED <<time, dist>>
        BY <1>3 DEF StartAnswered, Answered
    <2>2. PICK s \in Sessions : s = Head(inbox).s
        BY <2>1, HeadOfInbox, AnswerFields
    <2>3. TimeKeys' \subseteq TimeKeys /\ DistKeys' \subseteq DistKeys /\ PlainTimes'
        BY <1>e, <2>1, <2>2
    <2> QED BY <1>c, <2>1, <2>3
<1>4. CASE UpdateAnswered
    <2>1. /\ inbox # << >> /\ inbox' = Tail(inbox) /\ Head(inbox).kind = "answer"
          /\ Head(inbox).then = "updated" /\ UNCHANGED <<api, pending, phase>>
          /\ IF Head(inbox).ok THEN UNCHANGED <<time, dist>> ELSE SaveTrackingSession(Head(inbox).s, Head(inbox).old)
        BY <1>4 DEF UpdateAnswered, Answered
    <2>2. PICK s \in Sessions : /\ s = Head(inbox).s /\ Head(inbox) \in Arriving(s, "switch") /\ s \notin DistKeys
        BY <1>0, <1>d, <2>1 DEF Thens
    <2>3. Head(inbox).old \in Options /\ ~Head(inbox).old.distance
        <3>1. Head(inbox) \in PlainMessages /\ Head(inbox) \in SoundMessages
            BY <1>0, <2>1, HeadTailProperties, HeadOfInbox
        <3> QED BY <2>1, <3>1, AnswerFields DEF PlainMessages
    <2>4. DistKeys' = DistKeys /\ TimeKeys' \subseteq TimeKeys \cup {s} /\ PlainTimes'
        <3>1. CASE UNCHANGED <<time, dist>>
            BY <1>0, <3>1, SameKeys
        <3>2. CASE SaveTrackingSession(Head(inbox).s, Head(inbox).old)
            BY <1>0, <2>2, <2>3, <3>2, SavedKeys DEF IsDistanceSession
        <3> QED BY <2>1, <3>1, <3>2
    <2>5. KeysStep(s, "none")
        BY <2>2, <2>4 DEF KeysStep
    <2>6. Moves(s)
        BY <1>a, <2>1, <2>4, <2>5, QuietMoves
    <2> QED BY <1>0, <1>b, <2>1, <2>2, <2>6
<1>5. CASE StopAnswered
    <2>1. /\ inbox # << >> /\ inbox' = Tail(inbox) /\ Head(inbox).kind = "answer"
          /\ Head(inbox).then = "stopped" /\ UNCHANGED <<api, pending, phase, time, dist>>
        BY <1>5 DEF StopAnswered, Answered
    <2>3. TimeKeys' \subseteq TimeKeys /\ DistKeys' \subseteq DistKeys /\ PlainTimes'
        BY <1>0, <2>1, SameKeys
    <2> QED BY <1>c, <2>1, <2>3
<1>6. CASE DistanceStopAnswered
    <2>1. /\ inbox # << >> /\ inbox' = Tail(inbox) /\ Head(inbox).kind = "answer"
          /\ Head(inbox).then = "dStopped" /\ UNCHANGED <<api, pending>>
          /\ EraseTrackingSession(Head(inbox).s) \/ UNCHANGED <<time, dist>>
          /\ phase' = [phase EXCEPT ![Head(inbox).s] = IF Head(inbox).ok THEN @ ELSE "open"]
        BY <1>6 DEF DistanceStopAnswered, Answered
    <2>2. PICK s \in Sessions : /\ s = Head(inbox).s /\ Head(inbox) \in Arriving(s, "stop")
                                /\ s \notin TimeKeys \/ s \notin DistKeys
        BY <1>0, <1>d, <2>1 DEF Thens
    <2>3. TimeKeys' \subseteq TimeKeys /\ DistKeys' \subseteq DistKeys /\ PlainTimes'
        BY <1>e, <2>1, <2>2
    <2>5. KeysStep(s, "none")
        BY <2>2, <2>3 DEF KeysStep
    <2>6. Moves(s)
        BY <1>a, <2>1, <2>3, <2>5, QuietMoves
    <2>7. \A t \in Sessions : phase'[t] = "new" => phase[t] = "new"
        BY <1>0, <2>1
    <2> QED BY <1>0, <1>b, <2>1, <2>2, <2>6, <2>7
<1>7. CASE RemovedStopAnswered
    <2>1. /\ inbox # << >> /\ inbox' = Tail(inbox) /\ Head(inbox).kind = "answer"
          /\ Head(inbox).then = "dRemoved" /\ UNCHANGED <<api, pending, phase>>
          /\ EraseTrackingSession(Head(inbox).s) \/ UNCHANGED <<time, dist>>
        BY <1>7 DEF RemovedStopAnswered, Answered
    <2>2. PICK s \in Sessions : s = Head(inbox).s
        BY <2>1, HeadOfInbox, AnswerFields
    <2>3. TimeKeys' \subseteq TimeKeys /\ DistKeys' \subseteq DistKeys /\ PlainTimes'
        BY <1>e, <2>1, <2>2
    <2> QED BY <1>c, <2>1, <2>3
<1>8. CASE ToTimeAnswered
    <2>1. /\ inbox # << >> /\ inbox' = Tail(inbox) /\ Head(inbox).kind = "answer"
          /\ Head(inbox).then = "toTime" /\ UNCHANGED <<pending, phase>>
          /\ SaveTrackingSession(Head(inbox).s, Head(inbox).opts)
          /\ api' = api \o StartTimeBasedTrackingMultiplex(Head(inbox).s, Head(inbox).opts)
        BY <1>8 DEF ToTimeAnswered, Answered
    <2>2. PICK s \in Sessions : /\ s = Head(inbox).s /\ Head(inbox) \in Arriving(s, "switch") /\ s \notin DistKeys
        BY <1>0, <1>d, <2>1 DEF Thens
    <2>3. Head(inbox).opts \in Options /\ ~Head(inbox).opts.distance
        BY <2>1, HeadOfInbox, AnswerFields
    <2>4. DistKeys' = DistKeys /\ TimeKeys' = TimeKeys \cup {s} /\ PlainTimes'
        BY <1>0, <2>1, <2>2, <2>3, SavedKeys DEF IsDistanceSession
    <2>5. KeysStep(s, "none")
        BY <2>2, <2>4 DEF KeysStep
    <2>6. StartTimeBasedTrackingMultiplex(s, Head(inbox).opts) \in Seq(Quiet)
        BY <1>0, <2>3, MultiplexersAreQuiet
    <2>7. Moves(s)
        BY <2>1, <2>2, <2>4, <2>5, <2>6, QuietMoves
    <2> QED BY <1>0, <1>b, <2>1, <2>2, <2>7
<1>9. CASE RestopAnswered
    <2> DEFINE r == StartDistance(Head(inbox).s, Head(inbox).opts, "dRestarted")
    <2>1. /\ inbox # << >> /\ inbox' = Tail(inbox) /\ Head(inbox).kind = "answer"
          /\ Head(inbox).then = "dRestop" /\ UNCHANGED <<pending, phase, time, dist>>
          /\ api' = Append(api, r) \/ UNCHANGED api
        BY <1>9 DEF RestopAnswered, Answered
    <2>2. PICK s \in Sessions : /\ s = Head(inbox).s /\ Head(inbox) \in Arriving(s, "renew") /\ s \notin TimeKeys
        BY <1>0, <1>d, <2>1 DEF Thens
    <2>3. Head(inbox).opts \in Options /\ Head(inbox).opts.distance
        BY <2>1, HeadOfInbox, AnswerFields
    <2>4. DistKeys' = DistKeys /\ TimeKeys' = TimeKeys /\ PlainTimes'
        BY <1>0, <2>1, SameKeys
    <2>5. KeysStep(s, "none") /\ KeysStep(s, "renew")
        BY <2>2, <2>4 DEF KeysStep
    <2>6. CASE api' = Append(api, r)
        <3>1. r \in SoundRequests /\ r.s = s /\ r.then = "dRestarted" /\ r.op # "open"
            BY <2>2, <2>3, RequestsOfDistance, DistanceRequestsAreSound
        <3>2. r \in Awaited(s, Thens("renew")) /\ r \in PlainRequests
            BY <3>1 DEF Awaited, Thens, PlainRequests
        <3>3. Moves(s)
            BY <1>0, <2>1, <2>4, <2>5, <2>6, <3>2, RequestMoves
        <3> QED BY <1>0, <1>b, <2>1, <2>2, <3>3
    <2>7. CASE UNCHANGED api
        <3>3. Moves(s)
            BY <1>a, <2>1, <2>4, <2>5, <2>7, QuietMoves
        <3> QED BY <1>0, <1>b, <2>1, <2>2, <3>3
    <2> QED BY <2>1, <2>6, <2>7
<1>10. CASE DistanceRestartAnswered
    <2>1. /\ inbox # << >> /\ inbox' = Tail(inbox) /\ Head(inbox).kind = "answer"
          /\ Head(inbox).then = "dRestarted" /\ UNCHANGED <<api, pending, phase>>
          /\ UNCHANGED <<time, dist>> \/ SaveTrackingSession(Head(inbox).s, Head(inbox).opts)
        BY <1>10 DEF DistanceRestartAnswered, Answered
    <2>2. PICK s \in Sessions : /\ s = Head(inbox).s /\ Head(inbox) \in Arriving(s, "renew") /\ s \notin TimeKeys
        BY <1>0, <1>d, <2>1 DEF Thens
    <2>3. Head(inbox).opts \in Options /\ Head(inbox).opts.distance
        BY <2>1, HeadOfInbox, AnswerFields
    <2>4. DistKeys' \subseteq DistKeys \cup {s} /\ TimeKeys' = TimeKeys /\ PlainTimes'
        <3>1. CASE UNCHANGED <<time, dist>>
            BY <1>0, <3>1, SameKeys
        <3>2. CASE SaveTrackingSession(Head(inbox).s, Head(inbox).opts)
            <4>1. time' = time /\ TimeKeys' = TimeKeys /\ DistKeys' = DistKeys \cup {s}
                BY <1>0, <2>2, <2>3, <3>2, SavedKeys DEF IsDistanceSession
            <4> QED BY <1>0, <4>1 DEF PlainTimes
        <3> QED BY <2>1, <3>1, <3>2
    <2>5. KeysStep(s, "none")
        BY <2>2, <2>4 DEF KeysStep
    <2>6. Moves(s)
        BY <1>a, <2>1, <2>4, <2>5, QuietMoves
    <2> QED BY <1>0, <1>b, <2>1, <2>2, <2>6
<1> QED BY <1>1, <1>2, <1>3, <1>4, <1>5, <1>6, <1>7, <1>8, <1>9, <1>10 DEF AdapterStep

\* The modem's answer takes the place of the request.
LEMMA ServedUnderway ==
    ASSUME TypeInv, ServeRequest, NEW t \in Sessions, NEW j \in Kinds
    PROVE  Underway(t, j)' = Underway(t, j)
<1> DEFINE r == Head(api)
           A == Awaited(t, Thens(j))
           I == Arriving(t, j)
<1>0. /\ api # << >> /\ r.op # "open" /\ api' = Tail(api) /\ UNCHANGED pending
      /\ \E ok \in BOOLEAN : inbox' = IF r.then = "none" THEN inbox ELSE Append(inbox, Answer(r, ok))
    BY DEF ServeRequest, Outcomes
<1>1. r \in SoundRequests /\ api \in Seq(SoundRequests) /\ Tail(api) \in Seq(SoundRequests)
      /\ inbox \in Seq(SoundMessages)
    BY <1>0, HeadTailProperties DEF TypeInv
<1>2. PICK ok \in BOOLEAN : inbox' = IF r.then = "none" THEN inbox ELSE Append(inbox, Answer(r, ok))
    BY <1>0
<1>3. Count(api, A) = (IF r \in A THEN 1 ELSE 0) + Count(api', A)
    BY <1>0, <1>1, CountTail
<1>4. Count(api', A) \in Nat /\ Count(inbox, I) \in Nat /\ Count(pending, HeldCommands(t, j)) \in Nat
    BY <1>0, <1>1, CountIsNat, UnderwayIsNat
<1>5. Count(inbox', I) = Count(inbox, I) + (IF r \in A THEN 1 ELSE 0)
    <2>1. CASE r.then = "none"
        <3>1. r \notin A
            BY <2>1 DEF Awaited, Thens, Kinds
        <3> QED BY <1>2, <1>4, <2>1, <3>1
    <2>2. CASE r.then # "none"
        <3> DEFINE a == Answer(r, ok)
        <3>1. a \in SoundMessages
            BY <1>0, <1>1, <2>2, AnswersAreSound
        <3>2. a \in I <=> r \in A
            <4>1. a.kind = "answer" /\ a.s = r.s /\ a.then = r.then
                BY DEF Answer
            <4>2. a \notin HeldCommands(t, j)
                BY <4>1 DEF HeldCommands, Held
            <4> HIDE DEF a
            <4> QED BY <1>0, <1>1, <3>1, <4>1, <4>2 DEF Awaited, Arriving, Returns
        <3>3. inbox' = Append(inbox, a)
            BY <1>2, <2>2
        <3> HIDE DEF a, r, I, A
        <3>4. Count(inbox', I) = Count(inbox, I) + (IF a \in I THEN 1 ELSE 0)
            BY <1>1, <3>1, <3>3, CountAppend
        <3> QED BY <3>2, <3>4
    <2> QED BY <2>1, <2>2
<1>6. /\ Underway(t, j) = (Count(api, A) + Count(pending, HeldCommands(t, j))) + Count(inbox, I)
      /\ Underway(t, j)' = (Count(api', A) + Count(pending, HeldCommands(t, j))) + Count(inbox', I)
    BY <1>0 DEF Underway, Queued
<1> HIDE DEF r, A, I
<1> QED BY <1>3, <1>4, <1>5, <1>6

LEMMA OpenedUnderway ==
    ASSUME TypeInv, Open, NEW t \in Sessions, NEW j \in Kinds
    PROVE  Underway(t, j)' = Underway(t, j)
<1> DEFINE A == Awaited(t, Thens(j))
           I == Arriving(t, j)
<1>0. /\ api # << >> /\ Head(api).op = "open" /\ api' = Tail(api) /\ UNCHANGED pending
      /\ (inbox' = inbox \/ inbox' = Append(inbox, EngineUp))
    BY OpenIs DEF Open
<1>1. api \in Seq(SoundRequests) /\ Tail(api) \in Seq(SoundRequests) /\ inbox \in Seq(SoundMessages)
    BY <1>0, HeadTailProperties DEF TypeInv
<1>2. Head(api) \notin A
    BY <1>0 DEF Awaited
<1>3. EngineUp \notin I /\ EngineUp \in SoundMessages
    BY DEF Arriving, Returns, HeldCommands, Held, EngineUp, SoundMessages
<1>4. Count(api, A) = (IF Head(api) \in A THEN 1 ELSE 0) + Count(api', A)
    BY <1>0, <1>1, CountTail
<1> DEFINE u == EngineUp
<1>a. u \notin I /\ u \in SoundMessages /\ (inbox' = inbox \/ inbox' = Append(inbox, u))
    BY <1>0, <1>3
<1> HIDE DEF u, I
<1>5. Count(Append(inbox, u), I) = Count(inbox, I) + (IF u \in I THEN 1 ELSE 0)
    BY <1>1, <1>a, CountAppend
<1>6. Count(api', A) \in Nat /\ Count(inbox, I) \in Nat
    BY <1>0, <1>1, CountIsNat
<1>7. /\ Underway(t, j) = (Count(api, A) + Count(pending, HeldCommands(t, j))) + Count(inbox, I)
      /\ Underway(t, j)' = (Count(api', A) + Count(pending, HeldCommands(t, j))) + Count(inbox', I)
    BY <1>0 DEF Underway, Queued, I
<1> HIDE DEF A
<1>b. Count(inbox', I) = Count(inbox, I)
    <2>1. Count(Append(inbox, u), I) = Count(inbox, I)
        BY <1>5, <1>6, <1>a
    <2> QED BY <1>a, <2>1
<1>8. Count(api, A) = Count(api', A) /\ Count(inbox', I) = Count(inbox, I)
    BY <1>2, <1>4, <1>6, <1>b
<1> QED BY <1>7, <1>8

LEMMA ModemSeparate ==
    ASSUME TypeInv, TypeInv', Separate, DistanceSupported, ModemStep \/ (Crash /\ UNCHANGED load)
    PROVE  Separate'
<1>0. /\ TimeOK /\ DistOK /\ Plain /\ PlainTimes /\ \A t \in Sessions : Sorted(t)
      /\ api \in Seq(SoundRequests) /\ api \in Seq(PlainRequests) /\ inbox \in Seq(PlainMessages)
    BY DEF TypeInv, Separate, Plain
<1>a. UNCHANGED <<phase, time, dist>>
    BY DEF ModemStep, ServeRequest, Open, Crash
<1>b. TimeKeys' = TimeKeys /\ DistKeys' = DistKeys /\ PlainTimes'
    BY <1>0, <1>a, SameKeys
<1>c. ASSUME \A t \in Sessions, j \in Kinds : Underway(t, j)' <= Underway(t, j)
      PROVE  \A t \in Sessions : Sorted(t)'
    BY <1>0, <1>a, <1>b, <1>c, SortedShrinks
<1>d. \A t \in Sessions, j \in Kinds : Underway(t, j) <= Underway(t, j)
    BY UnderwayIsNat
<1>1. CASE ServeRequest
    <2> DEFINE r == Head(api)
    <2>1. r \in PlainRequests /\ Tail(api) \in Seq(PlainRequests) /\ r.op # "open" /\ api' = Tail(api)
        BY <1>0, <1>1, HeadTailProperties DEF ServeRequest
    <2>2. PICK ok \in BOOLEAN :
             inbox' = IF r.then = "none" THEN inbox ELSE Append(inbox, Answer(r, ok))
        BY <1>1 DEF ServeRequest, Outcomes
    <2>3. r.then # "none" => Answer(r, ok) \in PlainMessages
        <3>1. r \in SoundRequests
            BY <2>1 DEF PlainRequests
        <3>2. r.then # "none" => Answer(r, ok) \in SoundMessages
            BY <2>1, <3>1, AnswersAreSound
        <3>3. /\ Answer(r, ok).kind = "answer" /\ Answer(r, ok).then = r.then
              /\ Answer(r, ok).old = r.old
            BY DEF Answer
        <3> HIDE DEF r
        <3> QED BY <2>1, <3>2, <3>3 DEF PlainRequests, PlainMessages
    <2>4. inbox' \in Seq(PlainMessages)
        BY <1>0, <2>2, <2>3
    <2>5. Plain'
        BY <1>b, <2>1, <2>4 DEF Plain
    <2>6. \A t \in Sessions : Sorted(t)'
        BY <1>1, <1>c, <1>d, ServedUnderway
    <2> QED BY <2>5, <2>6 DEF Separate
<1>2. CASE Open
    <2>1. api' = Tail(api) /\ (inbox' = inbox \/ inbox' = Append(inbox, EngineUp)) /\ api # << >>
        BY <1>2, OpenIs
    <2>2. EngineUp \in PlainMessages /\ Tail(api) \in Seq(PlainRequests)
        BY <1>0, <2>1, HeadTailProperties DEF PlainMessages, SoundMessages, EngineUp
    <2>3. inbox' \in Seq(PlainMessages)
        <3>1. Append(inbox, EngineUp) \in Seq(PlainMessages)
            BY <1>0, <2>2, AppendProperties, Zenon
        <3> QED BY <1>0, <2>1, <3>1
    <2>5. Plain'
        BY <1>b, <2>1, <2>2, <2>3 DEF Plain
    <2>6. \A t \in Sessions : Sorted(t)'
        BY <1>2, <1>c, <1>d, OpenedUnderway
    <2> QED BY <2>5, <2>6 DEF Separate
<1>3. CASE Crash
    <2>1. api' = Append(api, OpenRequest) /\ UNCHANGED <<inbox, pending>>
        BY <1>3 DEF Crash
    <2>2. OpenRequest \in Quiet
        BY QuietRequests, UnawaitedRequests
    <2> DEFINE u == OpenRequest
    <2>3. u \in Quiet /\ api' = Append(api, u)
        BY <2>1, <2>2
    <2> HIDE DEF u
    <2>4. <<u>> \in Seq(Quiet) /\ api' = api \o <<u>>
        BY <1>0, <2>3, AppendDecides DEF Quiet
    <2>5. Plain'
        BY <1>0, <1>b, <2>1, <2>4, QuietPlain
    <2>6. \A t \in Sessions, j \in Kinds : Underway(t, j)' <= Underway(t, j)
        BY <2>1, <2>4, UnderwayQuiet
    <2> QED BY <1>c, <2>5, <2>6 DEF Separate
<1> QED BY <1>1, <1>2, <1>3 DEF ModemStep

\* Without the modem's support every session is a time based one.
LEMMA StepUnsupported ==
    ASSUME ~DistanceSupported
    PROVE  DistOK /\ DistKeys = {} /\ [Next]_vars => DistKeys' = {}
<1> SUFFICES ASSUME DistOK, DistKeys = {}, [Next]_vars PROVE DistKeys' = {}
    OBVIOUS
<1>1. ASSUME dist' = dist \/ \E x : dist' = [dist EXCEPT ![x] = NoOptions]
      PROVE  DistKeys' = {}
    BY <1>1 DEF DistKeys, DistOK
<1>2. \A s, o : SaveTrackingSession(s, o) => dist' = dist
    BY DEF SaveTrackingSession, IsDistanceSession
<1>3. \A s : EraseTrackingSession(s) => dist' = dist \/ \E x : dist' = [dist EXCEPT ![x] = NoOptions]
    BY DEF EraseTrackingSession
<1>4. \A s, o, ow : HandleStart(s, o, ow) => dist' = dist
    BY <1>2 DEF HandleStart
<1>5. \A s, o, ow : HandleUpdate(s, o, ow) => dist' = dist \/ \E x : dist' = [dist EXCEPT ![x] = NoOptions]
    <2> TAKE s, o, ow
    <2> HAVE HandleUpdate(s, o, ow)
    <2>1. \/ dist' = dist \/ SaveTrackingSession(s, o) \/ EraseTrackingSession(s)
        BY DEF HandleUpdate
    <2> QED BY <1>2, <1>3, <2>1
<1>6. \A s, ow : HandleStop(s, ow) => dist' = dist \/ \E x : dist' = [dist EXCEPT ![x] = NoOptions]
    BY <1>3 DEF HandleStop
<1>7. CASE UNCHANGED vars
    BY <1>1, <1>7 DEF vars
<1>8. CASE ClientStep
    <2>1. \/ dist' = dist \/ \E s, o, ow : HandleStart(s, o, ow) \/ HandleUpdate(s, o, ow) \/ HandleStop(s, ow)
        BY <1>8 DEF ClientStep, AddClient, StartTracking, UpdateTrackingOptions, StopTrackingCommand,
            RemoveClient, SuspendAndRestart
    <2> QED BY <1>1, <1>4, <1>5, <1>6, <2>1
<1>9. CASE AdapterStep
    <2>1. \/ dist' = dist \/ \E s, o, ow : HandleStart(s, o, ow) \/ HandleUpdate(s, o, ow)
          \/ \E s, o : SaveTrackingSession(s, o) \/ EraseTrackingSession(s)
        BY <1>9 DEF AdapterStep, HandleEngineUp, HandleHeldCommand, StartAnswered, UpdateAnswered, StopAnswered,
            DistanceStopAnswered, RemovedStopAnswered, ToTimeAnswered, RestopAnswered, DistanceRestartAnswered
    <2> QED BY <1>1, <1>2, <1>3, <1>4, <1>5, <2>1
<1>10. CASE ModemStep \/ (Crash /\ UNCHANGED load)
    <2>1. dist' = dist
        BY <1>10 DEF ModemStep, ServeRequest, Open, Crash
    <2> QED BY <1>1, <2>1
<1> QED BY <1>7, <1>8, <1>9, <1>10 DEF Next

\* Where the modem supports distance based sessions, and clients have one command
\* of a session open at a time, the session has its place.
Placed ==
    /\ ~DistanceSupported => DistKeys = {}
    /\ DistanceSupported /\ load.owed <= 1 => Separate

LEMMA InitPlaced == Init => Placed
<1> SUFFICES ASSUME Init PROVE Placed
    OBVIOUS
<1>1. TypeInv
    BY InitTypes
<1>2. TimeKeys = {} /\ DistKeys = {}
    BY DEF Init, TimeKeys, DistKeys
<1>3. inbox = << >> /\ pending = << >> /\ api = <<OpenRequest>>
    BY DEF Init
<1>4. Plain
    <2>1. OpenRequest \in PlainRequests
        BY QuietRequests, UnawaitedRequests, QuietIsPlain
    <2> DEFINE u == OpenRequest
    <2>2. u \in PlainRequests /\ api = <<u>>
        BY <1>3, <2>1
    <2> HIDE DEF u
    <2>3. api \in Seq(PlainRequests) /\ inbox \in Seq(PlainMessages)
        BY <1>3, <2>2, EmptySeq
    <2> QED BY <1>2, <2>3 DEF Plain, PlainTimes
<1>5. ASSUME NEW s \in Sessions PROVE Sorted(s)
    <2>1. ASSUME NEW j \in Kinds PROVE Underway(s, j) = 0
        <3>1. OpenRequest \notin Awaited(s, Thens(j))
            BY DEF Awaited, OpenRequest
        <3>2. Count(api, Awaited(s, Thens(j))) = 0
            BY <1>3, <3>1, CountOne
        <3>3. Count(pending, HeldCommands(s, j)) = 0 /\ Count(inbox, Arriving(s, j)) = 0
            BY <1>3, CountEmpty
        <3> QED BY <3>2, <3>3 DEF Underway, Queued
    <2>2. "switch" \in Kinds /\ "renew" \in Kinds /\ "stop" \in Kinds /\ "start" \in Kinds /\ "update" \in Kinds
        BY DEF Kinds
    <2>3. Changes(s) = 0
        BY <1>1, <2>1, ChangesParts
    <2> QED BY <1>2, <2>3 DEF Sorted
<1> QED BY <1>2, <1>4, <1>5 DEF Placed, Separate

LEMMA StepPlaced == TypeInv /\ TypeInv' /\ Due /\ Placed /\ [Next]_vars => Placed'
<1> SUFFICES ASSUME TypeInv, TypeInv', Due, Placed, [Next]_vars PROVE Placed'
    OBVIOUS
<1>0. UNCHANGED load
    BY LoadStays
<1>1. ~DistanceSupported => DistKeys' = {}
    BY StepUnsupported DEF TypeInv, Placed
<1>2. ASSUME DistanceSupported, load.owed <= 1, Separate PROVE Separate'
    <2>1. CASE UNCHANGED vars
        BY <1>2, <2>1 DEF vars, Separate, Plain, PlainTimes, Sorted, Changes, Underway, Queued, TimeKeys, DistKeys
    <2>2. CASE ClientStep
        BY <1>2, <2>2, ClientSeparate
    <2>3. CASE AdapterStep
        BY <1>2, <2>3, AdapterSeparate
    <2>4. CASE ModemStep \/ (Crash /\ UNCHANGED load)
        BY <1>2, <2>4, ModemSeparate
    <2> QED BY <2>1, <2>2, <2>3, <2>4 DEF Next
<1> QED BY <1>0, <1>1, <1>2 DEF Placed

\* Clients ask for time based sessions only, or have at most one command of a
\* session open at a time.
OneAtATime == \A l \in Loads : (\A o \in l.options : ~o.distance) \/ l.owed <= 1

\* All of this holds in every state.
LEMMA PlacedInvariant == Spec => [](TypeInv /\ TimeOnly /\ Due /\ Placed)
<1>1. Init => TypeInv /\ TimeOnly /\ Due /\ Placed
    <2>1. Init => Due
        BY InitNoneInFlight DEF Due
    <2> QED BY <2>1, InitTypes, InitTimeOnly, InitPlaced
<1>2. (TypeInv /\ TimeOnly /\ Due /\ Placed) /\ [Next]_vars => (TypeInv /\ TimeOnly /\ Due /\ Placed)'
    BY StepTypes, StepTimeOnly, StepDue, StepPlaced
<1> QED BY <1>1, <1>2, PTL DEF Spec

\* A session is never in both maps, so that the report of a fix or its stop finds
\* the session it is for: of clients that wait for the response to a command of a
\* session before the next, or use no distance based ones, whatever the modem does.
THEOREM SessionsHaveOneMap ==
    ASSUME OneAtATime
    PROVE  Spec => []OneMap
<1>1. TypeInv /\ TimeOnly /\ Due /\ Placed => OneMap
    <2> SUFFICES ASSUME TypeInv, TimeOnly, Placed PROVE OneMap
        OBVIOUS
    <2>1. load \in Loads
        BY DEF TypeInv
    <2>2. CASE DistKeys = {}
        BY <2>2 DEF OneMap
    <2>3. CASE DistanceSupported /\ load.owed <= 1
        BY <2>3 DEF Placed, Separate, Sorted, OneMap, TimeKeys, DistKeys
    <2>4. CASE TimeOnlyLoad
        BY <2>2, <2>4 DEF TimeOnly
    <2> QED BY <2>1, <2>2, <2>3, <2>4 DEF OneAtATime, TimeOnlyLoad, Placed
<1> QED BY <1>1, PlacedInvariant, PTL

-----------------------------------------------------------------------------
(* The modem runs the distance based sessions *)

\* The modem runs s once it has served what is queued.
Runs(s) == \A e : Left(api, DistanceOf(s), engineDist[s], e) => e # NoOptions
\* The end of s is requested.
HasStop(q, s) == \E i \in 1 .. Len(q) : q[i].op = "stopD" /\ q[i].s = s
\* The answer that ends s, or goes on with its renewal, is to come, behind i.
Ends == {"dStopped", "dRemoved", "dRestop"}
Ending(s, i) ==
    \E j \in 1 .. Len(inbox) :
        j > i /\ inbox[j].kind = "answer" /\ inbox[j].s = s /\ inbox[j].then \in Ends
\* s runs, or is being ended or renewed, or an engine-up will start it again.
Follows(s, i) ==
    Opens(api) \/ ComesUp(inbox, i) \/ Runs(s) \/ HasStop(api, s) \/ Ending(s, i)

\* The modem has started s anew; the adapter saves it when it learns of that.
Renewed(m, s) == m.kind = "answer" /\ m.then = "dRestarted" /\ m.s = s /\ m.ok

\* That holds of each session in the map, and behind each message that puts one there.
DistanceFollows ==
    \A s \in Sessions :
        /\ s \in DistKeys => Follows(s, 0)
        /\ \A i \in 1 .. Len(inbox) : Renewed(inbox[i], s) => Follows(s, i)

LEMMA StartResult ==
    ASSUME NEW s, NEW r \in DistanceOf(s)
    PROVE  \/ r.op = "stopD" /\ r.s = s
           \/ r.op = "startD" /\ Result(r) \in Options /\ Result(r) # NoOptions
<1>1. r \in SoundRequests /\ r.op \in {"startD", "stopD"} /\ r.s = s
    BY DEF DistanceOf
<1>2. r.op = "startD" => r.opts \in Options
    <2>1. r.op # "open"
        BY <1>1
    <2> QED BY <1>1, <2>1, RequestFields
<1>3. r.op = "startD" => Result(r) = r.opts
    BY DEF Result
<1> QED BY <1>1, <1>2, <1>3, OptionsFields

LEMMA RunsGrows ==
    ASSUME TypeInv, NEW R \in Seq(SoundRequests), api' = api \o R, UNCHANGED engineDist, NEW s \in Sessions
    PROVE  /\ Runs(s) \/ HasStop(api, s) => Runs(s)' \/ HasStop(api', s)
           /\ (\E i \in 1 .. Len(R) : R[i] \in DistanceOf(s)) => Runs(s)' \/ HasStop(R, s)
<1> DEFINE A == DistanceOf(s)
           e0 == engineDist[s]
<1>0. api \in Seq(SoundRequests)
    BY DEF TypeInv
<1>1. HasStop(api, s) \/ HasStop(R, s) => HasStop(api', s)
    <2>1. \A i \in 1 .. Len(api) : api'[i] = api[i] /\ i \in 1 .. Len(api')
        BY <1>0, ConcatIndex
    <2>2. \A i \in 1 .. Len(R) : api'[Len(api) + i] = R[i] /\ Len(api) + i \in 1 .. Len(api')
        BY <1>0
    <2> QED BY <2>1, <2>2 DEF HasStop
<1>2. ASSUME NEW i \in 1 .. Len(R), R[i] \in A, ~HasStop(R, s)
      PROVE  Runs(s)'
    <2>1. SUFFICES ASSUME NEW e, Left(api \o R, A, e0, e) PROVE e # NoOptions
        BY DEF Runs
    <2> HIDE DEF A, e0
    <2>2. Left(R, A, e0, e) /\ \E k \in 1 .. Len(R) : R[k] \in A
        BY <1>0, <1>2, <2>1, LeftConcat
    <2>3. PICK k \in 1 .. Len(R) : R[k] \in A /\ e = Result(R[k])
        BY <2>2 DEF Left
    <2>4. ~(R[k].op = "stopD" /\ R[k].s = s)
        BY <1>2 DEF HasStop
    <2> QED BY <2>3, <2>4, StartResult DEF A
<1>3. ASSUME \A i \in 1 .. Len(R) : R[i] \notin A, Runs(s)
      PROVE  Runs(s)'
    <2>1. SUFFICES ASSUME NEW e, Left(api \o R, A, e0, e) PROVE e # NoOptions
        BY DEF Runs
    <2>2. Left(api, A, e0, e)
        <3> HIDE DEF A, e0
        <3> QED BY <1>0, <1>3, <2>1, LeftConcat
    <2> QED BY <1>3, <2>2 DEF Runs
<1> QED BY <1>1, <1>2, <1>3

\* Where a client or the adapter sends something more.
LEMMA FollowsGrows ==
    ASSUME TypeInv, Grows, UNCHANGED engineDist, NEW s \in Sessions, NEW i, NEW j,
           Follows(s, i), ComesUp(inbox, i) => ComesUp(inbox', j), Ending(s, i) => Ending(s, j)'
    PROVE  Follows(s, j)'
<1>1. PICK R \in Seq(SoundRequests) : api' = api \o R
    BY DEF Grows
<1>2. Opens(api) => Opens(api')
    BY OpensGrows
<1>3. Runs(s) \/ HasStop(api, s) => Runs(s)' \/ HasStop(api', s)
    BY <1>1, RunsGrows
<1> QED BY <1>2, <1>3 DEF Follows

LEMMA StartedRuns ==
    ASSUME TypeInv, UNCHANGED engineDist, NEW s \in Sessions, NEW o \in Options, NEW then,
           NEW q \in Seq(SoundRequests), StartDistance(s, o, then) \in SoundRequests,
           api' = q \o <<StartDistance(s, o, then)>>
    PROVE  Runs(s)'
<1> DEFINE r == StartDistance(s, o, then)
           A == DistanceOf(s)
<1>1. r \in A /\ Result(r) = o
    BY RequestsOfDistance DEF DistanceOf, Result, StartDistance, Request
<1>2. SUFFICES ASSUME NEW e, Left(q \o <<r>>, A, engineDist[s], e) PROVE e # NoOptions
    BY DEF Runs
<1>a. r \in SoundRequests
    OBVIOUS
<1> HIDE DEF r, A
<1>3. e = Result(r)
    BY <1>1, <1>2, <1>a, LeftOne
<1> QED BY <1>1, <1>3, OptionsFields

\* The head of the adapter's queue is gone: what comes behind it is one place nearer.
LEMMA EndingNext ==
    ASSUME NEW q \in Seq(SoundMessages), NEW P \in Seq(SoundMessages), q # << >>, q = inbox,
           inbox' = Tail(q) \o P, NEW s, NEW i \in Nat
    PROVE  /\ Ending(s, i + 1) => Ending(s, i)'
           /\ Ending(s, 0) => Ending(s, 0)' \/ (q[1].kind = "answer" /\ q[1].s = s /\ q[1].then \in Ends)
<1>1. /\ Tail(q) \in Seq(SoundMessages)
      /\ \A k \in 1 .. Len(q) : k # 1 => k - 1 \in 1 .. Len(Tail(q)) /\ Tail(q)[k - 1] = q[k]
    BY TailIndex
<1>2. \A k \in 1 .. Len(Tail(q)) : inbox'[k] = Tail(q)[k] /\ k \in 1 .. Len(inbox')
    BY <1>1, ConcatIndex
<1>3. ASSUME NEW n \in Nat, NEW k \in 1 .. Len(q), k > n + 1, q[k].kind = "answer" /\ q[k].s = s /\ q[k].then \in Ends
      PROVE  Ending(s, n)'
    <2>1. k - 1 \in 1 .. Len(inbox') /\ inbox'[k - 1] = q[k] /\ k - 1 > n
        BY <1>1, <1>2, <1>3
    <2> QED BY <1>3, <2>1 DEF Ending
<1>4. Ending(s, i + 1) => Ending(s, i)'
    BY <1>3 DEF Ending
<1>5. ASSUME Ending(s, 0), ~(q[1].kind = "answer" /\ q[1].s = s /\ q[1].then \in Ends) PROVE Ending(s, 0)'
    <2>1. PICK k \in 1 .. Len(q) : q[k].kind = "answer" /\ q[k].s = s /\ q[k].then \in Ends
        BY <1>5 DEF Ending
    <2>2. k # 1
        BY <1>5, <2>1
    <2>3. k > 0 + 1 /\ 0 \in Nat
        BY <2>2
    <2> QED BY <1>3, <2>1, <2>3
<1> QED BY <1>4, <1>5

\* A session that a command saves as a distance based one is asked for at once.
SavedRuns(s) == s \in DistKeys' => s \in DistKeys \/ Runs(s)'

LEMMA StartAsksFor ==
    ASSUME TypeInv, UNCHANGED engineDist, NEW s \in Sessions, NEW o \in Options, NEW ow, HandleStart(s, o, ow)
    PROVE  \A t \in Sessions : SavedRuns(t)
<1>0. TimeOK /\ DistOK /\ api \in Seq(SoundRequests)
    BY DEF TypeInv
<1>1. CASE UNCHANGED <<time, dist>>
    BY <1>0, <1>1, SameKeys DEF SavedRuns
<1>2. CASE IsDistanceSession(o) /\ SaveTrackingSession(s, o) /\ api' = Append(api, StartDistance(s, o, "dStarted"))
    <2>1. DistKeys' = DistKeys \cup {s}
        BY <1>0, <1>2, SavedKeys
    <2>2. StartDistance(s, o, "dStarted") \in SoundRequests
        BY DistanceRequestsAreSound
    <2>3. api' = api \o <<StartDistance(s, o, "dStarted")>>
        BY <1>0, <1>2, <2>2, AppendDecides
    <2>4. Runs(s)'
        BY <1>0, <2>2, <2>3, StartedRuns
    <2> QED BY <2>1, <2>4 DEF SavedRuns
<1>3. CASE ~IsDistanceSession(o) /\ SaveTrackingSession(s, o)
    BY <1>0, <1>3, SavedKeys DEF SavedRuns
<1> QED BY <1>1, <1>2, <1>3 DEF HandleStart

LEMMA UpdateAsksFor ==
    ASSUME TypeInv, UNCHANGED engineDist, NEW s \in Sessions, NEW o \in Options, NEW ow, HandleUpdate(s, o, ow)
    PROVE  \A t \in Sessions : SavedRuns(t)
<1>0. TimeOK /\ DistOK /\ api \in Seq(SoundRequests)
    BY DEF TypeInv
<1>1. CASE UNCHANGED <<time, dist>>
    BY <1>0, <1>1, SameKeys DEF SavedRuns
<1>2. CASE /\ s \in TimeKeys
           /\ api' = api \o StopTimeBasedTrackingMultiplex(TimeKeys, s) \o <<StartDistance(s, o, "none")>>
           /\ dist' = [dist EXCEPT ![s] = o] \/ dist' = dist
    <2> DEFINE q == api \o StopTimeBasedTrackingMultiplex(TimeKeys, s)
    <2>1. DistKeys' \subseteq DistKeys \cup {s}
        BY <1>0, <1>2, DistKeysAfter
    <2>2. StartDistance(s, o, "none") \in SoundRequests
        BY UnawaitedRequests, UnawaitedAreSound
    <2>3. q \in Seq(SoundRequests)
        BY <1>0, <1>2, StopKeeps
    <2>4. api' = q \o <<StartDistance(s, o, "none")>>
        BY <1>2
    <2> HIDE DEF q
    <2>5. Runs(s)'
        BY <2>2, <2>3, <2>4, StartedRuns
    <2> QED BY <2>1, <2>5 DEF SavedRuns
<1>3. CASE EraseTrackingSession(s)
    BY <1>0, <1>3, ErasedKeys DEF SavedRuns
<1>4. CASE ~o.distance /\ SaveTrackingSession(s, o)
    BY <1>0, <1>4, SavedKeys DEF SavedRuns, IsDistanceSession
<1>5. \/ UNCHANGED <<time, dist>>
      \/ /\ s \in TimeKeys
         /\ api' = api \o StopTimeBasedTrackingMultiplex(TimeKeys, s) \o <<StartDistance(s, o, "none")>>
         /\ dist' = [dist EXCEPT ![s] = o] \/ dist' = dist
      \/ EraseTrackingSession(s)
      \/ ~o.distance /\ SaveTrackingSession(s, o)
    BY DEF HandleUpdate
<1> QED BY <1>1, <1>2, <1>3, <1>4, <1>5

LEMMA ClientDistance ==
    ASSUME TypeInv, DistanceFollows, ClientStep
    PROVE  DistanceFollows'
<1>0. TimeOK /\ DistOK /\ Grows /\ UNCHANGED <<inbox, engineDist>>
    BY ClientGrows DEF TypeInv, modem
<1>1. ASSUME NEW s \in Sessions, NEW i, Follows(s, i) PROVE Follows(s, i)'
    BY <1>0, <1>1, FollowsGrows DEF Ending
<1>2. \A t \in Sessions : SavedRuns(t)
    <2>0. \A o \in load.options : o \in Options
        BY LoadTypes
    <2>1. ASSUME NEW s \in Sessions, NEW o \in load.options, StartTracking(s, o) PROVE \A t \in Sessions : SavedRuns(t)
        BY <1>0, <2>0, <2>1, StartAsksFor DEF StartTracking
    <2>2. ASSUME NEW s \in Sessions, NEW o \in load.options, UpdateTrackingOptions(s, o) PROVE \A t \in Sessions : SavedRuns(t)
        BY <1>0, <2>0, <2>2, UpdateAsksFor DEF UpdateTrackingOptions
    <2>3. ASSUME NEW s \in Sessions, StopTrackingCommand(s) PROVE \A t \in Sessions : SavedRuns(t)
        <3>1. EraseTrackingSession(s) \/ UNCHANGED <<time, dist>>
            BY <2>3 DEF StopTrackingCommand, HandleStop
        <3> QED BY <1>0, <3>1, ErasedKeys, SameKeys DEF SavedRuns
    <2>4. ASSUME dist' = dist PROVE \A t \in Sessions : SavedRuns(t)
        BY <1>0, <2>4 DEF SavedRuns, DistKeys
    <2> QED BY <2>1, <2>2, <2>3, <2>4 DEF ClientStep, AddClient, RemoveClient, SuspendAndRestart
<1>3. ASSUME NEW s \in Sessions, s \in DistKeys' PROVE Follows(s, 0)'
    BY <1>1, <1>2, <1>3 DEF SavedRuns, Follows, DistanceFollows
<1>4. ASSUME NEW s \in Sessions, NEW i \in 1 .. Len(inbox'), Renewed(inbox'[i], s) PROVE Follows(s, i)'
    BY <1>0, <1>1, <1>4 DEF DistanceFollows
<1> QED BY <1>3, <1>4 DEF DistanceFollows

LEMMA AdapterDistance ==
    ASSUME TypeInv, Recovery, Reliable, DistanceSupported, Separate, DistanceFollows, AdapterStep
    PROVE  DistanceFollows'
<1>0. /\ TimeOK /\ DistOK /\ Grows /\ UNCHANGED engineDist /\ inbox # << >> /\ \A t \in Sessions : Sorted(t)
      /\ api \in Seq(SoundRequests) /\ inbox \in Seq(SoundMessages) /\ inbox \in Seq(PlainMessages)
      /\ pending \in Seq(Held)
    BY AdapterGrows DEF TypeInv, Separate, Plain, modem
<1> DEFINE m == Head(inbox)
           Engine == m.kind = "engineUp"
<1>a. \E P \in Seq(Held) : inbox' = Tail(inbox) \o P
    <2>1. << >> \in Seq(Held) /\ Tail(inbox) \o << >> = Tail(inbox)
        BY <1>0, EmptySeq, ConcatEmptySeq, HeadOfInbox
    <2> QED BY <1>0, <2>1, AdapterGrows
<1>b. PICK P \in Seq(Held) : inbox' = Tail(inbox) \o P
    BY <1>a
<1>c. P \in Seq(SoundMessages)
    BY WiderSeq DEF SoundMessages
<1>d. m \in SoundMessages /\ m \in PlainMessages /\ m = inbox[1]
    BY <1>0, HeadOfInbox, HeadTailProperties
<1>e. ASSUME NEW s \in Sessions, NEW i \in Nat, Follows(s, i + 1) PROVE Follows(s, i)'
    <2>1. ComesUp(inbox, i + 1) => ComesUp(inbox', i)
        BY ComesUpNext
    <2>2. Ending(s, i + 1) => Ending(s, i)'
        BY <1>0, <1>b, <1>c, EndingNext
    <2> QED BY <1>0, <1>e, <2>1, <2>2, FollowsGrows
<1>f. ASSUME NEW s \in Sessions, Follows(s, 0), ~Engine, ~(m.kind = "answer" /\ m.s = s /\ m.then \in Ends)
      PROVE  Follows(s, 0)'
    <2>1. ComesUp(inbox, 0) => ComesUp(inbox', 0)
        BY <1>f, ComesUpNext
    <2>2. Ending(s, 0) => Ending(s, 0)'
        BY <1>0, <1>b, <1>c, <1>d, <1>f, EndingNext
    <2> QED BY <1>0, <1>f, <2>1, <2>2, FollowsGrows
\* an answer that brings the maps no distance based session, and ends none
<1>g. ASSUME NEW s \in Sessions, s \in DistKeys, ~Engine, ~(m.kind = "answer" /\ m.s = s /\ m.then \in Ends)
      PROVE  Follows(s, 0)'
    BY <1>f, <1>g DEF DistanceFollows
\* an error that is followed by an engine-up
<1>h. ASSUME NEW s \in Sessions, m.kind = "answer", ~m.ok PROVE Follows(s, 0)'
    <2>1. Follows(s, 0 + 1)
        BY <1>0, <1>h, HeadSucceeded DEF Follows
    <2> QED BY <1>e, <2>1
<1>2. ASSUME NEW s \in Sessions, NEW i \in 1 .. Len(inbox'), Renewed(inbox'[i], s) PROVE Follows(s, i)'
    <2>1. /\ Tail(inbox) \in Seq(SoundMessages)
          /\ \A k \in 1 .. Len(Tail(inbox)) : Tail(inbox)[k] = inbox[k + 1] /\ k + 1 \in 1 .. Len(inbox)
        BY <1>0, TailIndex
    <2>2. CASE i \in 1 .. Len(Tail(inbox))
        <3>1. inbox'[i] = inbox[i + 1] /\ i + 1 \in 1 .. Len(inbox) /\ i \in Nat
            BY <1>b, <1>c, <2>1, <2>2, ConcatIndex
        <3>2. Follows(s, i + 1)
            BY <1>2, <3>1 DEF DistanceFollows
        <3> QED BY <1>e, <3>1, <3>2
    <2>3. CASE i \notin 1 .. Len(Tail(inbox))
        <3>1. i - Len(Tail(inbox)) \in 1 .. Len(P) /\ inbox'[i] = P[i - Len(Tail(inbox))]
            BY <1>b, <1>c, <2>1, <2>3, ConcatIndex
        <3>2. inbox'[i] \in Held
            BY <3>1
        <3> QED BY <1>2, <3>2 DEF Renewed, Held
    <2> QED BY <2>2, <2>3
<1>3. ASSUME NEW s \in Sessions, s \in DistKeys' PROVE Follows(s, 0)'
    <2>1. CASE HandleEngineUp
        <3>1. api' = api \o RestartSessions /\ dist' = dist
            BY <2>1 DEF HandleEngineUp
        <3>2. s \in DistKeys
            BY <1>3, <3>1 DEF DistKeys
        <3>3. /\ RestartTimeBased \in Seq(SoundRequests) /\ RestartDistanceBased \in Seq(SoundRequests)
              /\ RestartSessions \in Seq(SoundRequests)
            BY <1>0, RestartsAreUnawaited, RestartDistanceBasedServes, UnawaitedAreSound, WiderSeq
        <3>4. PICK i \in 1 .. Len(RestartDistanceBased) : RestartDistanceBased[i] \in DistanceOf(s)
            BY <1>0, <3>2, RestartDistanceBasedServes
        <3>5. \E k \in 1 .. Len(RestartSessions) : RestartSessions[k] \in DistanceOf(s)
            <4>1. /\ Len(RestartTimeBased) + i \in 1 .. Len(RestartTimeBased \o RestartDistanceBased)
                  /\ (RestartTimeBased \o RestartDistanceBased)[Len(RestartTimeBased) + i] = RestartDistanceBased[i]
                BY <3>3
            <4> QED BY <3>4, <4>1 DEF RestartSessions
        <3>6. Runs(s)' \/ HasStop(RestartSessions, s)
            BY <1>0, <3>1, <3>3, <3>5, RunsGrows
        <3>7. HasStop(RestartSessions, s) => HasStop(api', s)
            <4>1. \A k \in 1 .. Len(RestartSessions) :
                     Len(api) + k \in 1 .. Len(api') /\ api'[Len(api) + k] = RestartSessions[k]
                BY <1>0, <3>1, <3>3
            <4> QED BY <4>1 DEF HasStop
        <3> QED BY <3>6, <3>7 DEF Follows
    <2>2. CASE HandleHeldCommand
        <3>1. SavedRuns(s)
            <4>1. CASE m.kind = "start" /\ HandleStart(m.s, m.opts, owed)
                <5>1. m.s \in Sessions /\ m.opts \in Options
                    BY <1>d, <4>1, HeldFields
                <5> QED BY <1>0, <4>1, <5>1, StartAsksFor
            <4>2. CASE m.kind = "update" /\ HandleUpdate(m.s, m.opts, owed)
                <5>1. m.s \in Sessions /\ m.opts \in Options
                    BY <1>d, <4>2, HeldFields
                <5> QED BY <1>0, <4>2, <5>1, UpdateAsksFor
            <4> QED BY <2>2, <4>1, <4>2 DEF HandleHeldCommand
        <3>2. m.kind \in {"start", "update"}
            BY <2>2 DEF HandleHeldCommand
        <3> QED BY <1>3, <1>g, <3>1, <3>2 DEF SavedRuns, Follows
    <2>3. CASE StartAnswered \/ StopAnswered
        <3>1. /\ m.kind = "answer" /\ m.then \in {"started", "dStarted", "stopped"}
              /\ EraseTrackingSession(m.s) \/ UNCHANGED <<time, dist>>
            BY <2>3 DEF StartAnswered, StopAnswered, Answered
        <3>2. m.s \in Sessions
            BY <1>d, <3>1, AnswerFields
        <3>3. s \in DistKeys
            BY <1>0, <1>3, <3>1, <3>2, ErasedKeys, SameKeys
        <3> QED BY <1>g, <3>1, <3>3 DEF Ends
    <2>4. CASE UpdateAnswered
        <3>1. /\ m.kind = "answer" /\ m.then = "updated"
              /\ SaveTrackingSession(m.s, m.old) \/ UNCHANGED <<time, dist>>
            BY <2>4 DEF UpdateAnswered, Answered
        <3>2. m.s \in Sessions /\ m.old \in Options /\ ~m.old.distance
            BY <1>d, <3>1, AnswerFields DEF PlainMessages
        <3>3. s \in DistKeys
            BY <1>0, <1>3, <3>1, <3>2, SavedKeys, SameKeys DEF IsDistanceSession
        <3> QED BY <1>g, <3>1, <3>3 DEF Ends
    <2>5. CASE DistanceStopAnswered \/ RemovedStopAnswered
        <3>1. /\ m.kind = "answer"
              /\ IF m.ok THEN EraseTrackingSession(m.s) ELSE UNCHANGED <<time, dist>>
            BY <2>5 DEF DistanceStopAnswered, RemovedStopAnswered, Answered
        <3>2. m.s \in Sessions
            BY <1>d, <3>1, AnswerFields
        <3>3. s \in DistKeys
            BY <1>0, <1>3, <3>1, <3>2, ErasedKeys, SameKeys
        <3>4. CASE m.s # s
            BY <1>g, <3>1, <3>3, <3>4
        <3>5. CASE ~m.ok
            BY <1>h, <3>1, <3>5
        <3>6. CASE m.s = s /\ m.ok
            <4>1. s \notin TimeKeys
                BY <1>0, <3>3 DEF Sorted
            <4> QED BY <1>0, <1>3, <3>1, <3>6, <4>1, ErasedKeys
        <3> QED BY <3>4, <3>5, <3>6
    <2>6. CASE ToTimeAnswered
        <3>1. m.kind = "answer" /\ m.then = "toTime" /\ SaveTrackingSession(m.s, m.opts)
            BY <2>6 DEF ToTimeAnswered, Answered
        <3>2. m.s \in Sessions /\ m.opts \in Options /\ ~m.opts.distance
            BY <1>d, <3>1, AnswerFields
        <3>3. s \in DistKeys
            BY <1>0, <1>3, <3>1, <3>2, SavedKeys DEF IsDistanceSession
        <3> QED BY <1>g, <3>1, <3>3 DEF Ends
    <2>7. CASE RestopAnswered
        <3>1. /\ m.kind = "answer" /\ m.then = "dRestop" /\ UNCHANGED <<time, dist>>
              /\ m.ok => api' = Append(api, StartDistance(m.s, m.opts, "dRestarted"))
            BY <2>7 DEF RestopAnswered, Answered
        <3>2. m.s \in Sessions /\ m.opts \in Options /\ m.opts.distance
            BY <1>d, <3>1, AnswerFields
        <3>3. s \in DistKeys
            BY <1>0, <1>3, <3>1, SameKeys
        <3>4. CASE m.s # s
            BY <1>g, <3>1, <3>3, <3>4
        <3>5. CASE ~m.ok
            BY <1>h, <3>1, <3>5
        <3>6. CASE m.s = s /\ m.ok
            <4>1. StartDistance(s, m.opts, "dRestarted") \in SoundRequests
                BY <3>2, DistanceRequestsAreSound
            <4>2. api' = api \o <<StartDistance(s, m.opts, "dRestarted")>>
                BY <1>0, <3>1, <3>6, <4>1, AppendDecides
            <4>3. Runs(s)'
                BY <1>0, <3>2, <4>1, <4>2, StartedRuns
            <4> QED BY <4>3 DEF Follows
        <3> QED BY <3>4, <3>5, <3>6
    <2>8. CASE DistanceRestartAnswered
        <3>1. /\ m.kind = "answer" /\ m.then = "dRestarted"
              /\ IF m.ok THEN SaveTrackingSession(m.s, m.opts) ELSE UNCHANGED <<time, dist>>
            BY <2>8 DEF DistanceRestartAnswered, Answered
        <3>2. m.s \in Sessions /\ m.opts \in Options
            BY <1>d, <3>1, AnswerFields
        <3>3. s \in DistKeys \/ (m.ok /\ m.s = s)
            BY <1>0, <1>3, <3>1, <3>2, SavedKeys, SameKeys
        <3>4. CASE s \in DistKeys
            BY <1>g, <3>1, <3>4 DEF Ends
        <3>5. CASE m.ok /\ m.s = s
            <4>1. Renewed(inbox[1], s) /\ 1 \in 1 .. Len(inbox)
                BY <1>0, <1>d, <3>1, <3>5 DEF Renewed
            <4>2. Follows(s, 0 + 1)
                BY <4>1 DEF DistanceFollows
            <4> QED BY <1>e, <4>2
        <3> QED BY <3>3, <3>4, <3>5
    <2> QED BY <2>1, <2>2, <2>3, <2>4, <2>5, <2>6, <2>7, <2>8 DEF AdapterStep
<1> QED BY <1>2, <1>3 DEF DistanceFollows

\* While it is up the modem does what it is asked for.
LEMMA ServedRuns ==
    ASSUME TypeInv, ServeRequest, ~EngineFails, DistanceSupported, up, NEW s \in Sessions
    PROVE  engineDist'[s] = IF Head(api) \in DistanceOf(s) THEN Result(Head(api)) ELSE engineDist[s]
<1> DEFINE r == Head(api)
<1>1. api # << >> /\ r.op # "open" /\ r \in SoundRequests /\ engineDist \in [Sessions -> Options \cup {NoOptions}]
    BY HeadTailProperties DEF ServeRequest, TypeInv
<1>2. engineDist' = IF r.op = "startD" THEN [engineDist EXCEPT ![r.s] = r.opts]
                    ELSE IF r.op = "stopD" THEN [engineDist EXCEPT ![r.s] = NoOptions] ELSE engineDist
    BY DEF ServeRequest, Outcomes
<1>3. r \in DistanceOf(s) <=> r.op \in {"startD", "stopD"} /\ r.s = s
    BY <1>1 DEF DistanceOf
<1>4. Result(r) = IF r.op \in {"start", "startD"} THEN r.opts ELSE NoOptions
    BY DEF Result
<1>5. CASE r \in DistanceOf(s)
    <2>1. CASE r.op = "startD"
        <3>1. engineDist' = [engineDist EXCEPT ![s] = r.opts] /\ Result(r) = r.opts
            BY <1>2, <1>3, <1>4, <1>5, <2>1
        <3> QED BY <1>1, <1>5, <3>1
    <2>2. CASE r.op = "stopD"
        <3>1. engineDist' = [engineDist EXCEPT ![s] = NoOptions] /\ Result(r) = NoOptions
            BY <1>2, <1>3, <1>4, <1>5, <2>2
        <3> QED BY <1>1, <1>5, <3>1
    <2> QED BY <1>3, <1>5, <2>1, <2>2
<1>6. CASE r \notin DistanceOf(s)
    <2>1. \/ \E o : engineDist' = [engineDist EXCEPT ![r.s] = o] /\ r.s # s
          \/ engineDist' = engineDist
        BY <1>2, <1>3, <1>6
    <2>2. engineDist'[s] = engineDist[s]
        BY <1>1, <2>1
    <2> QED BY <1>6, <2>2
<1> QED BY <1>5, <1>6

LEMMA RunsServed ==
    ASSUME TypeInv, ServeRequest, ~EngineFails, DistanceSupported, up, NEW s \in Sessions, Runs(s)
    PROVE  Runs(s)'
<1>1. SUFFICES ASSUME NEW e, Left(Tail(api), DistanceOf(s), engineDist'[s], e) PROVE e # NoOptions
    BY DEF Runs, ServeRequest
<1>2. api \in Seq(SoundRequests) /\ api # << >>
    BY DEF TypeInv, ServeRequest
<1>3. Left(Tail(api), DistanceOf(s), IF Head(api) \in DistanceOf(s) THEN Result(Head(api)) ELSE engineDist[s], e)
    BY <1>1, ServedRuns
<1>4. Left(api, DistanceOf(s), engineDist[s], e)
    BY <1>2, <1>3, LeftTail
<1> QED BY <1>4 DEF Runs

\* A renewal that succeeds runs, unless a stop is under way already.
LEMMA RenewalRuns ==
    ASSUME TypeInv, ServeRequest, ~EngineFails, DistanceSupported, up, NEW s \in Sessions,
           Head(api).s = s, Head(api).then = "dRestarted"
    PROVE  Runs(s)' \/ HasStop(api', s)
<1> DEFINE r == Head(api)
           A == DistanceOf(s)
<1>1. api # << >> /\ r.op # "open" /\ r \in SoundRequests /\ api' = Tail(api) /\ Tail(api) \in Seq(SoundRequests)
    BY HeadTailProperties DEF ServeRequest, TypeInv
<1>2. r.op = "startD" /\ r.opts \in Options
    BY <1>1 DEF SoundRequests, OpenRequest
<1>3. r \in A /\ Result(r) = r.opts
    BY <1>1, <1>2 DEF DistanceOf, Result
<1>4. engineDist'[s] = r.opts
    BY <1>3, ServedRuns
<1>5. SUFFICES ASSUME ~HasStop(api', s), NEW e, Left(api', A, r.opts, e) PROVE e # NoOptions
    BY <1>4 DEF Runs
<1> HIDE DEF A, r
<1>6. CASE e = r.opts
    BY <1>2, <1>6, OptionsFields
<1>7. ASSUME NEW i \in 1 .. Len(api'), api'[i] \in A, e = Result(api'[i]) PROVE e # NoOptions
    <2>1. ~(api'[i].op = "stopD" /\ api'[i].s = s)
        BY <1>5 DEF HasStop
    <2> QED BY <1>7, <2>1, StartResult DEF A
<1> QED BY <1>5, <1>6, <1>7 DEF Left

\* A session in its place is not about to become a time based one.
LEMMA NotSwitching ==
    ASSUME TypeInv, NEW s \in Sessions, Sorted(s), NEW i \in 1 .. Len(api), api[i] \in Awaited(s, {"toTime"})
    PROVE  s \notin DistKeys /\ \A k \in 1 .. Len(inbox) : ~Renewed(inbox[k], s)
<1>0. api \in Seq(SoundRequests) /\ inbox \in Seq(SoundMessages) /\ "switch" \in Kinds /\ "renew" \in Kinds
    BY DEF TypeInv, Kinds
<1>1. api[i] \in Awaited(s, Thens("switch"))
    BY DEF Awaited, Thens
<1>2. Count(api, Awaited(s, Thens("switch"))) # 0
    BY <1>0, <1>1, CountNone
<1>3. Underway(s, "switch") > 0
    <2>1. /\ Count(api, Awaited(s, Thens("switch"))) \in Nat /\ Count(inbox, Arriving(s, "switch")) \in Nat
          /\ Count(pending, HeldCommands(s, "switch")) \in Nat
        BY UnderwayIsNat
    <2> QED BY <1>2, <2>1 DEF Underway, Queued
<1>4. Underway(s, "renew") = 0
    <2>1. Changes(s) <= 1
        BY DEF Sorted
    <2> QED BY <1>0, <1>3, <2>1, ChangesParts
<1>5. ASSUME NEW k \in 1 .. Len(inbox), Renewed(inbox[k], s) PROVE FALSE
    <2>1. inbox[k] \in Arriving(s, "renew")
        BY <1>0, <1>5 DEF Arriving, Returns, Thens, Renewed
    <2>2. Count(inbox, Arriving(s, "renew")) # 0
        BY <1>0, <2>1, CountNone
    <2>3. Count(inbox, Arriving(s, "renew")) \in Nat /\ Queued(s, "renew") \in Nat
        BY UnderwayIsNat
    <2> QED BY <1>4, <2>2, <2>3 DEF Underway
<1> QED BY <1>3, <1>5 DEF Sorted

\* The adapter's queue has one message more, or the same.
LEMMA EndingLater ==
    ASSUME TypeInv, NEW a \in SoundMessages, inbox' = inbox \/ inbox' = Append(inbox, a), NEW s, NEW i
    PROVE  /\ Ending(s, i) => Ending(s, i)'
           /\ ComesUp(inbox, i) => ComesUp(inbox', i)
           /\ \A k \in 1 .. Len(inbox') :
                (k \in 1 .. Len(inbox) /\ inbox'[k] = inbox[k]) \/ (k = Len(inbox) + 1 /\ inbox'[k] = a)
<1>0. inbox \in Seq(SoundMessages)
    BY DEF TypeInv
<1>1. \A k \in 1 .. Len(inbox) : inbox'[k] = inbox[k] /\ k \in 1 .. Len(inbox')
    BY <1>0, AppendIndex
<1>2. \A k \in 1 .. Len(inbox') :
        (k \in 1 .. Len(inbox) /\ inbox'[k] = inbox[k]) \/ (k = Len(inbox) + 1 /\ inbox'[k] = a)
    BY <1>0, AppendIndex
<1> QED BY <1>1, <1>2 DEF Ending, ComesUp

LEMMA ServedFollows ==
    ASSUME TypeInv, ServeRequest, ~EngineFails, DistanceSupported, up, NEW s \in Sessions, Sorted(s),
           NEW i \in 0 .. Len(inbox), Follows(s, i),
           s \in DistKeys \/ \E k \in 1 .. Len(inbox) : Renewed(inbox[k], s)
    PROVE  Follows(s, i)'
<1> DEFINE r == Head(api)
           a == Answer(r, TRUE)
<1>0. /\ api # << >> /\ r.op # "open" /\ api' = Tail(api) /\ r \in SoundRequests
      /\ api \in Seq(SoundRequests) /\ inbox \in Seq(SoundMessages)
    BY HeadTailProperties DEF ServeRequest, TypeInv
<1>1. inbox' = IF r.then = "none" THEN inbox ELSE Append(inbox, a)
    BY DEF ServeRequest, Outcomes
<1>2. r.then # "none" => a \in SoundMessages
    BY <1>0, AnswersAreSound
<1>3. EngineUp \in SoundMessages
    BY DEF SoundMessages
<1>4. (Ending(s, i) => Ending(s, i)') /\ (ComesUp(inbox, i) => ComesUp(inbox', i))
    <2>1. CASE r.then = "none"
        BY <1>1, <1>3, <2>1, EndingLater
    <2>2. CASE r.then # "none"
        <3> HIDE DEF a
        <3> QED BY <1>1, <1>2, <2>2, EndingLater
    <2> QED BY <2>1, <2>2
<1>5. Opens(api) => Opens(api')
    BY <1>0, OpensTail
<1>6. Runs(s) => Runs(s)'
    BY RunsServed
<1>7. ASSUME HasStop(api, s) PROVE HasStop(api', s) \/ Ending(s, i)'
    <2>1. PICK k \in 1 .. Len(api) : api[k].op = "stopD" /\ api[k].s = s
        BY <1>7 DEF HasStop
    <2>2. CASE k # 1
        <3>1. k - 1 \in 1 .. Len(api') /\ api'[k - 1] = api[k]
            BY <1>0, <2>2, TailIndex
        <3> QED BY <2>1, <3>1 DEF HasStop
    <2>3. CASE k = 1
        <3>1. r.op = "stopD" /\ r.s = s /\ r = api[1]
            BY <1>0, <2>1, <2>3, TailIndex
        <3>2. r.then \in Ends \cup {"toTime"}
            BY <1>0, <3>1 DEF SoundRequests, OpenRequest, Ends
        <3>3. r.then # "toTime"
            <4>1. SUFFICES ASSUME r.then = "toTime" PROVE FALSE
                OBVIOUS
            <4>2. api[1] \in Awaited(s, {"toTime"}) /\ 1 \in 1 .. Len(api)
                BY <1>0, <2>3, <3>1, <4>1 DEF Awaited
            <4> QED BY <4>2, NotSwitching
        <3>4. a.kind = "answer" /\ a.s = s /\ a.then \in Ends /\ inbox' = Append(inbox, a) /\ a \in SoundMessages
            BY <1>1, <1>2, <3>1, <3>2, <3>3 DEF Answer, Ends
        <3> HIDE DEF a
        <3>5. Len(inbox) + 1 \in 1 .. Len(inbox') /\ inbox'[Len(inbox) + 1] = a /\ Len(inbox) + 1 > i
            BY <1>0, <3>4, AppendIndex
        <3> QED BY <3>4, <3>5 DEF Ending
    <2> QED BY <2>2, <2>3
<1> QED BY <1>4, <1>5, <1>6, <1>7 DEF Follows

LEMMA ModemDistance ==
    ASSUME TypeInv, Recovery, Reliable, DistanceSupported, Separate, DistanceFollows,
           ModemStep \/ (Crash /\ UNCHANGED load)
    PROVE  DistanceFollows'
<1>0. /\ api \in Seq(SoundRequests) /\ inbox \in Seq(SoundMessages) /\ ~EngineFails
      /\ Len(inbox) \in Nat /\ \A t \in Sessions : Sorted(t)
    BY DEF TypeInv, Reliable, Separate
<1>a. DistKeys' = DistKeys
    BY DEF ModemStep, ServeRequest, Open, Crash, DistKeys
<1>b. Opens(api') => DistanceFollows'
    BY DEF DistanceFollows, Follows
<1>1. CASE Crash
    <2> DEFINE u == OpenRequest
    <2>1. api' = Append(api, u) /\ u.op = "open" /\ u \in SoundRequests
        BY <1>1 DEF Crash, OpenRequest, SoundRequests
    <2> HIDE DEF u
    <2>2. Len(api) + 1 \in 1 .. Len(api') /\ api'[Len(api) + 1] = u
        BY <1>0, <2>1, AppendIndex
    <2>3. Opens(api')
        BY <2>1, <2>2 DEF Opens
    <2> QED BY <1>b, <2>3
<1>2. CASE Open
    <2> DEFINE a == EngineUp
    <2>1. inbox' = Append(inbox, a) /\ a.kind = "engineUp" /\ a \in SoundMessages
        BY <1>0, <1>2, OpenIs DEF EngineUp, SoundMessages
    <2> HIDE DEF a
    <2>2. Len(inbox) + 1 \in 1 .. Len(inbox') /\ inbox'[Len(inbox) + 1] = a
        BY <1>0, <2>1, AppendIndex
    <2>3. \A i \in 0 .. Len(inbox) : ComesUp(inbox', i)
        BY <1>0, <2>1, <2>2 DEF ComesUp
    <2>4. 0 \in 0 .. Len(inbox)
        BY <1>0
    <2>5. ASSUME NEW s \in Sessions, NEW i \in 1 .. Len(inbox'), Renewed(inbox'[i], s) PROVE i \in 0 .. Len(inbox)
        <3>1. i \in 1 .. Len(inbox) \/ i = Len(inbox) + 1
            BY <1>0, <2>1, AppendIndex
        <3>2. i # Len(inbox) + 1
            BY <2>1, <2>2, <2>5 DEF Renewed
        <3> QED BY <1>0, <3>1, <3>2
    <2> QED BY <2>3, <2>4, <2>5 DEF DistanceFollows, Follows
<1>3. CASE ServeRequest /\ ~up
    <2>1. Opens(api')
        BY <1>0, <1>3, OpensTail DEF Recovery, OpensAgain, ServeRequest
    <2> QED BY <1>b, <2>1
<1>4. CASE ServeRequest /\ up
    <2> DEFINE r == Head(api)
               a == Answer(r, TRUE)
    <2>0. /\ api # << >> /\ r.op # "open" /\ api' = Tail(api) /\ r \in SoundRequests
        BY <1>0, <1>4, HeadTailProperties DEF ServeRequest
    <2>1. inbox' = IF r.then = "none" THEN inbox ELSE Append(inbox, a)
        BY <1>0, <1>4 DEF ServeRequest, Outcomes
    <2>2. r.then # "none" => a \in SoundMessages
        BY <2>0, AnswersAreSound
    <2>3. ASSUME NEW s \in Sessions, s \in DistKeys' PROVE Follows(s, 0)'
        <3>1. s \in DistKeys /\ Follows(s, 0) /\ 0 \in 0 .. Len(inbox)
            BY <1>0, <1>a, <2>3 DEF DistanceFollows
        <3> QED BY <1>0, <1>4, <3>1, ServedFollows
    <2>4. ASSUME NEW s \in Sessions, NEW i \in 1 .. Len(inbox'), Renewed(inbox'[i], s) PROVE Follows(s, i)'
        <3>1. \/ i \in 1 .. Len(inbox) /\ inbox'[i] = inbox[i]
              \/ i = Len(inbox) + 1 /\ inbox'[i] = a /\ r.then # "none"
            <4>1. CASE r.then = "none"
                BY <2>1, <4>1
            <4>2. CASE r.then # "none"
                <5> HIDE DEF a
                <5> QED BY <2>1, <2>2, <4>2, EndingLater
            <4> QED BY <4>1, <4>2
        <3>2. CASE i \in 1 .. Len(inbox) /\ inbox'[i] = inbox[i]
            <4>1. Follows(s, i) /\ i \in 0 .. Len(inbox) /\ Renewed(inbox[i], s)
                BY <1>0, <2>4, <3>2 DEF DistanceFollows
            <4> QED BY <1>0, <1>4, <3>2, <4>1, ServedFollows
        <3>3. CASE i = Len(inbox) + 1 /\ inbox'[i] = a /\ r.then # "none"
            <4>1. r.s = s /\ r.then = "dRestarted"
                BY <2>4, <3>3 DEF Renewed, Answer
            <4>2. Runs(s)' \/ HasStop(api', s)
                BY <1>0, <1>4, <4>1, RenewalRuns
            <4> QED BY <4>2 DEF Follows
        <3> QED BY <3>1, <3>2, <3>3
    <2> QED BY <2>3, <2>4 DEF DistanceFollows
<1> QED BY <1>1, <1>2, <1>3, <1>4 DEF ModemStep

\* The distance based sessions of clients that have one command of a session open
\* at a time.
DistanceKept == DistanceSupported /\ load.owed <= 1 => DistanceFollows

\* A step of anyone keeps it.
LEMMA StepDistance ==
    ASSUME ~EngineFails
    PROVE  TypeInv /\ Recovery /\ Placed /\ DistanceKept /\ [Next]_vars => DistanceKept'
<1> SUFFICES ASSUME TypeInv, Recovery, Placed, DistanceKept, [Next]_vars, DistanceSupported, load'.owed <= 1
             PROVE  DistanceFollows'
    BY DEF DistanceKept
<1>0. load' = load /\ Reliable /\ Separate /\ DistanceFollows
    BY LoadStays DEF Reliable, Placed, DistanceKept
<1>1. CASE UNCHANGED vars
    BY <1>0, <1>1 DEF vars, DistanceFollows, Follows, Opens, ComesUp, Runs, HasStop, Ending, DistKeys
<1>2. CASE ClientStep
    BY <1>0, <1>2, ClientDistance
<1>3. CASE AdapterStep
    BY <1>0, <1>3, AdapterDistance
<1>4. CASE ModemStep \/ (Crash /\ UNCHANGED load)
    BY <1>0, <1>4, ModemDistance
<1> QED BY <1>1, <1>2, <1>3, <1>4 DEF Next

LEMMA InitDistance == Init => DistanceFollows
<1> SUFFICES ASSUME Init PROVE DistanceFollows
    OBVIOUS
<1>1. DistKeys = {} /\ inbox = << >>
    BY DEF Init, DistKeys
<1> QED BY <1>1 DEF DistanceFollows

\* Once the queues are drained the modem runs every session the adapter has, at
\* the interval that serves them all: of a modem that refuses no request while it
\* is up, however often it restarts, and of clients that have one command of a
\* session open at a time or use no distance based sessions.
THEOREM EngineServesAllSessions ==
    ASSUME ~EngineFails,
           \A l \in Loads : (\A o \in l.options : ~o.distance) \/ (DistanceSupported /\ l.owed <= 1)
    PROVE  Spec => []EngineServesSessions
<1>1. TypeInv /\ TimeOnly /\ FixesFollow /\ DistanceKept => EngineServesSessions
    <2> SUFFICES ASSUME TypeInv, TimeOnly, FixesFollow, DistanceKept, Idle
                 PROVE  /\ TimeKeys # {} => engine # NoOptions
                        /\ \A s \in TimeKeys : engine.interval <= time[s].interval
                        /\ \A s \in DistKeys : engineDist[s] # NoOptions
        BY TypeInvIsTypeOK DEF EngineServesSessions
    <2>1. api = << >> /\ inbox = << >>
        BY DEF Idle
    <2>2. TimeOnlyLoad \/ (DistanceSupported /\ load.owed <= 1)
        BY DEF TypeInv, TimeOnlyLoad
    <2>3. ~Opens(api) /\ ~ComesUp(inbox, 0)
        BY <2>1 DEF Opens, ComesUp
    <2>4. Serves(engine, TimeKeys)
        <3>1. Served(api, TimeKeys)
            BY <2>2, <2>3 DEF FixesFollow, Reliable
        <3>2. Left(api, FixRequests, engine, engine)
            BY <2>1, LeftEmpty
        <3> QED BY <3>1, <3>2 DEF Served
    <2>5. ASSUME NEW s \in DistKeys PROVE engineDist[s] # NoOptions
        <3>1. DistanceFollows /\ s \in Sessions
            BY <2>2 DEF TimeOnly, DistanceKept, DistKeys
        <3>2. Follows(s, 0)
            BY <3>1 DEF DistanceFollows
        <3>3. ~HasStop(api, s) /\ ~Ending(s, 0)
            BY <2>1 DEF HasStop, Ending
        <3>4. Runs(s)
            BY <2>3, <3>2, <3>3 DEF Follows
        <3>5. Left(api, DistanceOf(s), engineDist[s], engineDist[s])
            BY <2>1, LeftEmpty
        <3> QED BY <3>4, <3>5 DEF Runs
    <2> QED BY <2>4, <2>5 DEF Serves
<1>2. Init => FixesFollow /\ DistanceKept
    BY InitFixesFollow, InitDistance DEF DistanceKept
<1>3. TypeInv /\ TimeOnly /\ Recovery /\ FixesFollow /\ Placed /\ DistanceKept /\ [Next]_vars
        => FixesFollow' /\ DistanceKept'
    BY StepFixesFollow, StepDistance
<1> QED BY <1>1, <1>2, <1>3, PlacedInvariant, StrongInvariant, PTL DEF Spec

=============================================================================
