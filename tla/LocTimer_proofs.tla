--------------------------- MODULE LocTimer_proofs ---------------------------
(***************************************************************************)
(* Proofs about the timers of one container, for any timers, addresses of  *)
(* delegates and delays: no delegate is used after its deletion, and no    *)
(* timer that runs is lost.                                                *)
(***************************************************************************)
EXTENDS LocTimer, SequenceTheorems, TLAPS

-----------------------------------------------------------------------------
(* The inductive invariant *)

Allocated(d) == delegate[d].due # 0

\* a delegate has a client as long as that client's timer has the delegate
Owners ==
    /\ \A d \in Delegates : ~Allocated(d) => delegate[d] = Freed
    /\ \A t \in Timers : mTimer[t] # NULL => delegate[mTimer[t]].client = t
    /\ \A d \in Delegates : delegate[d].client # NULL => mTimer[delegate[d].client] = d

\* a delegate is put into the heap before it is removed, and removed once, when
\* it has no client any more
QueueInOrder ==
    /\ \A i \in 1 .. Len(queue) : queue[i].op # "expire" => Allocated(queue[i].d)
    /\ \A i \in 1 .. Len(queue) : queue[i].op = "remove" => delegate[queue[i].d].client = NULL
    /\ \A i, j \in 1 .. Len(queue) :
        /\ queue[i].op = "remove" /\ queue[j].op = "remove" /\ queue[i].d = queue[j].d => i = j
        /\ queue[i].op = "push" /\ queue[j].op = "remove" /\ queue[i].d = queue[j].d => i < j

HeapAllocated ==
    /\ mTop # NULL => mTop \in mHeap
    /\ \A d \in mHeap : Allocated(d)
    /\ msg.at = "expiring" => Allocated(msg.d)

\* where the delegate of a timer that runs may be
Held ==
    \A t \in Timers : mTimer[t] # NULL =>
        \/ \E i \in 1 .. Len(queue) : queue[i].op = "push" /\ queue[i].d = mTimer[t]
        \/ mTimer[t] \in mHeap
        \/ msg.at = "expiring" /\ msg.d = mTimer[t] /\ msg.client = t

IInv ==
    /\ now > 0
    /\ Owners
    /\ QueueInOrder
    /\ HeapAllocated
    /\ Held

-----------------------------------------------------------------------------
(* Messages and heap *)

LEMMA MessageSent ==
    ASSUME queue \in Seq(Messages), NEW m \in Messages, queue' = Append(queue, m)
    PROVE  /\ queue' \in Seq(Messages)
           /\ Len(queue) \in Nat /\ Len(queue') = Len(queue) + 1
           /\ \A i \in 1 .. Len(queue) : queue'[i] = queue[i]
           /\ queue'[Len(queue) + 1] = m
BY AppendProperties, LenProperties

LEMMA MessageReceived ==
    ASSUME queue \in Seq(Messages), NEW op \in {"push", "remove", "expire"}, Received(op)
    PROVE  /\ queue' \in Seq(Messages)
           /\ Len(queue) \in Nat \ {0} /\ Len(queue') = Len(queue) - 1
           /\ \A i \in 1 .. Len(queue') : queue'[i] = queue[i + 1]
           /\ Head(queue) = queue[1] /\ queue[1].op = op
           /\ op # "expire" => queue[1].d \in Delegates
           /\ msg = Waiting
<1>1. queue # << >> /\ queue' = Tail(queue) /\ Head(queue).op = op /\ msg = Waiting
  BY DEF Received
<1>2. /\ Head(queue) \in Messages /\ queue' \in Seq(Messages)
      /\ Len(queue') = Len(queue) - 1
      /\ \A i \in 1 .. Len(queue') : queue'[i] = queue[i + 1]
  BY <1>1, HeadTailProperties
<1>3. Len(queue) \in Nat \ {0} /\ Head(queue) = queue[1]
  BY <1>1
<1>4. op # "expire" => Head(queue).d \in Delegates
  BY <1>1, <1>2 DEF Messages
<1>. QED BY <1>1, <1>2, <1>3, <1>4

LEMMA MessageOfDelegate ==
    ASSUME queue \in Seq(Messages), NEW i \in 1 .. Len(queue)
    PROVE  /\ queue[i].op \in {"push", "remove", "expire"}
           /\ queue[i].op # "expire" => queue[i].d \in Delegates
<1>1. queue[i] \in Messages
  BY LenProperties
<1>. QED BY <1>1 DEF Messages

LEMMA PutInEffect ==
    ASSUME mHeap \subseteq Delegates, mTop \in Delegates \cup {NULL},
           NEW d \in Delegates, Heap!PutIn(d)
    PROVE  /\ mHeap' = mHeap \cup {d}
           /\ mTop' \in {mTop, d} \ {NULL}
BY TimerAssumption DEF Heap!PutIn

LEMMA TakeOutEffect ==
    ASSUME mHeap \subseteq Delegates, mTop \in Delegates \cup {NULL},
           NEW d \in Delegates, Heap!TakeOut(d)
    PROVE  /\ mHeap' = mHeap \ {d}
           /\ IF d = mTop THEN mTop' \in mHeap' \cup {NULL} ELSE mTop' = mTop
BY DEF Heap!TakeOut, Heap!Tops

\* What the message thread does next when it has looked at the top.
LEMMA SoonestEffect ==
    ASSUME delegate \in [Delegates -> [client : Timers \cup {NULL}, due : Times]],
           mTop' \in Delegates \cup {NULL}, NEW p, updateSoonestTime(p)
    PROVE  msg' \in MsgStates /\ msg'.at # "expiring"
<1>. 0 \in Times
  BY TimerAssumption DEF Times
<1>. DEFINE Told(add, value) == [at |-> "poll", add |-> add, value |-> value]
<1>1. \/ mTop' \in Delegates /\ msg' = Told(TRUE, delegate[mTop'].due)
      \/ msg' = Told(FALSE, 0)
      \/ msg' = Waiting
  BY DEF updateSoonestTime, Heap!OutRanks
<1>2. ASSUME NEW add \in BOOLEAN, NEW value \in Times
      PROVE  Told(add, value) \in MsgStates /\ Told(add, value).at # "expiring"
  BY DEF MsgStates
<1>3. Waiting \in MsgStates /\ Waiting.at # "expiring"
  BY DEF MsgStates, Waiting
<1>4. ASSUME mTop' \in Delegates PROVE delegate[mTop'].due \in Times
  BY <1>4
<1>. HIDE DEF Told
<1>. QED BY <1>1, <1>2, <1>3, <1>4

-----------------------------------------------------------------------------
(* Types *)

LEMMA StoppedTypes ==
    ASSUME TypeOK, NEW t \in Timers, mTimer[t] # NULL, Stopped(t)
    PROVE  /\ mTimer' \in [Timers -> Delegates \cup {NULL}]
           /\ delegate' \in [Delegates -> [client : Timers \cup {NULL}, due : Times]]
           /\ queue' \in Seq(Messages)
<1>1. mTimer[t] \in Delegates
  BY DEF TypeOK
<1>2. Remove(mTimer[t]) \in Messages
  BY <1>1 DEF Remove, Messages
<1>3. queue' \in Seq(Messages)
  BY <1>2, MessageSent DEF Stopped, TypeOK
<1>4. delegate' \in [Delegates -> [client : Timers \cup {NULL}, due : Times]]
  BY <1>1 DEF Stopped, TypeOK
<1>. QED BY <1>3, <1>4 DEF Stopped, TypeOK

LEMMA PoppedTypes ==
    ASSUME TypeOK, mTop # NULL, NEW time \in Times, Popped(time)
    PROVE  /\ mHeap' \subseteq Delegates
           /\ mTop' \in Delegates \cup {NULL}
           /\ msg' \in MsgStates
<1>1. mTop \in Delegates
  BY DEF TypeOK
<1>2. mHeap' \subseteq Delegates /\ mTop' \in Delegates \cup {NULL}
  BY <1>1, TakeOutEffect DEF Popped, TypeOK
<1>3. delegate[mTop].client \in Timers \cup {NULL}
  BY <1>1 DEF TypeOK
<1>4. [at |-> "expiring", d |-> mTop, client |-> delegate[mTop].client, time |-> time] \in MsgStates
  BY <1>1, <1>3 DEF MsgStates
<1>. QED BY <1>2, <1>4 DEF Popped

\* Where the message thread is, by the step it is about to make.
LEMMA MessageThreadTypes ==
    ASSUME msg \in MsgStates
    PROVE  /\ msg.at \in {"waiting", "poll", "set", "expiring", "next"}
           /\ msg.at \in {"poll", "set"} => /\ msg.add \in BOOLEAN /\ msg.value \in Times
                                           /\ [msg EXCEPT !.at = "set"] \in MsgStates
                                           /\ [msg EXCEPT !.at = "set"].at = "set"
           /\ msg.at = "expiring" => /\ msg.d \in Delegates
                                     /\ msg.client \in Timers \cup {NULL}
           /\ msg.at \in {"expiring", "next"} => /\ msg.time \in Times
                                                 /\ [at |-> "next", time |-> msg.time] \in MsgStates
BY DEF MsgStates, Waiting

\* Type correctness, for any timers, addresses and delays.
THEOREM TypeCorrect == Spec => []TypeOK
<1>. USE TimerAssumption
<1>0. 0 \in Times /\ 1 \in Times
  BY DEF Times
<1>1. Init => TypeOK
  <2>1. Waiting \in MsgStates /\ Freed \in [client : Timers \cup {NULL}, due : Times]
    BY <1>0 DEF MsgStates, Freed
  <2>2. << >> \in Seq(Messages)
    OBVIOUS
  <2>3. Init => delegate \in [Delegates -> [client : Timers \cup {NULL}, due : Times]]
    BY <2>1 DEF Init
  <2>. QED BY <1>0, <2>1, <2>2, <2>3 DEF Init, TypeOK
<1>2. ASSUME TypeOK, [Next]_vars
      PROVE  TypeOK'
  <2>. USE <1>2
  <2>1. ASSUME NEW t \in Timers, NEW delay \in Delays, start(t, delay)
        PROVE  TypeOK'
    <3>1. PICK d \in Delegates :
            /\ mTimer' = [mTimer EXCEPT ![t] = d]
            /\ delegate' = [delegate EXCEPT ![d] = [client |-> t, due |-> now + delay]]
            /\ queue' = Append(queue, Push(d))
      BY <2>1 DEF start
    <3>2. queue' \in Seq(Messages)
      <4>1. Push(d) \in Messages
        BY DEF Push, Messages
      <4>. QED BY <3>1, <4>1, MessageSent DEF TypeOK
    <3>3. now + delay \in Times
      BY <2>1 DEF start, TypeOK, Times
    <3>4. delegate' \in [Delegates -> [client : Timers \cup {NULL}, due : Times]]
      BY <3>1, <3>3 DEF TypeOK
    <3>. QED BY <2>1, <3>1, <3>2, <3>4 DEF start, TypeOK, heap, kernel
  <2>2. ASSUME NEW t \in Timers, stop(t)
        PROVE  TypeOK'
    BY <2>2, StoppedTypes DEF stop, TypeOK, heap, kernel
  <2>3. CASE MsgTimerPush
    <3>1. Head(queue).d \in Delegates /\ queue' \in Seq(Messages)
      BY <2>3, MessageReceived DEF MsgTimerPush, TypeOK
    <3>2. mHeap' \subseteq Delegates /\ mTop' \in Delegates \cup {NULL}
      BY <2>3, <3>1, PutInEffect DEF MsgTimerPush, TypeOK
    <3>3. msg' \in MsgStates
      BY <2>3, <3>2, SoonestEffect DEF MsgTimerPush, TypeOK
    <3>. QED BY <2>3, <3>1, <3>2, <3>3 DEF MsgTimerPush, TypeOK, kernel
  <2>4. CASE MsgTimerRemove
    <3>1. Head(queue).d \in Delegates /\ queue' \in Seq(Messages)
      BY <2>4, MessageReceived DEF MsgTimerRemove, TypeOK
    <3>2. mHeap' \subseteq Delegates /\ mTop' \in Delegates \cup {NULL}
      BY <2>4, <3>1, TakeOutEffect DEF MsgTimerRemove, TypeOK, heap
    <3>3. msg' \in MsgStates
      BY <2>4, <3>2, SoonestEffect DEF MsgTimerRemove, TypeOK
    <3>4. delegate' \in [Delegates -> [client : Timers \cup {NULL}, due : Times]]
      BY <1>0, <2>4, <3>1 DEF MsgTimerRemove, TypeOK, Freed
    <3>. QED BY <2>4, <3>1, <3>2, <3>3, <3>4 DEF MsgTimerRemove, TypeOK, kernel
  <2>5. CASE MsgTimerExpire
    <3>1. queue' \in Seq(Messages)
      BY <2>5, MessageReceived DEF MsgTimerExpire, TypeOK
    <3>2. /\ mHeap' \subseteq Delegates /\ mTop' \in Delegates \cup {NULL}
          /\ msg' \in MsgStates
      BY <2>5, PoppedTypes DEF MsgTimerExpire, TypeOK, heap
    <3>. QED BY <2>5, <3>1, <3>2 DEF MsgTimerExpire, TypeOK, kernel
  <2>6. CASE expire
    <3>1. msg' \in MsgStates
      BY <2>6, MessageThreadTypes DEF expire, TypeOK
    <3>2. /\ mTimer' \in [Timers -> Delegates \cup {NULL}]
          /\ delegate' \in [Delegates -> [client : Timers \cup {NULL}, due : Times]]
          /\ queue' \in Seq(Messages)
      BY <2>6, StoppedTypes DEF expire, TimesOut, TypeOK
    <3>. QED BY <2>6, <3>1, <3>2 DEF expire, TypeOK, heap, kernel
  <2>7. CASE popIfOutRanks
    <3>1. msg.time \in Times
      BY <2>7, MessageThreadTypes DEF popIfOutRanks, TypeOK
    <3>2. /\ mHeap' \subseteq Delegates /\ mTop' \in Delegates \cup {NULL}
          /\ msg' \in MsgStates
      <4>1. CASE mTop # NULL /\ Popped(msg.time)
        BY <3>1, <4>1, PoppedTypes
      <4>2. CASE UNCHANGED heap /\ updateSoonestTime(NULL)
        BY <4>2, SoonestEffect DEF TypeOK, heap
      <4>. QED BY <2>7, <4>1, <4>2 DEF popIfOutRanks
    <3>. QED BY <2>7, <3>2 DEF popIfOutRanks, TypeOK, kernel
  <2>8. CASE UpdatePoll
    BY <2>8, MessageThreadTypes DEF UpdatePoll, TypeOK, heap
  <2>9. CASE SetTime
    <3>1. Waiting \in MsgStates
      BY DEF MsgStates
    <3>. QED BY <2>9, <3>1, MessageThreadTypes DEF SetTime, TypeOK, heap
  <2>10. CASE Fire \/ Disarm \/ Unpoll
    BY <1>0, <2>10 DEF Fire, Disarm, Unpoll, TypeOK, heap, kernel
  <2>11. CASE Post
    <3>1. Expire \in Messages
      BY DEF Expire, Messages
    <3>. QED BY <2>11, <3>1, MessageSent DEF Post, TypeOK, heap, kernel
  <2>12. CASE Tick
    BY <2>12 DEF Tick, TypeOK, Times, heap, kernel
  <2>13. CASE UNCHANGED vars
    BY <2>13 DEF vars, TypeOK
  <2>. QED
    BY <2>1, <2>2, <2>3, <2>4, <2>5, <2>6, <2>7, <2>8, <2>9, <2>10, <2>11, <2>12, <2>13
    DEF Next, MsgTask, PollTask
<1>. QED BY <1>1, <1>2, PTL DEF Spec

-----------------------------------------------------------------------------
(* The inductive invariant is kept, event by event *)

\* stopping a timer: its delegate loses its client and is queued for removal
LEMMA StoppedKeeps ==
    ASSUME TypeOK, Owners, QueueInOrder, NEW t \in Timers, mTimer[t] # NULL, Stopped(t)
    PROVE  /\ Owners' /\ QueueInOrder'
           /\ \A d \in Delegates : Allocated(d)' <=> Allocated(d)
           /\ \A i \in 1 .. Len(queue) : i \in 1 .. Len(queue') /\ queue'[i] = queue[i]
           /\ mTimer' = [mTimer EXCEPT ![t] = NULL]
<1>. DEFINE c == mTimer[t]
<1>1. c \in Delegates /\ delegate[c].client = t /\ t # NULL /\ NULL \notin Delegates
  BY TimerAssumption DEF Owners, TypeOK
<1>2. /\ mTimer' = [mTimer EXCEPT ![t] = NULL]
      /\ delegate' = [delegate EXCEPT ![c].client = NULL]
  BY DEF Stopped
<1>3. /\ Len(queue) \in Nat /\ Len(queue') = Len(queue) + 1
      /\ \A i \in 1 .. Len(queue) : queue'[i] = queue[i]
      /\ queue'[Len(queue) + 1] = Remove(c)
  <2>1. Remove(c) \in Messages
    BY <1>1 DEF Remove, Messages
  <2>. QED BY <2>1, MessageSent DEF Stopped, TypeOK
<1>4. \A d \in Delegates : /\ delegate'[d].due = delegate[d].due
                           /\ delegate'[d].client = IF d = c THEN NULL ELSE delegate[d].client
  BY <1>1, <1>2 DEF TypeOK
<1>5. \A d \in Delegates : Allocated(d)' <=> Allocated(d)
  BY <1>4 DEF Allocated
<1>6. Allocated(c)
  BY <1>1 DEF Owners, Freed
<1>7. Owners'
  <2>1. ASSUME NEW d \in Delegates, ~Allocated(d)' PROVE delegate'[d] = Freed
    BY <1>2, <1>5, <1>6, <2>1 DEF Owners, TypeOK
  <2>2. ASSUME NEW u \in Timers, mTimer'[u] # NULL PROVE delegate'[mTimer'[u]].client = u
    <3>1. u # t /\ mTimer'[u] = mTimer[u] /\ mTimer[u] \in Delegates
      BY <1>2, <2>2 DEF TypeOK
    <3>2. delegate[mTimer[u]].client = u
      BY <2>2, <3>1 DEF Owners
    <3>. QED BY <1>1, <1>4, <3>1, <3>2
  <2>3. ASSUME NEW d \in Delegates, delegate'[d].client # NULL
        PROVE  mTimer'[delegate'[d].client] = d
    <3>1. d # c /\ delegate'[d].client = delegate[d].client
      BY <1>4, <2>3
    <3>2. mTimer[delegate[d].client] = d
      BY <2>3, <3>1 DEF Owners
    <3>3. delegate[d].client \in Timers
      BY <2>3, <3>1 DEF TypeOK
    <3>. QED BY <1>2, <3>1, <3>2, <3>3 DEF TypeOK
  <2>. QED BY <2>1, <2>2, <2>3 DEF Owners
<1>8. QueueInOrder'
  <2>. DEFINE new == Len(queue) + 1
  <2>1. ASSUME NEW i \in 1 .. Len(queue') PROVE i = new \/ i \in 1 .. Len(queue)
    BY <1>3
  <2>2. queue'[new].op = "remove" /\ queue'[new].d = c
    BY <1>3 DEF Remove
  <2>3. \A i \in 1 .. Len(queue) : ~(queue[i].op = "remove" /\ queue[i].d = c)
    BY <1>1 DEF QueueInOrder
  <2>4. \A i \in 1 .. Len(queue) : queue[i].op # "expire" => queue[i].d \in Delegates
    BY MessageOfDelegate DEF TypeOK
  <2>. HIDE DEF new, c
  <2>5. ASSUME NEW i \in 1 .. Len(queue')
        PROVE  /\ queue'[i].op # "expire" => delegate'[queue'[i].d].due # 0
               /\ queue'[i].op = "remove" => delegate'[queue'[i].d].client = NULL
    BY <1>1, <1>3, <1>4, <1>5, <1>6, <2>1, <2>2, <2>4 DEF QueueInOrder, Allocated
  <2>6. ASSUME NEW i \in 1 .. Len(queue'), NEW j \in 1 .. Len(queue'),
               queue'[j].op = "remove", queue'[i].d = queue'[j].d
        PROVE  /\ queue'[i].op = "remove" => i = j
               /\ queue'[i].op = "push" => i < j
    <3>1. new = Len(queue) + 1
      BY DEF new
    <3>. QED BY <1>3, <2>1, <2>2, <2>3, <2>6, <3>1 DEF QueueInOrder
  <2>. QED BY <2>5, <2>6 DEF QueueInOrder, Allocated
<1>. QED BY <1>2, <1>3, <1>5, <1>7, <1>8

\* a message is taken from the queue: of those behind it, none that names a
\* delegate has its delegate changed
LEMMA ReceivedKeeps ==
    ASSUME TypeOK, QueueInOrder, NEW op \in {"push", "remove", "expire"}, Received(op),
           \A i \in 2 .. Len(queue) : queue[i].op # "expire" =>
               delegate'[queue[i].d] = delegate[queue[i].d]
    PROVE  QueueInOrder'
<1>1. /\ Len(queue) \in Nat \ {0} /\ Len(queue') = Len(queue) - 1
      /\ \A i \in 1 .. Len(queue') : queue'[i] = queue[i + 1]
  BY MessageReceived DEF TypeOK
<1>2. \A i \in 1 .. Len(queue') : i + 1 \in 2 .. Len(queue) /\ i + 1 \in 1 .. Len(queue)
  BY <1>1
<1>3. ASSUME NEW i \in 1 .. Len(queue')
      PROVE  /\ queue'[i].op # "expire" => delegate'[queue'[i].d].due # 0
             /\ queue'[i].op = "remove" => delegate'[queue'[i].d].client = NULL
  BY <1>1, <1>2 DEF QueueInOrder, Allocated
<1>4. ASSUME NEW i \in 1 .. Len(queue'), NEW j \in 1 .. Len(queue'),
             queue'[j].op = "remove", queue'[i].d = queue'[j].d
      PROVE  /\ queue'[i].op = "remove" => i = j
             /\ queue'[i].op = "push" => i < j
  <2>1. /\ queue[i + 1].op = "remove" => i + 1 = j + 1
        /\ queue[i + 1].op = "push" => i + 1 < j + 1
    BY <1>1, <1>2, <1>4 DEF QueueInOrder
  <2>. QED BY <1>1, <2>1
<1>. QED BY <1>3, <1>4 DEF QueueInOrder, Allocated

\* the top is popped to be expired, with the client it has
LEMMA PoppedKeeps ==
    ASSUME TypeOK, Owners, HeapAllocated, mTop # NULL, NEW time, Popped(time),
           delegate' = delegate
    PROVE  /\ HeapAllocated'
           /\ \A u \in Timers : mTimer[u] \in mHeap =>
                 \/ mTimer[u] \in mHeap'
                 \/ msg'.at = "expiring" /\ msg'.d = mTimer[u] /\ msg'.client = u
<1>1. mTop \in Delegates /\ mTop \in mHeap
  BY DEF TypeOK, HeapAllocated
<1>2. mHeap' = mHeap \ {mTop} /\ mTop' \in mHeap' \cup {NULL}
  BY <1>1, TakeOutEffect DEF Popped, TypeOK
<1>3. /\ msg'.at = "expiring" /\ msg'.d = mTop
      /\ msg'.client = delegate[mTop].client
  BY DEF Popped
<1>4. HeapAllocated'
  BY <1>1, <1>2, <1>3 DEF HeapAllocated, Allocated
<1>5. ASSUME NEW u \in Timers, mTimer[u] = mTop PROVE delegate[mTop].client = u
  BY <1>5 DEF Owners
<1>. QED BY <1>2, <1>3, <1>4, <1>5

\* A started timer has a delegate that no message, heap or other timer names.
LEMMA StartKeeps ==
    ASSUME TypeOK, IInv, NEW t \in Timers, NEW delay \in Delays, start(t, delay)
    PROVE  IInv'
<1>0. PICK d \in Delegates :
        /\ delegate[d] = Freed
        /\ mTimer' = [mTimer EXCEPT ![t] = d]
        /\ delegate' = [delegate EXCEPT ![d] = [client |-> t, due |-> now + delay]]
        /\ queue' = Append(queue, Push(d))
  BY DEF start
<1>1. /\ mTimer[t] = NULL /\ mHeap' = mHeap /\ mTop' = mTop /\ msg' = msg /\ now' = now
      /\ t # NULL /\ d # NULL
  BY TimerAssumption DEF start, heap
<1>2. ~Allocated(d) /\ delegate[d].client = NULL
  BY <1>0 DEF Allocated, Freed
<1>3. now > 0 /\ now + delay # 0
  BY TimerAssumption DEF IInv, TypeOK, Times
<1>4. \A x \in Delegates : delegate'[x] =
        IF x = d THEN [client |-> t, due |-> now + delay] ELSE delegate[x]
  BY <1>0 DEF TypeOK
<1>5. /\ Len(queue) \in Nat /\ Len(queue') = Len(queue) + 1
      /\ \A i \in 1 .. Len(queue) : queue'[i] = queue[i]
      /\ queue'[Len(queue) + 1].op = "push" /\ queue'[Len(queue) + 1].d = d
  <2>1. Push(d) \in Messages /\ Push(d).op = "push" /\ Push(d).d = d
    BY DEF Push, Messages
  <2>. QED BY <1>0, <2>1, MessageSent DEF TypeOK
<1>6. Owners'
  <2>1. ASSUME NEW x \in Delegates, delegate'[x].due = 0 PROVE delegate'[x] = Freed
    BY <1>3, <1>4, <2>1 DEF IInv, Owners, Allocated
  <2>2. ASSUME NEW u \in Timers, mTimer'[u] # NULL PROVE delegate'[mTimer'[u]].client = u
    <3>1. CASE u = t
      BY <1>0, <1>4, <3>1 DEF TypeOK
    <3>2. CASE u # t
      <4>1. mTimer'[u] = mTimer[u] /\ mTimer[u] \in Delegates
        BY <1>0, <2>2, <3>2 DEF TypeOK
      <4>2. delegate[mTimer[u]].client = u /\ u # NULL
        BY <2>2, <4>1, TimerAssumption DEF IInv, Owners
      <4>. QED BY <1>2, <1>4, <4>1, <4>2
    <3>. QED BY <3>1, <3>2
  <2>3. ASSUME NEW x \in Delegates, delegate'[x].client # NULL
        PROVE  mTimer'[delegate'[x].client] = x
    <3>1. CASE x = d
      BY <1>0, <1>4, <3>1 DEF TypeOK
    <3>2. CASE x # d
      <4>1. delegate'[x] = delegate[x] /\ mTimer[delegate[x].client] = x
        BY <1>4, <2>3, <3>2 DEF IInv, Owners
      <4>2. delegate[x].client \in Timers /\ delegate[x].client # t
        BY <1>1, <2>3, <4>1, TimerAssumption DEF TypeOK
      <4>. QED BY <1>0, <4>1, <4>2 DEF TypeOK
    <3>. QED BY <3>1, <3>2
  <2>. QED BY <2>1, <2>2, <2>3 DEF Owners, Allocated
<1>7. QueueInOrder'
  <2>. DEFINE new == Len(queue) + 1
  <2>1. ASSUME NEW i \in 1 .. Len(queue') PROVE i = new \/ i \in 1 .. Len(queue)
    BY <1>5
  <2>2. queue'[new].op = "push" /\ queue'[new].d = d
    BY <1>5
  <2>3. \A i \in 1 .. Len(queue) : queue[i].op # "expire" =>
            queue[i].d \in Delegates /\ queue[i].d # d
    BY <1>2, MessageOfDelegate DEF IInv, QueueInOrder, TypeOK
  <2>. HIDE DEF new
  <2>4. ASSUME NEW i \in 1 .. Len(queue')
        PROVE  /\ queue'[i].op # "expire" => delegate'[queue'[i].d].due # 0
               /\ queue'[i].op = "remove" => delegate'[queue'[i].d].client = NULL
    BY <1>3, <1>4, <1>5, <2>1, <2>2, <2>3 DEF IInv, QueueInOrder, Allocated
  <2>5. ASSUME NEW i \in 1 .. Len(queue'), NEW j \in 1 .. Len(queue'),
               queue'[j].op = "remove", queue'[i].d = queue'[j].d
        PROVE  /\ queue'[i].op = "remove" => i = j
               /\ queue'[i].op = "push" => i < j
    BY <1>5, <2>1, <2>2, <2>3, <2>5 DEF IInv, QueueInOrder
  <2>. QED BY <2>4, <2>5 DEF QueueInOrder, Allocated
<1>8. HeapAllocated'
  <2>1. msg.at = "expiring" => msg.d \in Delegates
    BY MessageThreadTypes DEF TypeOK
  <2>. QED BY <1>1, <1>3, <1>4, <2>1 DEF IInv, HeapAllocated, Allocated, TypeOK
<1>9. Held'
  <2>1. ASSUME NEW u \in Timers, mTimer'[u] # NULL, u # t
        PROVE  mTimer'[u] = mTimer[u]
    BY <1>0, <2>1 DEF TypeOK
  <2>2. mTimer'[t] = d /\ Len(queue) + 1 \in 1 .. Len(queue')
    BY <1>0, <1>5 DEF TypeOK
  <2>3. \A i \in 1 .. Len(queue) : i \in 1 .. Len(queue')
    BY <1>5
  <2>. QED BY <1>1, <1>5, <2>1, <2>2, <2>3 DEF IInv, Held
<1>. QED BY <1>1, <1>3, <1>6, <1>7, <1>8, <1>9 DEF IInv

-----------------------------------------------------------------------------
(* The other steps *)

LEMMA StopKeeps ==
    ASSUME TypeOK, IInv, NEW t \in Timers, stop(t)
    PROVE  IInv'
<1>1. /\ mTimer[t] # NULL /\ Stopped(t)
      /\ now' = now /\ mHeap' = mHeap /\ mTop' = mTop /\ msg' = msg
  BY DEF stop, heap
<1>2. /\ Owners' /\ QueueInOrder' /\ mTimer' = [mTimer EXCEPT ![t] = NULL]
      /\ \A d \in Delegates : Allocated(d)' <=> Allocated(d)
      /\ \A i \in 1 .. Len(queue) : i \in 1 .. Len(queue') /\ queue'[i] = queue[i]
  BY <1>1, StoppedKeeps DEF IInv
<1>3. HeapAllocated'
  <2>1. msg.at = "expiring" => msg.d \in Delegates
    BY MessageThreadTypes DEF TypeOK
  <2>. QED BY <1>1, <1>2, <2>1 DEF IInv, HeapAllocated, Allocated, TypeOK
<1>4. Held'
  <2>1. ASSUME NEW u \in Timers, mTimer'[u] # NULL PROVE mTimer'[u] = mTimer[u]
    BY <1>2, <2>1 DEF TypeOK
  <2>. QED BY <1>1, <1>2, <2>1 DEF IInv, Held
<1>. QED BY <1>1, <1>2, <1>3, <1>4 DEF IInv

\* The timer that is stopped is the one whose delegate was about to expire, so
\* every other one that runs is held elsewhere.
LEMMA ExpireKeeps ==
    ASSUME TypeOK, IInv, expire
    PROVE  IInv'
<1>1. /\ msg.at = "expiring" /\ msg'.at = "next"
      /\ now' = now /\ mHeap' = mHeap /\ mTop' = mTop
  BY DEF expire, heap
<1>2. CASE \E t \in Timers : TimesOut(t) /\ Stopped(t)
  <2>1. PICK t \in Timers : msg.client = t /\ mTimer[t] # NULL /\ Stopped(t)
    BY <1>2 DEF TimesOut
  <2>2. /\ Owners' /\ QueueInOrder' /\ mTimer' = [mTimer EXCEPT ![t] = NULL]
        /\ \A d \in Delegates : Allocated(d)' <=> Allocated(d)
        /\ \A i \in 1 .. Len(queue) : i \in 1 .. Len(queue') /\ queue'[i] = queue[i]
    BY <2>1, StoppedKeeps DEF IInv
  <2>3. HeapAllocated'
    BY <1>1, <2>2 DEF IInv, HeapAllocated, Allocated, TypeOK
  <2>4. Held'
    <3>1. ASSUME NEW u \in Timers, mTimer'[u] # NULL PROVE u # t /\ mTimer'[u] = mTimer[u]
      BY <2>2, <3>1 DEF TypeOK
    <3>. QED BY <1>1, <2>1, <2>2, <3>1 DEF IInv, Held
  <2>. QED BY <1>1, <2>2, <2>3, <2>4 DEF IInv
<1>3. CASE (\A t \in Timers : ~TimesOut(t)) /\ UNCHANGED <<mTimer, delegate, queue>>
  BY <1>1, <1>3 DEF TimesOut, IInv, Owners, QueueInOrder, HeapAllocated, Held, Allocated
<1>. QED BY <1>2, <1>3 DEF expire

LEMMA PushKeeps ==
    ASSUME TypeOK, IInv, MsgTimerPush
    PROVE  IInv'
<1>1. /\ Received("push") /\ now' = now /\ mTimer' = mTimer /\ delegate' = delegate
      /\ Heap!PutIn(Head(queue).d) /\ updateSoonestTime(mTop)
  BY DEF MsgTimerPush
<1>2. /\ Len(queue) \in Nat \ {0} /\ Len(queue') = Len(queue) - 1
      /\ \A i \in 1 .. Len(queue') : queue'[i] = queue[i + 1]
      /\ Head(queue) = queue[1] /\ queue[1].op = "push" /\ queue[1].d \in Delegates
      /\ msg = Waiting
  BY <1>1, MessageReceived DEF TypeOK
<1>3. mHeap' = mHeap \cup {queue[1].d} /\ mTop' \in {mTop, queue[1].d} \ {NULL}
  BY <1>1, <1>2, PutInEffect DEF TypeOK
<1>4. msg'.at # "expiring"
  BY <1>1, <1>2, <1>3, SoonestEffect DEF TypeOK
<1>5. QueueInOrder'
  BY <1>1, ReceivedKeeps DEF IInv
<1>6. HeapAllocated'
  BY <1>1, <1>2, <1>3, <1>4 DEF IInv, HeapAllocated, QueueInOrder, Allocated
<1>7. Held'
  <2>1. ASSUME NEW i \in 2 .. Len(queue)
        PROVE  i - 1 \in 1 .. Len(queue') /\ queue'[i - 1] = queue[i]
    BY <1>2
  <2>2. \A i \in 1 .. Len(queue) : i = 1 \/ i \in 2 .. Len(queue)
    BY <1>2
  <2>3. msg.at # "expiring"
    BY <1>2 DEF Waiting
  <2>. QED BY <1>1, <1>3, <2>1, <2>2, <2>3 DEF IInv, Held
<1>. QED BY <1>1, <1>5, <1>6, <1>7 DEF IInv, Owners, Allocated

\* The deleted delegate has no client, and no message behind this one names it.
LEMMA RemoveKeeps ==
    ASSUME TypeOK, IInv, MsgTimerRemove
    PROVE  IInv'
<1>. DEFINE d == queue[1].d
<1>1. Received("remove") /\ now' = now /\ mTimer' = mTimer
  BY DEF MsgTimerRemove
<1>2. /\ Len(queue) \in Nat \ {0} /\ Len(queue') = Len(queue) - 1
      /\ \A i \in 1 .. Len(queue') : queue'[i] = queue[i + 1]
      /\ Head(queue) = queue[1] /\ queue[1].op = "remove" /\ d \in Delegates
      /\ msg = Waiting
  BY <1>1, MessageReceived DEF TypeOK
<1>3. delegate[d].client = NULL
  BY <1>2 DEF IInv, QueueInOrder
<1>4. \A x \in Delegates : delegate'[x] = IF x = d THEN Freed ELSE delegate[x]
  BY <1>2 DEF MsgTimerRemove, TypeOK
<1>5. /\ mHeap' = mHeap \ {d}
      /\ mTop' \in mHeap' \cup {NULL}
  <2>1. CASE d \in mHeap
    BY <1>2, <2>1, TakeOutEffect DEF MsgTimerRemove, TypeOK, IInv, HeapAllocated
  <2>2. CASE d \notin mHeap
    BY <1>2, <2>2 DEF MsgTimerRemove, heap, TypeOK, IInv, HeapAllocated
  <2>. QED BY <2>1, <2>2
<1>6. msg'.at # "expiring"
  <2>1. CASE updateSoonestTime(NULL)
    BY <1>5, <2>1, SoonestEffect DEF TypeOK
  <2>2. CASE msg' = msg
    BY <1>2, <2>2 DEF Waiting
  <2>. QED BY <2>1, <2>2 DEF MsgTimerRemove
<1>7. \A i \in 2 .. Len(queue) : queue[i].op # "expire" =>
          queue[i].d \in Delegates /\ queue[i].d # d
  BY <1>2, MessageOfDelegate DEF IInv, QueueInOrder, TypeOK
<1>8. QueueInOrder'
  BY <1>1, <1>4, <1>7, ReceivedKeeps DEF IInv
<1>9. Owners'
  <2>1. ASSUME NEW u \in Timers, mTimer[u] # NULL PROVE mTimer[u] # d /\ mTimer[u] \in Delegates
    BY <1>3, <2>1, TimerAssumption DEF IInv, Owners, TypeOK
  <2>. QED BY <1>1, <1>4, <2>1 DEF IInv, Owners, Allocated, Freed
<1>10. HeapAllocated'
  BY <1>4, <1>5, <1>6 DEF IInv, HeapAllocated, Allocated, TypeOK
<1>11. Held'
  <2>1. ASSUME NEW u \in Timers, mTimer[u] # NULL PROVE mTimer[u] # d
    BY <1>3, <2>1, TimerAssumption DEF IInv, Owners
  <2>2. ASSUME NEW i \in 1 .. Len(queue), i # 1
        PROVE  i - 1 \in 1 .. Len(queue') /\ queue'[i - 1] = queue[i]
    BY <1>2, <2>2
  <2>3. msg.at # "expiring"
    BY <1>2 DEF Waiting
  <2>4. queue[1].op # "push"
    BY <1>2
  <2>. QED BY <1>1, <1>5, <2>1, <2>2, <2>3, <2>4 DEF IInv, Held
<1>. QED BY <1>1, <1>8, <1>9, <1>10, <1>11 DEF IInv

LEMMA MsgExpireKeeps ==
    ASSUME TypeOK, IInv, MsgTimerExpire
    PROVE  IInv'
<1>1. /\ Received("expire") /\ now' = now /\ mTimer' = mTimer /\ delegate' = delegate
      /\ IF mTop = NULL THEN UNCHANGED <<mHeap, mTop, msg>> ELSE Popped(now)
  BY DEF MsgTimerExpire, heap
<1>2. /\ Len(queue) \in Nat \ {0} /\ Len(queue') = Len(queue) - 1
      /\ \A i \in 1 .. Len(queue') : queue'[i] = queue[i + 1]
      /\ queue[1].op = "expire" /\ msg = Waiting
  BY <1>1, MessageReceived DEF TypeOK
<1>3. QueueInOrder'
  BY <1>1, ReceivedKeeps DEF IInv
<1>4. /\ HeapAllocated'
      /\ \A u \in Timers : mTimer[u] \in mHeap =>
            \/ mTimer[u] \in mHeap'
            \/ msg'.at = "expiring" /\ msg'.d = mTimer[u] /\ msg'.client = u
  <2>1. CASE mTop = NULL
    BY <1>1, <2>1 DEF IInv, HeapAllocated, Allocated
  <2>2. CASE mTop # NULL
    BY <1>1, <2>2, PoppedKeeps DEF IInv
  <2>. QED BY <2>1, <2>2
<1>5. Held'
  <2>1. ASSUME NEW i \in 1 .. Len(queue), queue[i].op = "push"
        PROVE  i - 1 \in 1 .. Len(queue') /\ queue'[i - 1] = queue[i]
    BY <1>2, <2>1
  <2>2. msg.at # "expiring"
    BY <1>2 DEF Waiting
  <2>. QED BY <1>1, <1>4, <2>1, <2>2 DEF IInv, Held
<1>. QED BY <1>1, <1>3, <1>4, <1>5 DEF IInv, Owners, Allocated

LEMMA NextKeeps ==
    ASSUME TypeOK, IInv, popIfOutRanks
    PROVE  IInv'
<1>1. /\ msg.at = "next" /\ UNCHANGED <<now, mTimer, delegate, queue>>
      /\ \/ mTop # NULL /\ Popped(msg.time)
         \/ UNCHANGED <<mHeap, mTop>> /\ updateSoonestTime(NULL)
  BY DEF popIfOutRanks, heap
<1>2. /\ HeapAllocated'
      /\ \A u \in Timers : mTimer[u] \in mHeap =>
            \/ mTimer[u] \in mHeap'
            \/ msg'.at = "expiring" /\ msg'.d = mTimer[u] /\ msg'.client = u
  <2>1. CASE mTop # NULL /\ Popped(msg.time)
    BY <1>1, <2>1, PoppedKeeps DEF IInv
  <2>2. CASE UNCHANGED <<mHeap, mTop>> /\ updateSoonestTime(NULL)
    <3>1. msg'.at # "expiring"
      BY <2>2, SoonestEffect DEF TypeOK
    <3>. QED BY <1>1, <2>2, <3>1 DEF IInv, HeapAllocated, Allocated
  <2>. QED BY <1>1, <2>1, <2>2
<1>. QED BY <1>1, <1>2 DEF IInv, Owners, QueueInOrder, Held, Allocated

\* an expire message is sent
LEMMA PostKeeps ==
    ASSUME TypeOK, IInv, Post
    PROVE  IInv'
<1>1. UNCHANGED <<now, mTimer, delegate, mHeap, mTop, msg>>
  BY DEF Post, heap
<1>2. /\ Len(queue) \in Nat /\ Len(queue') = Len(queue) + 1
      /\ \A i \in 1 .. Len(queue) : queue'[i] = queue[i]
      /\ queue'[Len(queue) + 1].op = "expire"
  <2>1. Expire \in Messages /\ Expire.op = "expire"
    BY DEF Expire, Messages
  <2>. QED BY <2>1, MessageSent DEF Post, TypeOK
<1>3. /\ \A i \in 1 .. Len(queue) : i \in 1 .. Len(queue')
      /\ \A i \in 1 .. Len(queue') : queue'[i].op # "expire" => i \in 1 .. Len(queue)
  BY <1>2
<1>4. QueueInOrder'
  BY <1>1, <1>2, <1>3 DEF IInv, QueueInOrder, Allocated
<1>5. Held'
  BY <1>1, <1>2, <1>3 DEF IInv, Held
<1>. QED BY <1>1, <1>4, <1>5 DEF IInv, Owners, HeapAllocated, Allocated

-----------------------------------------------------------------------------
(* The theorems *)

LEMMA Inductive == TypeOK /\ IInv /\ [Next]_vars => IInv'
<1>. SUFFICES ASSUME TypeOK, IInv, [Next]_vars PROVE IInv'
  OBVIOUS
<1>1. CASE UpdatePoll \/ SetTime
  <2>1. /\ UNCHANGED <<now, mTimer, delegate, queue, mHeap, mTop>>
        /\ msg.at # "expiring" /\ msg'.at # "expiring"
    <3>1. UNCHANGED <<now, mTimer, delegate, queue, mHeap, mTop>>
      BY <1>1 DEF UpdatePoll, SetTime, heap
    <3>2. CASE UpdatePoll
      <4>1. msg.at = "poll" /\ msg' = [msg EXCEPT !.at = "set"]
        BY <3>2 DEF UpdatePoll
      <4>2. [msg EXCEPT !.at = "set"].at = "set"
        BY <4>1, MessageThreadTypes DEF TypeOK
      <4>3. msg'.at = "set"
        BY <4>1, <4>2, Zenon
      <4>. QED BY <3>1, <4>1, <4>3
    <3>3. CASE SetTime
      <4>1. msg.at = "set" /\ msg' = Waiting
        BY <3>3 DEF SetTime
      <4>. QED BY <3>1, <4>1 DEF Waiting
    <3>. QED BY <1>1, <3>2, <3>3
  <2>. QED BY <2>1 DEF IInv, Owners, QueueInOrder, HeapAllocated, Held, Allocated
<1>2. CASE Fire \/ Disarm \/ Unpoll \/ Tick \/ UNCHANGED vars
  <2>1. /\ UNCHANGED <<mTimer, delegate, queue, mHeap, mTop, msg>>
        /\ now' > 0
    BY <1>2 DEF Fire, Disarm, Unpoll, Tick, vars, heap, IInv, TypeOK, Times
  <2>. QED BY <2>1 DEF IInv, Owners, QueueInOrder, HeapAllocated, Held, Allocated
<1>. QED
  BY <1>1, <1>2, StartKeeps, StopKeeps, ExpireKeeps, PushKeeps, RemoveKeeps, MsgExpireKeeps,
     NextKeeps, PostKeeps DEF Next, MsgTask, PollTask

LEMMA AlwaysIInv == Spec => [](TypeOK /\ IInv)
<1>1. Init => IInv
  BY DEF Init, IInv, Owners, QueueInOrder, HeapAllocated, Held, Allocated, Freed, Waiting
<1>. QED BY <1>1, TypeCorrect, Inductive, PTL DEF Spec

LEMMA QueueMembers ==
    ASSUME TypeOK
    PROVE  /\ \A m : InQueue(m) <=> \E i \in 1 .. Len(queue) : queue[i] = m
           /\ \A i \in 1 .. Len(queue) : queue[i].op = "push" => queue[i] = Push(queue[i].d)
<1>1. DOMAIN queue = 1 .. Len(queue) /\ \A i \in 1 .. Len(queue) : queue[i] \in Messages
  BY LenProperties DEF TypeOK
<1>. QED BY <1>1 DEF InQueue, Messages, Push

\* No delegate is used after it was deleted, and none is deleted twice, however
\* starts, stops and expirations of the clients and the two threads interleave.
THEOREM NoneUsedAfterDeletion == Spec => []NoDeletedDelegate
<1>1. ASSUME TypeOK, IInv PROVE NoDeletedDelegate
  <2>. USE <1>1
  <2>1. \A d \in Delegates : InQueue(Push(d)) \/ InQueue(Remove(d)) => Allocated(d)
    BY QueueMembers DEF IInv, QueueInOrder, Push, Remove
  <2>2. \A d \in Delegates : Allocated(d) => delegate[d] # Freed
    BY DEF Allocated, Freed
  <2>3. \A t \in Timers : mTimer[t] # NULL => delegate[mTimer[t]] # Freed
    BY TimerAssumption DEF IInv, Owners, Freed
  <2>4. msg.at = "expiring" => delegate[msg.d] # Freed
    BY <2>2, MessageThreadTypes DEF IInv, HeapAllocated, TypeOK
  <2>5. \A i, j \in DOMAIN queue : queue[i].op = "remove" /\ queue[i] = queue[j] => i = j
    BY LenProperties DEF IInv, QueueInOrder, TypeOK
  <2>. QED BY <2>1, <2>2, <2>3, <2>4, <2>5, TimerAssumption
           DEF NoDeletedDelegate, IInv, HeapAllocated
<1>. QED BY <1>1, AlwaysIInv, PTL

\* No timer that runs is lost: its delegate is on its way into the heap, in it, or
\* just being expired, is its own, and is not on its way out.
THEOREM RunningTimersAreHeld == Spec => []RunningIsHeld
<1>1. ASSUME TypeOK, IInv PROVE RunningIsHeld
  <2>. SUFFICES ASSUME NEW t \in Timers, mTimer[t] # NULL
       PROVE  /\ delegate[mTimer[t]].client = t
              /\ ~InQueue(Remove(mTimer[t]))
              /\ \/ InQueue(Push(mTimer[t]))
                 \/ mTimer[t] \in mHeap
                 \/ msg.at = "expiring" /\ msg.d = mTimer[t] /\ msg.client = t
    BY DEF RunningIsHeld
  <2>. USE <1>1
  <2>1. delegate[mTimer[t]].client = t /\ t # NULL
    BY TimerAssumption DEF IInv, Owners
  <2>2. ~InQueue(Remove(mTimer[t]))
    BY <2>1, QueueMembers DEF IInv, QueueInOrder, Remove
  <2>. QED BY <2>1, <2>2, QueueMembers DEF IInv, Held
<1>. QED BY <1>1, AlwaysIInv, PTL

-----------------------------------------------------------------------------
(* The kernel's timer *)

\* An expiration is under way: the poll thread has seen the fd expire, or its
\* message is queued.
Expiring == poll # "wait" \/ \E i \in 1 .. Len(queue) : queue[i].op = "expire"

\* What the message thread is about to tell the kernel is the time of the top.
Telling ==
    msg.at \in {"poll", "set"} =>
        mTop # NULL /\ msg.add = TRUE /\ msg.value = delegate[mTop].due

\* Unless an expiration is under way, the poll that was added stays, and what
\* the thread has told the kernel holds while it waits.
Told ==
    ~Expiring =>
        /\ msg.at = "set" => polled
        /\ msg = Waiting /\ mTop # NULL => polled /\ fd \in 1 .. delegate[mTop].due

Armed == Telling /\ Told

\* The top of the heap keeps its time when clients start and stop timers.
LEMMA TopKeepsItsTime ==
    ASSUME TypeOK, IInv, mTop # NULL, NEW t \in Timers,
           (Stopped(t) /\ mTimer[t] # NULL) \/ (\E delay \in Delays : start(t, delay))
    PROVE  delegate'[mTop].due = delegate[mTop].due
<1>1. mTop \in Delegates /\ delegate[mTop] # Freed
  BY DEF TypeOK, IInv, HeapAllocated, Allocated, Freed
<1>2. CASE Stopped(t) /\ mTimer[t] # NULL
  BY <1>1, <1>2 DEF Stopped, TypeOK
<1>3. ASSUME NEW delay \in Delays, start(t, delay)
      PROVE  delegate'[mTop].due = delegate[mTop].due
  BY <1>1, <1>3 DEF start, TypeOK
<1>. QED BY <1>2, <1>3

\* A message of a client is no expiration.
LEMMA SendingExpiresNone ==
    ASSUME TypeOK, NEW m \in Messages, queue' = Append(queue, m), m.op # "expire", poll' = poll
    PROVE  Expiring' <=> Expiring
<1>1. /\ Len(queue) \in Nat /\ Len(queue') = Len(queue) + 1
      /\ \A i \in 1 .. Len(queue) : queue'[i] = queue[i]
      /\ queue'[Len(queue) + 1] = m
  BY MessageSent DEF TypeOK
<1>. QED BY <1>1 DEF Expiring

LEMMA ReceivingExpiresNone ==
    ASSUME TypeOK, NEW op \in {"push", "remove"}, Received(op), poll' = poll
    PROVE  Expiring' <=> Expiring
<1>1. /\ Len(queue) \in Nat \ {0} /\ Len(queue') = Len(queue) - 1
      /\ \A i \in 1 .. Len(queue') : queue'[i] = queue[i + 1]
      /\ queue[1].op = op
  BY MessageReceived DEF TypeOK
<1>2. ASSUME NEW i \in 1 .. Len(queue), queue[i].op = "expire"
      PROVE  i - 1 \in 1 .. Len(queue') /\ queue'[i - 1].op = "expire"
  BY <1>1, <1>2
<1>3. ASSUME NEW i \in 1 .. Len(queue'), queue'[i].op = "expire"
      PROVE  i + 1 \in 1 .. Len(queue) /\ queue[i + 1].op = "expire"
  BY <1>1, <1>3
<1>. QED BY <1>2, <1>3 DEF Expiring

\* What updateSoonestTime decides: to tell the time of a new top, or nothing,
\* and then the top is the prior one.
LEMMA SoonestIsTold ==
    ASSUME TypeOK, mTop' \in Delegates \cup {NULL}, NEW p, updateSoonestTime(p),
           mTop' # NULL \/ p = NULL
    PROVE  \/ /\ mTop' # NULL /\ msg'.at = "poll"
              /\ msg'.add = TRUE /\ msg'.value = delegate[mTop'].due
           \/ /\ msg' = Waiting /\ msg'.at = "waiting"
              /\ mTop' = p \/ (mTop' # NULL /\ p # NULL /\ ~Heap!OutRanks(mTop', p))
BY DEF updateSoonestTime, Waiting

LEMMA ArmedByPush ==
    ASSUME TypeOK, IInv, Armed, MsgTimerPush
    PROVE  Armed'
<1>0. /\ Received("push") /\ delegate' = delegate /\ poll' = poll /\ fd' = fd /\ polled' = polled
      /\ Heap!PutIn(Head(queue).d) /\ updateSoonestTime(mTop)
  BY DEF MsgTimerPush, kernel
<1>1. Head(queue).d \in Delegates /\ msg = Waiting
  BY <1>0, MessageReceived DEF TypeOK
<1>2. mTop' \in Delegates /\ mTop' # NULL
  BY <1>0, <1>1, PutInEffect, TimerAssumption DEF TypeOK
<1>3. Expiring' <=> Expiring
  BY <1>0, ReceivingExpiresNone
<1>4. CASE msg'.at = "poll" /\ msg'.add = TRUE /\ msg'.value = delegate[mTop'].due
  BY <1>0, <1>2, <1>4 DEF Armed, Telling, Told, Waiting
<1>5. CASE msg' = Waiting /\ msg'.at = "waiting" /\ mTop' = mTop
  BY <1>0, <1>1, <1>3, <1>5 DEF Armed, Telling, Told
<1>6. CASE mTop # NULL /\ ~Heap!OutRanks(mTop', mTop) /\ mTop' # mTop
  <2>1. Heap!OutRanks(mTop', mTop)
    BY <1>0, <1>6 DEF Heap!PutIn
  <2>. QED BY <1>6, <2>1
<1>. QED BY <1>0, <1>2, <1>4, <1>5, <1>6, SoonestIsTold

LEMMA ArmedByRemove ==
    ASSUME TypeOK, IInv, Armed, MsgTimerRemove
    PROVE  Armed'
<1>. DEFINE d == Head(queue).d
<1>0. /\ Received("remove") /\ poll' = poll /\ fd' = fd /\ polled' = polled
      /\ delegate' = [delegate EXCEPT ![d] = Freed]
      /\ IF d \in mHeap THEN Heap!TakeOut(d) ELSE UNCHANGED <<mHeap, mTop>>
      /\ IF mTop = (IF d \in mHeap THEN d ELSE NULL) THEN updateSoonestTime(NULL) ELSE msg' = msg
  BY DEF MsgTimerRemove, kernel, heap
<1>1. d \in Delegates /\ msg = Waiting /\ d # NULL
  BY <1>0, MessageReceived, TimerAssumption DEF TypeOK
<1>2. /\ mTop' \in Delegates \cup {NULL}
      /\ mTop' # d
      /\ d # mTop => mTop' = mTop
  BY <1>0, <1>1, TakeOutEffect DEF TypeOK, IInv, HeapAllocated
<1>3. Expiring' <=> Expiring
  BY <1>0, ReceivingExpiresNone
<1>4. mTop' # NULL => delegate'[mTop'].due = delegate[mTop'].due
  BY <1>0, <1>1, <1>2 DEF TypeOK
<1>5. CASE updateSoonestTime(NULL)
  <2>1. \/ /\ mTop' # NULL /\ msg'.at = "poll"
           /\ msg'.add = TRUE /\ msg'.value = delegate[mTop'].due
        \/ msg' = Waiting /\ msg'.at = "waiting" /\ mTop' = NULL
    BY <1>2, <1>5, SoonestIsTold
  <2>. QED BY <1>4, <2>1 DEF Armed, Telling, Told, Waiting
<1>6. CASE msg' = msg /\ mTop # d
  BY <1>0, <1>1, <1>2, <1>3, <1>4, <1>6 DEF Armed, Telling, Told, Waiting
<1>7. mTop = d => updateSoonestTime(NULL)
  BY <1>0, <1>1 DEF IInv, HeapAllocated
<1>. QED BY <1>0, <1>5, <1>6, <1>7

LEMMA ArmedStep ==
    ASSUME TypeOK, IInv, Armed, [Next]_vars
    PROVE  Armed'
<1>0. msg.at \in {"waiting", "poll", "set", "expiring", "next"} /\ Waiting.at = "waiting"
  BY MessageThreadTypes DEF TypeOK, Waiting
<1>1. ASSUME NEW t \in Timers, stop(t) \/ \E delay \in Delays : start(t, delay)
      PROVE  Armed'
  <2>1. /\ UNCHANGED <<mTop, msg, fd, polled, poll>>
        /\ mTop # NULL => delegate'[mTop].due = delegate[mTop].due
    BY <1>1, TopKeepsItsTime DEF stop, start, heap, kernel
  <2>2. \E m \in Messages : m.op # "expire" /\ queue' = Append(queue, m)
    <3>1. ASSUME NEW d \in Delegates
          PROVE  /\ Push(d) \in Messages /\ Push(d).op # "expire"
                 /\ Remove(d) \in Messages /\ Remove(d).op # "expire"
      BY DEF Push, Remove, Messages
    <3>. QED BY <1>1, <3>1 DEF stop, start, Stopped, TypeOK
  <2>3. Expiring' <=> Expiring
    BY <2>1, <2>2, SendingExpiresNone
  <2>. QED BY <2>1, <2>3 DEF Armed, Telling, Told
<1>2. CASE MsgTimerExpire
  <2>1. msg = Waiting
    BY <1>2 DEF MsgTimerExpire, Received
  <2>2. CASE mTop = NULL
    BY <1>0, <1>2, <2>1, <2>2 DEF MsgTimerExpire, Armed, Telling, Told, heap
  <2>3. CASE Popped(now)
    BY <2>3 DEF Popped, Armed, Telling, Told, Waiting
  <2>. QED BY <1>2, <2>2, <2>3 DEF MsgTimerExpire
<1>3. CASE expire
  BY <1>3 DEF expire, Armed, Telling, Told, Waiting
<1>4. CASE popIfOutRanks
  <2>1. CASE Popped(msg.time)
    BY <2>1 DEF Popped, Armed, Telling, Told, Waiting
  <2>2. CASE UNCHANGED heap /\ updateSoonestTime(NULL)
    <3>1. mTop' \in Delegates \cup {NULL} /\ delegate' = delegate
      BY <1>4, <2>2 DEF TypeOK, heap, popIfOutRanks
    <3>2. \/ /\ mTop' # NULL /\ msg'.at = "poll"
             /\ msg'.add = TRUE /\ msg'.value = delegate[mTop'].due
          \/ msg' = Waiting /\ msg'.at = "waiting" /\ mTop' = NULL
      BY <2>2, <3>1, SoonestIsTold
    <3>. QED BY <3>1, <3>2 DEF Armed, Telling, Told, Waiting
  <2>. QED BY <1>4, <2>1, <2>2 DEF popIfOutRanks
<1>5. CASE UpdatePoll
  <2>1. /\ msg.at = "poll" /\ UNCHANGED <<mTop, delegate>> /\ polled' = msg.add
        /\ msg' = [msg EXCEPT !.at = "set"]
    BY <1>5 DEF UpdatePoll, heap
  <2>2. msg'.at = "set" /\ msg'.add = msg.add /\ msg'.value = msg.value
    <3>1. msg \in [at : {"poll", "set"}, add : BOOLEAN, value : Times]
      BY <2>1 DEF TypeOK, MsgStates, Waiting
    <3>. QED BY <2>1, <3>1
  <2>. QED BY <1>0, <2>1, <2>2 DEF Armed, Telling, Told
<1>6. CASE SetTime
  <2>1. /\ msg.at = "set" /\ fd' = msg.value /\ msg' = Waiting
        /\ UNCHANGED <<mTop, delegate, queue, polled, poll>>
    BY <1>6 DEF SetTime, heap
  <2>2. mTop # NULL /\ msg.value = delegate[mTop].due /\ mTop \in Delegates
    BY <2>1 DEF Armed, Telling, TypeOK
  <2>3. delegate[mTop].due \in Times /\ delegate[mTop].due # 0
    BY <2>2 DEF TypeOK, IInv, HeapAllocated, Allocated
  <2>4. fd' \in 1 .. delegate[mTop].due
    BY <2>1, <2>2, <2>3, TimerAssumption DEF Times
  <2>5. Expiring' <=> Expiring
    BY <2>1 DEF Expiring
  <2>. QED BY <1>0, <2>1, <2>4, <2>5 DEF Armed, Telling, Told
<1>7. CASE Fire \/ Disarm \/ Unpoll
  BY <1>7 DEF Fire, Disarm, Unpoll, Armed, Telling, Told, Expiring, heap
<1>8. CASE Post
  <2>1. Expiring'
    <3>1. Expire \in Messages /\ Expire.op = "expire"
      BY DEF Expire, Messages
    <3>2. /\ Len(queue) \in Nat /\ Len(queue') = Len(queue) + 1
          /\ queue'[Len(queue) + 1].op = "expire"
      BY <1>8, <3>1, MessageSent DEF Post, TypeOK
    <3>. QED BY <3>2 DEF Expiring
  <2>. QED BY <1>8, <2>1 DEF Post, Armed, Telling, Told, heap
<1>9. CASE Tick \/ UNCHANGED vars
  BY <1>9 DEF Tick, vars, Armed, Telling, Told, Expiring, heap, kernel
<1>. QED BY <1>1, <1>2, <1>3, <1>4, <1>5, <1>6, <1>7, <1>8, <1>9, ArmedByPush, ArmedByRemove
         DEF Next, MsgTask, PollTask

\* Whenever the message thread waits and no expiration is under way, the fd is
\* polled and set no later than the soonest time in the heap: whatever the two
\* threads told the kernel meanwhile, and in which order.
THEOREM SoonestTimeIsArmed == Spec => []SoonestIsArmed
<1>1. Init => Armed
  BY DEF Init, Armed, Telling, Told, Waiting
<1>2. ASSUME TypeOK, Armed
      PROVE  SoonestIsArmed
  <2>1. DOMAIN queue = 1 .. Len(queue) /\ \A i \in 1 .. Len(queue) : queue[i] \in Messages
    BY <1>2, LenProperties DEF TypeOK
  <2>2. \A i \in 1 .. Len(queue) : queue[i].op = "expire" => queue[i] = Expire
    BY <2>1 DEF Messages, Expire
  <2>. QED BY <1>2, <2>1, <2>2 DEF Armed, Told, Expiring, InQueue, SoonestIsArmed
<1>. QED BY <1>1, <1>2, AlwaysIInv, ArmedStep, PTL DEF Spec

=============================================================================
