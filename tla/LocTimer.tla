------------------------------ MODULE LocTimer ------------------------------
(***************************************************************************)
(* The timer service of gps/utils/LocTimer.cpp: the timers of one          *)
(* container (all those, or none, that wake the CPU).                      *)
(*                                                                         *)
(* A LocTimer that runs has a delegate.  Clients start and stop timers on  *)
(* their own threads, under the timer's lock; the delegates are kept in a  *)
(* heap, which only the message thread touches, so start and stop send it  *)
(* messages.  The message thread sets a timerfd to the soonest time.  A    *)
(* poll thread waits for that fd, disarms it and sends an expire message.  *)
(* The code of a thread is cut where another thread can come between: at   *)
(* each system call, and around the callback of a client.                  *)
(***************************************************************************)
EXTENDS Integers, Sequences, FiniteSets

CONSTANTS
    Timers,       \* the LocTimer objects of the clients
    Delegates,    \* addresses a LocTimerDelegate can be allocated at
    NULL,         \* the null pointer
    Delays,       \* the delays the clients ask for
    MaxTime       \* bound: the last instant

ASSUME TimerAssumption ==
    /\ NULL \notin Timers \cup Delegates
    /\ Delays \subseteq Nat /\ MaxTime \in Nat \ {0}

VARIABLES
    now,          \* CLOCK_BOOTTIME
    mTimer,       \* mTimer of each LocTimer
    delegate,     \* mClient and mFutureTime of each delegate, or Freed
    queue,        \* the queue of the message thread
    mHeap, mTop,  \* the delegates in the heap, and the one on top
    msg,          \* where the message thread is
    fd,           \* the time the timerfd is set to; 0: disarmed
    polled,       \* does epoll watch the fd?
    poll          \* where the poll thread is

vars == <<now, mTimer, delegate, queue, mHeap, mTop, msg, fd, polled, poll>>
heap == <<mHeap, mTop>>
kernel == <<fd, polled>>

Freed == [client |-> NULL, due |-> 0]
Times == 0 .. MaxTime

Messages == [op : {"push", "remove"}, d : Delegates] \cup [op : {"expire"}]
Push(d) == [op |-> "push", d |-> d]
Remove(d) == [op |-> "remove", d |-> d]
Expire == [op |-> "expire"]

\* The message thread waits for a message, adds or removes the poll, sets the fd,
\* expires a delegate whose client it has read, or goes on to the next one.
Waiting == [at |-> "waiting"]
MsgStates ==
    {Waiting}
    \cup [at : {"poll", "set"}, add : BOOLEAN, value : Times]
    \cup [at : {"expiring"}, d : Delegates, client : Timers \cup {NULL}, time : Times]
    \cup [at : {"next"}, time : Times]

\* Larger times rank lower.
Heap == INSTANCE RankedHeap
    WITH Elements <- Delegates, Nil <- NULL, contents <- mHeap, top <- mTop,
         rank <- [d \in Delegates |-> -delegate[d].due], last <- << >>

TypeOK ==
    /\ now \in Times
    /\ mTimer \in [Timers -> Delegates \cup {NULL}]
    /\ delegate \in [Delegates -> [client : Timers \cup {NULL}, due : Times]]
    /\ queue \in Seq(Messages)
    /\ mHeap \subseteq Delegates
    /\ mTop \in Delegates \cup {NULL}
    /\ msg \in MsgStates
    /\ fd \in Times /\ polled \in BOOLEAN
    /\ poll \in {"wait", "fired", "disarmed", "unpolled"}

Init ==
    /\ now = 1
    /\ mTimer = [t \in Timers |-> NULL]
    /\ delegate = [d \in Delegates |-> Freed]
    /\ queue = << >>
    /\ mHeap = {} /\ mTop = NULL
    /\ msg = Waiting
    /\ fd = 0 /\ polled = FALSE
    /\ poll = "wait"

-----------------------------------------------------------------------------
(* The threads of the clients *)

\* LocTimer::start: a timer that runs already is left alone.
start(t, delay) ==
    /\ mTimer[t] = NULL
    /\ now + delay <= MaxTime
    /\ \E d \in Delegates :
        /\ delegate[d] = Freed
        /\ mTimer' = [mTimer EXCEPT ![t] = d]
        /\ delegate' = [delegate EXCEPT ![d] = [client |-> t, due |-> now + delay]]
        /\ queue' = Append(queue, Push(d))
    /\ UNCHANGED <<now, heap, msg, kernel, poll>>

\* A faulty variant of Stopped: mTimer is not reset.
StoppedKeepsTimer(t) ==
    /\ delegate' = [delegate EXCEPT ![mTimer[t]].client = NULL]
    /\ queue' = Append(queue, Remove(mTimer[t]))
    /\ UNCHANGED mTimer

\* LocTimer::stop of a timer that runs, with destroyLocked of its delegate.
Stopped(t) ==
    /\ mTimer' = [mTimer EXCEPT ![t] = NULL]
    /\ delegate' = [delegate EXCEPT ![mTimer[t]].client = NULL]
    /\ queue' = Append(queue, Remove(mTimer[t]))

stop(t) ==
    /\ mTimer[t] # NULL
    /\ Stopped(t)
    /\ UNCHANGED <<now, heap, msg, kernel, poll>>

-----------------------------------------------------------------------------
(* The message thread *)

\* Faulty variant: only a delegate sooner than the prior top is told of.
updateWhenSooner(priorTop) ==
    msg' = IF mTop' # NULL /\ priorTop # NULL /\ delegate[mTop'].due < delegate[priorTop].due
           THEN [at |-> "poll", add |-> TRUE, value |-> delegate[mTop'].due]
           ELSE Waiting


\* updateSoonestTime: what the kernel must be told when the top was priorTop.
updateSoonestTime(priorTop) ==
    \/ /\ mTop' \notin {priorTop, NULL}
       /\ priorTop # NULL => Heap!OutRanks(mTop', priorTop)
       /\ msg' = [at |-> "poll", add |-> TRUE, value |-> delegate[mTop'].due]
    \/ /\ mTop' # priorTop /\ mTop' = NULL
       /\ msg' = [at |-> "poll", add |-> FALSE, value |-> 0]
    \/ /\ \/ mTop' = priorTop
          \/ NULL \notin {mTop', priorTop} /\ ~Heap!OutRanks(mTop', priorTop)
       /\ msg' = Waiting

Received(op) ==
    /\ msg = Waiting /\ queue # << >> /\ Head(queue).op = op
    /\ queue' = Tail(queue)

MsgTimerPush ==
    /\ Received("push")
    /\ Heap!PutIn(Head(queue).d)
    /\ updateSoonestTime(mTop)
    /\ UNCHANGED <<now, mTimer, delegate, kernel, poll>>

\* A faulty variant of MsgTimerRemove: the delegate is deleted and left in the heap.
RemoveOnlyTop ==
    /\ Received("remove")
    /\ LET d == Head(queue).d
       IN  /\ IF d = mTop THEN Heap!TakeOut(d) ELSE UNCHANGED heap
           /\ IF d = mTop THEN updateSoonestTime(NULL) ELSE UNCHANGED msg
           /\ delegate' = [delegate EXCEPT ![d] = Freed]
    /\ UNCHANGED <<now, mTimer, kernel, poll>>

\* A delegate that has expired is no longer in the heap; then remove returns
\* NULL, which is the prior top of an empty heap, and nothing is to be set.
\* All delegates are deleted here.
MsgTimerRemove ==
    /\ Received("remove")
    /\ LET d == Head(queue).d
       IN  /\ IF d \in mHeap THEN Heap!TakeOut(d) ELSE UNCHANGED heap
           /\ IF mTop = (IF d \in mHeap THEN d ELSE NULL)
              THEN updateSoonestTime(NULL)
              ELSE UNCHANGED msg
           /\ delegate' = [delegate EXCEPT ![d] = Freed]
    /\ UNCHANGED <<now, mTimer, kernel, poll>>

\* The popped delegate's client is read once, without a lock.
Popped(time) ==
    /\ Heap!TakeOut(mTop)
    /\ msg' = [at |-> "expiring", d |-> mTop, client |-> delegate[mTop].client, time |-> time]

\* MsgTimerExpire takes the top whatever its time, then all that is due.
MsgTimerExpire ==
    /\ Received("expire")
    /\ IF mTop = NULL THEN UNCHANGED <<heap, msg>> ELSE Popped(now)
    /\ UNCHANGED <<now, mTimer, delegate, kernel, poll>>

\* A faulty variant of expire: the timer is called back and not stopped.
expireRunning ==
    /\ msg.at = "expiring"
    /\ UNCHANGED <<mTimer, delegate, queue>>
    /\ msg' = [at |-> "next", time |-> msg.time]
    /\ UNCHANGED <<now, heap, kernel, poll>>

\* LocTimerDelegate::expire: the client is called back if it could be stopped,
\* and what stops is the delegate it has by now.
TimesOut(t) == msg.at = "expiring" /\ msg.client = t /\ mTimer[t] # NULL

expire ==
    /\ msg.at = "expiring"
    /\ \/ \E t \in Timers : TimesOut(t) /\ Stopped(t)
       \/ (\A t \in Timers : ~TimesOut(t)) /\ UNCHANGED <<mTimer, delegate, queue>>
    /\ msg' = [at |-> "next", time |-> msg.time]
    /\ UNCHANGED <<now, heap, kernel, poll>>

\* A faulty variant of popIfOutRanks: the loop ends with the first delegate.
popNone ==
    /\ msg.at = "next"
    /\ UNCHANGED heap /\ msg' = Waiting
    /\ UNCHANGED <<now, mTimer, delegate, queue, kernel, poll>>

\* The loop goes on while the top is due at the time that was read, then the
\* kernel is told of what is left.
popIfOutRanks ==
    /\ msg.at = "next"
    /\ \/ /\ mTop # NULL /\ delegate[mTop].due <= msg.time
          /\ Popped(msg.time)
       \/ /\ mTop # NULL => delegate[mTop].due > msg.time
          /\ UNCHANGED heap
          /\ updateSoonestTime(NULL)
    /\ UNCHANGED <<now, mTimer, delegate, queue, kernel, poll>>

\* addPoll or removePoll, and then timerfd_settime.
UpdatePoll ==
    /\ msg.at = "poll"
    /\ polled' = msg.add
    /\ msg' = [msg EXCEPT !.at = "set"]
    /\ UNCHANGED <<now, mTimer, delegate, queue, heap, fd, poll>>

SetTime ==
    /\ msg.at = "set"
    /\ fd' = msg.value
    /\ msg' = Waiting
    /\ UNCHANGED <<now, mTimer, delegate, queue, heap, polled, poll>>

MsgTask ==
    \/ MsgTimerPush \/ MsgTimerRemove \/ MsgTimerExpire
    \/ expire \/ popIfOutRanks \/ UpdatePoll \/ SetTime

-----------------------------------------------------------------------------
(* The poll thread: epoll_wait, then LocTimerContainer::expire *)

Fire ==
    /\ poll = "wait" /\ polled /\ fd # 0 /\ fd <= now
    /\ poll' = "fired"
    /\ UNCHANGED <<now, mTimer, delegate, queue, heap, msg, kernel>>

Disarm ==
    /\ poll = "fired" /\ poll' = "disarmed"
    /\ fd' = 0
    /\ UNCHANGED <<now, mTimer, delegate, queue, heap, msg, polled>>

Unpoll ==
    /\ poll = "disarmed" /\ poll' = "unpolled"
    /\ polled' = FALSE
    /\ UNCHANGED <<now, mTimer, delegate, queue, heap, msg, fd>>

Post ==
    /\ poll = "unpolled" /\ poll' = "wait"
    /\ queue' = Append(queue, Expire)
    /\ UNCHANGED <<now, mTimer, delegate, heap, msg, kernel>>

PollTask == Fire \/ Disarm \/ Unpoll \/ Post

Tick ==
    /\ now < MaxTime
    /\ now' = now + 1
    /\ UNCHANGED <<mTimer, delegate, queue, heap, msg, kernel, poll>>

-----------------------------------------------------------------------------

Next ==
    \/ \E t \in Timers : stop(t) \/ \E delay \in Delays : start(t, delay)
    \/ MsgTask \/ PollTask \/ Tick

\* The threads run, and time passes.
Fairness == WF_vars(MsgTask) /\ WF_vars(PollTask) /\ WF_vars(Tick)

Spec == Init /\ [][Next]_vars /\ Fairness

-----------------------------------------------------------------------------

InQueue(m) == \E i \in DOMAIN queue : queue[i] = m

\* A timer that runs can still expire: its delegate is on its way into the heap,
\* in it, or just being expired; it is the timer's own, and not on its way out.
RunningIsHeld ==
    \A t \in Timers : mTimer[t] # NULL =>
        LET d == mTimer[t]
        IN  /\ delegate[d].client = t
            /\ ~InQueue(Remove(d))
            /\ \/ InQueue(Push(d))
               \/ d \in mHeap
               \/ msg.at = "expiring" /\ msg.d = d /\ msg.client = t

\* No delegate is used after it was deleted, or deleted twice: all that are
\* running, queued, in the heap or just expired exist, and at most one message
\* removes each.
NoDeletedDelegate ==
    /\ \A d \in Delegates :
        d \in mHeap \/ InQueue(Push(d)) \/ InQueue(Remove(d)) \/ (\E t \in Timers : mTimer[t] = d)
            => delegate[d] # Freed
    /\ msg.at = "expiring" => delegate[msg.d] # Freed
    /\ \A i, j \in DOMAIN queue : queue[i].op = "remove" /\ queue[i] = queue[j] => i = j

\* With no expiration under way, the fd is polled and set no later than the
\* soonest time in the heap, whatever the two threads told the kernel meanwhile.
SoonestIsArmed ==
    msg = Waiting /\ poll = "wait" /\ ~InQueue(Expire) /\ mTop # NULL
        => polled /\ fd \in 1 .. delegate[mTop].due

\* Every timer that is started expires, unless it is stopped first.
TimersExpire ==
    \A t \in Timers, d \in Delegates : mTimer[t] = d ~> mTimer[t] # d

=============================================================================
