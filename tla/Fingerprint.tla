----------------------------- MODULE Fingerprint ----------------------------
(***************************************************************************)
(* The fingerprint service (aidl/fingerprint): sessions, their lockout     *)
(* after failed attempts, the timers that lift it and the cancellation of  *)
(* an operation of the device behind OPPO's service.                       *)
(*                                                                         *)
(* Three kinds of threads share a session without a lock: the one binder   *)
(* thread, which runs the calls of the client and learns of its death, the *)
(* one thread on which the device reports, and a detached thread for each  *)
(* lockout timer.  A handler is cut where it reads or writes what another  *)
(* thread may change in between.  Time passes in ticks; a timer sleeps at  *)
(* least as long as it is told.                                            *)
(*                                                                         *)
(* A client uses a session until it closes it, and opens one only then,    *)
(* but keeps the cancellation signals it was given.                        *)
(***************************************************************************)
EXTENDS Integers, FiniteSetsExt

CONSTANTS
    Sessions,            \* Session objects
    TimedThreshold,      \* LOCKOUT_TIMED_THRESHOLD
    PermanentThreshold,  \* LOCKOUT_PERMANENT_THRESHOLD
    Duration,            \* LOCKOUT_TIMED_DURATION, in ticks
    Uninitialised,       \* modes that a new LockoutTracker may hold
    Timers,              \* bound: timer threads that exist at a time
    Loads                \* bound: what clients and device do in a behaviour: the
                         \* sessions opened, the calls made, the reports sent

Calls == {"resetLockout", "close", "cancel"}
Reports == {"failed", "success", "error", "canceled"}
Modes == {"none", "timed", "permanent", "garbage"}
None == "none"

Binder == "binder"
Callback == "callback"
Threads == {Binder, Callback}

ASSUME FingerprintAssumption ==
    /\ None \notin Sessions /\ Timers \cap (Threads \cup {None}) = {}
    /\ TimedThreshold \in Nat \ {0} /\ PermanentThreshold \in Nat
    /\ TimedThreshold < PermanentThreshold
    /\ Duration \in Nat \ {0}
    /\ Uninitialised \subseteq Modes
    /\ Loads \subseteq [sessions : SUBSET Sessions, calls : SUBSET Calls,
                        reports : SUBSET Reports]

Steps == {"idle", "check", "abort", "spawn", "started", "device", "reset",
          "cancel", "cancelled", "notify", "count"}

VARIABLES
    load,       \* the load of this behaviour
    phase,      \* of each session: unborn, open or closed (mClosed)
    mSession,   \* Fingerprint::mSession
    tracker,    \* mLockoutTracker of each session
    timerFlag,  \* mIsLockoutTimerStarted and mIsLockoutTimerAborted
    timer,      \* the timer threads: their session, the time left, their step
    thread,     \* the two other threads: their step and what it works with
    operation,  \* the session whose operation the device performs
    reported,   \* mReceivedCancel
    late,       \* the report of a cancellation is under way
    signals,    \* sessions with a CancellationSignal
    told,       \* history: what each client knows of the lockout
    untold,     \* history: sessions whose cancelled operation they believe on
    raced       \* history: sessions in which two threads met, or one was caught by a tick

vars == <<load, phase, mSession, tracker, timerFlag, timer, thread, operation,
          reported, late, signals, told, untold, raced>>
device == <<operation, reported, late, signals, untold>>
session == <<load, phase, mSession>>
lockout == <<tracker, timerFlag, timer, told>>

NoTimer == [s |-> None, left |-> 0, at |-> "idle"]
Idle == [at |-> "idle", s |-> None, report |-> "canceled", n |-> 0]

TypeOK ==
    /\ load \in Loads
    /\ phase \in [Sessions -> {"unborn", "open", "closed"}]
    /\ mSession \in Sessions \cup {None}
    /\ tracker \in [Sessions -> [mFailedCount : 0 .. PermanentThreshold,
                                 mCurrentMode : Modes, since : 0 .. Duration]]
    /\ timerFlag \in [Sessions -> [started : BOOLEAN, aborted : BOOLEAN]]
    /\ timer \in [Timers -> [s : Sessions \cup {None}, left : 0 .. Duration,
                             at : {"idle", "asleep", "clear", "flags"}]]
    /\ thread \in [Threads -> [at : Steps, s : Sessions \cup {None}, report : Reports,
                               n : 0 .. Max({Duration, PermanentThreshold})]]
    /\ operation \in Sessions \cup {None}
    /\ reported \in BOOLEAN /\ late \in BOOLEAN
    /\ signals \subseteq Sessions /\ untold \subseteq Sessions
    /\ told \in [Sessions -> [failures : 0 .. PermanentThreshold, free : Nat,
                              owed : BOOLEAN, permanent : BOOLEAN]]
    /\ raced \subseteq Sessions

-----------------------------------------------------------------------------
(* LockoutTracker *)

AtMost(n) == Min({n, PermanentThreshold})

reset(tr, clearAttemptCounter) ==
    [tr EXCEPT !.mFailedCount = IF clearAttemptCounter THEN 0 ELSE @,
               !.mCurrentMode = "none", !.since = 0]

\* Faulty variant: a threshold off by one.
addFailedAttemptLate(tr, n) ==
    LET failed == AtMost(n + 1)
        mode == IF failed >= PermanentThreshold THEN "permanent"
                ELSE IF failed > TimedThreshold /\ tr.mCurrentMode = "none" THEN "timed"
                ELSE tr.mCurrentMode
    IN  [mFailedCount |-> failed, mCurrentMode |-> mode,
         since |-> IF mode = tr.mCurrentMode THEN tr.since ELSE 0]

\* The count was read as n; the counter is not atomic.  A time in progress
\* is not renewed.
addFailedAttempt(tr, n) ==
    LET failed == AtMost(n + 1)
        mode == IF failed >= PermanentThreshold THEN "permanent"
                ELSE IF failed >= TimedThreshold /\ tr.mCurrentMode = "none" THEN "timed"
                ELSE tr.mCurrentMode
    IN  [mFailedCount |-> failed, mCurrentMode |-> mode,
         since |-> IF mode = tr.mCurrentMode THEN tr.since ELSE 0]

\* The tracker after getMode(), which ends a lockout whose time is over.
getMode(tr) == IF tr.mCurrentMode = "timed" /\ tr.since = Duration
               THEN reset(tr, FALSE) ELSE tr

-----------------------------------------------------------------------------
(* Session::checkSensorLockout, on the binder thread before an             *)
(* authentication and on the callback thread after a failed one.           *)

Goto(t, step) == thread' = [thread EXCEPT ![t].at = step]
\* The binder thread goes on to the device; the callback thread is done.
Return(t) == IF t = Binder THEN Goto(t, "device") ELSE thread' = [thread EXCEPT ![t] = Idle]

\* An attempt is free when it is answered by no lockout; one with a mode
\* never initialised is left out of the count.
Counted(t, s) == t = Callback /\ tracker[s].mCurrentMode # "garbage"

Check(t, s) ==
    /\ thread[t].at = "check" /\ thread[t].s = s
    /\ tracker' = [tracker EXCEPT ![s] = getMode(@)]
    /\ \/ /\ tracker'[s].mCurrentMode = "permanent"
          /\ told' = [told EXCEPT ![s].permanent = TRUE, ![s].owed = FALSE, ![s].free = 0]
          /\ Goto(t, "abort")
       \/ /\ tracker'[s].mCurrentMode = "timed"
          \* a timer already aborted will not lift this lockout
          /\ told' = [told EXCEPT ![s].owed = @ \/ ~timerFlag[s].aborted, ![s].free = 0]
          /\ thread' = [thread EXCEPT ![t].at = "spawn",
                                      ![t].n = Duration - tracker'[s].since]
       \/ /\ tracker'[s].mCurrentMode \in {"none", "garbage"}
          /\ told' = [told EXCEPT ![s].free = IF Counted(t, s) THEN AtMost(@ + 1) ELSE @]
          /\ Return(t)
    /\ UNCHANGED <<session, timerFlag, timer, device>>

\* A permanent lockout is not to be lifted by a timer that runs.
Abort(t, s) ==
    /\ thread[t].at = "abort" /\ thread[t].s = s
    /\ timerFlag' = [timerFlag EXCEPT ![s].aborted = TRUE]
    /\ Return(t)
    /\ UNCHANGED <<session, tracker, timer, told, device>>

\* startLockoutTimer: the flag is set only after the thread is on its way.
startLockoutTimer(t, s) ==
    /\ thread[t].at = "spawn" /\ thread[t].s = s
    /\ IF timerFlag[s].started
       THEN timer' = timer /\ Return(t)
       ELSE LET i == CHOOSE i \in Timers : timer[i] = NoTimer
            IN  /\ \E j \in Timers : timer[j] = NoTimer
                /\ timer' = [timer EXCEPT ![i] = [s |-> s, left |-> thread[t].n, at |-> "asleep"]]
                /\ Goto(t, "started")
    /\ UNCHANGED <<session, tracker, timerFlag, told, device>>

TimerStarted(t, s) ==
    /\ thread[t].at = "started" /\ thread[t].s = s
    /\ timerFlag' = [timerFlag EXCEPT ![s].started = TRUE]
    /\ Return(t)
    /\ UNCHANGED <<session, tracker, timer, told, device>>

-----------------------------------------------------------------------------
(* The binder thread: Fingerprint::createSession and calls on a session    *)

BinderIdle == thread[Binder] = Idle
Call(step, s) == thread' = [thread EXCEPT ![Binder].at = step, ![Binder].s = s]

\* A session gets a copy of a tracker in which nothing is ever counted.
createSession(s) ==
    /\ BinderIdle
    /\ phase[s] = "unborn" /\ s \in load.sessions
    /\ mSession # None => phase[mSession] = "closed"
    /\ phase' = [phase EXCEPT ![s] = "open"]
    /\ mSession' = s
    /\ UNCHANGED <<load, lockout, device, thread>>

authenticate(s) ==
    /\ BinderIdle /\ phase[s] = "open"
    /\ Call("check", s)
    /\ UNCHANGED <<session, lockout, device>>

\* The device is asked whatever the check has found; it may refuse.
AuthenticateDevice(s) ==
    /\ thread[Binder].at = "device" /\ thread[Binder].s = s
    /\ \/ operation = None /\ operation' = s
       \/ operation' = operation
    /\ signals' = signals \cup {s}
    /\ thread' = [thread EXCEPT ![Binder] = Idle]
    /\ UNCHANGED <<session, lockout, reported, late, untold>>

\* clearLockout(true), then the timer is told to do nothing.
resetLockout(s) ==
    /\ BinderIdle /\ "resetLockout" \in load.calls /\ phase[s] = "open"
    /\ tracker' = [tracker EXCEPT ![s] = reset(@, TRUE)]
    /\ told' = [told EXCEPT ![s] = [failures |-> 0, free |-> 0, owed |-> FALSE,
                                    permanent |-> FALSE]]
    /\ Call("reset", s)
    /\ UNCHANGED <<session, timerFlag, timer, device>>

AbortTimer(s) ==
    /\ thread[Binder].at = "reset" /\ thread[Binder].s = s
    /\ timerFlag' = [timerFlag EXCEPT ![s].aborted = @ \/ timerFlag[s].started]
    /\ thread' = [thread EXCEPT ![Binder] = Idle]
    /\ UNCHANGED <<session, tracker, timer, told, device>>

\* By the client, or by onClientDeath when the client has died.
close(s) ==
    /\ BinderIdle /\ "close" \in load.calls /\ phase[s] = "open"
    /\ phase' = [phase EXCEPT ![s] = "closed"]
    /\ UNCHANGED <<load, mSession, lockout, device, thread>>

\* Session::cancel, by a signal of this or of an earlier session, through
\* OppoDevice::cancel.
cancel(s) ==
    /\ BinderIdle /\ s \in signals /\ "cancel" \in load.calls
    /\ reported' = FALSE
    /\ Call("cancel", s)
    /\ UNCHANGED <<session, lockout, operation, late, signals, untold>>

\* The service of OPPO cancels, and reports it or not, or refuses.
CancelDevice(s) ==
    /\ thread[Binder].at = "cancel" /\ thread[Binder].s = s
    /\ \/ /\ operation' = None
          /\ untold' = untold \cup ({operation} \ {None})
          /\ late' \in {late, TRUE}
          /\ thread' = [thread EXCEPT ![Binder].at = "cancelled", ![Binder].n = 0]
       \/ /\ UNCHANGED <<operation, untold, late>>
          /\ thread' = [thread EXCEPT ![Binder].at = "cancelled", ![Binder].n = 1]
    /\ UNCHANGED <<session, lockout, reported, signals>>

\* Fingerprint::notify, for the session that is current.
Notified == IF mSession # None /\ phase[mSession] # "closed" THEN {mSession} ELSE {}

\* Faulty variant: the device relies on the report of the service.
CancelReturnsQuietly(s) ==
    /\ thread[Binder].at = "cancelled" /\ thread[Binder].s = s
    /\ untold' = untold \ (IF thread[Binder].n = 0 THEN {s} ELSE {})
    /\ thread' = [thread EXCEPT ![Binder] = Idle]
    /\ UNCHANGED <<session, lockout, operation, reported, late, signals>>

\* A cancellation nobody reported is reported by the device itself, and a
\* cancellation that succeeded once more by the session.
CancelReturns(s) ==
    /\ thread[Binder].at = "cancelled" /\ thread[Binder].s = s
    /\ untold' = untold \ ((IF reported THEN {} ELSE Notified)
                             \cup (IF thread[Binder].n = 0 THEN {s} ELSE {}))
    /\ thread' = [thread EXCEPT ![Binder] = Idle]
    /\ UNCHANGED <<session, lockout, operation, reported, late, signals>>

-----------------------------------------------------------------------------
(* The thread of the device's reports                                      *)

\* Fingerprint::notify finds a session that is open and, in the next step,
\* reads mSession again.  onError notes a cancellation first.
notify(report) ==
    /\ thread[Callback] = Idle
    /\ report \in load.reports
    /\ IF report = "canceled" THEN late ELSE operation # None
    /\ operation' = IF report \in {"success", "error"} THEN None ELSE operation
    /\ untold' = IF report = "error" THEN untold \cup {operation} ELSE untold
    /\ late' = IF report = "canceled" THEN FALSE ELSE late
    /\ reported' = (reported \/ report = "canceled")
    /\ thread' = [thread EXCEPT ![Callback] =
                    IF Notified = {} THEN Idle
                    ELSE [Idle EXCEPT !.at = "notify", !.report = report]]
    /\ UNCHANGED <<session, lockout, signals>>

\* Session::notify of what is not a failed attempt.
Report(s) ==
    /\ thread[Callback].at = "notify" /\ s = mSession
    /\ \/ /\ thread[Callback].report = "success"
          /\ tracker' = [tracker EXCEPT ![s] = reset(@, TRUE)]
          /\ told' = [told EXCEPT ![s].failures = 0, ![s].free = 0, ![s].permanent = FALSE]
          /\ untold' = untold
       \/ /\ thread[Callback].report \in {"error", "canceled"}
          /\ untold' = untold \ {s}
          /\ UNCHANGED <<tracker, told>>
    /\ thread' = [thread EXCEPT ![Callback] = Idle]
    /\ UNCHANGED <<session, timerFlag, timer, operation, reported, late, signals>>

ReportFailure(s) ==
    /\ thread[Callback].at = "notify" /\ s = mSession
    /\ thread[Callback].report = "failed"
    /\ thread' = [thread EXCEPT ![Callback].at = "count", ![Callback].s = s,
                                ![Callback].n = tracker[s].mFailedCount]
    /\ UNCHANGED <<session, lockout, device>>

CountFailure(s) ==
    /\ thread[Callback].at = "count" /\ thread[Callback].s = s
    /\ tracker' = [tracker EXCEPT ![s] = addFailedAttempt(@, thread[Callback].n)]
    /\ told' = [told EXCEPT ![s].failures = AtMost(@ + 1)]
    /\ thread' = [thread EXCEPT ![Callback].at = "check", ![Callback].n = 0]
    /\ UNCHANGED <<session, timerFlag, timer, device>>

-----------------------------------------------------------------------------
(* A timer thread: Session::lockoutTimerExpired                            *)

TimerExpires(i, s) ==
    /\ timer[i].at = "asleep" /\ timer[i].left = 0 /\ timer[i].s = s
    /\ timer' = [timer EXCEPT ![i].at = IF timerFlag[s].aborted THEN "flags" ELSE "clear"]
    /\ UNCHANGED <<session, tracker, timerFlag, told, device, thread>>

\* Faulty variant: the timer forgives the attempts.
TimerClearsAll(i, s) ==
    /\ timer[i].at = "clear" /\ timer[i].s = s
    /\ tracker' = [tracker EXCEPT ![s] = reset(@, TRUE)]
    /\ told' = [told EXCEPT ![s].owed = FALSE]
    /\ timer' = [timer EXCEPT ![i].at = "flags"]
    /\ UNCHANGED <<session, timerFlag, device, thread>>

\* clearLockout(false)
TimerClears(i, s) ==
    /\ timer[i].at = "clear" /\ timer[i].s = s
    /\ tracker' = [tracker EXCEPT ![s] = reset(@, FALSE)]
    /\ told' = [told EXCEPT ![s].owed = FALSE]
    /\ timer' = [timer EXCEPT ![i].at = "flags"]
    /\ UNCHANGED <<session, timerFlag, device, thread>>

\* Faulty variant: the timer leaves its mark.
TimerEndsSilently(i, s) ==
    /\ timer[i].at = "flags" /\ timer[i].s = s
    /\ timer' = [timer EXCEPT ![i] = NoTimer]
    /\ UNCHANGED <<session, tracker, timerFlag, told, device, thread>>

TimerEnds(i, s) ==
    /\ timer[i].at = "flags" /\ timer[i].s = s
    /\ timerFlag' = [timerFlag EXCEPT ![s] = [started |-> FALSE, aborted |-> FALSE]]
    /\ timer' = [timer EXCEPT ![i] = NoTimer]
    /\ UNCHANGED <<session, tracker, told, device, thread>>

Timed(s) == tracker[s].mCurrentMode = "timed" /\ tracker[s].since < Duration
Tick ==
    /\ (\E s \in Sessions : Timed(s)) \/ (\E i \in Timers : timer[i].left > 0)
    /\ tracker' = [s \in Sessions |-> [tracker[s] EXCEPT !.since = IF Timed(s) THEN @ + 1 ELSE @]]
    /\ timer' = [i \in Timers |-> [timer[i] EXCEPT !.left = IF @ > 0 THEN @ - 1 ELSE 0]]
    /\ UNCHANGED <<session, timerFlag, told, device, thread>>

-----------------------------------------------------------------------------
Init ==
    /\ load \in Loads
    /\ phase = [s \in Sessions |-> "unborn"]
    /\ mSession = None
    \* the one tracker of the service, of which only the count is initialised
    /\ \E mode \in Uninitialised :
         tracker = [s \in Sessions |-> [mFailedCount |-> 0, mCurrentMode |-> mode, since |-> 0]]
    /\ timerFlag = [s \in Sessions |-> [started |-> FALSE, aborted |-> FALSE]]
    /\ timer = [i \in Timers |-> NoTimer]
    /\ thread = [t \in Threads |-> Idle]
    /\ operation = None /\ reported = FALSE /\ late = FALSE
    /\ signals = {} /\ untold = {} /\ raced = {}
    /\ told = [s \in Sessions |-> [failures |-> 0, free |-> 0, owed |-> FALSE, permanent |-> FALSE]]

\* Is a thread other than a in the middle of work on s?  (If so, the two meet,
\* or time passes while it works.)
Others(a, s) ==
    \/ \E t \in Threads \ {a} : thread[t].at # "idle" /\ thread[t].s = s
    \/ \E i \in Timers \ {a} : timer[i].at \in {"clear", "flags"} /\ timer[i].s = s
Busy == {s \in Sessions : Others(None, s)}
Meet(a, s) == raced' = IF Others(a, s) THEN raced \cup {s} ELSE raced
\* A report of an earlier cancellation arrives while the next one begins, and
\* is taken for its own.
Cross(report) ==
    raced' = IF report = "canceled" /\ thread[Binder].at = "cancel" THEN Sessions ELSE raced

CheckStep(t, s) == Check(t, s) \/ Abort(t, s) \/ startLockoutTimer(t, s) \/ TimerStarted(t, s)
BinderStep(s) == \/ CheckStep(Binder, s) \/ AuthenticateDevice(s) \/ AbortTimer(s)
                 \/ CancelDevice(s) \/ CancelReturns(s)
BinderCall(s) == \/ createSession(s) \/ authenticate(s) \/ resetLockout(s)
                 \/ close(s) \/ cancel(s)
CallbackStep(s) == \/ CheckStep(Callback, s) \/ Report(s) \/ ReportFailure(s) \/ CountFailure(s)
TimerStep(i, s) == TimerExpires(i, s) \/ TimerClears(i, s) \/ TimerEnds(i, s)

Next ==
    \/ \E s \in Sessions : (BinderStep(s) \/ BinderCall(s)) /\ Meet(Binder, s)
    \/ \E r \in Reports : notify(r) /\ Cross(r)
    \/ \E s \in Sessions : CallbackStep(s) /\ Meet(Callback, s)
    \/ \E i \in Timers, s \in Sessions : TimerStep(i, s) /\ Meet(i, s)
    \/ Tick /\ raced' = raced \cup Busy

\* Threads finish what they began, the device delivers its report of a
\* cancellation, and time passes.
Fairness ==
    /\ WF_vars(\E s \in Sessions : BinderStep(s) /\ Meet(Binder, s))
    /\ WF_vars(\E s \in Sessions : CallbackStep(s) /\ Meet(Callback, s))
    /\ SF_vars(notify("canceled") /\ Cross("canceled"))
    /\ \A i \in Timers : WF_vars(\E s \in Sessions : TimerStep(i, s) /\ Meet(i, s))
    /\ WF_vars(Tick /\ raced' = raced \cup Busy)

Spec == Init /\ [][Next]_vars /\ Fairness

-----------------------------------------------------------------------------
(* Properties *)

\* No failed attempt is forgotten, whichever threads meet: the count is at
\* least the number of failures since the last success or reset by the
\* client.  (LockoutTracker.cpp:14-32 without a lock; Session.cpp:298.)
NoFailureForgotten ==
    TypeOK /\ \A s \in Sessions : tracker[s].mFailedCount >= told[s].failures

\* An attempt that follows too many failed ones is answered by a lockout:
\* before the first lockout the threshold leaves TimedThreshold - 1 free
\* attempts in a row, after it one, which a lockout whose time is over but
\* whose timer is late gives away.  A mode that was never initialised gives
\* away all of them up to the permanent lockout.  (LockoutTracker.cpp:22-43.)
AttemptsAreLocked ==
    \A s \in Sessions \ raced :
        told[s].free < IF told[s].failures > TimedThreshold THEN 2 ELSE Max({2, TimedThreshold})

\* A permanent lockout the client knows of stays until a success or a reset
\* by the client, whatever timer runs.  (Session.cpp:267, 297-302.)
PermanentStays ==
    \A s \in Sessions \ raced :
        told[s].permanent => tracker[s].mCurrentMode = "permanent"

\* A session believes its timer started exactly when one thread sleeps for
\* it: no lockout waits for a timer that does not exist, and no second one
\* is started beside the first.  (Session.cpp:287-302.)
OneTimer ==
    \A s \in Sessions \ raced :
        LET mine == {i \in Timers : timer[i].s = s}
            starting == \E t \in Threads : thread[t].at = "started" /\ thread[t].s = s
        IN  Cardinality(mine) = IF timerFlag[s].started \/ starting THEN 1 ELSE 0

\* Lockouts hold, where no two threads meet and none is caught by a tick: no
\* attempt too many goes unlocked, no timer lifts a permanent lockout, and there
\* is one timer for each lockout that waits for one.
LockoutsHold == AttemptsAreLocked /\ PermanentStays /\ OneTimer

\* A client told of a timed lockout, while no earlier timer is aborted, is
\* told that it is over or permanent.  (Session.cpp:270-276, 297-302.)
LockoutIsLifted ==
    \A s \in Sessions : told[s].owed ~> ~told[s].owed \/ s \in raced

\* A session whose operation ends without a result, be it by a signal of an
\* earlier session, is told, unless it is closed.  A report of an earlier
\* cancellation must not have been taken for that of this one.  (OppoDevice.cpp:185-193,
\* 226-231; Session.cpp:177-186.)
EndedIsTold ==
    \A s \in Sessions : s \in untold ~> s \notin untold \/ phase[s] = "closed" \/ s \in raced
=============================================================================
