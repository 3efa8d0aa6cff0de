-------------------------- MODULE Fingerprint_proofs -------------------------
(***************************************************************************)
(* Theorems about Fingerprint: no failed attempt is forgotten, whichever   *)
(* threads meet, and lockouts hold in every session in which none do, for  *)
(* any thresholds, duration, sessions, timers and loads.                   *)
(***************************************************************************)
EXTENDS Fingerprint, FiniteSetTheorems, TLAPS

-----------------------------------------------------------------------------
(* Numbers *)

LEMMA Thresholds ==
    /\ TimedThreshold \in Nat /\ TimedThreshold >= 1
    /\ PermanentThreshold \in Nat /\ PermanentThreshold > TimedThreshold
    /\ Duration \in Nat /\ Duration >= 1
BY FingerprintAssumption DEF FingerprintAssumption

LEMMA Distinct ==
    None \notin Sessions /\ Timers \cap Threads = {} /\ None \notin Threads /\ None \notin Timers
BY FingerprintAssumption DEF FingerprintAssumption, Threads, None, Binder, Callback

LEMMA MinOfTwo == \A a, b \in Int : Min({a, b}) = IF a <= b THEN a ELSE b
<1> SUFFICES ASSUME NEW a \in Int, NEW b \in Int
             PROVE  Min({a, b}) = IF a <= b THEN a ELSE b
    OBVIOUS
<1> DEFINE least == IF a <= b THEN a ELSE b
<1>1. least \in {a, b} /\ \A y \in {a, b} : least <= y
    OBVIOUS
<1>2. Min({a, b}) \in {a, b} /\ \A y \in {a, b} : Min({a, b}) <= y
    BY <1>1 DEF Min
<1> QED BY <1>1, <1>2

LEMMA MaxOfTwo == \A a, b \in Int : Max({a, b}) = IF a >= b THEN a ELSE b
<1> SUFFICES ASSUME NEW a \in Int, NEW b \in Int
             PROVE  Max({a, b}) = IF a >= b THEN a ELSE b
    OBVIOUS
<1> DEFINE most == IF a >= b THEN a ELSE b
<1>1. most \in {a, b} /\ \A y \in {a, b} : most >= y
    OBVIOUS
<1>2. Max({a, b}) \in {a, b} /\ \A y \in {a, b} : Max({a, b}) >= y
    BY <1>1 DEF Max
<1> QED BY <1>1, <1>2

LEMMA AtMostIs ==
    \A n \in Nat : AtMost(n) = IF n <= PermanentThreshold THEN n ELSE PermanentThreshold
BY Thresholds, MinOfTwo DEF AtMost

\* What a thread remembers is a time or a count.
Memory == 0 .. Max({Duration, PermanentThreshold})
LEMMA MemoryHolds ==
    0 .. Duration \subseteq Memory /\ 0 .. PermanentThreshold \subseteq Memory /\ {0, 1} \subseteq Memory
BY Thresholds, MaxOfTwo DEF Memory

-----------------------------------------------------------------------------
(* Type correctness *)

Trackers == [mFailedCount : 0 .. PermanentThreshold, mCurrentMode : Modes, since : 0 .. Duration]

LEMMA ResetType ==
    \A tr \in Trackers :
      /\ reset(tr, TRUE) \in Trackers /\ reset(tr, FALSE) \in Trackers
      /\ reset(tr, TRUE).mCurrentMode = "none" /\ reset(tr, FALSE).mCurrentMode = "none"
      /\ reset(tr, TRUE).mFailedCount = 0
      /\ reset(tr, FALSE).mFailedCount = tr.mFailedCount
<1> SUFFICES ASSUME NEW tr \in Trackers
             PROVE  /\ reset(tr, TRUE) \in Trackers /\ reset(tr, FALSE) \in Trackers
                    /\ reset(tr, TRUE).mCurrentMode = "none" /\ reset(tr, FALSE).mCurrentMode = "none"
                    /\ reset(tr, TRUE).mFailedCount = 0
                    /\ reset(tr, FALSE).mFailedCount = tr.mFailedCount
    OBVIOUS
<1>1. /\ reset(tr, TRUE) = [tr EXCEPT !.mFailedCount = 0, !.mCurrentMode = "none", !.since = 0]
      /\ reset(tr, FALSE) = [tr EXCEPT !.mCurrentMode = "none", !.since = 0]
    BY DEF reset, Trackers
<1>2. 0 \in 0 .. PermanentThreshold /\ 0 \in 0 .. Duration /\ "none" \in Modes
    BY Thresholds DEF Modes
<1>3. [tr EXCEPT !.mFailedCount = 0, !.mCurrentMode = "none", !.since = 0] \in Trackers
    BY <1>2 DEF Trackers
<1>4. [tr EXCEPT !.mCurrentMode = "none", !.since = 0] \in Trackers
    BY <1>2 DEF Trackers
<1>5. /\ [tr EXCEPT !.mFailedCount = 0, !.mCurrentMode = "none", !.since = 0].mCurrentMode = "none"
      /\ [tr EXCEPT !.mFailedCount = 0, !.mCurrentMode = "none", !.since = 0].mFailedCount = 0
      /\ [tr EXCEPT !.mCurrentMode = "none", !.since = 0].mCurrentMode = "none"
      /\ [tr EXCEPT !.mCurrentMode = "none", !.since = 0].mFailedCount = tr.mFailedCount
    BY DEF Trackers
<1> QED BY <1>1, <1>3, <1>4, <1>5

LEMMA GetModeType == \A tr \in Trackers : getMode(tr) \in Trackers
BY ResetType DEF getMode

LEMMA AddFailedType ==
    \A tr \in Trackers, n \in Nat : addFailedAttempt(tr, n) \in Trackers
<1> SUFFICES ASSUME NEW tr \in Trackers, NEW n \in Nat
             PROVE  addFailedAttempt(tr, n) \in Trackers
    OBVIOUS
<1>1. AtMost(n + 1) \in 0 .. PermanentThreshold
    BY Thresholds, AtMostIs
<1> QED BY <1>1, Thresholds DEF addFailedAttempt, Trackers, Modes

\* The parts of the type of what threads change.
TrackersOK == tracker \in [Sessions -> Trackers]
FlagsOK == timerFlag \in [Sessions -> [started : BOOLEAN, aborted : BOOLEAN]]
TimersOK == timer \in [Timers -> [s : Sessions \cup {None}, left : 0 .. Duration,
                                  at : {"idle", "asleep", "clear", "flags"}]]
Doing == {th \in [at : Steps, s : Sessions \cup {None}, report : Reports, n : Memory] :
            th.at = "spawn" => th.n \in 0 .. Duration}
ThreadsOK == thread \in [Threads -> Doing]
DeviceOK ==
    /\ operation \in Sessions \cup {None}
    /\ reported \in BOOLEAN /\ late \in BOOLEAN
    /\ signals \subseteq Sessions /\ untold \subseteq Sessions
ToldOK == told \in [Sessions -> [failures : 0 .. PermanentThreshold, free : Nat,
                                 owed : BOOLEAN, permanent : BOOLEAN]]
SessionsOK ==
    /\ load \in Loads
    /\ phase \in [Sessions -> {"unborn", "open", "closed"}]
    /\ mSession \in Sessions \cup {None}

TypeInv == /\ SessionsOK /\ TrackersOK /\ FlagsOK /\ TimersOK /\ ThreadsOK
           /\ DeviceOK /\ ToldOK /\ raced \subseteq Sessions

LEMMA TypeFollows == TypeInv => TypeOK
<1> SUFFICES ASSUME TypeInv PROVE TypeOK
    OBVIOUS
<1>1. tracker \in [Sessions -> [mFailedCount : 0 .. PermanentThreshold,
                               mCurrentMode : Modes, since : 0 .. Duration]]
    BY DEF TypeInv, TrackersOK, Trackers
<1>2. thread \in [Threads -> [at : Steps, s : Sessions \cup {None}, report : Reports,
                             n : 0 .. Max({Duration, PermanentThreshold})]]
    BY DEF TypeInv, ThreadsOK, Doing, Memory
<1> QED BY <1>1, <1>2 DEF TypeInv, TypeOK, SessionsOK, FlagsOK, TimersOK, DeviceOK, ToldOK

LEMMA IdleIsDoing == Idle \in Doing
BY MemoryHolds DEF Idle, Steps, Reports, Doing

LEMMA InitType == Init => TypeInv
<1> SUFFICES ASSUME Init PROVE TypeInv
    OBVIOUS
<1>1. SessionsOK /\ DeviceOK /\ FlagsOK /\ raced \subseteq Sessions
    BY DEF Init, SessionsOK, DeviceOK, FlagsOK
<1>2. TrackersOK
    BY Thresholds, FingerprintAssumption DEF FingerprintAssumption, Init, TrackersOK, Trackers
<1>3. TimersOK
    BY Thresholds DEF Init, TimersOK, NoTimer
<1>4. ThreadsOK
    BY IdleIsDoing DEF Init, ThreadsOK
<1>5. ToldOK
    BY Thresholds DEF Init, ToldOK
<1> QED BY <1>1, <1>2, <1>3, <1>4, <1>5 DEF TypeInv

\* What a thread does next.
LEMMA GotoType ==
    ASSUME ThreadsOK, NEW t \in Threads, NEW step \in Steps \ {"spawn"}, Goto(t, step)
    PROVE  ThreadsOK'
BY DEF ThreadsOK, Goto, Doing

LEMMA IdleType ==
    ASSUME ThreadsOK, NEW t \in Threads, thread' = [thread EXCEPT ![t] = Idle]
    PROVE  ThreadsOK'
BY IdleIsDoing DEF ThreadsOK

LEMMA ReturnType ==
    ASSUME ThreadsOK, NEW t \in Threads, Return(t)
    PROVE  ThreadsOK'
BY IdleType, GotoType DEF Return, Steps

LEMMA CallType ==
    ASSUME ThreadsOK, NEW s \in Sessions, NEW step \in Steps \ {"spawn"}, Call(step, s)
    PROVE  ThreadsOK'
BY DEF ThreadsOK, Call, Threads, Doing

LEMMA CheckType ==
    ASSUME TypeInv, NEW t \in Threads, NEW s \in Sessions, Check(t, s)
    PROVE  /\ TrackersOK' /\ ThreadsOK' /\ ToldOK'
           /\ UNCHANGED <<session, timerFlag, timer, device>>
<1>0. TrackersOK /\ ThreadsOK /\ ToldOK
    BY DEF TypeInv
<1>1. tracker' = [tracker EXCEPT ![s] = getMode(tracker[s])]
    BY DEF Check
<1>2. TrackersOK'
    BY <1>0, <1>1, GetModeType DEF TrackersOK
<1>3. tracker'[s] \in Trackers
    BY <1>2 DEF TrackersOK
<1>4. ToldOK'
    <2>1. told[s].free \in Nat /\ AtMost(told[s].free + 1) \in Nat
        BY <1>0, AtMostIs, Thresholds DEF ToldOK
    <2>2. timerFlag[s].aborted \in BOOLEAN
        BY DEF TypeInv, FlagsOK
    <2>3. CASE told' = [told EXCEPT ![s].permanent = TRUE, ![s].owed = FALSE, ![s].free = 0]
        BY <1>0, <2>3 DEF ToldOK
    <2>4. CASE told' = [told EXCEPT ![s].owed = @ \/ ~timerFlag[s].aborted, ![s].free = 0]
        <3>1. (told[s].owed \/ ~timerFlag[s].aborted) \in BOOLEAN
            OBVIOUS
        <3> QED BY <1>0, <2>4, <3>1 DEF ToldOK
    <2>5. CASE told' = [told EXCEPT ![s].free = IF Counted(t, s) THEN AtMost(@ + 1) ELSE @]
        BY <1>0, <2>1, <2>5 DEF ToldOK
    <2> QED BY <2>3, <2>4, <2>5 DEF Check
<1>5. ThreadsOK'
    <2>1. CASE Goto(t, "abort")
        BY <1>0, <2>1, GotoType DEF Steps
    <2>2. CASE Return(t)
        BY <1>0, <2>2, ReturnType
    <2>3. CASE thread' = [thread EXCEPT ![t].at = "spawn", ![t].n = Duration - tracker'[s].since]
        <3>1. Duration - tracker'[s].since \in 0 .. Duration
            BY <1>3, Thresholds DEF Trackers
        <3>2. Duration - tracker'[s].since \in Memory /\ "spawn" \in Steps
            BY <3>1, MemoryHolds DEF Steps
        <3> QED BY <1>0, <2>3, <3>1, <3>2 DEF ThreadsOK, Doing
    <2> QED BY <2>1, <2>2, <2>3 DEF Check
<1> QED BY <1>2, <1>4, <1>5 DEF Check

LEMMA CheckStepType ==
    ASSUME TypeInv, NEW t \in Threads, NEW s \in Sessions, CheckStep(t, s)
    PROVE  /\ TrackersOK' /\ FlagsOK' /\ TimersOK' /\ ThreadsOK' /\ ToldOK'
           /\ UNCHANGED <<session, device>>
<1>0. TrackersOK /\ FlagsOK /\ TimersOK /\ ThreadsOK /\ ToldOK
    BY DEF TypeInv
<1>1. CASE Check(t, s)
    BY <1>0, <1>1, CheckType DEF FlagsOK, TimersOK
<1>2. CASE Abort(t, s)
    <2>1. ThreadsOK'
        BY <1>0, <1>2, ReturnType DEF Abort
    <2>2. FlagsOK'
        BY <1>0, <1>2 DEF Abort, FlagsOK
    <2> QED BY <1>0, <1>2, <2>1, <2>2 DEF Abort, TrackersOK, TimersOK, ToldOK
<1>3. CASE startLockoutTimer(t, s)
    <2>1. ThreadsOK'
        BY <1>0, <1>3, ReturnType, GotoType DEF startLockoutTimer, Steps
    <2>2. TimersOK'
        <3>1. CASE timerFlag[s].started
            BY <1>0, <1>3, <3>1 DEF startLockoutTimer, TimersOK
        <3>2. CASE ~timerFlag[s].started
            <4>2. PICK i \in Timers : timer' = [timer EXCEPT ![i] =
                                        [s |-> s, left |-> thread[t].n, at |-> "asleep"]]
                BY <1>3, <3>2 DEF startLockoutTimer
            <4>1. thread[t].n \in 0 .. Duration
                BY <1>0, <1>3 DEF startLockoutTimer, ThreadsOK, Doing
            <4> QED BY <1>0, <4>1, <4>2 DEF TimersOK
        <3> QED BY <3>1, <3>2
    <2> QED BY <1>0, <1>3, <2>1, <2>2 DEF startLockoutTimer, TrackersOK, FlagsOK, ToldOK
<1>4. CASE TimerStarted(t, s)
    <2>1. ThreadsOK'
        BY <1>0, <1>4, ReturnType DEF TimerStarted
    <2>2. FlagsOK'
        BY <1>0, <1>4 DEF TimerStarted, FlagsOK
    <2> QED BY <1>0, <1>4, <2>1, <2>2 DEF TimerStarted, TrackersOK, TimersOK, ToldOK
<1> QED BY <1>1, <1>2, <1>3, <1>4 DEF CheckStep

\* The calls of the client.
LEMMA BinderCallType ==
    ASSUME TypeInv, NEW s \in Sessions, BinderCall(s), raced' \subseteq Sessions
    PROVE  TypeInv'
<1>0. Binder \in Threads /\ "check" \in Steps \ {"spawn"} /\ "reset" \in Steps \ {"spawn"}
      /\ "cancel" \in Steps \ {"spawn"}
    BY DEF Threads, Steps
<1>1. CASE createSession(s)
    BY <1>1 DEF createSession, TypeInv, SessionsOK, TrackersOK, FlagsOK, TimersOK, ThreadsOK,
                DeviceOK, ToldOK, lockout, device
<1>2. CASE authenticate(s)
    <2>1. ThreadsOK'
        BY <1>0, <1>2, CallType DEF authenticate, TypeInv
    <2> QED BY <1>2, <2>1 DEF authenticate, TypeInv, SessionsOK, TrackersOK, FlagsOK, TimersOK,
                DeviceOK, ToldOK, lockout, device, session
<1>3. CASE resetLockout(s)
    <2>1. ThreadsOK'
        BY <1>0, <1>3, CallType DEF resetLockout, TypeInv
    <2>2. TrackersOK'
        BY <1>3, ResetType DEF resetLockout, TypeInv, TrackersOK
    <2>3. ToldOK'
        BY <1>3, Thresholds DEF resetLockout, TypeInv, ToldOK
    <2> QED BY <1>3, <2>1, <2>2, <2>3 DEF resetLockout, TypeInv, SessionsOK, FlagsOK, TimersOK,
                DeviceOK, device, session
<1>4. CASE close(s)
    BY <1>4 DEF close, TypeInv, SessionsOK, TrackersOK, FlagsOK, TimersOK, ThreadsOK,
                DeviceOK, ToldOK, lockout, device
<1>5. CASE cancel(s)
    <2>1. ThreadsOK'
        BY <1>0, <1>5, CallType DEF cancel, TypeInv
    <2> QED BY <1>5, <2>1 DEF cancel, TypeInv, SessionsOK, TrackersOK, FlagsOK, TimersOK,
                DeviceOK, ToldOK, lockout, session
<1> QED BY <1>1, <1>2, <1>3, <1>4, <1>5 DEF BinderCall

LEMMA BinderStepType ==
    ASSUME TypeInv, NEW s \in Sessions, BinderStep(s), raced' \subseteq Sessions
    PROVE  TypeInv'
<1>0. Binder \in Threads
    BY DEF Threads
<1>1. CASE CheckStep(Binder, s)
    BY <1>0, <1>1, CheckStepType DEF TypeInv, SessionsOK, DeviceOK, session, device
<1>2. CASE AuthenticateDevice(s)
    <2>1. ThreadsOK'
        BY <1>0, <1>2, IdleType DEF AuthenticateDevice, TypeInv
    <2>2. DeviceOK'
        BY <1>2 DEF AuthenticateDevice, TypeInv, DeviceOK
    <2> QED BY <1>2, <2>1, <2>2 DEF AuthenticateDevice, TypeInv, SessionsOK, TrackersOK, FlagsOK,
                TimersOK, ToldOK, lockout, session
<1>3. CASE AbortTimer(s)
    <2>1. ThreadsOK'
        BY <1>0, <1>3, IdleType DEF AbortTimer, TypeInv
    <2>2. FlagsOK'
        <3>1. (timerFlag[s].aborted \/ timerFlag[s].started) \in BOOLEAN
            OBVIOUS
        <3> QED BY <1>3, <3>1 DEF AbortTimer, TypeInv, FlagsOK
    <2> QED BY <1>3, <2>1, <2>2 DEF AbortTimer, TypeInv, SessionsOK, TrackersOK, TimersOK,
                ToldOK, DeviceOK, device, session
<1>4. CASE CancelDevice(s)
    <2>1. ThreadsOK'
        <3>1. PICK n \in {0, 1} :
                 thread' = [thread EXCEPT ![Binder].at = "cancelled", ![Binder].n = n]
            BY <1>4 DEF CancelDevice
        <3>2. n \in Memory
            BY MemoryHolds
        <3> QED BY <1>0, <3>1, <3>2 DEF TypeInv, ThreadsOK, Doing, Steps
    <2>2. DeviceOK'
        BY <1>4 DEF CancelDevice, TypeInv, DeviceOK
    <2> QED BY <1>4, <2>1, <2>2 DEF CancelDevice, TypeInv, SessionsOK, TrackersOK, FlagsOK,
                TimersOK, ToldOK, lockout, session
<1>5. CASE CancelReturns(s)
    <2>1. ThreadsOK'
        BY <1>0, <1>5, IdleType DEF CancelReturns, TypeInv
    <2>2. DeviceOK'
        BY <1>5 DEF CancelReturns, TypeInv, DeviceOK
    <2> QED BY <1>5, <2>1, <2>2 DEF CancelReturns, TypeInv, SessionsOK, TrackersOK, FlagsOK,
                TimersOK, ToldOK, lockout, session
<1> QED BY <1>1, <1>2, <1>3, <1>4, <1>5 DEF BinderStep

\* What the device reports.
LEMMA NotifyType ==
    ASSUME TypeInv, NEW r \in Reports, notify(r), raced' \subseteq Sessions
    PROVE  TypeInv'
<1>1. ThreadsOK'
    <2>1. [Idle EXCEPT !.at = "notify", !.report = r] \in Doing
        BY IdleIsDoing DEF Doing, Steps, Idle
    <2> QED BY <2>1, IdleIsDoing DEF notify, TypeInv, ThreadsOK
<1>2. DeviceOK'
    <2>1. operation \in Sessions \cup {None} /\ (r = "error" => operation \in Sessions)
        BY DEF notify, TypeInv, DeviceOK
    <2> QED BY <2>1 DEF notify, TypeInv, DeviceOK
<1> QED BY <1>1, <1>2 DEF notify, TypeInv, SessionsOK, TrackersOK, FlagsOK, TimersOK, ToldOK,
            lockout, session

LEMMA CallbackStepType ==
    ASSUME TypeInv, NEW s \in Sessions, CallbackStep(s), raced' \subseteq Sessions
    PROVE  TypeInv'
<1>0. Callback \in Threads
    BY DEF Threads
<1>1. CASE CheckStep(Callback, s)
    BY <1>0, <1>1, CheckStepType DEF TypeInv, SessionsOK, DeviceOK, session, device
<1>2. CASE Report(s)
    <2>1. ThreadsOK'
        BY <1>0, <1>2, IdleType DEF Report, TypeInv
    <2>2. DeviceOK'
        BY <1>2 DEF Report, TypeInv, DeviceOK
    <2>3. TrackersOK'
        <3>1. CASE tracker' = tracker
            BY <3>1 DEF TypeInv, TrackersOK
        <3>2. CASE tracker' = [tracker EXCEPT ![s] = reset(tracker[s], TRUE)]
            BY <3>2, ResetType DEF TypeInv, TrackersOK
        <3> QED BY <1>2, <3>1, <3>2 DEF Report
    <2>4. ToldOK'
        <3>1. CASE told' = told
            BY <3>1 DEF TypeInv, ToldOK
        <3>2. CASE told' = [told EXCEPT ![s].failures = 0, ![s].free = 0, ![s].permanent = FALSE]
            <4>1. 0 \in 0 .. PermanentThreshold /\ 0 \in Nat /\ FALSE \in BOOLEAN
                BY Thresholds
            <4>2. told'[s] = [told[s] EXCEPT !.failures = 0, !.free = 0, !.permanent = FALSE]
                BY <3>2 DEF TypeInv, ToldOK
            <4>3. [told[s] EXCEPT !.failures = 0, !.free = 0, !.permanent = FALSE]
                    \in [failures : 0 .. PermanentThreshold, free : Nat, owed : BOOLEAN,
                         permanent : BOOLEAN]
                BY <4>1 DEF TypeInv, ToldOK
            <4>4. told' = [told EXCEPT ![s] = told'[s]]
                BY <3>2, <4>2 DEF TypeInv, ToldOK
            <4> QED BY <4>2, <4>3, <4>4 DEF TypeInv, ToldOK
        <3> QED BY <1>2, <3>1, <3>2 DEF Report
    <2> QED BY <1>2, <2>1, <2>2, <2>3, <2>4 DEF Report, TypeInv, SessionsOK, FlagsOK, TimersOK,
                session
<1>3. CASE ReportFailure(s)
    <2>1. tracker[s].mFailedCount \in Memory
        BY MemoryHolds DEF TypeInv, TrackersOK, Trackers
    <2>2. ThreadsOK'
        <3>1. thread' = [thread EXCEPT ![Callback].at = "count", ![Callback].s = s,
                                       ![Callback].n = tracker[s].mFailedCount]
            BY <1>3 DEF ReportFailure
        <3>2. thread[Callback] \in Doing
            BY <1>0 DEF TypeInv, ThreadsOK
        <3>3. [thread[Callback] EXCEPT !.at = "count", !.s = s, !.n = tracker[s].mFailedCount]
                \in Doing
            BY <2>1, <3>2 DEF Doing, Steps
        <3>4. thread' = [thread EXCEPT ![Callback] = [thread[Callback] EXCEPT
                            !.at = "count", !.s = s, !.n = tracker[s].mFailedCount]]
            BY <3>1
        <3> QED BY <1>0, <3>3, <3>4 DEF TypeInv, ThreadsOK
    <2> QED BY <1>3, <2>2 DEF ReportFailure, TypeInv, SessionsOK, TrackersOK, FlagsOK, TimersOK,
                DeviceOK, ToldOK, lockout, device, session
<1>4. CASE CountFailure(s)
    <2>1. ThreadsOK'
        <3>1. 0 \in Memory
            BY MemoryHolds
        <3>2. thread' = [thread EXCEPT ![Callback].at = "check", ![Callback].n = 0]
            BY <1>4 DEF CountFailure
        <3> QED BY <1>0, <3>1, <3>2 DEF TypeInv, ThreadsOK, Doing, Steps
    <2>2. thread[Callback].n \in Nat
        BY <1>0, Thresholds, MaxOfTwo DEF TypeInv, ThreadsOK, Doing, Memory
    <2>3. TrackersOK'
        BY <1>4, <2>2, AddFailedType DEF CountFailure, TypeInv, TrackersOK
    <2>4. ToldOK'
        <3>1. told[s].failures + 1 \in Nat
            BY DEF TypeInv, ToldOK
        <3>2. AtMost(told[s].failures + 1) \in 0 .. PermanentThreshold
            BY <3>1, Thresholds, AtMostIs
        <3> QED BY <1>4, <3>2 DEF CountFailure, TypeInv, ToldOK
    <2> QED BY <1>4, <2>1, <2>3, <2>4 DEF CountFailure, TypeInv, SessionsOK, FlagsOK, TimersOK,
                DeviceOK, device, session
<1> QED BY <1>1, <1>2, <1>3, <1>4 DEF CallbackStep

LEMMA TimerStepType ==
    ASSUME TypeInv, NEW i \in Timers, NEW s \in Sessions, TimerStep(i, s), raced' \subseteq Sessions
    PROVE  TypeInv'
<1>1. CASE TimerExpires(i, s)
    <2>1. PICK step \in {"flags", "clear"} : timer' = [timer EXCEPT ![i].at = step]
        BY <1>1 DEF TimerExpires
    <2>2. TimersOK'
        BY <2>1 DEF TypeInv, TimersOK
    <2> QED BY <1>1, <2>2 DEF TimerExpires, TypeInv, SessionsOK, TrackersOK, FlagsOK, ThreadsOK,
                DeviceOK, ToldOK, device, session
<1>2. CASE TimerClears(i, s)
    <2>1. TrackersOK'
        BY <1>2, ResetType DEF TimerClears, TypeInv, TrackersOK
    <2>2. TimersOK'
        BY <1>2 DEF TimerClears, TypeInv, TimersOK
    <2>3. ToldOK'
        BY <1>2 DEF TimerClears, TypeInv, ToldOK
    <2> QED BY <1>2, <2>1, <2>2, <2>3 DEF TimerClears, TypeInv, SessionsOK, FlagsOK, ThreadsOK,
                DeviceOK, device, session
<1>3. CASE TimerEnds(i, s)
    BY <1>3, Thresholds DEF TimerEnds, TypeInv, SessionsOK, TrackersOK, FlagsOK, TimersOK, ThreadsOK,
                DeviceOK, ToldOK, device, session, NoTimer
<1> QED BY <1>1, <1>2, <1>3 DEF TimerStep

LEMMA TickType ==
    ASSUME TypeInv, Tick, raced' \subseteq Sessions
    PROVE  TypeInv'
<1>1. TrackersOK'
    <2>1. ASSUME NEW s \in Sessions
          PROVE  [tracker[s] EXCEPT !.since = IF Timed(s) THEN @ + 1 ELSE @] \in Trackers
        <3>1. tracker[s] \in Trackers
            BY DEF TypeInv, TrackersOK
        <3>2. CASE Timed(s)
            BY <3>1, <3>2, Thresholds DEF Timed, Trackers
        <3>3. CASE ~Timed(s)
            BY <3>1, <3>3 DEF Trackers
        <3> QED BY <3>2, <3>3
    <2> QED BY <2>1 DEF Tick, TrackersOK
<1>2. TimersOK'
    <2>1. ASSUME NEW i \in Timers
          PROVE  (IF timer[i].left > 0 THEN timer[i].left - 1 ELSE 0) \in 0 .. Duration
        <3>1. timer[i].left \in 0 .. Duration
            BY DEF TypeInv, TimersOK
        <3> QED BY <3>1, Thresholds
    <2>2. timer' = [i \in Timers |-> [timer[i] EXCEPT !.left = IF timer[i].left > 0
                                                              THEN timer[i].left - 1 ELSE 0]]
        BY DEF Tick, TypeInv, TimersOK
    <2> QED BY <2>1, <2>2 DEF TypeInv, TimersOK
<1> QED BY <1>1, <1>2 DEF Tick, TypeInv, SessionsOK, FlagsOK, ThreadsOK, DeviceOK, ToldOK,
            device, session

LEMMA RacedType ==
    \A a : \A s \in Sessions : raced \subseteq Sessions /\ Meet(a, s) => raced' \subseteq Sessions
BY DEF Meet

LEMMA TypeStep == TypeInv /\ [Next]_vars => TypeInv'
<1> SUFFICES ASSUME TypeInv, [Next]_vars PROVE TypeInv'
    OBVIOUS
<1>0. raced \subseteq Sessions
    BY DEF TypeInv
<1>1. ASSUME NEW s \in Sessions, BinderStep(s) \/ BinderCall(s), Meet(Binder, s) PROVE TypeInv'
    BY <1>0, <1>1, RacedType, BinderStepType, BinderCallType
<1>2. ASSUME NEW r \in Reports, notify(r), Cross(r) PROVE TypeInv'
    BY <1>0, <1>2, NotifyType DEF Cross
<1>3. ASSUME NEW s \in Sessions, CallbackStep(s), Meet(Callback, s) PROVE TypeInv'
    BY <1>0, <1>3, RacedType, CallbackStepType
<1>4. ASSUME NEW i \in Timers, NEW s \in Sessions, TimerStep(i, s), Meet(i, s) PROVE TypeInv'
    BY <1>0, <1>4, RacedType, TimerStepType
<1>5. CASE Tick /\ raced' = raced \cup Busy
    BY <1>0, <1>5, TickType DEF Busy
<1>6. CASE UNCHANGED vars
    BY <1>6 DEF vars, TypeInv, SessionsOK, TrackersOK, FlagsOK, TimersOK, ThreadsOK, DeviceOK, ToldOK
<1> QED BY <1>1, <1>2, <1>3, <1>4, <1>5, <1>6 DEF Next

\* Every step of every thread keeps the types; so does every tick.
THEOREM TypeCorrect == Spec => []TypeOK
BY InitType, TypeStep, TypeFollows, PTL DEF Spec

-----------------------------------------------------------------------------
(* No failed attempt is forgotten *)

LEMMA AddFailedFields ==
    \A tr \in Trackers, n \in Nat :
      /\ addFailedAttempt(tr, n).mFailedCount = AtMost(n + 1)
      /\ addFailedAttempt(tr, n).mCurrentMode =
           IF AtMost(n + 1) >= PermanentThreshold THEN "permanent"
           ELSE IF AtMost(n + 1) >= TimedThreshold /\ tr.mCurrentMode = "none" THEN "timed"
           ELSE tr.mCurrentMode
      /\ addFailedAttempt(tr, n).since =
           IF addFailedAttempt(tr, n).mCurrentMode = tr.mCurrentMode THEN tr.since ELSE 0
BY DEF addFailedAttempt

LEMMA GetModeFields ==
    \A tr \in Trackers :
      /\ getMode(tr).mFailedCount = tr.mFailedCount
      /\ tr.mCurrentMode = "timed" /\ tr.since = Duration => getMode(tr).mCurrentMode = "none"
      /\ ~(tr.mCurrentMode = "timed" /\ tr.since = Duration) => getMode(tr) = tr
BY ResetType DEF getMode

\* The thread of the device adds to a count that was at least the failures
\* when it was read.
At(t, step, s) == thread[t].at = step /\ thread[t].s = s
Remembered == \A s \in Sessions : tracker[s].mFailedCount >= told[s].failures
CountsFromRead ==
    \A s \in Sessions : At(Callback, "count", s) => thread[Callback].n >= told[s].failures
Remembers == Remembered /\ CountsFromRead

\* What a step does to the counts and to what is read of them.
SameCount(s) ==
    tracker'[s].mFailedCount = tracker[s].mFailedCount /\ told'[s].failures = told[s].failures
Forgives(s) == tracker'[s].mFailedCount = 0 /\ told'[s].failures = 0
NoNewRead ==
    thread'[Callback].at = "count" => thread'[Callback] = thread[Callback]

LEMMA KeepsMemory ==
    ASSUME TypeInv, Remembers, \A s \in Sessions : SameCount(s) \/ Forgives(s), NoNewRead
    PROVE  Remembers'
<1>0. \A s \in Sessions : told[s].failures \in Nat /\ tracker[s].mFailedCount \in Nat
    BY Thresholds DEF TypeInv, ToldOK, TrackersOK, Trackers
<1>1. Remembered'
    BY <1>0 DEF Remembers, Remembered, SameCount, Forgives
<1>2. CountsFromRead'
    <2> SUFFICES ASSUME NEW s \in Sessions, At(Callback, "count", s)'
                 PROVE  thread'[Callback].n >= told'[s].failures
        BY DEF CountsFromRead
    <2>1. thread'[Callback] = thread[Callback]
        BY DEF At, NoNewRead
    <2>2. thread[Callback].n >= told[s].failures /\ thread[Callback].n \in Nat
        BY <2>1, MaxOfTwo, Thresholds
           DEF Remembers, CountsFromRead, At, TypeInv, ThreadsOK, Doing, Memory, Threads
    <2>3. told'[s].failures = told[s].failures \/ told'[s].failures = 0
        BY DEF SameCount, Forgives
    <2> QED BY <1>0, <2>1, <2>2, <2>3
<1> QED BY <1>1, <1>2 DEF Remembers

\* Each thread's part in it.
LEMMA CheckStepKeepsMemory ==
    ASSUME TypeInv, NEW t \in Threads, NEW s \in Sessions, CheckStep(t, s)
    PROVE  (\A x \in Sessions : SameCount(x)) /\ NoNewRead
<1>0. /\ Binder # Callback /\ Callback \in Threads
      /\ ThreadsOK /\ ToldOK /\ TrackersOK
    BY DEF Threads, Binder, Callback, TypeInv
<1>1. CASE Check(t, s)
    <2>1. \A x \in Sessions : tracker'[x].mFailedCount = tracker[x].mFailedCount
        BY <1>0, <1>1, GetModeFields DEF Check, TrackersOK
    <2>2. \A x \in Sessions : told'[x].failures = told[x].failures
        BY <1>0, <1>1 DEF Check, ToldOK
    <2>3. NoNewRead
        <3>1. CASE Goto(t, "abort") \/ Return(t)
            BY <1>0, <3>1 DEF Goto, Return, NoNewRead, ThreadsOK, Doing, Idle
        <3>2. CASE thread' = [thread EXCEPT ![t].at = "spawn", ![t].n = Duration - tracker'[s].since]
            BY <1>0, <3>2 DEF NoNewRead, ThreadsOK, Doing
        <3> QED BY <1>1, <3>1, <3>2 DEF Check
    <2> QED BY <2>1, <2>2, <2>3 DEF SameCount
<1>2. CASE Abort(t, s) \/ startLockoutTimer(t, s) \/ TimerStarted(t, s)
    <2>1. UNCHANGED <<tracker, told>>
        BY <1>2 DEF Abort, startLockoutTimer, TimerStarted
    <2>2. Goto(t, "started") \/ Return(t)
        BY <1>2 DEF Abort, startLockoutTimer, TimerStarted
    <2>3. NoNewRead
        BY <1>0, <2>2 DEF Goto, Return, NoNewRead, ThreadsOK, Doing, Idle
    <2> QED BY <2>1, <2>3 DEF SameCount
<1> QED BY <1>1, <1>2 DEF CheckStep

LEMMA BinderKeepsMemory ==
    ASSUME TypeInv, NEW s \in Sessions, BinderStep(s) \/ BinderCall(s)
    PROVE  (\A x \in Sessions : SameCount(x) \/ Forgives(x)) /\ NoNewRead
<1>0. /\ Binder # Callback /\ Binder \in Threads /\ Callback \in Threads
      /\ ThreadsOK /\ ToldOK /\ TrackersOK
    BY DEF Threads, Binder, Callback, TypeInv
<1>1. CASE CheckStep(Binder, s)
    BY <1>0, <1>1, CheckStepKeepsMemory
<1>2. CASE AuthenticateDevice(s) \/ AbortTimer(s) \/ CancelDevice(s) \/ CancelReturns(s)
           \/ createSession(s) \/ authenticate(s) \/ close(s) \/ cancel(s)
    <2>1. UNCHANGED <<tracker, told>>
        BY <1>2 DEF AuthenticateDevice, AbortTimer, CancelDevice, CancelReturns, createSession,
                    authenticate, close, cancel, lockout
    <2>2. thread'[Callback] = thread[Callback]
        BY <1>0, <1>2 DEF AuthenticateDevice, AbortTimer, CancelDevice, CancelReturns, createSession,
                    authenticate, close, cancel, Call, ThreadsOK
    <2> QED BY <2>1, <2>2 DEF SameCount, NoNewRead
<1>3. CASE resetLockout(s)
    <2>1. \A x \in Sessions : IF x = s THEN Forgives(x) ELSE SameCount(x)
        BY <1>0, <1>3, ResetType DEF resetLockout, SameCount, Forgives, TrackersOK, ToldOK
    <2>2. thread'[Callback] = thread[Callback]
        BY <1>0, <1>3 DEF resetLockout, Call, ThreadsOK
    <2> QED BY <2>1, <2>2 DEF NoNewRead
<1> QED BY <1>1, <1>2, <1>3 DEF BinderStep, BinderCall

LEMMA CallbackKeepsMemory ==
    ASSUME TypeInv, Remembers, NEW s \in Sessions, CallbackStep(s)
    PROVE  Remembers'
<1>0. /\ Callback \in Threads /\ ThreadsOK /\ ToldOK /\ TrackersOK
      /\ thread[Callback] \in Doing /\ thread[Callback].n \in Nat
      /\ \A x \in Sessions : told[x].failures \in Nat /\ tracker[x].mFailedCount \in Nat
    BY MaxOfTwo, Thresholds DEF Threads, TypeInv, ThreadsOK, Doing, Memory, ToldOK, TrackersOK, Trackers
<1>1. CASE CheckStep(Callback, s)
    BY <1>0, <1>1, CheckStepKeepsMemory, KeepsMemory
<1>2. CASE Report(s)
    <2>1. \A x \in Sessions : SameCount(x) \/ Forgives(x)
        <3>1. CASE UNCHANGED <<tracker, told>>
            BY <3>1 DEF SameCount
        <3>2. CASE /\ tracker' = [tracker EXCEPT ![s] = reset(@, TRUE)]
                   /\ told' = [told EXCEPT ![s].failures = 0, ![s].free = 0, ![s].permanent = FALSE]
            BY <1>0, <3>2, ResetType DEF SameCount, Forgives, TrackersOK, ToldOK
        <3> QED BY <1>2, <3>1, <3>2 DEF Report
    <2>2. NoNewRead
        BY <1>0, <1>2 DEF Report, NoNewRead, ThreadsOK, Idle
    <2> QED BY <2>1, <2>2, KeepsMemory
<1>3. CASE ReportFailure(s)
    <2>1. UNCHANGED <<tracker, told>>
        BY <1>3 DEF ReportFailure, lockout
    <2>2. thread'[Callback].s = s /\ thread'[Callback].n = tracker[s].mFailedCount
        BY <1>0, <1>3 DEF ReportFailure, ThreadsOK, Doing
    <2> QED BY <2>1, <2>2 DEF Remembers, Remembered, CountsFromRead, At
<1>4. CASE CountFailure(s)
    <2> DEFINE n == thread[Callback].n
    <2>1. thread'[Callback].at = "check"
        BY <1>0, <1>4 DEF CountFailure, ThreadsOK, Doing
    <2>2. \A x \in Sessions \ {s} : SameCount(x)
        BY <1>0, <1>4 DEF CountFailure, SameCount, TrackersOK, ToldOK
    <2>3. tracker'[s].mFailedCount = AtMost(n + 1)
        BY <1>0, <1>4, AddFailedFields DEF CountFailure, TrackersOK
    <2>4. told'[s].failures = AtMost(told[s].failures + 1)
        BY <1>0, <1>4 DEF CountFailure, ToldOK
    <2>5. n >= told[s].failures
        BY <1>4 DEF CountFailure, Remembers, CountsFromRead, At
    <2>6. AtMost(n + 1) >= AtMost(told[s].failures + 1)
        <3>1. \A a, b \in Nat : a >= b => AtMost(a) >= AtMost(b)
            BY AtMostIs, Thresholds
        <3> QED BY <1>0, <2>5, <3>1
    <2> QED BY <2>1, <2>2, <2>3, <2>4, <2>6 DEF Remembers, Remembered, CountsFromRead, At, SameCount
<1> QED BY <1>1, <1>2, <1>3, <1>4 DEF CallbackStep

LEMMA MemoryStep == TypeInv /\ Remembers /\ [Next]_vars => Remembers'
<1> SUFFICES ASSUME TypeInv, Remembers, [Next]_vars PROVE Remembers'
    OBVIOUS
<1>1. ASSUME NEW s \in Sessions, BinderStep(s) \/ BinderCall(s) PROVE Remembers'
    BY <1>1, BinderKeepsMemory, KeepsMemory
<1>2. ASSUME NEW r \in Reports, notify(r) PROVE Remembers'
    <2>1. UNCHANGED <<tracker, told>>
        BY <1>2 DEF notify, lockout
    <2>2. NoNewRead
        BY <1>2 DEF notify, NoNewRead, TypeInv, ThreadsOK, Idle, Threads
    <2> QED BY <2>1, <2>2, KeepsMemory DEF SameCount
<1>3. ASSUME NEW s \in Sessions, CallbackStep(s) PROVE Remembers'
    BY <1>3, CallbackKeepsMemory
<1>4. ASSUME NEW i \in Timers, NEW s \in Sessions, TimerStep(i, s) PROVE Remembers'
    <2>1. UNCHANGED thread
        BY <1>4 DEF TimerStep, TimerExpires, TimerClears, TimerEnds
    <2>2. \A x \in Sessions : SameCount(x)
        <3>1. CASE UNCHANGED <<tracker, told>>
            BY <3>1 DEF SameCount
        <3>2. CASE TimerClears(i, s)
            BY <3>2, ResetType DEF TimerClears, SameCount, TypeInv, TrackersOK, ToldOK
        <3> QED BY <1>4, <3>1, <3>2 DEF TimerStep, TimerExpires, TimerEnds
    <2> QED BY <2>1, <2>2, KeepsMemory DEF NoNewRead
<1>5. CASE Tick
    <2>1. UNCHANGED <<thread, told>>
        BY <1>5 DEF Tick
    <2>2. \A x \in Sessions : tracker'[x].mFailedCount = tracker[x].mFailedCount
        BY <1>5 DEF Tick, TypeInv, TrackersOK, Trackers
    <2> QED BY <2>1, <2>2, KeepsMemory DEF NoNewRead, SameCount
<1>6. CASE UNCHANGED vars
    BY <1>6, KeepsMemory DEF vars, NoNewRead, SameCount
<1> QED BY <1>1, <1>2, <1>3, <1>4, <1>5, <1>6 DEF Next

\* However the threads meet, the count of the session is at least the number
\* of failures since the last success or reset: a failure that is counted
\* while the lockout is reset may count too much, never too little.
THEOREM FailuresAreRemembered == Spec => []NoFailureForgotten
<1>1. Init => Remembers
    <2> SUFFICES ASSUME Init PROVE Remembers
        OBVIOUS
    <2>1. thread[Callback].at = "idle"
        BY DEF Init, Idle, Threads
    <2>2. \A s \in Sessions : tracker[s].mFailedCount = 0 /\ told[s].failures = 0
        BY DEF Init
    <2> QED BY <2>1, <2>2 DEF Remembers, Remembered, CountsFromRead, At
<1>2. TypeInv /\ Remembers => NoFailureForgotten
    BY TypeFollows DEF Remembers, Remembered, NoFailureForgotten
<1> QED BY <1>1, <1>2, InitType, TypeStep, MemoryStep, PTL DEF Spec

-----------------------------------------------------------------------------
(* Lockouts hold, where no two threads meet *)

\* The invariant of one session.  The count is that of the failures, also where
\* it was read; a lockout that was answered leaves no free attempt, and what
\* was free before one is bounded by the failures; a permanent lockout is on its
\* way to abort the timer, if there is one; and a lockout whose timer is to be
\* started is timed.
Mine(s) == {i \in Timers : timer[i].s = s}
Starting(s) == \E t \in Threads : At(t, "started", s)
Allowed(k) == IF k > TimedThreshold \/ TimedThreshold = 1 THEN 1 ELSE TimedThreshold - 1

CountInv(s) ==
    /\ tracker[s].mFailedCount = told[s].failures
    /\ At(Callback, "count", s) => thread[Callback].n = tracker[s].mFailedCount
PendingInv(s) ==
    At(Callback, "check", s) =>
      /\ told[s].failures >= 1 /\ told[s].free <= Allowed(told[s].failures)
      /\ tracker[s].mCurrentMode = "none" =>
           told[s].failures < TimedThreshold /\ told[s].free + 1 <= told[s].failures
      /\ tracker[s].mCurrentMode = "garbage" => told[s].free = 0
      /\ tracker[s].mCurrentMode = "timed" /\ tracker[s].since = Duration => told[s].free = 0
AnsweredInv(s) ==
    ~At(Callback, "check", s) =>
      /\ tracker[s].mCurrentMode # "none" => told[s].free = 0
      /\ told[s].failures < TimedThreshold => told[s].free <= told[s].failures
      /\ told[s].failures >= TimedThreshold => told[s].free <= 1
PermanentInv(s) ==
    /\ told[s].permanent => tracker[s].mCurrentMode = "permanent"
    /\ (\E i \in Mine(s) : timer[i].at = "clear") => tracker[s].mCurrentMode # "permanent"
    /\ tracker[s].mCurrentMode = "permanent" /\ ~At(Callback, "check", s) /\ ~At(Callback, "abort", s)
         => timerFlag[s].aborted \/ Mine(s) = {}
TimerInv(s) ==
    IF timerFlag[s].started \/ Starting(s) THEN \E i \in Timers : Mine(s) = {i} ELSE Mine(s) = {}
SpawnInv(s) == \A t \in Threads : At(t, "spawn", s) => tracker[s].mCurrentMode = "timed"

SessionInv(s) == /\ CountInv(s) /\ PendingInv(s) /\ AnsweredInv(s)
                 /\ PermanentInv(s) /\ TimerInv(s) /\ SpawnInv(s)
LockInv == \A s \in Sessions \ raced : SessionInv(s)

\* The steps of threads that matter to it, and all that it depends on.
Watched == {"check", "abort", "spawn", "started", "count"}
SameLockout(s) ==
    tracker'[s] = tracker[s] /\ told'[s] = told[s] /\ timerFlag'[s] = timerFlag[s]
SameTimers(s) ==
    \A i \in Timers : /\ timer'[i].s = s <=> timer[i].s = s
                      /\ timer[i].s = s => timer'[i].at = timer[i].at
SameThreads(s) ==
    /\ \A step \in {"count", "check", "abort"} : At(Callback, step, s)' <=> At(Callback, step, s)
    /\ \A t \in Threads, step \in {"spawn", "started"} : At(t, step, s)' <=> At(t, step, s)
    /\ At(Callback, "count", s) => thread'[Callback].n = thread[Callback].n
Untouched(s) == SameLockout(s) /\ SameTimers(s) /\ SameThreads(s)

LEMMA Frame ==
    ASSUME NEW s \in Sessions, Untouched(s), SessionInv(s)
    PROVE  SessionInv(s)'
<1>0. Callback \in Threads
    BY DEF Threads
<1>1. /\ At(Callback, "count", s)' <=> At(Callback, "count", s)
      /\ At(Callback, "check", s)' <=> At(Callback, "check", s)
      /\ At(Callback, "abort", s)' <=> At(Callback, "abort", s)
      /\ \A t \in Threads : At(t, "spawn", s)' <=> At(t, "spawn", s)
      /\ \A t \in Threads : At(t, "started", s)' <=> At(t, "started", s)
    BY <1>0 DEF Untouched, SameThreads
<1>2. tracker'[s] = tracker[s] /\ told'[s] = told[s] /\ timerFlag'[s] = timerFlag[s]
    BY DEF Untouched, SameLockout
<1>3. Mine(s)' = Mine(s)
    BY DEF Untouched, SameTimers, Mine
<1>4. Starting(s)' <=> Starting(s)
    BY <1>1 DEF Starting
<1>5. (\E i \in Mine(s)' : timer'[i].at = "clear") <=> (\E i \in Mine(s) : timer[i].at = "clear")
    BY <1>3 DEF Untouched, SameTimers, Mine
<1>6. CountInv(s)'
    <2>1. At(Callback, "count", s) => thread'[Callback].n = thread[Callback].n
        BY DEF Untouched, SameThreads
    <2> QED BY <1>1, <1>2, <2>1 DEF SessionInv, CountInv
<1>7. PendingInv(s)' /\ AnsweredInv(s)'
    BY <1>1, <1>2 DEF SessionInv, PendingInv, AnsweredInv
<1>8. PermanentInv(s)'
    BY <1>1, <1>2, <1>3, <1>5 DEF SessionInv, PermanentInv
<1>9. TimerInv(s)'
    BY <1>2, <1>3, <1>4 DEF SessionInv, TimerInv
<1>10. SpawnInv(s)'
    BY <1>1, <1>2 DEF SessionInv, SpawnInv
<1> QED BY <1>6, <1>7, <1>8, <1>9, <1>10 DEF SessionInv

\* A step that is only about s.
OnlyAbout(s) ==
    /\ \A x \in Sessions \ {s} : SameLockout(x)
    /\ \A i \in Timers :
          timer'[i] = timer[i] \/ (timer[i].s \in {s, None} /\ timer'[i].s \in {s, None})
    /\ \A t \in Threads :
          \/ thread'[t] = thread[t]
          \/ /\ thread[t].s = s \/ thread[t].at \in {"idle", "notify"}
             /\ thread'[t].s = s \/ thread'[t].at \in {"idle", "notify"}

LEMMA OthersUntouched ==
    ASSUME NEW s \in Sessions, OnlyAbout(s), NEW x \in Sessions \ {s}
    PROVE  Untouched(x)
<1>1. SameTimers(x)
    BY Distinct DEF OnlyAbout, SameTimers
<1>2. SameThreads(x)
    BY DEF OnlyAbout, SameThreads, At, Threads
<1> QED BY <1>1, <1>2 DEF OnlyAbout, Untouched

\* Who is alone with a session.
LEMMA ThreadAlone ==
    ASSUME TypeInv, NEW t \in Threads, NEW s \in Sessions, ~Others(t, s)
    PROVE  /\ \A u \in Threads \ {t}, step \in Watched : ~At(u, step, s)
           /\ \A i \in Mine(s) : timer[i].at \notin {"clear", "flags"}
<1>1. Timers \ {t} = Timers
    BY Distinct
<1> QED BY <1>1 DEF Others, Watched, At, Mine

LEMMA TimerAlone ==
    ASSUME TypeInv, NEW s \in Sessions, NEW i \in Timers, ~Others(i, s)
    PROVE  /\ \A t \in Threads, step \in Watched : ~At(t, step, s)
           /\ \A j \in Mine(s) \ {i} : timer[j].at \notin {"clear", "flags"}
<1>1. Threads \ {i} = Threads
    BY Distinct
<1> QED BY <1>1 DEF Others, Watched, At, Mine

\* The invariant of a session implies its part of LockoutsHold.
LEMMA SessionHolds ==
    ASSUME TypeInv, NEW s \in Sessions, SessionInv(s)
    PROVE  /\ told[s].free < IF told[s].failures > TimedThreshold THEN 2
                             ELSE Max({2, TimedThreshold})
           /\ told[s].permanent => tracker[s].mCurrentMode = "permanent"
           /\ Cardinality({i \in Timers : timer[i].s = s}) =
                IF timerFlag[s].started \/ (\E t \in Threads : thread[t].at = "started" /\ thread[t].s = s)
                THEN 1 ELSE 0
<1>1. told[s].failures \in Nat /\ told[s].free \in Nat
    BY Thresholds DEF TypeInv, ToldOK
<1>2. Max({2, TimedThreshold}) = IF 2 >= TimedThreshold THEN 2 ELSE TimedThreshold
    BY MaxOfTwo, Thresholds
<1>3. told[s].free < IF told[s].failures > TimedThreshold THEN 2 ELSE Max({2, TimedThreshold})
    <2>1. CASE At(Callback, "check", s)
        BY <1>1, <1>2, <2>1, Thresholds DEF SessionInv, PendingInv, Allowed
    <2>2. CASE ~At(Callback, "check", s)
        BY <1>1, <1>2, <2>2, Thresholds DEF SessionInv, AnsweredInv
    <2> QED BY <2>1, <2>2
<1>4. Cardinality(Mine(s)) = IF timerFlag[s].started \/ Starting(s) THEN 1 ELSE 0
    <2>1. CASE timerFlag[s].started \/ Starting(s)
        <3>1. PICK i \in Timers : Mine(s) = {i}
            BY <2>1 DEF SessionInv, TimerInv
        <3> QED BY <2>1, <3>1, FS_Singleton
    <2>2. CASE ~(timerFlag[s].started \/ Starting(s))
        <3>1. Mine(s) = {}
            BY <2>2 DEF SessionInv, TimerInv
        <3> QED BY <2>2, <3>1, FS_EmptySet
    <2> QED BY <2>1, <2>2
<1> QED BY <1>3, <1>4 DEF SessionInv, PermanentInv, Mine, Starting, At

LEMMA InitLocks == Init => LockInv
<1> SUFFICES ASSUME Init, NEW s \in Sessions PROVE SessionInv(s)
    BY DEF LockInv
<1>1. \A t \in Threads : thread[t].at = "idle"
    BY DEF Init, Idle
<1>2. \A t \in Threads, step \in Watched : ~At(t, step, s)
    BY <1>1 DEF At, Watched
<1>3. /\ told[s].failures = 0 /\ told[s].free = 0 /\ told[s].permanent = FALSE
      /\ tracker[s].mFailedCount = 0
      /\ timerFlag[s].started = FALSE
    BY DEF Init
<1>4. Mine(s) = {}
    BY Distinct DEF Init, NoTimer, Mine
<1> QED BY <1>2, <1>3, <1>4, Thresholds
       DEF SessionInv, CountInv, PendingInv, AnsweredInv, PermanentInv, TimerInv, SpawnInv,
           Watched, Starting, Threads

\* A thread that is alone with a session and does a step of its own: the others
\* are not at it afterwards either.
LEMMA StaysAlone ==
    ASSUME TypeInv, NEW t \in Threads, NEW s \in Sessions, ~Others(t, s),
           \A u \in Threads \ {t} : thread'[u] = thread[u]
    PROVE  \A u \in Threads \ {t}, step \in Watched : ~At(u, step, s) /\ ~At(u, step, s)'
BY ThreadAlone DEF At

LEMMA GotoEffect ==
    ASSUME TypeInv, NEW t \in Threads, NEW step, Goto(t, step)
    PROVE  /\ thread'[t].at = step /\ thread'[t].s = thread[t].s /\ thread'[t].n = thread[t].n
           /\ \A u \in Threads \ {t} : thread'[u] = thread[u]
BY DEF Goto, TypeInv, ThreadsOK, Doing

LEMMA ReturnEffect ==
    ASSUME TypeInv, NEW t \in Threads, Return(t)
    PROVE  /\ thread'[t].at \in {"idle", "device"} /\ thread'[t].s \in {thread[t].s, None}
           /\ \A u \in Threads \ {t} : thread'[u] = thread[u]
<1>1. CASE Goto(t, "device")
    BY <1>1, GotoEffect
<1>2. CASE thread' = [thread EXCEPT ![t] = Idle]
    BY <1>2 DEF TypeInv, ThreadsOK, Idle
<1> QED BY <1>1, <1>2 DEF Return

-----------------------------------------------------------------------------
(* checkSensorLockout, step by step *)

\* What Check leaves alone, and where it leads.
LEMMA CheckEffect ==
    ASSUME TypeInv, NEW t \in Threads, NEW s \in Sessions, Check(t, s)
    PROVE  /\ UNCHANGED <<timer, timerFlag>>
           /\ \A x \in Sessions \ {s} : tracker'[x] = tracker[x] /\ told'[x] = told[x]
           /\ \A u \in Threads \ {t} : thread'[u] = thread[u]
           /\ tracker'[s] = getMode(tracker[s])
           /\ told'[s].failures = told[s].failures
           /\ thread'[t].at \in {"abort", "spawn", "idle", "device"}
           /\ thread'[t].at \in {"abort", "spawn"} => thread'[t].s = s
<1>0. /\ ThreadsOK /\ TrackersOK /\ ToldOK /\ thread[t] \in Doing /\ thread[t].s = s
    BY DEF TypeInv, ThreadsOK, Check
<1>1. /\ UNCHANGED <<timer, timerFlag>>
      /\ tracker' = [tracker EXCEPT ![s] = getMode(tracker[s])]
    BY DEF Check
<1>2. /\ \A x \in Sessions \ {s} : tracker'[x] = tracker[x] /\ told'[x] = told[x]
      /\ tracker'[s] = getMode(tracker[s]) /\ told'[s].failures = told[s].failures
    BY <1>0, <1>1 DEF Check, TrackersOK, ToldOK
<1>3. CASE Goto(t, "abort")
    BY <1>0, <1>1, <1>2, <1>3, GotoEffect
<1>4. CASE Return(t)
    BY <1>0, <1>1, <1>2, <1>4, ReturnEffect
<1>5. CASE thread' = [thread EXCEPT ![t].at = "spawn", ![t].n = Duration - tracker'[s].since]
    <2>1. /\ \A u \in Threads \ {t} : thread'[u] = thread[u]
          /\ thread'[t].at = "spawn" /\ thread'[t].s = s
        BY <1>0, <1>5 DEF ThreadsOK, Doing
    <2> QED BY <1>1, <1>2, <2>1
<1> QED BY <1>3, <1>4, <1>5 DEF Check

\* What it tells the client.
LEMMA CheckAnswers ==
    ASSUME TypeInv, NEW t \in Threads, NEW s \in Sessions, Check(t, s)
    PROVE  \/ /\ tracker'[s].mCurrentMode = "permanent"
              /\ told'[s].permanent = TRUE /\ told'[s].free = 0
              /\ thread'[t].at = "abort"
           \/ /\ tracker'[s].mCurrentMode = "timed"
              /\ told'[s].permanent = told[s].permanent /\ told'[s].free = 0
              /\ thread'[t].at = "spawn"
           \/ /\ tracker'[s].mCurrentMode \in {"none", "garbage"}
              /\ told'[s].permanent = told[s].permanent
              /\ told'[s].free = IF Counted(t, s) THEN AtMost(told[s].free + 1) ELSE told[s].free
              /\ thread'[t].at \in {"idle", "device"}
<1>0. ThreadsOK /\ ToldOK /\ thread[t] \in Doing /\ told[s].free \in Nat
    BY DEF TypeInv, ThreadsOK, ToldOK
<1>1. CASE /\ tracker'[s].mCurrentMode = "permanent"
           /\ told' = [told EXCEPT ![s].permanent = TRUE, ![s].owed = FALSE, ![s].free = 0]
           /\ Goto(t, "abort")
    <2>1. told'[s].permanent = TRUE /\ told'[s].free = 0
        BY <1>0, <1>1 DEF ToldOK
    <2> QED BY <1>1, <2>1, GotoEffect
<1>2. CASE /\ tracker'[s].mCurrentMode = "timed"
           /\ told' = [told EXCEPT ![s].owed = @ \/ ~timerFlag[s].aborted, ![s].free = 0]
           /\ thread' = [thread EXCEPT ![t].at = "spawn", ![t].n = Duration - tracker'[s].since]
    <2>1. told'[s].permanent = told[s].permanent /\ told'[s].free = 0
        BY <1>0, <1>2 DEF ToldOK
    <2>2. thread'[t].at = "spawn"
        BY <1>0, <1>2 DEF ThreadsOK, Doing
    <2> QED BY <1>2, <2>1, <2>2
<1>3. CASE /\ tracker'[s].mCurrentMode \in {"none", "garbage"}
           /\ told' = [told EXCEPT ![s].free = IF Counted(t, s) THEN AtMost(@ + 1) ELSE @]
           /\ Return(t)
    <2>1. /\ told'[s].permanent = told[s].permanent
          /\ told'[s].free = IF Counted(t, s) THEN AtMost(told[s].free + 1) ELSE told[s].free
        BY <1>0, <1>3 DEF ToldOK
    <2> QED BY <1>3, <2>1, ReturnEffect
<1> QED BY <1>1, <1>2, <1>3 DEF Check

LEMMA CheckOwn ==
    ASSUME TypeInv, NEW t \in Threads, NEW s \in Sessions, Check(t, s),
           ~Others(t, s), SessionInv(s)
    PROVE  SessionInv(s)'
<1>0. /\ thread[t].at = "check" /\ thread[t].s = s /\ tracker[s] \in Trackers
      /\ told[s].failures \in Nat /\ told[s].free \in Nat
      /\ Binder # Callback /\ Threads = {Binder, Callback}
    BY Thresholds DEF Check, TypeInv, TrackersOK, ToldOK, Threads, Binder, Callback
<1>1. /\ \A u \in Threads \ {t}, step \in Watched : ~At(u, step, s) /\ ~At(u, step, s)'
      /\ \A i \in Mine(s) : timer[i].at # "clear"
    BY CheckEffect, StaysAlone, ThreadAlone
<1>2. /\ ~Starting(s) /\ ~Starting(s)' /\ ~At(Callback, "count", s)' /\ ~At(Callback, "check", s)'
    BY <1>0, <1>1, CheckEffect DEF Starting, At, Watched
<1>3. /\ Mine(s)' = Mine(s) /\ \A i \in Mine(s)' : timer'[i].at # "clear"
      /\ timerFlag'[s] = timerFlag[s]
    BY <1>1, CheckEffect DEF Mine
<1>4. /\ tracker'[s].mFailedCount = tracker[s].mFailedCount
      /\ told'[s].failures = told[s].failures
      /\ tracker'[s].mCurrentMode = "permanent" <=> tracker[s].mCurrentMode = "permanent"
    BY <1>0, CheckEffect, GetModeFields
<1>5. CountInv(s)' /\ PendingInv(s)'
    BY <1>2, <1>4 DEF SessionInv, CountInv, PendingInv
<1>6. TimerInv(s)'
    BY <1>2, <1>3 DEF SessionInv, TimerInv
<1>7. SpawnInv(s)'
    BY <1>1, CheckAnswers DEF SpawnInv, At, Watched
<1>8. PermanentInv(s)'
    <2>1. told'[s].permanent => tracker'[s].mCurrentMode = "permanent"
        BY <1>4, CheckAnswers DEF SessionInv, PermanentInv
    <2>2. ASSUME tracker'[s].mCurrentMode = "permanent", ~At(Callback, "abort", s)'
          PROVE  timerFlag'[s].aborted \/ Mine(s)' = {}
        <3>1. thread'[t].at = "abort" /\ thread'[t].s = s
            BY <2>2, CheckAnswers, CheckEffect
        <3>2. t = Binder
            BY <1>0, <2>2, <3>1 DEF At
        <3>3. ~At(Callback, "check", s) /\ ~At(Callback, "abort", s)
            BY <1>0, <1>1, <3>2 DEF Watched
        <3> QED BY <1>3, <1>4, <2>2, <3>3 DEF SessionInv, PermanentInv
    <2> QED BY <1>3, <2>1, <2>2 DEF PermanentInv
<1>9. AnsweredInv(s)'
    <2>1. CASE told'[s].free = 0
        BY <1>0, <1>4, <2>1, Thresholds DEF AnsweredInv
    <2>2. CASE /\ tracker'[s].mCurrentMode \in {"none", "garbage"}
               /\ told'[s].free = IF Counted(t, s) THEN AtMost(told[s].free + 1) ELSE told[s].free
        <3>1. CASE t = Binder
            <4>1. told'[s].free = told[s].free
                BY <1>0, <2>2, <3>1 DEF Counted
            <4>2. ~At(Callback, "check", s)
                BY <1>0, <1>1, <3>1 DEF Watched
            <4>3. tracker'[s].mCurrentMode = "garbage" => tracker[s].mCurrentMode = "garbage"
                BY <1>0, CheckEffect, GetModeFields
            <4> QED BY <1>4, <2>2, <4>1, <4>2, <4>3 DEF SessionInv, AnsweredInv
        <3>2. CASE t = Callback
            <4>1. At(Callback, "check", s)
                BY <1>0, <3>2 DEF At
            <4>2. CASE tracker[s].mCurrentMode = "garbage"
                BY <1>0, <2>1, <2>2, <4>1, <4>2 DEF SessionInv, PendingInv, Counted
            <4>3. CASE tracker[s].mCurrentMode = "none"
                <5>1. /\ told[s].failures < TimedThreshold /\ told[s].free + 1 <= told[s].failures
                    BY <4>1, <4>3 DEF SessionInv, PendingInv
                <5>2. tracker'[s].mCurrentMode = "none"
                    BY <1>0, <4>3, CheckEffect, GetModeFields
                <5>3. told'[s].free <= told[s].free + 1
                    BY <1>0, <2>2, AtMostIs, Thresholds
                <5>4. told'[s].free \in Nat
                    BY <1>0, <2>2, AtMostIs, Thresholds
                <5> QED BY <1>0, <1>4, <5>1, <5>2, <5>3, <5>4, Thresholds DEF AnsweredInv
            <4>4. CASE tracker[s].mCurrentMode = "timed"
                <5>1. tracker[s].since = Duration /\ tracker'[s].mCurrentMode = "none"
                    BY <1>0, <2>2, <4>4, CheckEffect, GetModeFields
                <5>2. told[s].free = 0 /\ told[s].failures >= 1
                    BY <4>1, <4>4, <5>1 DEF SessionInv, PendingInv
                <5>3. told'[s].free \in {0, 1}
                    BY <2>2, <5>2, AtMostIs, Thresholds
                <5> QED BY <1>0, <1>4, <5>1, <5>2, <5>3, Thresholds DEF AnsweredInv
            <4>5. tracker[s].mCurrentMode # "permanent"
                BY <1>4, <2>2
            <4>6. tracker[s].mCurrentMode \in Modes
                BY <1>0 DEF Trackers
            <4> QED BY <4>2, <4>3, <4>4, <4>5, <4>6 DEF Modes
        <3> QED BY <1>0, <3>1, <3>2
    <2> QED BY <2>1, <2>2, CheckAnswers
<1> QED BY <1>5, <1>6, <1>7, <1>8, <1>9 DEF SessionInv

\* What is common to the steps after the check, and to that after a reset: they
\* neither count nor answer.
LEMMA QuietOwn ==
    ASSUME TypeInv, NEW t \in Threads, NEW s \in Sessions, ~Others(t, s), SessionInv(s),
           thread[t].s = s, thread[t].at \in {"abort", "spawn", "started", "reset"},
           thread'[t].at \in {"idle", "device", "started"},
           \A u \in Threads \ {t} : thread'[u] = thread[u],
           tracker'[s] = tracker[s], told'[s] = told[s]
    PROVE  /\ CountInv(s)' /\ PendingInv(s)' /\ AnsweredInv(s)' /\ SpawnInv(s)'
           /\ Starting(s) <=> thread[t].at = "started"
           /\ Starting(s)' <=> thread'[t].at = "started" /\ thread'[t].s = s
           /\ \A i \in Mine(s) : timer[i].at # "clear"
<1>0. Binder # Callback /\ Threads = {Binder, Callback}
    BY DEF Threads, Binder, Callback
<1>1. /\ \A u \in Threads \ {t}, step \in Watched : ~At(u, step, s) /\ ~At(u, step, s)'
      /\ \A i \in Mine(s) : timer[i].at # "clear"
    BY StaysAlone, ThreadAlone
<1>2. /\ ~At(Callback, "count", s)' /\ ~At(Callback, "check", s)' /\ ~At(Callback, "check", s)
      /\ \A u \in Threads : ~At(u, "spawn", s)'
    BY <1>0, <1>1 DEF At, Watched
<1>3. /\ Starting(s) <=> thread[t].at = "started"
      /\ Starting(s)' <=> thread'[t].at = "started" /\ thread'[t].s = s
    BY <1>1 DEF Starting, At, Watched
<1> QED BY <1>1, <1>2, <1>3 DEF SessionInv, CountInv, PendingInv, AnsweredInv, SpawnInv

LEMMA AbortOwn ==
    ASSUME TypeInv, NEW t \in Threads, NEW s \in Sessions, Abort(t, s),
           ~Others(t, s), SessionInv(s)
    PROVE  SessionInv(s)'
<1>1. /\ thread[t].at = "abort" /\ thread[t].s = s /\ thread'[t].at \in {"idle", "device"}
      /\ \A u \in Threads \ {t} : thread'[u] = thread[u]
      /\ tracker'[s] = tracker[s] /\ told'[s] = told[s] /\ timer' = timer
    BY ReturnEffect DEF Abort
<1>2. timerFlag'[s].aborted = TRUE /\ timerFlag'[s].started = timerFlag[s].started
    BY DEF Abort, TypeInv, FlagsOK
<1>3. /\ CountInv(s)' /\ PendingInv(s)' /\ AnsweredInv(s)' /\ SpawnInv(s)'
      /\ ~Starting(s) /\ ~Starting(s)' /\ \A i \in Mine(s) : timer[i].at # "clear"
    BY <1>1, QuietOwn
<1>4. Mine(s)' = Mine(s)
    BY <1>1 DEF Mine
<1>5. PermanentInv(s)' /\ TimerInv(s)'
    BY <1>1, <1>2, <1>3, <1>4 DEF SessionInv, PermanentInv, TimerInv
<1> QED BY <1>3, <1>5 DEF SessionInv

LEMMA StartOwn ==
    ASSUME TypeInv, NEW t \in Threads, NEW s \in Sessions, startLockoutTimer(t, s),
           ~Others(t, s), SessionInv(s)
    PROVE  SessionInv(s)'
<1>1. /\ thread[t].at = "spawn" /\ thread[t].s = s
      /\ tracker'[s] = tracker[s] /\ told'[s] = told[s] /\ timerFlag'[s] = timerFlag[s]
    BY DEF startLockoutTimer
<1>2. tracker[s].mCurrentMode = "timed"
    BY <1>1 DEF SessionInv, SpawnInv, At
<1>3. PermanentInv(s)'
    BY <1>1, <1>2 DEF SessionInv, PermanentInv
<1>4. CASE timerFlag[s].started
    <2>1. /\ thread'[t].at \in {"idle", "device"} /\ \A u \in Threads \ {t} : thread'[u] = thread[u]
          /\ timer' = timer
        BY <1>4, ReturnEffect DEF startLockoutTimer
    <2>2. CountInv(s)' /\ PendingInv(s)' /\ AnsweredInv(s)' /\ SpawnInv(s)'
        BY <1>1, <2>1, QuietOwn
    <2>3. Mine(s)' = Mine(s)
        BY <2>1 DEF Mine
    <2>4. TimerInv(s)'
        BY <1>1, <1>4, <2>3 DEF SessionInv, TimerInv
    <2> QED BY <1>3, <2>2, <2>4 DEF SessionInv
<1>5. CASE ~timerFlag[s].started
    <2>1. PICK i \in Timers : timer' = [timer EXCEPT ![i] =
                                [s |-> s, left |-> thread[t].n, at |-> "asleep"]]
        BY <1>5 DEF startLockoutTimer
    <2>2. Goto(t, "started")
        BY <1>5 DEF startLockoutTimer
    <2>3. /\ thread'[t].at = "started" /\ thread'[t].s = s
          /\ \A u \in Threads \ {t} : thread'[u] = thread[u]
        BY <1>1, <2>2, GotoEffect
    <2>4. /\ CountInv(s)' /\ PendingInv(s)' /\ AnsweredInv(s)' /\ SpawnInv(s)'
          /\ ~Starting(s) /\ Starting(s)'
        BY <1>1, <2>3, QuietOwn
    <2>5. Mine(s) = {}
        BY <1>5, <2>4 DEF SessionInv, TimerInv
    <2>6. Mine(s)' = {i}
        BY <2>1, <2>5 DEF Mine, TypeInv, TimersOK
    <2>7. TimerInv(s)'
        BY <2>4, <2>6 DEF TimerInv
    <2> QED BY <1>3, <2>4, <2>7 DEF SessionInv
<1> QED BY <1>4, <1>5

LEMMA StartedOwn ==
    ASSUME TypeInv, NEW t \in Threads, NEW s \in Sessions, TimerStarted(t, s),
           ~Others(t, s), SessionInv(s)
    PROVE  SessionInv(s)'
<1>0. Binder # Callback /\ Threads = {Binder, Callback}
    BY DEF Threads, Binder, Callback
<1>1. /\ thread[t].at = "started" /\ thread[t].s = s /\ thread'[t].at \in {"idle", "device"}
      /\ \A u \in Threads \ {t} : thread'[u] = thread[u]
      /\ tracker'[s] = tracker[s] /\ told'[s] = told[s] /\ timer' = timer
    BY ReturnEffect DEF TimerStarted
<1>2. timerFlag'[s].started = TRUE /\ timerFlag'[s].aborted = timerFlag[s].aborted
    BY DEF TimerStarted, TypeInv, FlagsOK
<1>3. /\ CountInv(s)' /\ PendingInv(s)' /\ AnsweredInv(s)' /\ SpawnInv(s)'
      /\ Starting(s) /\ \A i \in Mine(s) : timer[i].at # "clear"
    BY <1>1, QuietOwn
<1>4. Mine(s)' = Mine(s)
    BY <1>1 DEF Mine
<1>5. ~At(Callback, "check", s) /\ ~At(Callback, "abort", s)
    BY <1>0, <1>1, ThreadAlone DEF At, Watched
<1>6. PermanentInv(s)' /\ TimerInv(s)'
    BY <1>1, <1>2, <1>3, <1>4, <1>5 DEF SessionInv, PermanentInv, TimerInv
<1> QED BY <1>3, <1>6 DEF SessionInv

LEMMA AbortTimerOwn ==
    ASSUME TypeInv, NEW s \in Sessions, AbortTimer(s), ~Others(Binder, s), SessionInv(s)
    PROVE  SessionInv(s)'
<1>0. Binder # Callback /\ Threads = {Binder, Callback}
    BY DEF Threads, Binder, Callback
<1>1. /\ thread[Binder].at = "reset" /\ thread[Binder].s = s /\ thread'[Binder].at = "idle"
      /\ \A u \in Threads \ {Binder} : thread'[u] = thread[u]
      /\ tracker'[s] = tracker[s] /\ told'[s] = told[s] /\ timer' = timer
    BY <1>0 DEF AbortTimer, TypeInv, ThreadsOK, Idle
<1>2. /\ timerFlag'[s].started = timerFlag[s].started
      /\ timerFlag[s].aborted => timerFlag'[s].aborted
    BY DEF AbortTimer, TypeInv, FlagsOK
<1>3. /\ CountInv(s)' /\ PendingInv(s)' /\ AnsweredInv(s)' /\ SpawnInv(s)'
      /\ ~Starting(s) /\ ~Starting(s)' /\ \A i \in Mine(s) : timer[i].at # "clear"
    BY <1>0, <1>1, QuietOwn
<1>4. Mine(s)' = Mine(s)
    BY <1>1 DEF Mine
<1>5. ~At(Callback, "check", s) /\ ~At(Callback, "abort", s)
    BY <1>0, ThreadAlone DEF Watched
<1>6. PermanentInv(s)' /\ TimerInv(s)'
    BY <1>1, <1>2, <1>3, <1>4, <1>5 DEF SessionInv, PermanentInv, TimerInv
<1> QED BY <1>3, <1>6 DEF SessionInv

-----------------------------------------------------------------------------
(* Resets, reports and failures *)

\* A reset by the client, or a success, of one that is alone.
LEMMA ForgivenOwn ==
    ASSUME NEW t \in Threads, NEW s \in Sessions, TypeInv, ~Others(t, s), SessionInv(s),
           \A step \in Watched : ~At(t, step, s) /\ ~At(t, step, s)',
           \A u \in Threads \ {t} : thread'[u] = thread[u],
           tracker'[s].mFailedCount = 0, tracker'[s].mCurrentMode = "none",
           told'[s].failures = 0, told'[s].free = 0, told'[s].permanent = FALSE,
           UNCHANGED <<timer, timerFlag>>
    PROVE  SessionInv(s)'
<1>1. \A u \in Threads, step \in Watched : ~At(u, step, s) /\ ~At(u, step, s)'
    BY StaysAlone
<1>2. /\ ~Starting(s) /\ ~Starting(s)'
      /\ ~At(Callback, "count", s)' /\ ~At(Callback, "check", s)'
      /\ \A u \in Threads : ~At(u, "spawn", s)'
    BY <1>1 DEF Starting, Watched, Threads
<1>3. Mine(s)' = Mine(s) /\ timerFlag'[s] = timerFlag[s]
    BY DEF Mine
<1>4. CountInv(s)' /\ PendingInv(s)' /\ AnsweredInv(s)' /\ SpawnInv(s)'
    BY <1>2 DEF CountInv, PendingInv, AnsweredInv, SpawnInv
<1>5. PermanentInv(s)'
    BY DEF PermanentInv
<1>6. TimerInv(s)'
    BY <1>2, <1>3 DEF SessionInv, TimerInv
<1> QED BY <1>4, <1>5, <1>6 DEF SessionInv

LEMMA ResetOwn ==
    ASSUME TypeInv, NEW s \in Sessions, resetLockout(s), ~Others(Binder, s), SessionInv(s)
    PROVE  SessionInv(s)'
<1>0. Binder \in Threads
    BY DEF Threads
<1>1. /\ thread[Binder].at = "idle" /\ thread'[Binder].at = "reset"
      /\ \A u \in Threads \ {Binder} : thread'[u] = thread[u]
    BY <1>0 DEF resetLockout, BinderIdle, Idle, Call, TypeInv, ThreadsOK, Doing
<1>2. \A step \in Watched : ~At(Binder, step, s) /\ ~At(Binder, step, s)'
    BY <1>1 DEF At, Watched
<1>3. tracker'[s].mFailedCount = 0 /\ tracker'[s].mCurrentMode = "none"
    BY ResetType DEF resetLockout, TypeInv, TrackersOK
<1>4. told'[s].failures = 0 /\ told'[s].free = 0 /\ told'[s].permanent = FALSE
    BY DEF resetLockout, TypeInv, ToldOK
<1>5. UNCHANGED <<timer, timerFlag>>
    BY DEF resetLockout
<1> QED BY <1>0, <1>1, <1>2, <1>3, <1>4, <1>5, ForgivenOwn

LEMMA ReportOwn ==
    ASSUME TypeInv, NEW s \in Sessions, Report(s), ~Others(Callback, s), SessionInv(s)
    PROVE  SessionInv(s)'
<1>0. Callback \in Threads
    BY DEF Threads
<1>1. /\ thread[Callback].at = "notify" /\ thread'[Callback].at = "idle"
      /\ \A u \in Threads \ {Callback} : thread'[u] = thread[u]
    BY <1>0 DEF Report, Idle, TypeInv, ThreadsOK
<1>2. \A step \in Watched : ~At(Callback, step, s) /\ ~At(Callback, step, s)'
    BY <1>1 DEF At, Watched
<1>3. UNCHANGED <<timer, timerFlag>>
    BY DEF Report
<1>4. CASE UNCHANGED <<tracker, told>>
    <2>1. SameThreads(s)
        BY <1>0, <1>1, <1>2 DEF SameThreads, Watched, At
    <2> QED BY <1>3, <1>4, <2>1, Frame DEF Untouched, SameLockout, SameTimers
<1>5. CASE /\ tracker' = [tracker EXCEPT ![s] = reset(@, TRUE)]
           /\ told' = [told EXCEPT ![s].failures = 0, ![s].free = 0, ![s].permanent = FALSE]
    <2>1. tracker'[s].mFailedCount = 0 /\ tracker'[s].mCurrentMode = "none"
        BY <1>5, ResetType DEF TypeInv, TrackersOK
    <2>2. told'[s].failures = 0 /\ told'[s].free = 0 /\ told'[s].permanent = FALSE
        BY <1>5 DEF TypeInv, ToldOK
    <2> QED BY <1>0, <1>1, <1>2, <1>3, <2>1, <2>2, ForgivenOwn
<1> QED BY <1>4, <1>5 DEF Report

LEMMA ReportFailureOwn ==
    ASSUME TypeInv, NEW s \in Sessions, ReportFailure(s), ~Others(Callback, s), SessionInv(s)
    PROVE  SessionInv(s)'
<1>0. Binder # Callback /\ Threads = {Binder, Callback}
    BY DEF Threads, Binder, Callback
<1>1. /\ thread[Callback].at = "notify"
      /\ thread'[Callback].at = "count" /\ thread'[Callback].n = tracker[s].mFailedCount
      /\ \A u \in Threads \ {Callback} : thread'[u] = thread[u]
    BY <1>0 DEF ReportFailure, TypeInv, ThreadsOK, Doing
<1>2. UNCHANGED <<tracker, told, timer, timerFlag>>
    BY DEF ReportFailure, lockout
<1>3. /\ ~At(Callback, "check", s) /\ ~At(Callback, "check", s)'
      /\ ~At(Callback, "abort", s)
      /\ \A t \in Threads : ~At(t, "spawn", s)' /\ ~At(t, "started", s) /\ ~At(t, "started", s)'
    BY <1>0, <1>1, StaysAlone DEF At, Watched
<1>4. Mine(s)' = Mine(s) /\ ~Starting(s) /\ ~Starting(s)'
    BY <1>2, <1>3 DEF Mine, Starting
<1>5. CountInv(s)' /\ PendingInv(s)' /\ AnsweredInv(s)' /\ SpawnInv(s)'
    BY <1>1, <1>2, <1>3 DEF SessionInv, CountInv, PendingInv, AnsweredInv, SpawnInv
<1>6. PermanentInv(s)' /\ TimerInv(s)'
    BY <1>2, <1>3, <1>4 DEF SessionInv, PermanentInv, TimerInv
<1> QED BY <1>5, <1>6 DEF SessionInv

\* The failure is counted, and the lockout it may begin is answered by the check
\* that follows.
LEMMA CountFailureOwn ==
    ASSUME TypeInv, NEW s \in Sessions, CountFailure(s), ~Others(Callback, s), SessionInv(s)
    PROVE  SessionInv(s)'
<1> DEFINE k == told[s].failures
<1>0. /\ Binder # Callback /\ Threads = {Binder, Callback}
      /\ tracker[s] \in Trackers /\ k \in 0 .. PermanentThreshold /\ told[s].free \in Nat
    BY DEF Threads, Binder, Callback, TypeInv, TrackersOK, ToldOK
<1>1. /\ thread[Callback].at = "count" /\ thread[Callback].s = s
      /\ thread'[Callback].at = "check" /\ thread'[Callback].s = s
      /\ \A u \in Threads \ {Callback} : thread'[u] = thread[u]
    BY <1>0 DEF CountFailure, TypeInv, ThreadsOK, Doing
<1>2. thread[Callback].n = k /\ tracker[s].mFailedCount = k
    BY <1>1 DEF SessionInv, CountInv, At
<1>3. tracker'[s] = addFailedAttempt(tracker[s], k)
    BY <1>2 DEF CountFailure, TypeInv, TrackersOK
<1>4. /\ told'[s].failures = AtMost(k + 1) /\ told'[s].free = told[s].free
      /\ told'[s].permanent = told[s].permanent
      /\ UNCHANGED <<timer, timerFlag>>
    BY DEF CountFailure, TypeInv, ToldOK
<1>5. AtMost(k + 1) = IF k < PermanentThreshold THEN k + 1 ELSE PermanentThreshold
    BY <1>0, AtMostIs, Thresholds
<1>6. /\ tracker'[s].mFailedCount = AtMost(k + 1)
      /\ tracker'[s].mCurrentMode =
           IF AtMost(k + 1) >= PermanentThreshold THEN "permanent"
           ELSE IF AtMost(k + 1) >= TimedThreshold /\ tracker[s].mCurrentMode = "none" THEN "timed"
           ELSE tracker[s].mCurrentMode
      /\ tracker'[s].since = IF tracker'[s].mCurrentMode = tracker[s].mCurrentMode
                             THEN tracker[s].since ELSE 0
    BY <1>0, <1>3, AddFailedFields
<1>7. /\ \A u \in Threads : ~At(u, "spawn", s)' /\ ~At(u, "started", s) /\ ~At(u, "started", s)'
      /\ ~At(Callback, "check", s) /\ At(Callback, "check", s)' /\ ~At(Callback, "count", s)'
      /\ \A i \in Mine(s) : timer[i].at # "clear"
    BY <1>0, <1>1, StaysAlone, ThreadAlone DEF At, Watched
<1>8. Mine(s)' = Mine(s) /\ ~Starting(s) /\ ~Starting(s)' /\ timerFlag'[s] = timerFlag[s]
    BY <1>4, <1>7 DEF Mine, Starting
<1>9. CountInv(s)' /\ AnsweredInv(s)' /\ SpawnInv(s)'
    BY <1>4, <1>6, <1>7 DEF CountInv, AnsweredInv, SpawnInv
<1>10. PendingInv(s)'
    <2> DEFINE mode == tracker[s].mCurrentMode
               free == told[s].free
               after == tracker'[s].mCurrentMode
               next == told'[s].failures
    <2>1. /\ mode # "none" => free = 0
          /\ k < TimedThreshold => free <= k
          /\ k >= TimedThreshold => free <= 1
        BY <1>7 DEF SessionInv, AnsweredInv
    <2>2. next >= 1 /\ (k < TimedThreshold => next = k + 1)
          /\ (k >= TimedThreshold => next > TimedThreshold)
        BY <1>0, <1>4, <1>5, Thresholds
    <2>3. free <= Allowed(next)
        BY <1>0, <2>1, <2>2, Thresholds DEF Allowed
    <2>4. after = "none" => next < TimedThreshold /\ free + 1 <= next
        <3>1. after = "none" => mode = "none" /\ next < TimedThreshold
            BY <1>0, <1>4, <1>5, <1>6, Thresholds
        <3>2. next < TimedThreshold => k < TimedThreshold
            BY <1>0, <2>2, <1>4, <1>5, Thresholds
        <3>3. k < TimedThreshold => free + 1 <= next
            BY <1>0, <2>1, <2>2, <1>4, <1>5, Thresholds
        <3> QED BY <3>1, <3>2, <3>3
    <2>5. after = "garbage" => free = 0
        BY <1>6, <2>1
    <2>6. after = "timed" /\ tracker'[s].since = Duration => free = 0
        <3>1. after = "timed" /\ mode # "timed" => tracker'[s].since = 0
            BY <1>6
        <3> QED BY <2>1, <3>1, Thresholds
    <2> QED BY <1>4, <2>2, <2>3, <2>4, <2>5, <2>6 DEF PendingInv
<1>11. PermanentInv(s)'
    <2>1. tracker[s].mCurrentMode = "permanent" => tracker'[s].mCurrentMode = "permanent"
        BY <1>6
    <2>2. \A i \in Mine(s)' : timer'[i].at # "clear"
        BY <1>4, <1>7, <1>8
    <2> QED BY <1>4, <1>7, <2>1, <2>2 DEF SessionInv, PermanentInv
<1>12. TimerInv(s)'
    BY <1>8 DEF SessionInv, TimerInv
<1> QED BY <1>9, <1>10, <1>11, <1>12 DEF SessionInv

-----------------------------------------------------------------------------
(* The timers, and time *)

\* What holds of threads that are not at the session stays so when none moves.
LEMMA TimerQuiet ==
    ASSUME TypeInv, NEW i \in Timers, NEW s \in Sessions, ~Others(i, s), UNCHANGED thread
    PROVE  /\ ~At(Callback, "count", s)' /\ ~At(Callback, "check", s)' /\ ~At(Callback, "abort", s)'
           /\ ~At(Callback, "check", s) /\ ~At(Callback, "abort", s)
           /\ \A t \in Threads : ~At(t, "spawn", s)'
           /\ ~Starting(s) /\ ~Starting(s)'
           /\ \A j \in Mine(s) \ {i} : timer[j].at # "clear"
<1>1. \A t \in Threads, step \in Watched : ~At(t, step, s) /\ ~At(t, step, s)'
    BY TimerAlone DEF At
<1> QED BY <1>1, TimerAlone DEF Starting, Watched, Threads

LEMMA ExpiresOwn ==
    ASSUME TypeInv, NEW i \in Timers, NEW s \in Sessions, TimerExpires(i, s),
           ~Others(i, s), SessionInv(s)
    PROVE  SessionInv(s)'
<1>1. /\ UNCHANGED <<tracker, told, timerFlag, thread>>
      /\ timer[i].s = s /\ timer'[i].s = s
      /\ timer'[i].at = IF timerFlag[s].aborted THEN "flags" ELSE "clear"
      /\ \A j \in Timers \ {i} : timer'[j] = timer[j]
    BY DEF TimerExpires, TypeInv, TimersOK
<1>2. Mine(s)' = Mine(s) /\ i \in Mine(s)
    BY <1>1 DEF Mine
<1>3. CountInv(s)' /\ PendingInv(s)' /\ AnsweredInv(s)' /\ SpawnInv(s)'
    BY <1>1, TimerQuiet DEF SessionInv, CountInv, PendingInv, AnsweredInv, SpawnInv
<1>4. TimerInv(s)'
    BY <1>1, <1>2, TimerQuiet DEF SessionInv, TimerInv
<1>5. tracker[s].mCurrentMode = "permanent" => timerFlag[s].aborted
    BY <1>1, <1>2, TimerQuiet DEF SessionInv, PermanentInv
<1>6. tracker[s].mCurrentMode = "permanent" => \A j \in Mine(s)' : timer'[j].at # "clear"
    <2> SUFFICES ASSUME tracker[s].mCurrentMode = "permanent", NEW j \in Mine(s)
                 PROVE  timer'[j].at # "clear"
        BY <1>2
    <2>1. CASE j = i
        BY <1>1, <1>5, <2>1
    <2>2. CASE j # i
        BY <1>1, <2>2, TimerQuiet DEF Mine
    <2> QED BY <2>1, <2>2
<1>7. PermanentInv(s)'
    BY <1>1, <1>5, <1>6 DEF SessionInv, PermanentInv
<1> QED BY <1>3, <1>4, <1>7 DEF SessionInv

LEMMA ClearsOwn ==
    ASSUME TypeInv, NEW i \in Timers, NEW s \in Sessions, TimerClears(i, s),
           ~Others(i, s), SessionInv(s)
    PROVE  SessionInv(s)'
<1>1. /\ UNCHANGED <<timerFlag, thread>>
      /\ timer[i].s = s /\ timer'[i].s = s /\ timer[i].at = "clear"
      /\ \A j \in Timers \ {i} : timer'[j] = timer[j]
    BY DEF TimerClears, TypeInv, TimersOK
<1>2. Mine(s)' = Mine(s) /\ i \in Mine(s)
    BY <1>1 DEF Mine
<1>3. /\ told'[s].failures = told[s].failures /\ told'[s].free = told[s].free
      /\ told'[s].permanent = told[s].permanent
    BY DEF TimerClears, TypeInv, ToldOK
<1>4. tracker'[s].mFailedCount = tracker[s].mFailedCount /\ tracker'[s].mCurrentMode = "none"
    BY ResetType DEF TimerClears, TypeInv, TrackersOK
<1>5. CountInv(s)' /\ PendingInv(s)' /\ AnsweredInv(s)' /\ SpawnInv(s)'
    BY <1>1, <1>3, <1>4, TimerQuiet DEF SessionInv, CountInv, PendingInv, AnsweredInv, SpawnInv
<1>6. TimerInv(s)'
    BY <1>1, <1>2, TimerQuiet DEF SessionInv, TimerInv
<1>7. ~told[s].permanent
    BY <1>1, <1>2 DEF SessionInv, PermanentInv
<1>8. PermanentInv(s)'
    BY <1>3, <1>4, <1>7 DEF PermanentInv
<1> QED BY <1>5, <1>6, <1>8 DEF SessionInv

LEMMA EndsOwn ==
    ASSUME TypeInv, NEW i \in Timers, NEW s \in Sessions, TimerEnds(i, s),
           ~Others(i, s), SessionInv(s)
    PROVE  SessionInv(s)'
<1>1. /\ UNCHANGED <<tracker, told, thread>>
      /\ timer[i].s = s /\ timer'[i].s = None
      /\ \A j \in Timers \ {i} : timer'[j] = timer[j]
      /\ timerFlag'[s].started = FALSE
    BY DEF TimerEnds, TypeInv, TimersOK, FlagsOK, NoTimer
<1>2. Mine(s) = {i}
    <2>1. i \in Mine(s)
        BY <1>1 DEF Mine
    <2> QED BY <2>1 DEF SessionInv, TimerInv
<1>3. Mine(s)' = {}
    BY <1>1, <1>2, Distinct DEF Mine
<1>4. CountInv(s)' /\ PendingInv(s)' /\ AnsweredInv(s)' /\ SpawnInv(s)'
    BY <1>1, TimerQuiet DEF SessionInv, CountInv, PendingInv, AnsweredInv, SpawnInv
<1>5. TimerInv(s)'
    BY <1>1, <1>3, TimerQuiet DEF TimerInv
<1>6. PermanentInv(s)'
    BY <1>1, <1>3 DEF SessionInv, PermanentInv
<1> QED BY <1>4, <1>5, <1>6 DEF SessionInv

\* Time passes where nobody is at work.
LEMMA TickOwn ==
    ASSUME TypeInv, NEW s \in Sessions, Tick, s \notin Busy, SessionInv(s)
    PROVE  SessionInv(s)'
<1>1. /\ UNCHANGED <<told, timerFlag, thread>>
      /\ tracker'[s].mFailedCount = tracker[s].mFailedCount
      /\ tracker'[s].mCurrentMode = tracker[s].mCurrentMode
      /\ \A i \in Timers : timer'[i].s = timer[i].s /\ timer'[i].at = timer[i].at
    BY DEF Tick, TypeInv, TrackersOK, Trackers, TimersOK
<1>2. \A t \in Threads, step \in Watched : ~At(t, step, s)
    <2>1. ~Others(None, s) /\ Threads \ {None} = Threads
        BY Distinct DEF Busy
    <2> QED BY <2>1 DEF Others, Watched, At
<1>3. /\ ~At(Callback, "count", s) /\ ~At(Callback, "check", s) /\ ~At(Callback, "abort", s)
      /\ \A t \in Threads : ~At(t, "spawn", s)
    BY <1>2 DEF Watched, Threads
<1>4. /\ \A t, step : At(t, step, s)' <=> At(t, step, s)
      /\ Starting(s)' <=> Starting(s)
    BY <1>1 DEF At, Starting
<1>5. Mine(s)' = Mine(s)
    BY <1>1 DEF Mine
<1>6. CountInv(s)' /\ PendingInv(s)' /\ AnsweredInv(s)' /\ SpawnInv(s)'
    BY <1>1, <1>3, <1>4 DEF SessionInv, CountInv, PendingInv, AnsweredInv, SpawnInv
<1>7. TimerInv(s)'
    BY <1>1, <1>4, <1>5 DEF SessionInv, TimerInv
<1>8. (\E i \in Mine(s)' : timer'[i].at = "clear") => (\E i \in Mine(s) : timer[i].at = "clear")
    BY <1>1, <1>5 DEF Mine
<1>9. PermanentInv(s)'
    BY <1>1, <1>4, <1>5, <1>8 DEF SessionInv, PermanentInv
<1> QED BY <1>6, <1>7, <1>9 DEF SessionInv

-----------------------------------------------------------------------------
(* Steps that leave the lockout alone *)

LEMMA BinderElsewhere ==
    ASSUME TypeInv, NEW s \in Sessions,
           \/ createSession(s) \/ authenticate(s) \/ close(s) \/ cancel(s)
           \/ AuthenticateDevice(s) \/ CancelDevice(s) \/ CancelReturns(s)
    PROVE  OnlyAbout(s) /\ Untouched(s)
<1>0. Binder # Callback /\ Threads = {Binder, Callback}
    BY DEF Threads, Binder, Callback
<1>1. UNCHANGED lockout
    BY DEF createSession, authenticate, close, cancel, AuthenticateDevice, CancelDevice, CancelReturns
<1>2. thread'[Callback] = thread[Callback]
    BY <1>0 DEF createSession, authenticate, close, cancel, AuthenticateDevice, CancelDevice,
                CancelReturns, Call, TypeInv, ThreadsOK
<1>3. \/ thread'[Binder] = thread[Binder]
      \/ /\ thread[Binder].at \in {"idle", "device", "cancel", "cancelled"}
         /\ thread[Binder].at # "idle" => thread[Binder].s = s
         /\ thread'[Binder].at \in {"idle", "check", "cancel", "cancelled"}
         /\ thread'[Binder].at # "idle" => thread'[Binder].s = s
    <2>1. CASE createSession(s) \/ close(s)
        BY <2>1 DEF createSession, close
    <2>2. CASE authenticate(s) \/ cancel(s)
        BY <1>0, <2>2 DEF authenticate, cancel, BinderIdle, Idle, Call, TypeInv, ThreadsOK, Doing
    <2>3. CASE AuthenticateDevice(s) \/ CancelReturns(s)
        BY <1>0, <2>3 DEF AuthenticateDevice, CancelReturns, Idle, TypeInv, ThreadsOK, Doing
    <2>4. CASE CancelDevice(s)
        <3>1. PICK n \in {0, 1} :
                 thread' = [thread EXCEPT ![Binder].at = "cancelled", ![Binder].n = n]
            BY <2>4 DEF CancelDevice
        <3> QED BY <1>0, <2>4, <3>1 DEF CancelDevice, TypeInv, ThreadsOK, Doing
    <2> QED BY <2>1, <2>2, <2>3, <2>4
<1>4. OnlyAbout(s)
    BY <1>0, <1>1, <1>2, <1>3 DEF OnlyAbout, SameLockout, lockout
<1>5. SameThreads(s)
    BY <1>0, <1>2, <1>3 DEF SameThreads, At
<1> QED BY <1>1, <1>4, <1>5 DEF Untouched, SameLockout, SameTimers, lockout

LEMMA NotifyElsewhere ==
    ASSUME TypeInv, NEW r \in Reports, notify(r), NEW s \in Sessions
    PROVE  Untouched(s)
<1>0. Binder # Callback /\ Threads = {Binder, Callback}
    BY DEF Threads, Binder, Callback
<1>1. /\ UNCHANGED lockout /\ thread'[Binder] = thread[Binder]
      /\ thread[Callback].at = "idle" /\ thread'[Callback].at \in {"idle", "notify"}
    BY <1>0 DEF notify, Idle, TypeInv, ThreadsOK
<1>2. SameThreads(s)
    BY <1>0, <1>1 DEF SameThreads, At
<1> QED BY <1>1, <1>2 DEF Untouched, SameLockout, SameTimers, lockout

-----------------------------------------------------------------------------
(* Every step is about one session *)

LEMMA CheckStepAbout ==
    ASSUME TypeInv, NEW t \in Threads, NEW s \in Sessions, CheckStep(t, s)
    PROVE  OnlyAbout(s)
<1>1. CASE Check(t, s)
    <2>1. thread[t].s = s /\ timer' = timer /\ timerFlag' = timerFlag
        BY <1>1, CheckEffect DEF Check
    <2>2. thread'[t].s = s \/ thread'[t].at \in {"idle", "notify"}
        <3>1. CASE thread'[t].at \in {"abort", "spawn"}
            BY <1>1, <3>1, CheckEffect
        <3>2. CASE Return(t)
            <4>1. CASE Goto(t, "device")
                BY <2>1, <4>1, GotoEffect
            <4>2. CASE thread' = [thread EXCEPT ![t] = Idle]
                BY <4>2 DEF TypeInv, ThreadsOK, Idle
            <4> QED BY <3>2, <4>1, <4>2 DEF Return
        <3>3. CASE Goto(t, "abort")
            BY <2>1, <3>3, GotoEffect
        <3>4. CASE thread' = [thread EXCEPT ![t].at = "spawn", ![t].n = Duration - tracker'[s].since]
            BY <2>1, <3>4 DEF TypeInv, ThreadsOK, Doing
        <3> QED BY <1>1, <3>2, <3>3, <3>4 DEF Check
    <2> QED BY <1>1, <2>1, <2>2, CheckEffect DEF OnlyAbout, SameLockout
<1>2. CASE Abort(t, s) \/ startLockoutTimer(t, s) \/ TimerStarted(t, s)
    <2>1. /\ thread[t].s = s /\ UNCHANGED <<tracker, told>>
          /\ Goto(t, "started") \/ Return(t)
        BY <1>2 DEF Abort, startLockoutTimer, TimerStarted
    <2>2. /\ \A u \in Threads \ {t} : thread'[u] = thread[u]
          /\ thread'[t].s = s \/ thread'[t].at \in {"idle", "notify"}
        <3>1. CASE Goto(t, "started") \/ Goto(t, "device")
            BY <2>1, <3>1, GotoEffect
        <3>2. CASE thread' = [thread EXCEPT ![t] = Idle]
            BY <3>2 DEF TypeInv, ThreadsOK, Idle
        <3> QED BY <2>1, <3>1, <3>2 DEF Return
    <2>3. \A x \in Sessions \ {s} : timerFlag'[x] = timerFlag[x]
        BY <1>2 DEF Abort, startLockoutTimer, TimerStarted, TypeInv, FlagsOK
    <2>4. \A i \in Timers :
            timer'[i] = timer[i] \/ (timer[i].s \in {s, None} /\ timer'[i].s \in {s, None})
        <3>1. CASE timer' = timer
            BY <3>1
        <3>2. CASE startLockoutTimer(t, s) /\ ~timerFlag[s].started
            <4>1. PICK i \in Timers : /\ timer[i] = NoTimer
                                      /\ timer' = [timer EXCEPT ![i] =
                                            [s |-> s, left |-> thread[t].n, at |-> "asleep"]]
                BY <3>2 DEF startLockoutTimer
            <4> QED BY <4>1 DEF NoTimer, TypeInv, TimersOK
        <3> QED BY <1>2, <3>1, <3>2 DEF Abort, startLockoutTimer, TimerStarted
    <2> QED BY <2>1, <2>2, <2>3, <2>4 DEF OnlyAbout, SameLockout
<1> QED BY <1>1, <1>2 DEF CheckStep

LEMMA BinderAbout ==
    ASSUME TypeInv, NEW s \in Sessions, BinderStep(s) \/ BinderCall(s)
    PROVE  OnlyAbout(s)
<1>0. Binder # Callback /\ Threads = {Binder, Callback}
    BY DEF Threads, Binder, Callback
<1>1. CASE CheckStep(Binder, s)
    BY <1>0, <1>1, CheckStepAbout
<1>2. CASE AbortTimer(s)
    <2>1. thread[Binder].s = s /\ thread'[Binder].at = "idle" /\ thread'[Callback] = thread[Callback]
        BY <1>0, <1>2 DEF AbortTimer, Idle, TypeInv, ThreadsOK
    <2>2. /\ \A x \in Sessions \ {s} : SameLockout(x)
          /\ timer' = timer
        BY <1>2 DEF AbortTimer, SameLockout, TypeInv, FlagsOK
    <2> QED BY <1>0, <2>1, <2>2 DEF OnlyAbout
<1>3. CASE resetLockout(s)
    <2>1. /\ thread[Binder].at = "idle" /\ thread'[Binder].s = s
          /\ thread'[Callback] = thread[Callback]
        BY <1>0, <1>3 DEF resetLockout, BinderIdle, Idle, Call, TypeInv, ThreadsOK, Doing
    <2>2. /\ \A x \in Sessions \ {s} : SameLockout(x)
          /\ timer' = timer
        BY <1>3 DEF resetLockout, SameLockout, TypeInv, TrackersOK, ToldOK
    <2> QED BY <1>0, <2>1, <2>2 DEF OnlyAbout
<1> QED BY <1>1, <1>2, <1>3, BinderElsewhere DEF BinderStep, BinderCall

LEMMA CallbackAbout ==
    ASSUME TypeInv, NEW s \in Sessions, CallbackStep(s)
    PROVE  OnlyAbout(s)
<1>0. Binder # Callback /\ Threads = {Binder, Callback}
    BY DEF Threads, Binder, Callback
<1>1. CASE CheckStep(Callback, s)
    BY <1>0, <1>1, CheckStepAbout
<1>2. CASE Report(s)
    <2>1. thread[Callback].at = "notify" /\ thread'[Callback].at = "idle" /\ thread'[Binder] = thread[Binder]
        BY <1>0, <1>2 DEF Report, Idle, TypeInv, ThreadsOK
    <2>2. \A x \in Sessions \ {s} : SameLockout(x)
        BY <1>2 DEF Report, SameLockout, TypeInv, TrackersOK, ToldOK
    <2>3. timer' = timer
        BY <1>2 DEF Report
    <2> QED BY <1>0, <2>1, <2>2, <2>3 DEF OnlyAbout
<1>3. CASE ReportFailure(s)
    <2>1. /\ thread[Callback].at = "notify" /\ thread'[Callback].s = s
          /\ thread'[Binder] = thread[Binder] /\ UNCHANGED lockout
        BY <1>0, <1>3 DEF ReportFailure, TypeInv, ThreadsOK, Doing
    <2> QED BY <1>0, <2>1 DEF OnlyAbout, SameLockout, lockout
<1>4. CASE CountFailure(s)
    <2>1. thread[Callback].s = s /\ thread'[Callback].s = s /\ thread'[Binder] = thread[Binder]
        BY <1>0, <1>4 DEF CountFailure, TypeInv, ThreadsOK, Doing
    <2>2. /\ \A x \in Sessions \ {s} : SameLockout(x)
          /\ timer' = timer
        BY <1>4 DEF CountFailure, SameLockout, TypeInv, TrackersOK, ToldOK
    <2> QED BY <1>0, <2>1, <2>2 DEF OnlyAbout
<1> QED BY <1>1, <1>2, <1>3, <1>4 DEF CallbackStep

LEMMA TimerAbout ==
    ASSUME TypeInv, NEW i \in Timers, NEW s \in Sessions, TimerStep(i, s)
    PROVE  OnlyAbout(s)
<1>1. /\ thread' = thread /\ timer[i].s = s /\ timer'[i].s \in {s, None}
      /\ \A j \in Timers \ {i} : timer'[j] = timer[j]
    <2>1. CASE TimerExpires(i, s)
        BY <2>1 DEF TimerExpires, TypeInv, TimersOK
    <2>2. CASE TimerClears(i, s)
        BY <2>2 DEF TimerClears, TypeInv, TimersOK
    <2>3. CASE TimerEnds(i, s)
        BY <2>3 DEF TimerEnds, NoTimer, TypeInv, TimersOK
    <2> QED BY <2>1, <2>2, <2>3 DEF TimerStep
<1>2. \A x \in Sessions \ {s} : SameLockout(x)
    BY DEF TimerStep, TimerExpires, TimerClears, TimerEnds, SameLockout, TypeInv, TrackersOK, FlagsOK, ToldOK
<1> QED BY <1>1, <1>2 DEF OnlyAbout

-----------------------------------------------------------------------------
(* The theorem *)

\* A step of a about s, and one session that is not raced after it.
LEMMA OneSession ==
    ASSUME LockInv, NEW a, NEW s \in Sessions, Meet(a, s), OnlyAbout(s),
           ~Others(a, s) /\ SessionInv(s) => SessionInv(s)'
    PROVE  LockInv'
<1> SUFFICES ASSUME NEW x \in Sessions, x \notin raced' PROVE SessionInv(x)'
    BY DEF LockInv
<1>1. x \notin raced
    BY DEF Meet
<1>2. SessionInv(x)
    BY <1>1 DEF LockInv
<1>3. CASE x = s
    BY <1>2, <1>3 DEF Meet
<1>4. CASE x # s
    BY <1>2, <1>4, OthersUntouched, Frame
<1> QED BY <1>3, <1>4

LEMMA LockStep == TypeInv /\ LockInv /\ [Next]_vars => LockInv'
<1> SUFFICES ASSUME TypeInv, LockInv, [Next]_vars PROVE LockInv'
    OBVIOUS
<1>0. Binder \in Threads /\ Callback \in Threads
    BY DEF Threads
<1>1. ASSUME NEW t \in Threads, NEW s \in Sessions, CheckStep(t, s), ~Others(t, s), SessionInv(s)
      PROVE  SessionInv(s)'
    BY <1>1, CheckOwn, AbortOwn, StartOwn, StartedOwn DEF CheckStep
<1>2. ASSUME NEW s \in Sessions, BinderStep(s) \/ BinderCall(s), Meet(Binder, s) PROVE LockInv'
    <2>1. ~Others(Binder, s) /\ SessionInv(s) => SessionInv(s)'
        <3> SUFFICES ASSUME ~Others(Binder, s), SessionInv(s) PROVE SessionInv(s)'
            OBVIOUS
        <3>1. CASE CheckStep(Binder, s)
            BY <1>0, <1>1, <3>1
        <3>2. CASE AbortTimer(s)
            BY <3>2, AbortTimerOwn
        <3>3. CASE resetLockout(s)
            BY <3>3, ResetOwn
        <3>4. CASE \/ createSession(s) \/ authenticate(s) \/ close(s) \/ cancel(s)
                   \/ AuthenticateDevice(s) \/ CancelDevice(s) \/ CancelReturns(s)
            BY <3>4, BinderElsewhere, Frame
        <3> QED BY <1>2, <3>1, <3>2, <3>3, <3>4 DEF BinderStep, BinderCall
    <2>2. OnlyAbout(s)
        BY <1>2, BinderAbout
    <2> QED BY <1>2, <2>1, <2>2, OneSession
<1>3. ASSUME NEW r \in Reports, notify(r), Cross(r) PROVE LockInv'
    <2>1. raced \subseteq raced'
        BY <1>3 DEF Cross, TypeInv
    <2> QED BY <1>3, <2>1, NotifyElsewhere, Frame DEF LockInv
<1>4. ASSUME NEW s \in Sessions, CallbackStep(s), Meet(Callback, s) PROVE LockInv'
    <2>1. ~Others(Callback, s) /\ SessionInv(s) => SessionInv(s)'
        BY <1>0, <1>1, <1>4, ReportOwn, ReportFailureOwn, CountFailureOwn DEF CallbackStep
    <2>2. OnlyAbout(s)
        BY <1>4, CallbackAbout
    <2> QED BY <1>4, <2>1, <2>2, OneSession
<1>5. ASSUME NEW i \in Timers, NEW s \in Sessions, TimerStep(i, s), Meet(i, s) PROVE LockInv'
    <2>1. ~Others(i, s) /\ SessionInv(s) => SessionInv(s)'
        BY <1>5, ExpiresOwn, ClearsOwn, EndsOwn DEF TimerStep
    <2>2. OnlyAbout(s)
        BY <1>5, TimerAbout
    <2> QED BY <1>5, <2>1, <2>2, OneSession
<1>6. CASE Tick /\ raced' = raced \cup Busy
    BY <1>6, TickOwn DEF LockInv
<1>7. CASE UNCHANGED vars
    <2>1. \A s \in Sessions : Untouched(s)
        BY <1>7 DEF vars, Untouched, SameLockout, SameTimers, SameThreads, At
    <2> QED BY <1>7, <2>1, Frame DEF LockInv, vars
<1> QED BY <1>2, <1>3, <1>4, <1>5, <1>6, <1>7 DEF Next

\* In a session in which no two threads meet and none is caught by a tick, a
\* client that fails too often is locked out, a permanent lockout it knows of
\* stays, and a timed one has exactly one timer.
THEOREM LockoutsAreKept == Spec => []LockoutsHold
<1>1. TypeInv /\ LockInv => LockoutsHold
    <2> SUFFICES ASSUME TypeInv, LockInv PROVE LockoutsHold
        OBVIOUS
    <2>1. \A s \in Sessions \ raced : SessionInv(s)
        BY DEF LockInv
    <2> QED BY <2>1, SessionHolds DEF LockoutsHold, AttemptsAreLocked, PermanentStays, OneTimer
<1> QED BY <1>1, InitType, TypeStep, InitLocks, LockStep, PTL DEF Spec
=============================================================================
