SPECIFICATION Spec
CONSTANTS
    t1 = t1
    t2 = t2
    d1 = d1
    d2 = d2
    d3 = d3
    NULL = NULL
    Timers = {t1, t2}
    Delegates = {d1, d2}
    Delays = {1, 2}
    MaxTime = 3
INVARIANTS
    RunningIsHeld
    NoDeletedDelegate
    SoonestIsArmed
PROPERTIES
    TimersExpire
CHECK_DEADLOCK FALSE
