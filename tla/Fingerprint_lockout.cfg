SPECIFICATION Spec
CONSTANTS
    s1 = s1
    s2 = s2
    t1 = t1
    t2 = t2
    Sessions = {s1, s2}
    TimedThreshold = 2
    PermanentThreshold = 3
    Duration = 1
    Uninitialised = {"none", "garbage"}
    Timers = {t1, t2}
    Loads <- MCLoads
INVARIANTS
    NoFailureForgotten
    LockoutsHold
PROPERTIES
    LockoutIsLifted
    EndedIsTold
CHECK_DEADLOCK FALSE
