SPECIFICATION Spec
CONSTANTS
    c1 = c1
    c2 = c2
    Clients = {c1, c2}
    Sessions = {1, 2}
    Owner <- MCOwner
    Intervals = {1, 2}
    PowerModes = {1, 2}
    DistanceRequests = {TRUE, FALSE}
    CallbackKinds = {"tracking"}
    DistanceSupported = TRUE
    EngineFails = FALSE
    MaxInFlight = 3
    Loads <- MCLoads
INVARIANTS
    EngineServesSessions
    NothingForNobody
    AnsweredOnce
    OneMap
    HeldOnlyBeforeEngineUp
PROPERTIES
    CommandsAnswered
CHECK_DEADLOCK FALSE
