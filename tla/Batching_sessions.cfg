SPECIFICATION Spec
CONSTANTS
    c1 = c1
    c2 = c2
    Clients = {c1, c2}
    Sessions = {1, 2}
    Owner <- MCOwner
    Loads <- MCLoads
    Wrap = 8
    EngineFails = FALSE
    MaxOwed = 2
    MaxInFlight = 1
    MaxTravel = 3
INVARIANTS
    EngineRunsSessions
    SessionsAreSettled
    FullEventWhenNeeded
    BatchServesTrips
PROPERTIES
    NoEarlyTrip
CHECK_DEADLOCK FALSE
