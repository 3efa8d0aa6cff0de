SPECIFICATION Spec
CONSTANTS
    h1 = h1
    h2 = h2
    h3 = h3
    Handles = {h1, h2}
    RequestTypes = {"SUPL", "WWAN"}
    UseEmergencyPdn = FALSE
    PdnLookup = FALSE
    ApnMayBeBad = FALSE
    MaxRestarts = 0
    MaxLookups = 2
    MaxQueued = 2
INVARIANTS
    AcquiredIsConnected
    WaitingIsAnswered
PROPERTIES
    RequestsAnswered
CHECK_DEADLOCK FALSE
