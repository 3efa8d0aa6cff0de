SPECIFICATION Spec
CONSTANTS
    h1 = h1
    h2 = h2
    h3 = h3
    Handles = {h1, h2, h3}
    RequestTypes = {"SUPL", "SUPL_ES"}
    UseEmergencyPdn = TRUE
    PdnLookup = TRUE
    ApnMayBeBad = TRUE
    MaxRestarts = 1
    MaxLookups = 1
    MaxQueued = 3
SYMMETRY Symmetry
INVARIANTS
    SubscribersMatchState
    OpenKeepsConnection
CHECK_DEADLOCK FALSE
