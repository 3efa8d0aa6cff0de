SPECIFICATION Spec
CONSTANTS
    MaxRequests = 3
    Loads <- MCLoads
INVARIANTS
    NiAnswersAreRight
    OdcpiFollowsModem
PROPERTIES
    NiRequestsEnd
CHECK_DEADLOCK FALSE
