SPECIFICATION Spec
CONSTANTS
    c1 = c1
    c2 = c2
    a = a
    Clients = {c1, c2}
    Ids = {a}
    HwIds = {1, 2, 3}
    MaxAdds = 2
    Loads <- MCLoads
INVARIANTS
    MapsInStep
    RightCallback
    NoOrphan
PROPERTIES
    AllAnswered
CHECK_DEADLOCK FALSE
