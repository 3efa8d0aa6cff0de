SPECIFICATION Spec
CONSTANTS
    c1 = c1
    w1 = w1
    m1 = m1
    m2 = m2
    apn1 = apn1
    apn2 = apn2
    TYPE_WIFI = TYPE_WIFI
    TYPE_MOBILE = TYPE_MOBILE
    NoApn = NoApn
    NATIVE = NATIVE
    XTRA = XTRA
    NoValue = NoValue
    Clients = {NATIVE, XTRA, c1}
    Items = {"network", "tac"}
    Values = {1, 2}
    Networks = {w1, m1, m2}
    TypeOf <- MCTypeOf
    ApnOf <- MCApnOf
    MaxHandles = 3
    maxItem = 3
    Loads <- MCLoads
INVARIANTS
    ApnIsCurrent
CHECK_DEADLOCK FALSE
