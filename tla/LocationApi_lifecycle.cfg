SPECIFICATION Spec
CONSTANTS
    i1 = i1
    i2 = i2
    i3 = i3
    Instances = {i1, i2}
    Adapters = {"gnss", "batching"}
    MayBeMissing = {"batching"}
    MaxQueued = 1
    MaxHeld = 0
INVARIANTS
    InstancesOutliveUses
    ClientsAreKnown
PROPERTIES
    ClientsAreServed
CHECK_DEADLOCK FALSE
