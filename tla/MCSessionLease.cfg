SPECIFICATION Spec
CONSTANTS
    h1 = h1
    h2 = h2
    Handle = {h1, h2}
    NoHolder = NoHolder
    Second = 2
    RequestedDuration = 3
    RequestedRenewEvery = 0
    MaxClock = 5
    MaxFaults = 1
SYMMETRY Symmetry
CHECK_DEADLOCK FALSE
INVARIANTS ValidHolderOwns
PROPERTIES NoTakeoverBeforeExpiry OwnershipSpec
