SPECIFICATION Spec
CONSTANTS
    k1 = k1
    k2 = k2
    k3 = k3
    k4 = k4
    v1 = v1
    v2 = v2
    Key <- MCKey
    Value <- MCValue
    Time <- MCTime
    RequestedCapacity = 3
    MaxInt = 5
    nil = nil
SYMMETRY Symmetry
INVARIANTS
    TypeOK
    ListInv
    IteratorsAgree
    NoExpiredSurvivor
    WithinCapacity
PROPERTIES
    ImplementsContract
    LoopsMoveOn
