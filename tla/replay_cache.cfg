SPECIFICATION Spec
CONSTANTS
    Window = 2
    Skew = 1
    MaxEntries = 2
    MaxTime = 7
    MaxAccepts = 2
    Packets <- MCPackets
INVARIANTS
    TypeOK
    AtMostOnce
    BoundedCache
    ReclaimBound
    NoFalseRefusal
PROPERTIES
    DeliveryRefined
