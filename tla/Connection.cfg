SPECIFICATION FairSpec
CONSTANTS
    cam = cam
    tel = tel
    a1 = a1
    a2 = a2
    o1 = o1
    x1 = x1
    x2 = x2
    None = None
    Calls <- MCCalls
    Devices <- MCDevices
    KindOf <- MCKindOf
    DevOf <- MCDevOf
    MaxConns = 2
    MaxLocks = 3
INVARIANTS
    NoTeardownUnderReference
    OneMasterCommand
    ReleasedIsFree
PROPERTIES
    CallsReturn
CHECK_DEADLOCK FALSE
