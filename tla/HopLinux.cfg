SPECIFICATION Spec
CONSTANTS
    HZ = 1000
    System = "linux"
    TheLink <- FastLink
    Lens <- MCLens
    FirstTick = 5
    MaxTick = 11
    MaxCharge = 2
    MaxDepth = 4
INVARIANTS
    TypeOK
    ExitsInOrder
    RingIsClean
    ExitWithinHorizon
PROPERTY ImplementsFifoLink
CHECK_DEADLOCK FALSE
