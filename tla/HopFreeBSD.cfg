SPECIFICATION Spec
CONSTANTS
    HZ = 1000
    System = "freebsd"
    TheLink <- FastLink
    Lens <- MCLens
    FirstTick = 5
    MaxTick = 11
    MaxCharge = 3
    MaxDepth = 4
PROPERTY ImplementsFifoLink
CHECK_DEADLOCK FALSE
