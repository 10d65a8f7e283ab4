SPECIFICATION Spec
CONSTANTS
    HZ = 1000
    System = "freebsd"
    TheLink <- FastLink
    Lens <- FittingLens
    FirstTick = 5
    MaxTick = 11
    MaxCharge = 3
    MaxDepth = 4
INVARIANT NoFasterThanLine
CHECK_DEADLOCK FALSE
