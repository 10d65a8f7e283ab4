SPECIFICATION Spec
CONSTANTS
    HZ = 1000
    System = "linux"
    TheLink <- NoLimitLink
    Lens <- MCLens
    FirstTick = 5
    MaxTick = 11
    MaxCharge = 2
    MaxDepth = 4
INVARIANT NoLimitMeansNoQueueing
CHECK_DEADLOCK FALSE
