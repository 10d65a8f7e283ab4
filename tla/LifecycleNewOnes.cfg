SPECIFICATION FairSpec
CONSTANTS
    Preemptible = TRUE
    MaxQueued = 2
INVARIANT NoNewOnes
CHECK_DEADLOCK FALSE
