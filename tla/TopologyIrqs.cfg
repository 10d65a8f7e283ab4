SPECIFICATION Spec
CONSTANTS
    a1 = a1  a2 = a2
    AddrSeq <- TwoAddrs
    Models <- ThreeModels
    Pkts = {p1}
    Null = Null
    Garbage = Garbage
    Wild = Wild
INVARIANT InterruptsDisabled
CHECK_DEADLOCK FALSE
