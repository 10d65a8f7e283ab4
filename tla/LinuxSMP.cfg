SPECIFICATION Spec
CONSTANTS
    HZ = 1000
    System = "linux"
    p1 = p1  p2 = p2  p3 = p3  p4 = p4  h1 = h1  h2 = h2  r1 = r1
    NoPath = NoPath
    Pkts <- FourPkts
    Hops <- MCHops
    Link <- MCLink
    Remote <- MCRemote
    Path <- OneHop
    PktLen <- MCPktLen
    CPUs = {c1, c2}
    Uniprocessor = FALSE
    SCHEDLEN = 8
    MaxCharge = 3
    FirstTick = 6
    LastArrival = 7
    MaxJiffies = 9
INVARIANTS HopsLawful OneOwner
CHECK_DEADLOCK FALSE
