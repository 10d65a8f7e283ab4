SPECIFICATION Spec
CONSTANTS
  A = A
  B = B
  Cores = {A, B}
  Paths <- MCPaths
  Addrs = {1, 2}
  MaxPackets = 2
  LastArrival = 1
  MaxTick = 6
  Expire = 2
  Ttl = 40
  Boot <- MCBoot
  FlushRate = 2
  HopDelay = 0
  Room = 2
  MaxAggs = 1
  PcacheCores = {A}
  AggCores = {A}
  MaxFaults = 1
INVARIANTS CrossesPath AtMostOnce OneOwner ReuniteFindsPacket
PROPERTY CacheDrains
CHECK_DEADLOCK FALSE
