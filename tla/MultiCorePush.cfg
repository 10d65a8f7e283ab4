SPECIFICATION Spec
CONSTANTS
  A = A
  B = B
  Cores = {A, B}
  Paths <- MCPaths
  Addrs = {1, 2}
  MaxPackets = 2
  LastArrival = 1
  MaxTick = 10
  Expire = 3
  Ttl = 40
  Boot <- MCBoot
  FlushRate = 2
  HopDelay = 1
  Room = 2
  MaxAggs = 1
  PcacheCores = {A}
  AggCores = {A}
  MaxFaults = 1
INVARIANT PushSafe
CHECK_DEADLOCK FALSE
