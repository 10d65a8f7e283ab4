SPECIFICATION Spec
CONSTANTS
  hz = 1000
  Width = 26
  Bandwidths <- MCBandwidths
  qsize = 2
  Mixes <- MCMixes
  Fdbks <- MCFdbks
  SCHEDLEN = 64
  MaxFlight = 1
  MaxArrivals = 2
CHECK_DEADLOCK FALSE
INVARIANT NeverNegative
