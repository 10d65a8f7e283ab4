SPECIFICATION Spec
CONSTANTS
  Models <- MCModels
  Hosts = {0, 1}
  XtqTypes = {0, 1}
  Delays = {1, 2}
  BlockSize = 2
  MaxBlocks = 2
  MaxLoads = 2
  MaxMods = 1
  MaxReloads = 1
  MaxPackets = 2
INVARIANT NoStrayTimer
