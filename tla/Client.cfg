SPECIFICATION Spec
CONSTANTS
  Fds = {0, 1, 2}
  Ports = {1}
  AnyPort = 9
  Hosts <- MCHosts
  Names = {"vn0", "vn1", "yp"}
  Slot <- MCSlot
  Readable = TRUE
  Scarce = {2}
  Preload = TRUE
INVARIANTS BitsTruthful RightSource PortKept NamesKept

CHECK_DEADLOCK FALSE
