SPECIFICATION Spec
CONSTANTS
  BufSize = 5
  Lengths = {1, 2}
  CaptureLengths = {0, 1}
  HZ = 2
  MaxRead = 3
  MaxPackets = 3
  MaxFaults = 1
INVARIANTS TypeOK EveryByteOnce NeverEOF
PROPERTY EverythingRead
CHECK_DEADLOCK FALSE
