SPECIFICATION Spec
CONSTANTS
  Modes <- SocketOnly
  MaxTags = 1
  EpcLength = 1
  MaxSignals = 1
  MaxWaiting = 1
  DeviceFails = FALSE
PROPERTY EverySignalEnds
CHECK_DEADLOCK FALSE
