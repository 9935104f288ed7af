SPECIFICATION Spec
CONSTANTS
  Modes <- AllModes
  MaxTags = 2
  EpcLength = 2
  MaxSignals = 2
  MaxWaiting = 2
  DeviceFails = TRUE
INVARIANTS TypeOK LeavesNothing WholeLines FreshTags AtMostOneLateWrite FlagsAreRestored
PROPERTIES OlderPathIsKept HeardSignalEnds GoneClientIsDropped
CHECK_DEADLOCK FALSE
