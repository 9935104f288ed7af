CONSTANTS
  BufSize <- MCBufSize
  Streams <- MCStreams
  Stale <- MCStale
SPECIFICATION Spec
INVARIANTS
  TypeOK
  InBounds
  BufferHoldsAnswer
  ResultIsMeaning
PROPERTIES
  AcceptedFramesStay
  Returns
CHECK_DEADLOCK FALSE
