SPECIFICATION Spec
CONSTANTS
  BufferCount = 3
  MaxFrames = 6
  Frames = 0
  Payloads <- CountedPayloads
  StatusMayFail = FALSE
  ReadyInCallback = FALSE
  StrayReady = FALSE
INVARIANTS
  TypeOK
  NoTornFrame
  PoolConserved
  OnePermit
  FramesAccounted
PROPERTIES
  StreamSpecification
CHECK_DEADLOCK FALSE
