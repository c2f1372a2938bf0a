SPECIFICATION FairSpec
CONSTANTS
  BufferCount = 2
  MaxFrames = 2
  Frames = 0
  Payloads <- CountedPayloads
  StatusMayFail = FALSE
  ReadyInCallback = FALSE
  StrayReady = FALSE
PROPERTIES
  StopResponsive
CHECK_DEADLOCK FALSE
