SPECIFICATION FairSpec
CONSTANTS
  BufferCount = 2
  MaxFrames = 5
  Frames = 4
  Payloads <- PayloadKinds
  StatusMayFail = TRUE
  ReadyInCallback = TRUE
  StrayReady = TRUE
INVARIANTS
PROPERTIES
  StopResponsive
CHECK_DEADLOCK FALSE
