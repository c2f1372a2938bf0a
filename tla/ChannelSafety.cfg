SPECIFICATION Spec
CONSTANTS
  NoThread = NoThread
  c1 = c1
  c2 = c2
  Dmas <- TwoDmas
  Controllers = {c1, c2}
  Operations <- AllOperations
  CallbackOperations <- ReentrantOperations
  CameraRequired = TRUE
  PromptChannels = {0}
  StoresMayLag = FALSE
SYMMETRY ControllerSymmetry
INVARIANTS
  TypeOK
  NothingLeftBehind
  NoTransferToFreedMemory
  StatusFollowsRuns
PROPERTIES
  NoCameraStartAfterStop
CHECK_DEADLOCK FALSE
