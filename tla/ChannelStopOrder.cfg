SPECIFICATION Spec
CONSTANTS
  NoThread = NoThread
  c1 = c1
  c2 = c2
  Dmas <- OneDma
  Controllers = {c1, c2}
  Operations <- RunOperations
  CallbackOperations <- NoOperations
  CameraRequired = TRUE
  PromptChannels <- OneDma
  StoresMayLag = FALSE
SYMMETRY ControllerSymmetry
PROPERTIES
  CameraStopsBeforeDma
