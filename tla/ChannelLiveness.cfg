SPECIFICATION FairSpec
CONSTANTS
  NoThread = NoThread
  c1 = c1
  Dmas <- TwoDmas
  Controllers = {c1}
  Operations <- RunOperations
  CallbackOperations <- NoOperations
  CameraRequired = TRUE
  PromptChannels <- TwoDmas
  StoresMayLag = TRUE
PROPERTIES
  OperationsReturn
  StopEndsWorkers
