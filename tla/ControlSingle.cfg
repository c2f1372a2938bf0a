SPECIFICATION Spec
CONSTANTS
  MaxRequests = 3
PROPERTIES
  NeverStoppedImplicitly
CHECK_DEADLOCK FALSE
