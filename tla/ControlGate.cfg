SPECIFICATION FairSpec
CONSTANTS
  MaxRequests = 3
INVARIANTS
  TypeOK
  GateExclusive
  ActsOnNamedConnection
  WidgetNotLeftDisabled
PROPERTIES
  GateReleased
CHECK_DEADLOCK FALSE
