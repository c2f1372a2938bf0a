SPECIFICATION Spec
CONSTANTS
  Applets = {a1, a2}
  Configs = {c1}
  None = None
  MaxOpens = 4
SYMMETRY PathSymmetry
INVARIANTS
  TypeOK
  OneBoardHandle
  EnumeratesReleased
  RestoresPrevious
  ObserversAgree
  ConnectionNamesOneOpen
PROPERTIES
  SessionSpecification
CHECK_DEADLOCK FALSE
