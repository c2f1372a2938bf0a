SPECIFICATION Spec
CONSTANTS
  Params = {width, trigger}
  Commands = {trigger}
  Values = {v1, v2}
  Unread = Unread
  MaxLoads = 2
  MaxRevisions = 4
INVARIANTS
  TypeOK
  RevisionNamesObservation
  ResultIsTrue
PROPERTIES
  ReplacesWhatWasSeen
CHECK_DEADLOCK FALSE
