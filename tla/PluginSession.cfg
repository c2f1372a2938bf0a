\* A session of two requests, next to one other system.
CONSTANTS
  Own = own
  Others = {s1}
  MaxRequests = 2
SPECIFICATION FairSpec
INVARIANTS
  TypeOK
  SessionOutlivesItsUsers
  LibrariesHeld
  CompletedBeforeGone
PROPERTIES
  DestructionEnds
