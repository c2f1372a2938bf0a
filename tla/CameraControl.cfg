SPECIFICATION Spec
CONSTANTS
  Dmas = {d1, d2}
  Sizes = {s1, s2}
  Unread = Unread
SYMMETRY CameraSymmetry
INVARIANTS
  TypeOK
  CachedHandlesValid
  VerdictIsTrue
  EveryCameraTried
  StreamsAligned
