CONSTANTS
  NumLayers = 2
  Experts = {e1, e2}
  CacheSize = 6
  Chunk = 1
  NumChunks = 6
  MinSlots = 5
  PNone = 0
  Fresh = 1
  SoftBase = 1
  KMax = 3
  MaxQuery = 2
  MaxNear = 1
  MaxPred = 1
  MaxStep = 3
  MaxResets = 1
  EarlyPf = FALSE
  Elastic = TRUE
  PfGuard = TRUE
  NoId = NoId
SYMMETRY Symmetry
SPECIFICATION Spec
INVARIANTS
  TypeOK
  MapInverse
  RetiredPinned
  KeyIsPriority
  InFlightKept
  VictimsSuffice
